-------------------------- MODULE LeaseQueueProofs --------------------------
(***************************************************************************)
(* What holds of the execution queue for any number of workers, jobs and   *)
(* attempts, any lease length and any clock bound.                         *)
(***************************************************************************)
EXTENDS LeaseQueue, TLAPS

(* The shapes of a worker's state, by its pc. *)
LEMMA WorkerShape ==
    ASSUME NEW s \in WorkerState
    PROVE  /\ s.pc \in {"idle", "claiming", "holding", "begun", "checked"}
           /\ s.pc = "claiming" => s.at \in Nat
           /\ s.pc \in {"holding", "begun", "checked"} =>
                 s.job \in Jobs /\ s.attempt \in Nat /\ s.generation \in Nat
           /\ s.pc \in {"begun", "checked"} =>
                 /\ s.op \in FencedOp
                 /\ s.at \in Nat
                 /\ [s EXCEPT !.pc = "checked"] \in WorkerState
  BY DEF WorkerState

(* The row updates of Fencing keep a row well typed, and the generation    *)
(* moves only at a claim.                                                  *)
LEMMA LeasedRowType ==
    ASSUME NEW job \in JobRow
    PROVE  /\ job.generation \in Nat
           /\ LeasedRow(job) \in JobRow
           /\ LeasedRow(job).status = "leased"
           /\ LeasedRow(job).active = job.generation + 1
           /\ LeasedRow(job).generation = job.generation + 1
<1> DEFINE g == job.generation + 1
<1>1. job.generation \in Nat /\ g \in Nat
  BY DEF JobRow
<1>2. LeasedRow(job) = [job EXCEPT !.status = "leased", !.active = g, !.generation = g]
  BY DEF LeasedRow
<1> HIDE DEF g
<1>3. /\ LeasedRow(job) \in JobRow
      /\ LeasedRow(job).status = "leased"
      /\ LeasedRow(job).active = g
      /\ LeasedRow(job).generation = g
  BY <1>1, <1>2 DEF JobRow, JobStatus
<1> QED
  BY <1>1, <1>3 DEF g

LEMMA RequeuedRowType ==
    ASSUME NEW job \in JobRow, NEW at \in Nat
    PROVE  /\ RequeuedRow(job, at) \in JobRow
           /\ RequeuedRow(job, at).status = "queued"
           /\ RequeuedRow(job, at).active = 0
           /\ RequeuedRow(job, at).generation = job.generation
  BY DEF RequeuedRow, JobRow, JobStatus

LEMMA FinishedRowType ==
    ASSUME NEW job \in JobRow
    PROVE  /\ RejectedRow(job) \in JobRow
           /\ RejectedRow(job).status = "rejected"
           /\ RejectedRow(job).active = 0
           /\ RejectedRow(job).generation = job.generation
           /\ CompletedRow(job) \in JobRow
           /\ CompletedRow(job).status = "completed"
           /\ CompletedRow(job).active = 0
           /\ CompletedRow(job).generation = job.generation
<1>1. /\ RejectedRow(job) \in JobRow
      /\ RejectedRow(job).status = "rejected"
      /\ RejectedRow(job).active = 0
      /\ RejectedRow(job).generation = job.generation
  BY DEF RejectedRow, JobRow, JobStatus
<1>2. /\ CompletedRow(job) \in JobRow
      /\ CompletedRow(job).status = "completed"
      /\ CompletedRow(job).active = 0
      /\ CompletedRow(job).generation = job.generation
  BY DEF CompletedRow, JobRow, JobStatus
<1> QED
  BY <1>1, <1>2

(* Changing one column of one attempt row keeps a list of attempt rows. *)
LEMMA SetColumn ==
    ASSUME NEW s \in Seq(AttemptRow), NEW i \in Nat, NEW x \in AttemptStatus
    PROVE  /\ [s EXCEPT ![i].status = x] \in Seq(AttemptRow)
           /\ Len([s EXCEPT ![i].status = x]) = Len(s)
           /\ \A k \in 1..Len(s) :
                 /\ [s EXCEPT ![i].status = x][k].status = IF k = i THEN x ELSE s[k].status
                 /\ [s EXCEPT ![i].status = x][k].generation = s[k].generation
                 /\ [s EXCEPT ![i].status = x][k].worker = s[k].worker
                 /\ [s EXCEPT ![i].status = x][k].expiresAt = s[k].expiresAt
<1> DEFINE t == [s EXCEPT ![i].status = x]
<1>1. \A k \in 1..Len(s) : s[k] \in AttemptRow
  OBVIOUS
<1>2. DOMAIN t = 1..Len(s)
  OBVIOUS
<1>3. \A k \in 1..Len(s) : t[k] = IF k = i THEN [s[k] EXCEPT !.status = x] ELSE s[k]
  OBVIOUS
<1>4. ASSUME NEW r \in AttemptRow
      PROVE  [r EXCEPT !.status = x] \in AttemptRow
  BY DEF AttemptRow
<1>5. t \in [1..Len(s) -> AttemptRow]
  BY <1>1, <1>2, <1>3, <1>4
<1> QED
  BY <1>1, <1>3, <1>5 DEF AttemptRow

LEMMA SetExpiry ==
    ASSUME NEW s \in Seq(AttemptRow), NEW i \in Nat, NEW x \in Nat
    PROVE  /\ [s EXCEPT ![i].expiresAt = x] \in Seq(AttemptRow)
           /\ Len([s EXCEPT ![i].expiresAt = x]) = Len(s)
           /\ \A k \in 1..Len(s) :
                 /\ [s EXCEPT ![i].expiresAt = x][k].expiresAt =
                       IF k = i THEN x ELSE s[k].expiresAt
                 /\ [s EXCEPT ![i].expiresAt = x][k].generation = s[k].generation
                 /\ [s EXCEPT ![i].expiresAt = x][k].worker = s[k].worker
                 /\ [s EXCEPT ![i].expiresAt = x][k].status = s[k].status
<1> DEFINE t == [s EXCEPT ![i].expiresAt = x]
<1>1. \A k \in 1..Len(s) : s[k] \in AttemptRow
  OBVIOUS
<1>2. DOMAIN t = 1..Len(s)
  OBVIOUS
<1>3. \A k \in 1..Len(s) : t[k] = IF k = i THEN [s[k] EXCEPT !.expiresAt = x] ELSE s[k]
  OBVIOUS
<1>4. ASSUME NEW r \in AttemptRow
      PROVE  [r EXCEPT !.expiresAt = x] \in AttemptRow
  BY SMTT(20) DEF AttemptRow
<1>5. t \in [1..Len(s) -> AttemptRow]
  BY <1>1, <1>2, <1>3, <1>4
<1> QED
  BY <1>1, <1>3, <1>5 DEF AttemptRow

(* What one session does to the attempt rows of a job: rows are only added, *)
(* and the generation and the worker of a row never change.                 *)
Kept(j) ==
    /\ Len(attempts[j]) <= Len(attempts'[j])
    /\ \A i \in 1..Len(attempts[j]) :
          /\ attempts'[j][i].generation = attempts[j][i].generation
          /\ attempts'[j][i].worker = attempts[j][i].worker

(* The expiry loop of claim_next_job touches only status columns and the   *)
(* queueing columns of the jobs it gives back.                             *)
LEMMA Swept ==
    ASSUME TypeOK, NEW j \in Jobs, NEW at \in Nat
    PROVE  /\ SweptJob(j, at) \in JobRow
           /\ SweptJob(j, at).generation = jobs[j].generation
           /\ SweptJob(j, at).status \in {"leased", "absent"} => SweptJob(j, at) = jobs[j]
           /\ SweptAttempts(j, at) \in Seq(AttemptRow)
           /\ Len(SweptAttempts(j, at)) = Len(attempts[j])
           /\ \A i \in 1..Len(attempts[j]) :
                 /\ SweptAttempts(j, at)[i].generation = attempts[j][i].generation
                 /\ SweptAttempts(j, at)[i].worker = attempts[j][i].worker
                 /\ SweptAttempts(j, at)[i].expiresAt = attempts[j][i].expiresAt
                 /\ SweptAttempts(j, at)[i].status =
                       IF Lapsed(j, at) /\ i = jobs[j].active THEN "expired"
                       ELSE attempts[j][i].status
<1>1. jobs[j] \in JobRow /\ jobs[j].active \in Nat /\ attempts[j] \in Seq(AttemptRow)
  BY DEF TypeOK, JobRow
<1>2. "expired" \in AttemptStatus
  BY DEF AttemptStatus
<1>3. CASE Lapsed(j, at)
  <2>1. /\ SweptJob(j, at) = RequeuedRow(jobs[j], at)
        /\ SweptAttempts(j, at) = [attempts[j] EXCEPT ![jobs[j].active].status = "expired"]
    BY <1>3 DEF SweptJob, SweptAttempts
  <2>2. /\ SweptJob(j, at) \in JobRow
        /\ SweptJob(j, at).generation = jobs[j].generation
        /\ SweptJob(j, at).status = "queued"
    BY <1>1, <2>1, RequeuedRowType
  <2> DEFINE i0 == jobs[j].active
             t  == [attempts[j] EXCEPT ![i0].status = "expired"]
  <2>3. /\ t \in Seq(AttemptRow)
        /\ Len(t) = Len(attempts[j])
        /\ \A k \in 1..Len(attempts[j]) :
              /\ t[k].status = IF k = i0 THEN "expired" ELSE attempts[j][k].status
              /\ t[k].generation = attempts[j][k].generation
              /\ t[k].worker = attempts[j][k].worker
              /\ t[k].expiresAt = attempts[j][k].expiresAt
    BY <1>1, <1>2, SetColumn
  <2> HIDE DEF t
  <2>4. SweptAttempts(j, at) = t
    BY <2>1 DEF t
  <2> QED
    BY <1>3, <2>2, <2>3, <2>4
<1>4. CASE ~Lapsed(j, at)
  BY <1>1, <1>4 DEF SweptJob, SweptAttempts
<1> QED
  BY <1>3, <1>4

(* Every row and every worker keeps its type (the tables of models.py and   *)
(* the arguments of lease.py), whatever the bounds.                         *)
LEMMA TypeStep ==
    ASSUME TypeOK, [Next]_vars
    PROVE  TypeOK'
<1> USE LeaseAssumption
<1>0. /\ now \in Nat
      /\ jobs \in [Jobs -> JobRow]
      /\ attempts \in [Jobs -> Seq(AttemptRow)]
      /\ wk \in [Workers -> WorkerState]
      /\ Idle \in WorkerState
  BY DEF TypeOK, Idle, WorkerState
<1>1. ASSUME NEW j \in Jobs, Enqueue(j)
      PROVE  TypeOK'
  BY <1>0, <1>1 DEF TypeOK, Enqueue, QueuedJob, AbsentJob, JobRow, JobStatus
<1>2. ASSUME NEW w \in Workers, StartClaim(w)
      PROVE  TypeOK'
  <2>1. [pc |-> "claiming", at |-> now] \in WorkerState
    BY <1>0 DEF WorkerState
  <2> QED
    BY <1>0, <1>2, <2>1 DEF TypeOK, StartClaim
<1>3. ASSUME NEW w \in Workers, ClaimNothing(w)
      PROVE  TypeOK'
  <2>1. wk[w].at \in Nat
    BY <1>0, <1>3, WorkerShape DEF ClaimNothing
  <2>2. \A j \in Jobs : /\ SweptJob(j, wk[w].at) \in JobRow
                        /\ SweptAttempts(j, wk[w].at) \in Seq(AttemptRow)
    BY <2>1, Swept
  <2> QED
    BY <1>0, <1>3, <2>2 DEF TypeOK, ClaimNothing
<1>4. ASSUME NEW w \in Workers, NEW j \in Jobs, ClaimJob(w, j)
      PROVE  TypeOK'
  <2> DEFINE at  == wk[w].at
             gen == jobs[j].generation + 1
             row == LeasedRow(SweptJob(j, at))
             new == [worker |-> w, generation |-> gen, status |-> "leased",
                     expiresAt |-> at + LeaseSeconds]
             held == [pc |-> "holding", job |-> j, attempt |-> gen, generation |-> gen]
  <2>1. at \in Nat /\ gen \in Nat
    <3>1. wk[w].pc = "claiming"
      BY <1>4 DEF ClaimJob
    <3>2. jobs[j].generation \in Nat
      BY <1>0, LeasedRowType
    <3>3. wk[w].at \in Nat
      BY <1>0, <3>1, WorkerShape
    <3> QED
      BY <3>2, <3>3
  <2>2. \A k \in Jobs : /\ SweptJob(k, at) \in JobRow
                        /\ SweptAttempts(k, at) \in Seq(AttemptRow)
    BY <2>1, Swept
  <2>3. row \in JobRow
    BY <2>1, <2>2, LeasedRowType
  <2>4. new \in AttemptRow
    BY <2>1 DEF AttemptRow, AttemptStatus
  <2>5. held \in WorkerState
    BY <2>1 DEF WorkerState
  <2>6. jobs' \in [Jobs -> JobRow]
    BY <1>4, <2>2, <2>3 DEF ClaimJob
  <2>7. attempts' \in [Jobs -> Seq(AttemptRow)]
    BY <1>4, <2>2, <2>4 DEF ClaimJob
  <2>8. wk' \in [Workers -> WorkerState]
    BY <1>0, <1>4, <2>5 DEF ClaimJob
  <2> QED
    BY <1>0, <1>4, <2>6, <2>7, <2>8 DEF TypeOK, ClaimJob
<1>5. ASSUME NEW w \in Workers, NEW op \in FencedOp, Begin(w, op)
      PROVE  TypeOK'
  <2>1. [pc |-> "begun", job |-> wk[w].job, attempt |-> wk[w].attempt,
         generation |-> wk[w].generation, op |-> op, at |-> now] \in WorkerState
    <3>1. wk[w].job \in Jobs /\ wk[w].attempt \in Nat /\ wk[w].generation \in Nat
      BY <1>0, <1>5, WorkerShape DEF Begin
    <3> QED
      BY <1>0, <3>1 DEF WorkerState
  <2> QED
    BY <1>0, <1>5, <2>1 DEF TypeOK, Begin
<1>6. ASSUME NEW w \in Workers, Holds(w)
      PROVE  Resume(w) \in WorkerState
  <2>1. wk[w].job \in Jobs /\ wk[w].attempt \in Nat /\ wk[w].generation \in Nat
    BY <1>0, <1>6, WorkerShape DEF Holds
  <2> QED
    BY <2>1 DEF Resume, WorkerState
<1>7. ASSUME NEW w \in Workers, Check(w)
      PROVE  TypeOK'
  <2>1. Resume(w) \in WorkerState /\ [wk[w] EXCEPT !.pc = "checked"] \in WorkerState
    BY <1>0, <1>6, <1>7, WorkerShape DEF Check, Holds
  <2> QED
    BY <1>0, <1>7, <2>1 DEF TypeOK, Check
<1>8. ASSUME NEW w \in Workers, Heartbeat(w)
      PROVE  TypeOK'
  <2>1. /\ wk[w].job \in Jobs
        /\ wk[w].attempt \in Nat
        /\ wk[w].at \in Nat
        /\ Resume(w) \in WorkerState
    BY <1>0, <1>6, <1>8, WorkerShape DEF Heartbeat, Writing, Holds
  <2>2. attempts' \in [Jobs -> Seq(AttemptRow)]
    <3>1. wk[w].at + LeaseSeconds \in Nat
      BY <2>1
    <3>2. [attempts[wk[w].job] EXCEPT ![wk[w].attempt].expiresAt = wk[w].at + LeaseSeconds]
            \in Seq(AttemptRow)
      BY <1>0, <2>1, <3>1, SetExpiry
    <3> QED
      BY <1>0, <1>8, <2>1, <3>2 DEF Heartbeat
  <2> QED
    BY <1>0, <1>8, <2>1, <2>2 DEF TypeOK, Heartbeat
<1>9. ASSUME NEW w \in Workers, NEW x \in AttemptStatus, Holds(w), SetAttempt(w, x)
      PROVE  attempts' \in [Jobs -> Seq(AttemptRow)]
  <2>1. wk[w].job \in Jobs /\ wk[w].attempt \in Nat
    BY <1>0, <1>9, WorkerShape DEF Holds
  <2>2. [attempts[wk[w].job] EXCEPT ![wk[w].attempt].status = x] \in Seq(AttemptRow)
    BY <1>0, <1>9, <2>1, SetColumn
  <2> QED
    BY <1>0, <1>9, <2>1, <2>2 DEF SetAttempt
<1>10. ASSUME NEW w \in Workers, ReleaseLease(w)
       PROVE  TypeOK'
  <2>1. wk[w].job \in Jobs /\ wk[w].at \in Nat /\ Holds(w)
    BY <1>0, <1>10, WorkerShape DEF ReleaseLease, Writing, Holds
  <2>2. attempts' \in [Jobs -> Seq(AttemptRow)]
    BY <1>9, <1>10, <2>1 DEF ReleaseLease, AttemptStatus
  <2>3. jobs' \in [Jobs -> JobRow]
    BY <1>0, <1>10, <2>1, RequeuedRowType DEF ReleaseLease, SetJob
  <2> QED
    BY <1>0, <1>10, <2>2, <2>3 DEF TypeOK, ReleaseLease
<1>11. ASSUME NEW w \in Workers, RejectLease(w) \/ CompleteLease(w)
       PROVE  TypeOK'
  <2>1. wk[w].job \in Jobs /\ Holds(w)
    BY <1>0, <1>11, WorkerShape DEF RejectLease, CompleteLease, Writing, Holds
  <2>2. attempts' \in [Jobs -> Seq(AttemptRow)]
    BY <1>9, <1>11, <2>1 DEF RejectLease, CompleteLease, AttemptStatus
  <2>3. jobs' \in [Jobs -> JobRow]
    <3>1. /\ RejectedRow(jobs[wk[w].job]) \in JobRow
          /\ CompletedRow(jobs[wk[w].job]) \in JobRow
      BY <1>0, <2>1, FinishedRowType
    <3> QED
      BY <1>0, <1>11, <2>1, <3>1 DEF RejectLease, CompleteLease, SetJob
  <2> QED
    BY <1>0, <1>11, <2>2, <2>3 DEF TypeOK, RejectLease, CompleteLease
<1>12. ASSUME NEW w \in Workers, Crash(w)
       PROVE  TypeOK'
  BY <1>0, <1>12 DEF TypeOK, Crash
<1>13. CASE Tick
  BY <1>0, <1>13 DEF TypeOK, Tick
<1>14. CASE UNCHANGED vars
  BY <1>14 DEF TypeOK, vars
<1> QED
  BY <1>1, <1>2, <1>3, <1>4, <1>5, <1>7, <1>8, <1>10, <1>11, <1>12, <1>13, <1>14
     DEF Next, WorkerNext

(* The tables and the workers stay well typed (the type invariant of the    *)
(* model of lease.py).                                                      *)
THEOREM TypeCorrect == Spec => []TypeOK
<1>1. Init => TypeOK
  BY DEF Init, TypeOK, Idle, WorkerState, AbsentJob, JobRow, JobStatus
<1>2. TypeOK /\ [Next]_vars => TypeOK'
  BY TypeStep
<1> QED
  BY <1>1, <1>2, PTL DEF Spec

-----------------------------------------------------------------------------
(* The fence a worker remembers names an attempt row that exists and was    *)
(* written by that worker's own claim, under the generation it remembers.   *)
OwnAttempts ==
    \A w \in Workers : Holds(w) =>
        /\ wk[w].attempt = wk[w].generation
        /\ wk[w].attempt \in 1..Len(attempts[wk[w].job])
        /\ Attempt(w).worker = w

(* Clocks are read before they are used. *)
ClocksBehind ==
    \A w \in Workers : wk[w].pc \in {"claiming", "begun", "checked"} => wk[w].at <= now

(* A job that was never enqueued was never leased. *)
NotYetLeased == \A j \in Jobs : jobs[j].status = "absent" => jobs[j].generation = 0

FenceInv == NotYetLeased /\ TypeOK /\ GenerationCountsAttempts /\ OwnAttempts /\ ClocksBehind

(* Changing a status or an expiry column, or adding a row, keeps the rest. *)
LEMMA SetAttemptKeeps ==
    ASSUME TypeOK, NEW w \in Workers, NEW x \in AttemptStatus, Holds(w), SetAttempt(w, x)
    PROVE  \A j \in Jobs : Len(attempts'[j]) = Len(attempts[j]) /\ Kept(j)
<1>1. /\ attempts \in [Jobs -> Seq(AttemptRow)]
      /\ wk[w].job \in Jobs
      /\ wk[w].attempt \in Nat
  BY WorkerShape DEF TypeOK, Holds
<1> SUFFICES ASSUME NEW j \in Jobs
             PROVE  Len(attempts'[j]) = Len(attempts[j]) /\ Kept(j)
  OBVIOUS
<1>2. attempts[j] \in Seq(AttemptRow)
  BY <1>1
<1>3. CASE j = wk[w].job
  <2>1. attempts'[j] = [attempts[j] EXCEPT ![wk[w].attempt].status = x]
    BY <1>1, <1>3 DEF SetAttempt
  <2> QED
    BY <1>1, <1>2, <2>1, SetColumn DEF Kept
<1>4. CASE j # wk[w].job
  <2>1. attempts'[j] = attempts[j]
    BY <1>1, <1>4 DEF SetAttempt
  <2> QED
    BY <1>2, <2>1 DEF Kept
<1> QED
  BY <1>3, <1>4

LEMMA HeartbeatKeeps ==
    ASSUME TypeOK, NEW w \in Workers, Heartbeat(w)
    PROVE  \A j \in Jobs : Len(attempts'[j]) = Len(attempts[j]) /\ Kept(j)
<1>1. /\ attempts \in [Jobs -> Seq(AttemptRow)]
      /\ wk[w].job \in Jobs
      /\ wk[w].attempt \in Nat
      /\ wk[w].at \in Nat
  BY WorkerShape DEF TypeOK, Heartbeat, Writing
<1>2. wk[w].at + LeaseSeconds \in Nat
  BY <1>1, LeaseAssumption
<1> SUFFICES ASSUME NEW j \in Jobs
             PROVE  Len(attempts'[j]) = Len(attempts[j]) /\ Kept(j)
  OBVIOUS
<1>3. attempts[j] \in Seq(AttemptRow)
  BY <1>1
<1>4. CASE j = wk[w].job
  <2>1. attempts'[j] = [attempts[j] EXCEPT ![wk[w].attempt].expiresAt =
                                              wk[w].at + LeaseSeconds]
    BY <1>1, <1>4 DEF Heartbeat
  <2> QED
    BY <1>1, <1>2, <1>3, <2>1, SetExpiry DEF Kept
<1>5. CASE j # wk[w].job
  <2>1. attempts'[j] = attempts[j]
    BY <1>1, <1>5 DEF Heartbeat
  <2> QED
    BY <1>3, <2>1 DEF Kept
<1> QED
  BY <1>4, <1>5

LEMMA ClaimNothingKeeps ==
    ASSUME TypeOK, NEW w \in Workers, ClaimNothing(w)
    PROVE  \A j \in Jobs : Len(attempts'[j]) = Len(attempts[j]) /\ Kept(j)
<1>1. wk[w].at \in Nat
  BY WorkerShape DEF TypeOK, ClaimNothing
<1> SUFFICES ASSUME NEW j \in Jobs
             PROVE  Len(attempts'[j]) = Len(attempts[j]) /\ Kept(j)
  OBVIOUS
<1>2. attempts'[j] = SweptAttempts(j, wk[w].at)
  BY DEF ClaimNothing
<1>3. Len(attempts[j]) \in Nat
  BY DEF TypeOK
<1> QED
  BY <1>1, <1>2, <1>3, Swept DEF Kept

(* The row a claim adds, and the rows it leaves. *)
LEMMA ClaimKeeps ==
    ASSUME TypeOK, NEW w \in Workers, NEW j \in Jobs, ClaimJob(w, j)
    PROVE  /\ Len(attempts'[j]) = Len(attempts[j]) + 1
           /\ attempts'[j][Len(attempts[j]) + 1].worker = w
           /\ attempts'[j][Len(attempts[j]) + 1].generation = jobs[j].generation + 1
           /\ \A k \in Jobs \ {j} : Len(attempts'[k]) = Len(attempts[k])
           /\ \A k \in Jobs : Kept(k)
<1> DEFINE at  == wk[w].at
           new == [worker |-> w, generation |-> jobs[j].generation + 1,
                   status |-> "leased", expiresAt |-> at + LeaseSeconds]
<1>1. at \in Nat
  BY WorkerShape DEF TypeOK, ClaimJob
<1>2. \A k \in Jobs : Len(attempts[k]) \in Nat
  BY DEF TypeOK
<1>3. attempts'[j] = Append(SweptAttempts(j, at), new)
  BY DEF ClaimJob
<1>4. \A k \in Jobs \ {j} : attempts'[k] = SweptAttempts(k, at)
  BY DEF ClaimJob
<1>5. \A k \in Jobs \ {j} : Len(attempts'[k]) = Len(attempts[k]) /\ Kept(k)
  BY <1>1, <1>2, <1>4, Swept DEF Kept
<1> DEFINE s == SweptAttempts(j, at)
<1>6. /\ s \in Seq(AttemptRow)
      /\ Len(s) = Len(attempts[j])
      /\ \A i \in 1..Len(attempts[j]) : /\ s[i].generation = attempts[j][i].generation
                                        /\ s[i].worker = attempts[j][i].worker
  BY <1>1, Swept
<1>7. new.worker = w /\ new.generation = jobs[j].generation + 1
  OBVIOUS
<1> HIDE DEF s, new
<1>8. /\ Len(Append(s, new)) = Len(s) + 1
      /\ Append(s, new)[Len(s) + 1] = new
      /\ \A i \in 1..Len(s) : Append(s, new)[i] = s[i]
  BY <1>6
<1>9. attempts'[j] = Append(s, new)
  BY <1>3 DEF s
<1>10. Kept(j)
  BY <1>2, <1>6, <1>8, <1>9 DEF Kept
<1> QED
  BY <1>2, <1>5, <1>6, <1>7, <1>8, <1>9, <1>10

(* A step that adds no attempt, moves no generation and takes no lease      *)
(* keeps the count.                                                         *)
Calm ==
    \A j \in Jobs :
        /\ Len(attempts'[j]) = Len(attempts[j])
        /\ Kept(j)
        /\ jobs'[j].generation = jobs[j].generation
        /\ jobs'[j].status = "leased" => /\ jobs[j].status = "leased"
                                         /\ jobs'[j].active = jobs[j].active
        /\ jobs'[j].status = "absent" => jobs[j].status = "absent"

LEMMA CalmKeepsCount ==
    ASSUME GenerationCountsAttempts, NotYetLeased, Calm
    PROVE  GenerationCountsAttempts' /\ NotYetLeased'
  BY DEF GenerationCountsAttempts, NotYetLeased, Calm, Kept

(* A worker that a step gives no new fence still owns its attempt. *)
SameFence(w) ==
    Holds(w)' => /\ Holds(w)
                 /\ wk'[w].job = wk[w].job
                 /\ wk'[w].attempt = wk[w].attempt
                 /\ wk'[w].generation = wk[w].generation

LEMMA SameFenceOwns ==
    ASSUME TypeOK, TypeOK', OwnAttempts, \A j \in Jobs : Kept(j),
           NEW w \in Workers, SameFence(w), Holds(w)'
    PROVE  /\ wk'[w].attempt = wk'[w].generation
           /\ wk'[w].attempt \in 1..Len(attempts'[wk'[w].job])
           /\ Attempt(w)'.worker = w
<1> DEFINE j == wk[w].job
           i == wk[w].attempt
<1>1. /\ Holds(w) /\ j \in Jobs
      /\ wk'[w].job = j /\ wk'[w].attempt = i /\ wk'[w].generation = wk[w].generation
  BY WorkerShape DEF SameFence, TypeOK, Holds
<1>2. i = wk[w].generation /\ i \in 1..Len(attempts[j]) /\ attempts[j][i].worker = w
  BY <1>1 DEF OwnAttempts, Attempt
<1>3. Len(attempts[j]) \in Nat /\ Len(attempts'[j]) \in Nat
  BY <1>1 DEF TypeOK
<1>4. Len(attempts[j]) <= Len(attempts'[j]) /\ attempts'[j][i].worker = w
  BY <1>1, <1>2 DEF Kept
<1>5. Attempt(w)' = attempts'[j][i]
  BY <1>1 DEF Attempt
<1> HIDE DEF i, j
<1>6. i \in 1..Len(attempts'[j])
  BY <1>2, <1>3, <1>4
<1> QED
  BY <1>1, <1>2, <1>4, <1>5, <1>6

(* Every step other than a claim is calm and gives no worker a new fence. *)
LEMMA CalmSteps ==
    ASSUME TypeOK, NotYetLeased, [Next]_vars,
           ~ \E w \in Workers : \E j \in Jobs : ClaimJob(w, j)
    PROVE  Calm /\ \A w \in Workers : SameFence(w)
<1>0. /\ jobs \in [Jobs -> JobRow]
      /\ attempts \in [Jobs -> Seq(AttemptRow)]
      /\ wk \in [Workers -> WorkerState]
      /\ \A j \in Jobs : Len(attempts[j]) \in Nat
  BY DEF TypeOK
<1>1. ASSUME UNCHANGED attempts
      PROVE  \A j \in Jobs : Len(attempts'[j]) = Len(attempts[j]) /\ Kept(j)
  BY <1>0, <1>1 DEF Kept
<1>2. ASSUME NEW j \in Jobs, Enqueue(j)
      PROVE  Calm /\ \A w \in Workers : SameFence(w)
  <2>1. \A k \in Jobs : /\ jobs'[k].generation = jobs[k].generation
                        /\ jobs'[k].status \in {"leased", "absent"} => jobs'[k] = jobs[k]
    <3>1. QueuedJob(now).generation = 0 /\ QueuedJob(now).status = "queued"
      BY DEF QueuedJob, AbsentJob
    <3>2. jobs' = [jobs EXCEPT ![j] = QueuedJob(now)] /\ jobs[j].generation = 0
      BY <1>2 DEF Enqueue, NotYetLeased
    <3> QED
      BY <1>0, <3>1, <3>2
  <2> QED
    BY <1>1, <1>2, <2>1 DEF Enqueue, Calm, SameFence, Holds
<1>3. ASSUME NEW w \in Workers, NEW op \in FencedOp,
             \/ StartClaim(w) \/ Begin(w, op) \/ Check(w) \/ Crash(w)
      PROVE  Calm /\ \A v \in Workers : SameFence(v)
  <2>1. UNCHANGED <<jobs, attempts>>
    BY <1>3 DEF StartClaim, Begin, Check, Crash
  <2>2. Calm
    BY <1>1, <2>1 DEF Calm
  <2>3. \A v \in Workers : SameFence(v)
    <3>1. CASE StartClaim(w)
      BY <1>0, <3>1 DEF StartClaim, SameFence, Holds
    <3>2. CASE Begin(w, op)
      BY <1>0, <3>2 DEF Begin, SameFence, Holds
    <3>3. CASE Check(w)
      <4>1. LET s == [wk[w] EXCEPT !.pc = "checked"] IN
              s.job = wk[w].job /\ s.attempt = wk[w].attempt /\ s.generation = wk[w].generation
        BY <1>0, <3>3 DEF Check, WorkerState
      <4> QED
        BY <1>0, <3>3, <4>1 DEF Check, Resume, Idle, SameFence, Holds
    <3>4. CASE Crash(w)
      BY <1>0, <3>4 DEF Crash, Idle, SameFence, Holds
    <3> QED
      BY <1>3, <3>1, <3>2, <3>3, <3>4
  <2> QED
    BY <2>2, <2>3
<1>4. ASSUME NEW w \in Workers, ClaimNothing(w)
      PROVE  Calm /\ \A v \in Workers : SameFence(v)
  <2>1. wk[w].at \in Nat
    BY <1>0, <1>4, WorkerShape DEF ClaimNothing
  <2>2. \A j \in Jobs : jobs'[j] = SweptJob(j, wk[w].at)
    BY <1>4 DEF ClaimNothing
  <2>3. Calm
    BY <1>4, <2>1, <2>2, Swept, ClaimNothingKeeps DEF Calm
  <2>4. \A v \in Workers : SameFence(v)
    BY <1>0, <1>4 DEF ClaimNothing, Idle, SameFence, Holds
  <2> QED
    BY <2>3, <2>4
<1>5. ASSUME NEW w \in Workers, Heartbeat(w)
      PROVE  Calm /\ \A v \in Workers : SameFence(v)
  <2>1. Calm
    BY <1>5, HeartbeatKeeps DEF Calm, Heartbeat
  <2>2. \A v \in Workers : SameFence(v)
    BY <1>0, <1>5 DEF Heartbeat, Writing, Resume, SameFence, Holds
  <2> QED
    BY <2>1, <2>2
<1>6. ASSUME NEW w \in Workers, ReleaseLease(w) \/ RejectLease(w) \/ CompleteLease(w)
      PROVE  Calm /\ \A v \in Workers : SameFence(v)
  <2>1. Holds(w) /\ wk[w].pc = "checked"
    BY <1>6 DEF ReleaseLease, RejectLease, CompleteLease, Writing, Holds
  <2>2. wk[w].job \in Jobs /\ wk[w].at \in Nat
    BY <1>0, <2>1, WorkerShape
  <2>3. \A j \in Jobs : Len(attempts'[j]) = Len(attempts[j]) /\ Kept(j)
    BY <1>6, <2>1, SetAttemptKeeps DEF ReleaseLease, RejectLease, CompleteLease, AttemptStatus
  <2> DEFINE row == jobs[wk[w].job]
  <2>4. jobs' = [jobs EXCEPT ![wk[w].job] = RequeuedRow(row, wk[w].at)]
        \/ jobs' = [jobs EXCEPT ![wk[w].job] = RejectedRow(row)]
        \/ jobs' = [jobs EXCEPT ![wk[w].job] = CompletedRow(row)]
    BY <1>6 DEF ReleaseLease, RejectLease, CompleteLease, SetJob
  <2>5. /\ RequeuedRow(row, wk[w].at).generation = row.generation
        /\ RequeuedRow(row, wk[w].at).status \notin {"leased", "absent"}
        /\ RejectedRow(row).generation = row.generation
        /\ RejectedRow(row).status \notin {"leased", "absent"}
        /\ CompletedRow(row).generation = row.generation
        /\ CompletedRow(row).status \notin {"leased", "absent"}
    <3>1. row \in JobRow
      BY <1>0, <2>2
    <3> HIDE DEF row
    <3>2. RequeuedRow(row, wk[w].at).generation = row.generation
          /\ RequeuedRow(row, wk[w].at).status = "queued"
      BY <2>2, <3>1, RequeuedRowType, SMTT(20)
    <3>3. /\ RejectedRow(row).generation = row.generation
          /\ RejectedRow(row).status = "rejected"
          /\ CompletedRow(row).generation = row.generation
          /\ CompletedRow(row).status = "completed"
      BY <3>1, FinishedRowType
    <3> QED
      BY <3>2, <3>3
  <2>6. \A j \in Jobs : /\ jobs'[j].generation = jobs[j].generation
                        /\ jobs'[j].status \in {"leased", "absent"} => jobs'[j] = jobs[j]
    BY <1>0, <2>2, <2>4, <2>5
  <2>7. \A v \in Workers : SameFence(v)
    BY <1>0, <1>6 DEF ReleaseLease, RejectLease, CompleteLease, Idle, SameFence, Holds
  <2> QED
    BY <2>3, <2>6, <2>7 DEF Calm
<1>7. CASE Tick \/ UNCHANGED vars
  BY <1>1, <1>7 DEF Tick, vars, Calm, SameFence, Holds
<1> QED
  BY <1>2, <1>3, <1>4, <1>5, <1>6, <1>7 DEF Next, WorkerNext, FencedOp

(* No operation uses a time that lies ahead of the clock. *)
LEMMA ClockStep ==
    ASSUME TypeOK, ClocksBehind, [Next]_vars
    PROVE  ClocksBehind'
<1>0. now \in Nat /\ wk \in [Workers -> WorkerState]
  BY DEF TypeOK
<1> DEFINE Reads(s) == s.pc \in {"claiming", "begun", "checked"}
<1>1. \A v \in Workers : Reads(wk[v]) => wk[v].at \in Nat /\ wk[v].at <= now
  BY <1>0, WorkerShape DEF ClocksBehind
<1>2. ASSUME NEW w \in Workers, NEW s,
             wk' = [wk EXCEPT ![w] = s], now' = now, Reads(s) => s.at <= now
      PROVE  ClocksBehind'
  BY <1>0, <1>1, <1>2 DEF ClocksBehind
<1>3. \A w \in Workers : ~Reads(Idle) /\ ~Reads(Resume(w))
  BY DEF Idle, Resume
<1>4. ASSUME NEW w \in Workers, StartClaim(w)
      PROVE  ClocksBehind'
  <2> DEFINE s == [pc |-> "claiming", at |-> now]
  <2>1. s.at <= now
    BY <1>0
  <2>2. wk' = [wk EXCEPT ![w] = s] /\ now' = now
    BY <1>4 DEF StartClaim
  <2> HIDE DEF s
  <2> QED
    BY <1>2, <2>1, <2>2
<1>5. ASSUME NEW w \in Workers, ClaimNothing(w)
      PROVE  ClocksBehind'
  BY <1>2, <1>3, <1>5 DEF ClaimNothing
<1>6. ASSUME NEW w \in Workers, NEW j \in Jobs, ClaimJob(w, j)
      PROVE  ClocksBehind'
  <2> DEFINE gen == jobs[j].generation + 1
             held == [pc |-> "holding", job |-> j, attempt |-> gen, generation |-> gen]
  <2>1. wk' = [wk EXCEPT ![w] = held] \/ wk' = [wk EXCEPT ![w] = Idle]
    BY <1>6 DEF ClaimJob
  <2>2. now' = now /\ ~Reads(held)
    BY <1>6 DEF ClaimJob
  <2> QED
    BY <1>2, <1>3, <2>1, <2>2
<1>7. ASSUME NEW w \in Workers, NEW op \in FencedOp, Begin(w, op)
      PROVE  ClocksBehind'
  <2> DEFINE s == [pc |-> "begun", job |-> wk[w].job, attempt |-> wk[w].attempt,
                   generation |-> wk[w].generation, op |-> op, at |-> now]
  <2>1. s.at <= now
    BY <1>0
  <2>2. wk' = [wk EXCEPT ![w] = s] /\ now' = now
    BY <1>7 DEF Begin
  <2> HIDE DEF s
  <2> QED
    BY <1>2, <2>1, <2>2
<1>8. ASSUME NEW w \in Workers, Check(w)
      PROVE  ClocksBehind'
  <2> DEFINE s == [wk[w] EXCEPT !.pc = "checked"]
  <2>1. s.at = wk[w].at /\ s.at <= now
    BY <1>0, <1>1, <1>8 DEF Check, WorkerState
  <2>2. \/ wk' = [wk EXCEPT ![w] = Idle]
        \/ wk' = [wk EXCEPT ![w] = Resume(w)]
        \/ wk' = [wk EXCEPT ![w] = s]
    BY <1>8 DEF Check
  <2>3. now' = now
    BY <1>8 DEF Check
  <2> HIDE DEF s
  <2> QED
    BY <1>2, <1>3, <2>1, <2>2, <2>3
<1>9. ASSUME NEW w \in Workers,
             Heartbeat(w) \/ ReleaseLease(w) \/ RejectLease(w) \/ CompleteLease(w) \/ Crash(w)
      PROVE  ClocksBehind'
  <2>1. wk' = [wk EXCEPT ![w] = Idle] \/ wk' = [wk EXCEPT ![w] = Resume(w)]
    BY <1>9 DEF Heartbeat, ReleaseLease, RejectLease, CompleteLease, Crash
  <2>2. now' = now
    BY <1>9 DEF Heartbeat, ReleaseLease, RejectLease, CompleteLease, Crash
  <2> QED
    BY <1>2, <1>3, <2>1, <2>2
<1>10. CASE Tick
  BY <1>0, <1>1, <1>10 DEF Tick, ClocksBehind
<1>11. CASE UNCHANGED vars \/ \E j \in Jobs : Enqueue(j)
  BY <1>11 DEF vars, Enqueue, ClocksBehind
<1> QED
  BY <1>4, <1>5, <1>6, <1>7, <1>8, <1>9, <1>10, <1>11 DEF Next, WorkerNext

(* The inductive step: a claim numbers its attempt with the next generation *)
(* and gives the worker exactly that number.                                *)
LEMMA FenceStep ==
    ASSUME FenceInv, [Next]_vars
    PROVE  FenceInv'
<1>1. TypeOK /\ GenerationCountsAttempts /\ OwnAttempts /\ ClocksBehind /\ NotYetLeased
  BY DEF FenceInv
<1>2. TypeOK'
  BY <1>1, TypeStep
<1>3. ASSUME ~ \E w \in Workers : \E j \in Jobs : ClaimJob(w, j)
      PROVE  GenerationCountsAttempts' /\ NotYetLeased' /\ OwnAttempts'
  <2>1. Calm /\ \A w \in Workers : SameFence(w)
    BY <1>1, <1>3, CalmSteps
  <2>2. GenerationCountsAttempts' /\ NotYetLeased'
    BY <1>1, <2>1, CalmKeepsCount
  <2>3. \A j \in Jobs : Kept(j)
    BY <2>1 DEF Calm
  <2>4. OwnAttempts'
    BY <1>1, <1>2, <2>1, <2>3, SameFenceOwns DEF OwnAttempts
  <2> QED
    BY <2>2, <2>4
<1>4. ASSUME NEW w \in Workers, NEW j \in Jobs, ClaimJob(w, j)
      PROVE  GenerationCountsAttempts' /\ NotYetLeased' /\ OwnAttempts'
  <2> DEFINE gen == jobs[j].generation + 1
  <2>1. /\ wk[w].pc = "claiming" /\ wk[w].at \in Nat
        /\ jobs \in [Jobs -> JobRow]
        /\ \A k \in Jobs : Len(attempts[k]) \in Nat
    <3>1. wk[w].pc = "claiming"
      BY <1>4 DEF ClaimJob
    <3>2. wk[w].at \in Nat
      BY <1>1, <3>1, WorkerShape DEF TypeOK
    <3> QED
      BY <1>1, <3>1, <3>2, SMTT(20) DEF TypeOK
  <2>2. /\ jobs'[j] = LeasedRow(SweptJob(j, wk[w].at))
        /\ \A k \in Jobs \ {j} : jobs'[k] = SweptJob(k, wk[w].at)
    BY <1>4 DEF ClaimJob
  <2>3. /\ Len(attempts[j]) + 1 = gen
        /\ Len(attempts'[j]) = gen
        /\ attempts'[j][gen].worker = w
        /\ attempts'[j][gen].generation = gen
        /\ \A k \in Jobs \ {j} : Len(attempts'[k]) = Len(attempts[k])
        /\ \A k \in Jobs : Kept(k)
    BY <1>1, <1>4, ClaimKeeps DEF GenerationCountsAttempts
  <2>4. /\ jobs'[j].status = "leased"
        /\ jobs'[j].active = gen
        /\ jobs'[j].generation = gen
    <3>1. SweptJob(j, wk[w].at) \in JobRow
          /\ SweptJob(j, wk[w].at).generation = jobs[j].generation
      BY <1>1, <2>1, Swept
    <3> QED
      BY <2>2, <3>1, LeasedRowType
  <2>5. \A k \in Jobs \ {j} :
          /\ jobs'[k].generation = jobs[k].generation
          /\ jobs'[k].status \in {"leased", "absent"} => jobs'[k] = jobs[k]
    BY <1>1, <2>1, <2>2, Swept
  <2>6. NotYetLeased'
    BY <1>1, <2>4, <2>5 DEF NotYetLeased
  <2>7. ASSUME NEW k \in Jobs \ {j}
        PROVE  /\ jobs'[k].generation = Len(attempts'[k])
               /\ jobs'[k].status = "leased" => jobs'[k].active = Len(attempts'[k])
               /\ \A i \in 1..Len(attempts'[k]) : attempts'[k][i].generation = i
    BY <1>1, <2>3, <2>5, SMTT(20) DEF GenerationCountsAttempts, Kept
  <2>8. \A i \in 1..Len(attempts'[j]) : attempts'[j][i].generation = i
    <3>1. \A i \in 1..Len(attempts[j]) : attempts'[j][i].generation = i
      BY <1>1, <2>3 DEF GenerationCountsAttempts, Kept
    <3>2. \A i \in 1..Len(attempts'[j]) : i \in 1..Len(attempts[j]) \/ i = gen
      BY <2>1, <2>3
    <3> QED
      BY <2>3, <3>1, <3>2
  <2>9. GenerationCountsAttempts'
    BY <2>3, <2>4, <2>7, <2>8 DEF GenerationCountsAttempts
  <2>10. ASSUME NEW v \in Workers, Holds(v)'
         PROVE  /\ wk'[v].attempt = wk'[v].generation
                /\ wk'[v].attempt \in 1..Len(attempts'[wk'[v].job])
                /\ Attempt(v)'.worker = v
    <3>1. CASE v # w
      <4>1. wk'[v] = wk[v]
        BY <1>1, <1>4, <3>1 DEF ClaimJob, TypeOK
      <4>2. SameFence(v)
        BY <4>1 DEF SameFence, Holds
      <4> QED
        BY <1>1, <1>2, <2>3, <2>10, <4>2, SameFenceOwns
    <3>2. CASE v = w
      <4>1. wk'[w] = [pc |-> "holding", job |-> j, attempt |-> gen, generation |-> gen]
        BY <1>1, <1>4, <2>10, <3>2 DEF ClaimJob, TypeOK, Holds, Idle
      <4>2. wk'[w].job = j /\ wk'[w].attempt = gen /\ wk'[w].generation = gen
        BY <4>1
      <4>3. gen \in 1..Len(attempts'[j])
        BY <2>1, <2>3
      <4>4. Attempt(w)' = attempts'[j][gen]
        BY <4>2 DEF Attempt
      <4> QED
        BY <2>3, <3>2, <4>2, <4>3, <4>4
    <3> QED
      BY <3>1, <3>2
  <2>11. OwnAttempts'
    BY <2>10 DEF OwnAttempts
  <2> QED
    BY <2>6, <2>9, <2>11
<1>5. ClocksBehind'
  BY <1>1, ClockStep
<1> QED
  BY <1>2, <1>3, <1>4, <1>5 DEF FenceInv

LEMMA FenceInvariant == Spec => []FenceInv
<1>1. Init => FenceInv
  BY DEF Init, FenceInv, TypeOK, GenerationCountsAttempts, OwnAttempts, ClocksBehind,
         NotYetLeased, Idle, WorkerState, Holds, AbsentJob, JobRow, JobStatus
<1>2. FenceInv /\ [Next]_vars => FenceInv'
  BY FenceStep
<1> QED
  BY <1>1, <1>2, PTL DEF Spec

(* claim_next_job never reuses a generation, whatever stale writes happen   *)
(* between two claims (lease.py:93-120).                                    *)
THEOREM GenerationsNeverReused == Spec => []GenerationCountsAttempts
<1>1. FenceInv => GenerationCountsAttempts
  BY DEF FenceInv
<1> QED
  BY <1>1, FenceInvariant, PTL

(* Two processes never pass require_active_lease for one job at the same    *)
(* moment, even when either was suspended for any time (fencing.py:30-55):  *)
(* both would have to own the one attempt the job row points at.            *)
THEOREM FenceAdmitsOneHolder == Spec => []OneLiveHolder
<1>1. FenceInv => OneLiveHolder
  <2> SUFFICES ASSUME FenceInv, NEW v \in Workers, NEW w \in Workers,
                      Passes(v), Passes(w), wk[v].job = wk[w].job
               PROVE  v = w
    BY DEF OneLiveHolder
  <2>1. wk[v].attempt = wk[w].attempt
    BY DEF Passes, ActiveLease
  <2>2. Attempt(v) = Attempt(w)
    BY <2>1 DEF Attempt
  <2>3. Attempt(v).worker = v /\ Attempt(w).worker = w
    BY DEF FenceInv, OwnAttempts, Passes
  <2> QED
    BY <2>2, <2>3
<1> QED
  BY <1>1, FenceInvariant, PTL

(* Only the expiry loop of a claim expires an attempt, and the time it      *)
(* compares with was read before.                                           *)
LEMMA ExpiryStep ==
    ASSUME TypeOK, ClocksBehind, [Next]_vars,
           NEW j \in Jobs, NEW i \in 1..Len(attempts[j]),
           attempts[j][i].status = "leased", attempts'[j][i].status = "expired"
    PROVE  attempts[j][i].expiresAt <= now
<1>0. /\ now \in Nat
      /\ attempts \in [Jobs -> Seq(AttemptRow)]
      /\ wk \in [Workers -> WorkerState]
      /\ attempts[j] \in Seq(AttemptRow) /\ Len(attempts[j]) \in Nat /\ i \in Nat
      /\ attempts[j][i].expiresAt \in Nat
  <2>1. now \in Nat /\ attempts \in [Jobs -> Seq(AttemptRow)] /\ wk \in [Workers -> WorkerState]
    BY DEF TypeOK
  <2>2. attempts[j] \in Seq(AttemptRow) /\ Len(attempts[j]) \in Nat /\ i \in Nat
    BY <2>1
  <2>3. attempts[j][i] \in AttemptRow
    BY <2>2
  <2> QED
    BY <2>1, <2>2, <2>3 DEF AttemptRow
<1>1. ASSUME NEW at \in Nat, at <= now, SweptAttempts(j, at)[i].status = "expired"
      PROVE  attempts[j][i].expiresAt <= now
  <2>1. Lapsed(j, at) /\ i = jobs[j].active
    BY <1>1, Swept
  <2>2. attempts[j][i].expiresAt <= at
    BY <2>1 DEF Lapsed
  <2> QED
    BY <1>0, <1>1, <2>2
<1>2. ASSUME NEW w \in Workers, wk[w].pc = "claiming"
      PROVE  wk[w].at \in Nat /\ wk[w].at <= now
  <2>1. wk[w] \in WorkerState
    BY <1>0
  <2>2. wk[w].at \in Nat
    BY <1>2, <2>1, WorkerShape
  <2> QED
    BY <1>2, <2>2 DEF ClocksBehind
<1>3. ASSUME NEW w \in Workers, ClaimNothing(w)
      PROVE  attempts[j][i].expiresAt <= now
  <2>1. wk[w].pc = "claiming" /\ attempts'[j] = SweptAttempts(j, wk[w].at)
    BY <1>3 DEF ClaimNothing
  <2> QED
    BY <1>1, <1>2, <2>1
<1>4. ASSUME NEW w \in Workers, NEW k \in Jobs, ClaimJob(w, k)
      PROVE  attempts[j][i].expiresAt <= now
  <2> DEFINE at  == wk[w].at
             s   == SweptAttempts(j, at)
             new == [worker |-> w, generation |-> jobs[k].generation + 1,
                     status |-> "leased", expiresAt |-> at + LeaseSeconds]
  <2>1. at \in Nat /\ at <= now
    BY <1>2, <1>4 DEF ClaimJob
  <2>2. attempts'[j] = IF j = k THEN Append(s, new) ELSE s
    BY <1>4 DEF ClaimJob
  <2>3. s \in Seq(AttemptRow) /\ Len(s) = Len(attempts[j])
    BY <2>1, Swept
  <2> HIDE DEF s, new
  <2>4. attempts'[j][i] = s[i]
    BY <1>0, <2>2, <2>3
  <2>5. SweptAttempts(j, at)[i].status = "expired"
    BY <2>4 DEF s
  <2> QED
    BY <1>1, <2>1, <2>5
<1>5. ASSUME NEW w \in Workers, Heartbeat(w)
      PROVE  FALSE
  <2>1. /\ wk[w].job \in Jobs /\ wk[w].attempt \in Nat
        /\ wk[w].at + LeaseSeconds \in Nat
    BY <1>0, <1>5, WorkerShape, LeaseAssumption DEF Heartbeat, Writing
  <2>2. CASE j = wk[w].job
    <3>1. attempts'[j] = [attempts[j] EXCEPT ![wk[w].attempt].expiresAt =
                                                wk[w].at + LeaseSeconds]
      BY <1>0, <1>5, <2>1, <2>2 DEF Heartbeat
    <3> QED
      BY <1>0, <2>1, <3>1, SetExpiry
  <2>3. CASE j # wk[w].job
    BY <1>0, <1>5, <2>1, <2>3 DEF Heartbeat
  <2> QED
    BY <2>2, <2>3
<1>6. ASSUME NEW w \in Workers, ReleaseLease(w) \/ RejectLease(w) \/ CompleteLease(w)
      PROVE  FALSE
  <2>1. PICK x \in {"released", "rejected", "completed"} : SetAttempt(w, x)
    BY <1>6 DEF ReleaseLease, RejectLease, CompleteLease
  <2>2. wk[w].job \in Jobs /\ wk[w].attempt \in Nat /\ x \in AttemptStatus
    BY <1>0, <1>6, WorkerShape DEF ReleaseLease, RejectLease, CompleteLease, Writing, AttemptStatus
  <2>3. CASE j = wk[w].job
    <3>1. attempts'[j] = [attempts[j] EXCEPT ![wk[w].attempt].status = x]
      BY <1>0, <2>1, <2>2, <2>3 DEF SetAttempt
    <3>2. attempts'[j][i].status \in {x, attempts[j][i].status}
      BY <1>0, <2>2, <3>1, SetColumn
    <3> QED
      BY <2>1, <3>2
  <2>4. CASE j # wk[w].job
    BY <1>0, <2>1, <2>2, <2>4 DEF SetAttempt
  <2> QED
    BY <2>3, <2>4
<1>7. ASSUME UNCHANGED attempts
      PROVE  FALSE
  BY <1>7
<1>8. ASSUME NEW w \in Workers, NEW op \in FencedOp,
             StartClaim(w) \/ Begin(w, op) \/ Check(w) \/ Crash(w)
      PROVE  UNCHANGED attempts
  BY <1>8 DEF StartClaim, Begin, Check, Crash
<1>9. ASSUME \/ \E k \in Jobs : Enqueue(k)
             \/ Tick
             \/ UNCHANGED vars
      PROVE  UNCHANGED attempts
  BY <1>9 DEF Enqueue, Tick, vars
<1> QED
  BY <1>3, <1>4, <1>5, <1>6, <1>7, <1>8, <1>9 DEF Next, WorkerNext, FencedOp

(* claim_next_job takes a lease away only once its time has really passed,  *)
(* however long the claim waited for the write lock after it read           *)
(* claimed_at (lease.py:54-75).                                             *)
THEOREM LeasesTakenOnlyWhenLapsed == Spec => TakenOnlyWhenLapsed
<1> DEFINE Lapses == \A j \in Jobs : \A i \in 1..Len(attempts[j]) :
              attempts[j][i].status = "leased" /\ attempts'[j][i].status = "expired"
                 => attempts[j][i].expiresAt <= now
<1>1. FenceInv /\ [Next]_vars => [Lapses]_vars
  BY ExpiryStep DEF FenceInv
<1> QED
  BY <1>1, FenceInvariant, PTL DEF Spec, TakenOnlyWhenLapsed
=============================================================================
