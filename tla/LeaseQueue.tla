----------------------------- MODULE LeaseQueue -----------------------------
(***************************************************************************)
(* The durable execution queue: several worker processes claim jobs, keep  *)
(* their leases alive and give them back (queue/lease.py), over SQLite     *)
(* sessions (unit_of_work.py).                                             *)
(*                                                                         *)
(* Only UnitOfWork.immediate() opens the transaction before it reads, so   *)
(* claim_next_job is one atomic step.  Every other operation runs in       *)
(* UnitOfWork.session(): the driver opens the transaction at the first     *)
(* write, so the SELECTs of require_active_lease are committed reads and   *)
(* the UPDATEs follow later, in a transaction of their own.  Each such     *)
(* operation is three steps here: it reads the clock (Begin), checks the   *)
(* fence (Check) and writes (a Write action).                              *)
(***************************************************************************)
EXTENDS Fencing, FiniteSets

CONSTANTS
    Workers,        \* worker processes
    Jobs,           \* jobs that may be enqueued
    LeaseSeconds,   \* lease_seconds, in clock ticks
    Stalls,         \* may a worker be suspended between check and write until
                    \* its lease has run out?
    MaxTime,        \* bound: the clock stops here
    MaxAttempts     \* bound: claims per job

ASSUME LeaseAssumption == /\ LeaseSeconds \in Nat \ {0}
                          /\ Stalls \in BOOLEAN
                          /\ MaxTime \in Nat
                          /\ MaxAttempts \in Nat

VARIABLES
    now,        \* clock.utc_now()
    jobs,       \* table run_execution_jobs
    attempts,   \* table run_execution_attempts, by job and ordinal
    wk          \* what each worker process is doing

vars == <<now, jobs, attempts, wk>>

FencedOp == {"assert", "heartbeat", "release", "reject", "complete"}

AttemptRow == [worker: Workers, generation: Nat, status: AttemptStatus,
               expiresAt: Nat]

Idle == [pc |-> "idle"]

WorkerState ==
    [pc: {"idle"}]
      \cup [pc: {"claiming"}, at: Nat]
      \cup [pc: {"holding"}, job: Jobs, attempt: Nat, generation: Nat]
      \cup [pc: {"begun", "checked"}, job: Jobs, attempt: Nat,
            generation: Nat, op: FencedOp, at: Nat]

TypeOK ==
    /\ now \in Nat
    /\ jobs \in [Jobs -> JobRow]
    /\ attempts \in [Jobs -> Seq(AttemptRow)]
    /\ wk \in [Workers -> WorkerState]

Init ==
    /\ now = 0
    /\ jobs = [j \in Jobs |-> AbsentJob]
    /\ attempts = [j \in Jobs |-> << >>]
    /\ wk = [w \in Workers |-> Idle]

-----------------------------------------------------------------------------
Holds(w) == wk[w].pc \in {"holding", "begun", "checked"}

Inside(w) == wk[w].pc \in {"begun", "checked"}

Attempt(w) == attempts[wk[w].job][wk[w].attempt]

Enqueue(j) ==
    /\ jobs[j].status = "absent"
    /\ jobs' = [jobs EXCEPT ![j] = QueuedJob(now)]
    /\ UNCHANGED <<now, attempts, wk>>

(* process_once polls the queue: claimed_at is read before BEGIN IMMEDIATE *)
(* waits for the write lock.                                               *)
StartClaim(w) ==
    /\ wk[w].pc = "idle"
    /\ wk' = [wk EXCEPT ![w] = [pc |-> "claiming", at |-> now]]
    /\ UNCHANGED <<now, jobs, attempts>>

(* Faulty variants: expiry off by one, and a poll that does not filter by  *)
(* status.                                                                 *)
LapsedEarly(j, at) ==
    /\ jobs[j].status = "leased"
    /\ attempts[j][jobs[j].active].expiresAt <= at + 1

Lapsed(j, at) ==
    /\ jobs[j].status = "leased"
    /\ attempts[j][jobs[j].active].expiresAt <= at

(* The rows once the loop over leased jobs has expired the stale leases. *)
SweptJob(j, at) ==
    IF Lapsed(j, at) THEN RequeuedRow(jobs[j], at) ELSE jobs[j]

SweptAttempts(j, at) ==
    IF Lapsed(j, at)
    THEN [attempts[j] EXCEPT ![jobs[j].active].status = "expired"]
    ELSE attempts[j]

ClaimableFinished(at) ==
    {j \in Jobs : /\ SweptJob(j, at).status \notin {"absent", "leased"}
                  /\ SweptJob(j, at).availableAt <= at}

Claimable(at) ==
    {j \in Jobs : /\ SweptJob(j, at).status = "queued"
                  /\ SweptJob(j, at).availableAt <= at}

(* ORDER BY available_at, created_at, id: ids are random, so jobs that tie *)
(* on both times come in either order.                                     *)
Precedes(a, b) ==
    \/ a.availableAt < b.availableAt
    \/ a.availableAt = b.availableAt /\ a.createdAt <= b.createdAt

NextJobs(at) ==
    {j \in Claimable(at) :
        \A k \in Claimable(at) : Precedes(SweptJob(j, at), SweptJob(k, at))}

ClaimNothing(w) ==
    LET at == wk[w].at IN
    /\ wk[w].pc = "claiming"
    /\ Claimable(at) = {}
    /\ jobs' = [j \in Jobs |-> SweptJob(j, at)]
    /\ attempts' = [j \in Jobs |-> SweptAttempts(j, at)]
    /\ wk' = [wk EXCEPT ![w] = Idle]
    /\ UNCHANGED now

(* The claim commits before execution_job_model validates the row: a row   *)
(* that fails validation stays leased while the worker process dies.       *)
ClaimJob(w, j) ==
    LET at  == wk[w].at
        gen == jobs[j].generation + 1
        row == LeasedRow(SweptJob(j, at))
        new == [worker |-> w, generation |-> gen, status |-> "leased",
                expiresAt |-> at + LeaseSeconds]
    IN
    /\ wk[w].pc = "claiming"
    /\ j \in NextJobs(at)
    /\ Len(attempts[j]) < MaxAttempts
    /\ jobs' = [k \in Jobs |-> IF k = j THEN row ELSE SweptJob(k, at)]
    /\ attempts' = [k \in Jobs |-> IF k = j THEN Append(SweptAttempts(k, at), new)
                                            ELSE SweptAttempts(k, at)]
    /\ wk' = [wk EXCEPT ![w] =
                IF ValidJob(row)
                THEN [pc |-> "holding", job |-> j, attempt |-> gen, generation |-> gen]
                ELSE Idle]
    /\ UNCHANGED now

-----------------------------------------------------------------------------
Begin(w, op) ==
    /\ wk[w].pc = "holding"
    /\ wk' = [wk EXCEPT ![w] = [pc |-> "begun", job |-> wk[w].job,
                                attempt |-> wk[w].attempt,
                                generation |-> wk[w].generation,
                                op |-> op, at |-> now]]
    /\ UNCHANGED <<now, jobs, attempts>>

RequireActiveLease(w) ==
    ActiveLease(jobs[wk[w].job], Attempt(w), wk[w], w, wk[w].at)

Resume(w) == [pc |-> "holding", job |-> wk[w].job, attempt |-> wk[w].attempt,
              generation |-> wk[w].generation]

(* LeaseLost makes process_once return; assert_lease writes nothing. *)
Check(w) ==
    /\ wk[w].pc = "begun"
    /\ wk' = [wk EXCEPT ![w] =
                IF ~RequireActiveLease(w) THEN Idle
                ELSE IF wk[w].op = "assert" THEN Resume(w)
                ELSE [wk[w] EXCEPT !.pc = "checked"]]
    /\ UNCHANGED <<now, jobs, attempts>>

Writing(w, op) == wk[w].pc = "checked" /\ wk[w].op = op

SetAttempt(w, status) ==
    attempts' = [attempts EXCEPT ![wk[w].job][wk[w].attempt].status = status]

SetJob(w, row) == jobs' = [jobs EXCEPT ![wk[w].job] = row]

Heartbeat(w) ==
    /\ Writing(w, "heartbeat")
    /\ attempts' = [attempts EXCEPT ![wk[w].job][wk[w].attempt].expiresAt =
                                        wk[w].at + LeaseSeconds]
    /\ wk' = [wk EXCEPT ![w] = Resume(w)]
    /\ UNCHANGED <<now, jobs>>

ReleaseLease(w) ==
    /\ Writing(w, "release")
    /\ SetAttempt(w, "released")
    /\ SetJob(w, RequeuedRow(jobs[wk[w].job], wk[w].at))
    /\ wk' = [wk EXCEPT ![w] = Idle]
    /\ UNCHANGED now

RejectLease(w) ==
    /\ Writing(w, "reject")
    /\ SetAttempt(w, "rejected")
    /\ SetJob(w, RejectedRow(jobs[wk[w].job]))
    /\ wk' = [wk EXCEPT ![w] = Idle]
    /\ UNCHANGED now

CompleteLease(w) ==
    /\ Writing(w, "complete")
    /\ SetAttempt(w, "completed")
    /\ SetJob(w, CompletedRow(jobs[wk[w].job]))
    /\ wk' = [wk EXCEPT ![w] = Idle]
    /\ UNCHANGED now

(* The process dies at any point; a transaction it had open rolls back. *)
Crash(w) ==
    /\ wk[w].pc # "idle"
    /\ wk' = [wk EXCEPT ![w] = Idle]
    /\ UNCHANGED <<now, jobs, attempts>>

(* Without Stalls, an operation that begins under a live lease ends before *)
(* that lease runs out.                                                    *)
Tick ==
    /\ now < MaxTime
    /\ \/ Stalls
       \/ \A w \in Workers : Inside(w) /\ Attempt(w).expiresAt > now
                                => Attempt(w).expiresAt > now + 1
    /\ now' = now + 1
    /\ UNCHANGED <<jobs, attempts, wk>>

WorkerNext(w) ==
    \/ StartClaim(w)
    \/ ClaimNothing(w)
    \/ \E j \in Jobs : ClaimJob(w, j)
    \/ \E op \in FencedOp : Begin(w, op)
    \/ Check(w)
    \/ Heartbeat(w)
    \/ ReleaseLease(w)
    \/ RejectLease(w)
    \/ CompleteLease(w)
    \/ Crash(w)

Next ==
    \/ \E j \in Jobs : Enqueue(j)
    \/ \E w \in Workers : WorkerNext(w)
    \/ Tick

Spec == Init /\ [][Next]_vars

-----------------------------------------------------------------------------
(* Generations are never reused: a job's lease_generation counts its        *)
(* attempts and every attempt carries its own ordinal as generation, so a   *)
(* fence kept by an expired worker matches no later claim, whatever stale   *)
(* write happened in between (claim_next_job, lease.py:93-120).             *)
GenerationCountsAttempts ==
    \A j \in Jobs :
        /\ jobs[j].generation = Len(attempts[j])
        /\ jobs[j].status = "leased" => jobs[j].active = Len(attempts[j])
        /\ \A i \in 1..Len(attempts[j]) : attempts[j][i].generation = i

(* At no moment do two processes pass the fence of the same job, however    *)
(* long either was suspended (require_active_lease, fencing.py:30-55).      *)
Passes(w) == Holds(w) /\ ActiveLease(jobs[wk[w].job], Attempt(w), wk[w], w, now)

OneLiveHolder ==
    \A v, w \in Workers :
        Passes(v) /\ Passes(w) /\ wk[v].job = wk[w].job => v = w

(* A claim takes a lease away only once its time has really passed, even    *)
(* though claimed_at was read before waiting for the write lock             *)
(* (claim_next_job, lease.py:54-75).                                        *)
TakenOnlyWhenLapsed ==
    [][\A j \in Jobs : \A i \in 1..Len(attempts[j]) :
          attempts[j][i].status = "leased" /\ attempts'[j][i].status = "expired"
             => attempts[j][i].expiresAt <= now]_vars

(* The two tables agree, although a session checks the fence and writes in  *)
(* separate transactions: an attempt row says "leased" exactly when its job *)
(* row points at it, every job row passes the validation of its contract    *)
(* model (execution.py:35-49), and an attempt that a newer one superseded   *)
(* had expired or been released, so no worker settles a job after it was    *)
(* taken over ("stops an expired worker from committing after a newer       *)
(* attempt took over", fencing.py:4-6).                                     *)
LeaseRowsAgree ==
    \A j \in Jobs :
        /\ ValidJob(jobs[j])
        /\ \A i \in 1..Len(attempts[j]) :
              /\ attempts[j][i].status = "leased" <=> jobs[j].active = i
              /\ i < Len(attempts[j]) => attempts[j][i].status \in {"expired", "released"}

(* A completed or rejected job is never queued or leased again.             *)
FinishedJobsStayFinished ==
    [][\A j \in Jobs : jobs[j].status \in {"completed", "rejected"}
                          => jobs'[j] = jobs[j]]_vars
=============================================================================
