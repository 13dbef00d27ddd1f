----------------------------- MODULE EnqueueRun -----------------------------
(***************************************************************************)
(* Admission, enqueueing and retrying of Runs (queue/enqueue.py and the    *)
(* API and CLI commands that call it).  enqueue_run works inside BEGIN     *)
(* IMMEDIATE, so a whole request is one step.  Requests are not tracked    *)
(* from send to reply: any request may be handled at any time and any      *)
(* number of times, which covers lost replies, resends and two clients     *)
(* that use one idempotency key.                                           *)
(***************************************************************************)
EXTENDS RunLedger

CONSTANTS
    Specs,          \* the compiled RunSpecs
    Keys,           \* the idempotency keys clients choose
    Experiments,    \* experiment revisions the demo service enqueues for
    Outcomes,       \* the terminal statuses that executions end with
    SaveDelay,      \* bound: how long a record may wait to be saved
    MaxAdmissions,  \* bound: how many AdmissionRecords are saved
    MaxRuns,        \* bound: how many Runs exist
    MaxTime         \* bound: how long the clock runs

ASSUME RunBounds ==
    /\ MaxAdmissions \in Nat /\ MaxRuns \in Nat /\ MaxTime \in Nat
    /\ SaveDelay \in Nat
    /\ Outcomes \subseteq TerminalStatuses

VARIABLES
    now,         \* the wall clock; 0 stands for a missing timestamp
    admissions,  \* the sequence of AdmissionRecord rows
    runs,        \* the sequence of Run rows
    jobs,        \* the run_execution_jobs rows: [request, run]
    answers      \* history: [request, run] of every accepted request

vars == <<now, admissions, runs, jobs, answers>>

RetryableStatuses == TerminalStatuses \ {"completed"}

(* A request as request_digest covers it, with its key.  retryOf = 0 is a   *)
(* plain enqueue; only the demo service names an experiment revision.      *)
Requests ==
    {q \in [key : Keys, spec : Specs, admission : 1..MaxAdmissions,
            retryOf : 0..MaxRuns, experiment : Experiments \cup {None}] :
        q.retryOf # 0 => q.experiment = None}

AdmissionRow == [spec : Specs, decision : {"admitted", "rejected"}, at : 1..MaxTime]

RunRow == [spec : Specs, admission : 1..MaxAdmissions, retryOf : 0..MaxRuns,
           experiment : Experiments \cup {None},
           status : {"queued"} \cup TerminalStatuses, completedAt : 0..MaxTime]

JobRow == [request : Requests, run : 1..MaxRuns]

Init ==
    /\ now = 1
    /\ admissions = <<>>
    /\ runs = <<>>
    /\ jobs = {}
    /\ answers = {}

-----------------------------------------------------------------------------
(* admit, then save_admission_record: the record carries the time it was   *)
(* made, the row may be written later.  A record that is already there is  *)
(* not written again.                                                      *)
Admit(spec, decision, at) ==
    /\ Len(admissions) < MaxAdmissions
    /\ at <= now /\ now <= at + SaveDelay
    /\ LET row == [spec |-> spec, decision |-> decision, at |-> at] IN
         /\ \A i \in DOMAIN admissions : admissions[i] # row
         /\ admissions' = Append(admissions, row)
    /\ UNCHANGED <<now, runs, jobs, answers>>

(* A faulty variant: an admitted record of any RunSpec will do. *)
AdmittedAnySpec(q) ==
    /\ q.admission \in DOMAIN admissions
    /\ admissions[q.admission].decision = "admitted"

(* _load_admitted_contracts: an admitted record of exactly this RunSpec. *)
Admitted(q) ==
    /\ q.admission \in DOMAIN admissions
    /\ admissions[q.admission].decision = "admitted"
    /\ admissions[q.admission].spec = q.spec

(* A faulty variant: one made at the very end of the source will do. *)
RetryNotBefore(q) ==
    /\ q.retryOf \in DOMAIN runs
    /\ LET source == runs[q.retryOf] IN
         /\ source.status \in RetryableStatuses
         /\ source.spec = q.spec
         /\ source.admission # q.admission
         /\ source.completedAt # 0
         /\ admissions[q.admission].at >= source.completedAt

(* _validate_retry: a source that ended without success, and an admission  *)
(* of the same RunSpec made after it ended.                                *)
ValidRetry(q) ==
    /\ q.retryOf \in DOMAIN runs
    /\ LET source == runs[q.retryOf] IN
         /\ source.status \in RetryableStatuses
         /\ source.spec = q.spec
         /\ source.admission # q.admission
         /\ source.completedAt # 0
         /\ admissions[q.admission].at > source.completedAt

(* What the API and the CLI check of a retry before they call enqueue_run; *)
(* both take the RunSpec from the source.  The rows they read no longer    *)
(* change, so the time between the check and the call does not matter.     *)
ApiRetry(q) ==
    /\ q.retryOf \in DOMAIN runs
    /\ q.spec = runs[q.retryOf].spec
    /\ runs[q.retryOf].status \in RetryableStatuses
    /\ Admitted(q)

CliRetry(q) ==
    /\ q.retryOf \in DOMAIN runs
    /\ q.spec = runs[q.retryOf].spec
    /\ runs[q.retryOf].status \in RetryableStatuses
    /\ runs[q.retryOf].admission # q.admission

Requested(q) == q.retryOf = 0 \/ ApiRetry(q) \/ CliRetry(q)

(* A faulty variant: the job is looked up by the digest of the request. *)
JobsByDigest(q) ==
    {j \in jobs : [j.request EXCEPT !.key = q.key] = q}

JobsOf(q) == {j \in jobs : j.request.key = q.key}

(* The new Run row; a retry inherits the experiment revision of its source. *)
NewRun(q) ==
    [spec |-> q.spec, admission |-> q.admission, retryOf |-> q.retryOf,
     experiment |-> IF q.retryOf = 0 THEN q.experiment
                                     ELSE runs[q.retryOf].experiment,
     status |-> "queued", completedAt |-> 0]

(* The key is known: the same request is answered with the Run it made,    *)
(* another one is refused and changes nothing.                             *)
EnqueueAgain(q) ==
    /\ Requested(q)
    /\ \E j \in JobsOf(q) :
         /\ [j.request EXCEPT !.key = q.key] = q
         /\ answers' = answers \cup {[request |-> q, run |-> j.run]}
    /\ UNCHANGED <<now, admissions, runs, jobs>>

EnqueueNew(q) ==
    /\ Len(runs) < MaxRuns
    /\ Requested(q)
    /\ JobsOf(q) = {}
    /\ Admitted(q)
    /\ q.retryOf # 0 => ValidRetry(q)
    /\ runs' = Append(runs, NewRun(q))
    /\ jobs' = jobs \cup {[request |-> q, run |-> Len(runs) + 1]}
    /\ answers' = answers \cup {[request |-> q, run |-> Len(runs) + 1]}
    /\ UNCHANGED <<now, admissions>>

(* The terminal event of the Run's execution sets status and completed_at. *)
EndRun(r, status) ==
    /\ runs[r].status = "queued"
    /\ runs' = [runs EXCEPT ![r].status = status, ![r].completedAt = now]
    /\ UNCHANGED <<now, admissions, jobs, answers>>

Tick ==
    /\ now < MaxTime
    /\ now' = now + 1
    /\ UNCHANGED <<admissions, runs, jobs, answers>>

Next ==
    \/ \E s \in Specs, d \in {"admitted", "rejected"}, at \in 1..MaxTime : Admit(s, d, at)
    \/ \E q \in Requests : EnqueueAgain(q)
    \/ \E q \in Requests : EnqueueNew(q)
    \/ \E r \in DOMAIN runs, status \in Outcomes : EndRun(r, status)
    \/ Tick

Spec == Init /\ [][Next]_vars
-----------------------------------------------------------------------------
(* The rows have the columns the tables declare, and exactly the ended     *)
(* Runs have a completed_at.                                               *)
TypeOK ==
    /\ now \in 1..MaxTime
    /\ admissions \in Seq(AdmissionRow)
    /\ runs \in Seq(RunRow)
    /\ \A r \in DOMAIN runs : (runs[r].completedAt = 0) <=> (runs[r].status = "queued")
    /\ jobs \subseteq JobRow
    /\ answers \subseteq JobRow

(* The Idempotency-Key contract of enqueue_run: however often requests are *)
(* sent, a key stands for one request and one Run, and every Run that an   *)
(* answer names is the Run of its own request and of no other.             *)
KeyNamesOneRun ==
    /\ \A a, b \in answers : (a.request.key = b.request.key) <=> (a.run = b.run)
    /\ \A a, b \in answers : a.run = b.run => a.request = b.request
    /\ \A a \in answers : /\ runs[a.run].spec = a.request.spec
                          /\ runs[a.run].admission = a.request.admission
                          /\ runs[a.run].retryOf = a.request.retryOf

(* _load_admitted_contracts: no Run exists without an admitted record of   *)
(* its own RunSpec, made before the Run ended.                             *)
RunsAreAdmitted ==
    /\ TypeOK
    /\ \A r \in DOMAIN runs :
        LET adm == admissions[runs[r].admission] IN
        /\ adm.decision = "admitted" /\ adm.spec = runs[r].spec
        /\ runs[r].completedAt # 0 => adm.at <= runs[r].completedAt

(* The Runs a Run descends from through retry_of. *)
Ancestors ==
    LET anc[r \in 0..Len(runs)] ==
          IF r = 0 \/ runs[r].retryOf \notin 1..(r - 1) THEN {}
          ELSE {runs[r].retryOf} \cup anc[runs[r].retryOf]
    IN [r \in DOMAIN runs |-> anc[r]]

(* _validate_retry, seen over a whole chain of retries: it never leaves    *)
(* its RunSpec nor its experiment revision, each attempt was admitted      *)
(* after every earlier one had ended without success, and so no admission  *)
(* serves a chain twice.                                                   *)
RetriesMoveForward ==
    \A r \in DOMAIN runs :
        /\ runs[r].retryOf # 0 => runs[r].retryOf < r
        /\ \A a \in Ancestors[r] :
             /\ runs[a].status \in RetryableStatuses
             /\ runs[a].spec = runs[r].spec
             /\ runs[a].experiment = runs[r].experiment
             /\ admissions[runs[r].admission].at > runs[a].completedAt
             /\ admissions[runs[r].admission].at > admissions[runs[a].admission].at
=============================================================================
