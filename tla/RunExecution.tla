---------------------------- MODULE RunExecution ----------------------------
(***************************************************************************)
(* The execution of one Run: worker processes claim its job                *)
(* (runs/worker.py, queue/lease.py), drive it from preparation to a        *)
(* terminal event (runs/coordinator) and write its ledger                  *)
(* (ledger/store.py, queue/preparation.py, evaluation/records.py).  They   *)
(* crash, stall, lose their leases and meet storage errors on the way.     *)
(*                                                                         *)
(* A fenced operation is one session.  The driver opens the transaction at *)
(* the first write, so its SELECTs are separate committed reads: the       *)
(* session checks the lease, the Run row and the operation key ("check"),  *)
(* reads the prior events ("read") and writes ("write").  The UNIQUE       *)
(* constraints on (run_id, sequence) and (run_id, operation_key) reject a  *)
(* write whose position or key was taken meanwhile.                        *)
(*                                                                         *)
(* Time is abstracted: a lease is live (expiresAt = 1) until it lapses     *)
(* (expiresAt = 0), and every check is made at time 0.                     *)
(***************************************************************************)
EXTENDS Fencing, RunLedger

CONSTANTS
    Workers,        \* worker processes
    Calls,          \* ids the Subject may give to its tool calls
    MaxToolCalls,   \* budget max_tool_calls
    Outputs,        \* what the Subject may answer
    Stalls,         \* may a process be suspended inside a fenced operation
                    \* until its lease has lapsed?
    Upgrades,       \* may the runtime stop supporting the admitted contracts?
    MaxFaults,      \* bound: crashes, storage errors and untimely lapses
    MaxAttempts     \* bound: claims

ASSUME ExecutionAssumption == /\ MaxToolCalls \in Nat
                              /\ MaxFaults \in Nat
                              /\ MaxAttempts \in Nat
                              /\ {Stalls, Upgrades} \subseteq BOOLEAN
                              /\ None \notin Calls \cup Outputs

VARIABLES
    job,            \* the Run's row of run_execution_jobs
    attempts,       \* its rows of run_execution_attempts, by ordinal
    status,         \* runs.status
    events,         \* its rows of run_events, by sequence
    recoverable,    \* does capture_policy keep the raw output?
    supported,      \* does the active catalog still admit the contracts?
    wk,             \* what each worker process is doing
    executions,     \* how many times the Subject was executed
    faults          \* how many faults have happened

vars == <<job, attempts, status, events, recoverable, supported, wk,
          executions, faults>>

lease == <<job, attempts>>

ledger == <<status, events>>

world == <<recoverable, supported>>

(* An appending operation is named after the first event it appends. *)
Appends == {"run.preparing", "subject.invoked", "subject.responded",
            "evaluation.completed", "run.completed", "run.failed",
            "run.budget_exhausted"} \cup ToolEvents

Settles == {"release", "reject", "complete"}

Payload == Calls \cup Outputs \cup {None}

(* gen: the fence; op and arg: the operation under way; turn: inside the   *)
(* Subject's execution; rejecting: inside reject_attempt; seen, base, refs: *)
(* the Run status, the last sequence and the evaluation refs it has read;  *)
(* calls: state.tool_calls; todo: calls still to be recorded as failed.    *)
Idle == [pc |-> "idle", gen |-> 0, op |-> None, arg |-> None, turn |-> FALSE,
         rejecting |-> FALSE, seen |-> None, base |-> 0, refs |-> FALSE,
         calls |-> 0, todo |-> {}]

WorkerState ==
    [pc: {"idle", "enter", "prepare", "inspect", "settle", "executing", "result",
          "close", "raised", "check", "read", "write"},
     gen: Nat, op: Appends \cup Settles \cup {None}, arg: Payload, turn: BOOLEAN,
     rejecting: BOOLEAN, seen: RunStatus \cup {None}, base: Nat, refs: BOOLEAN,
     calls: 0..(MaxToolCalls + 1), todo: SUBSET Calls]

AttemptRow == [worker: Workers, generation: Nat, status: AttemptStatus,
               expiresAt: {0, 1}]

TypeOK ==
    /\ job \in JobRow
    /\ attempts \in Seq(AttemptRow)
    /\ status \in RunStatus
    /\ events \in Seq([type: EventTypes, gen: Nat, arg: Payload])
    /\ {recoverable, supported} \subseteq BOOLEAN
    /\ wk \in [Workers -> WorkerState]
    /\ executions \in Nat
    /\ faults \in 0..MaxFaults

(* enqueue_run has committed the Run, run.queued and the job. *)
Init ==
    /\ job = QueuedJob(0)
    /\ attempts = << >>
    /\ status = "queued"
    /\ events = <<Event("run.queued", 0, None)>>
    /\ recoverable \in BOOLEAN
    /\ supported = TRUE
    /\ wk = [w \in Workers |-> Idle]
    /\ executions = 0
    /\ faults = 0

-----------------------------------------------------------------------------
(* Where an attempt goes next. *)
Goto(s, pc) == [s EXCEPT !.pc = pc]

Operate(s, op, arg) == [s EXCEPT !.pc = "check", !.op = op, !.arg = arg]

Close(s, type) == [s EXCEPT !.pc = "close", !.op = type, !.arg = None, !.turn = FALSE]

(* An operation returned: execute_attempt goes on. *)
Returned(s) ==
    CASE s.op = "run.preparing"        -> Goto(s, "inspect")
      [] s.op = "subject.invoked"      -> [s EXCEPT !.pc = "executing", !.turn = TRUE]
      [] s.op = "tool.called"          -> Goto(s, "result")
      [] s.op = "tool.completed"       -> Goto(s, "executing")
      [] s.op = "tool.denied"          -> IF s.calls > MaxToolCalls
                                          THEN Close(s, "run.budget_exhausted")
                                          ELSE Goto(s, "executing")
      [] s.op = "tool.failed"          -> IF s.turn THEN Close(s, "run.failed")
                                                    ELSE Goto(s, "settle")
      [] s.op = "subject.responded"    -> Operate(s, "evaluation.completed", s.arg)
      [] s.op = "evaluation.completed" -> Close(s, "run.completed")
      [] OTHER                         -> Idle

(* It raised: the handlers around the Subject's execution end the Run,     *)
(* process_once rejects the attempt, and an error while rejecting ends the *)
(* worker process.                                                         *)
Raised(s) ==
    IF s.rejecting THEN Idle
    ELSE IF s.turn THEN Close(s, "run.failed")
    ELSE Goto(s, "raised")

(* It raised OperationalError: process_once gives the lease back. *)
StorageFailed(s) ==
    IF s.rejecting \/ s.op = "release" THEN Idle
    ELSE IF s.turn THEN Close(s, "run.failed")
    ELSE Operate(s, "release", None)

Step(w, s) == wk' = [wk EXCEPT ![w] = s]

Reading(w, s) == Step(w, s) /\ UNCHANGED <<lease, ledger, world, executions, faults>>

(* A faulty variant: the lease is not checked. *)
HeldUnchecked(w) == wk[w].gen > 0

Held(w) ==
    /\ wk[w].gen > 0
    /\ ActiveLease(job, attempts[wk[w].gen],
                   [attempt |-> wk[w].gen, generation |-> wk[w].gen], w, 0)

Returns(w) ==
    /\ Step(w, Returned(wk[w]))
    /\ executions' = executions + IF wk[w].op = "subject.invoked" THEN 1 ELSE 0

-----------------------------------------------------------------------------
(* A faulty variant: leases never lapse. *)
LapsedNever == FALSE

Lapsed == job.status = "leased" /\ attempts[job.active].expiresAt = 0

(* claim_next_job: one immediate transaction.  The row is validated after  *)
(* the commit; an invalid one stays leased and ends the worker process.    *)
Claim(w) ==
    LET gen     == job.generation + 1
        swept   == IF Lapsed THEN [attempts EXCEPT ![job.active].status = "expired"]
                             ELSE attempts
        row     == LeasedRow(IF Lapsed THEN RequeuedRow(job, 0) ELSE job)
    IN
    /\ wk[w].pc = "idle"
    /\ job.status = "queued" \/ Lapsed
    /\ gen <= MaxAttempts
    /\ job' = row
    /\ attempts' = Append(swept, [worker |-> w, generation |-> gen,
                                  status |-> "leased", expiresAt |-> 1])
    /\ Step(w, IF ValidJob(row) THEN [Idle EXCEPT !.pc = "enter", !.gen = gen] ELSE Idle)
    /\ UNCHANGED <<ledger, world, executions, faults>>

(* execute_attempt up to prepare: the lease, a Run that is over, and       *)
(* _coherent_contracts.                                                    *)
Enter(w) ==
    /\ wk[w].pc = "enter"
    /\ Reading(w, IF ~Held(w) THEN Idle
                  ELSE IF status \in TerminalStatuses THEN Operate(wk[w], "complete", None)
                  ELSE IF supported THEN Goto(wk[w], "prepare")
                  ELSE Goto(wk[w], "raised"))

(* The Run has its SubjectEnvelope: prepare_run_execution inserts the row   *)
(* together with run.preparing.                                            *)
Prepared == Happened(events, "run.preparing")

Prepare(w) ==
    /\ wk[w].pc = "prepare"
    /\ Reading(w, IF status \notin LiveStatuses THEN Goto(wk[w], "raised")
                  ELSE IF Prepared THEN Goto(wk[w], "inspect")
                  ELSE Operate(wk[w], "run.preparing", None))

(* The response the ledger kept, if the capture policy kept its content. *)
PersistedOutput == events[CHOOSE i \in Of(events, {"subject.responded"}) : TRUE].arg

EvaluatePersisted(s) ==
    IF recoverable THEN Operate(s, "evaluation.completed", PersistedOutput)
                   ELSE Close(s, "run.failed")

(* A faulty variant: an open turn is invoked again. *)
InspectedReinvokes(s) ==
    IF status \in TerminalStatuses THEN {Operate(s, "complete", None)}
    ELSE IF Happened(events, "evaluation.completed") THEN {Close(s, "run.completed")}
    ELSE IF Happened(events, "subject.responded") THEN {EvaluatePersisted(s)}
    ELSE {Operate(s, "subject.invoked", None), Close(s, "run.budget_exhausted")}

(* The guards of execute_attempt after preparation, and resume_after_response. *)
Inspected(s) ==
    IF status \in TerminalStatuses THEN {Operate(s, "complete", None)}
    ELSE IF TurnOpen(events) THEN {[s EXCEPT !.pc = "settle", !.todo = OpenCalls(events)]}
    ELSE IF Happened(events, "evaluation.completed") THEN {Close(s, "run.completed")}
    ELSE IF Happened(events, "subject.responded") THEN {EvaluatePersisted(s)}
    ELSE {Operate(s, "subject.invoked", None), Close(s, "run.budget_exhausted")}

Inspect(w) ==
    /\ wk[w].pc = "inspect"
    /\ \E s \in Inspected(wk[w]) : Reading(w, s)

(* _fail_indeterminate_invocation *)
Settle(w) ==
    /\ wk[w].pc = "settle"
    /\ \/ /\ wk[w].todo = {}
          /\ Reading(w, Close(wk[w], "run.failed"))
       \/ \E c \in wk[w].todo :
             Reading(w, Operate([wk[w] EXCEPT !.todo = @ \ {c}], "tool.failed", c))

-----------------------------------------------------------------------------
(* The Subject's execution: it calls tools, answers, runs out of time or   *)
(* fails; a heartbeat that finds the lease lost cancels it.                *)
CallTool(w, c) ==
    /\ wk[w].pc = "executing"
    /\ Reading(w, Operate([wk[w] EXCEPT !.calls = @ + 1], "tool.called", c))

ToolReturns(w, result) ==
    /\ wk[w].pc = "result"
    /\ wk[w].calls > MaxToolCalls => result = "tool.denied"
    /\ Reading(w, Operate(wk[w], result, wk[w].arg))

Answer(w, o) ==
    /\ wk[w].pc = "executing"
    /\ Reading(w, Operate([wk[w] EXCEPT !.turn = FALSE], "subject.responded", o))

TurnFails(w, type) ==
    /\ wk[w].pc = "executing"
    /\ Reading(w, Close(wk[w], type))

HeartbeatLost(w) ==
    /\ wk[w].pc = "executing"
    /\ ~Held(w)
    /\ Reading(w, Idle)

-----------------------------------------------------------------------------
(* terminal and reject: what they read before append_event. *)
CloseRun(w) ==
    /\ wk[w].pc = "close"
    /\ Reading(w, IF status \in TerminalStatuses THEN Operate(wk[w], "complete", None)
                  ELSE IF ~Held(w) THEN Idle
                  ELSE [wk[w] EXCEPT !.pc = "check",
                                     !.refs = Happened(events, "evaluation.completed")])

RejectAttempt(w) ==
    LET s == [wk[w] EXCEPT !.rejecting = TRUE,
                           !.refs = Happened(events, "evaluation.completed")]
    IN
    /\ wk[w].pc = "raised"
    /\ Reading(w, IF ~Held(w) THEN Idle
                  ELSE IF status \in TerminalStatuses THEN Operate(s, "reject", None)
                  ELSE Operate(s, "run.failed", None))

-----------------------------------------------------------------------------
(* One fenced operation: check, read, write. *)
First(s) == Event(s.op, s.gen, s.arg)

Check(w) ==
    LET s == wk[w] IN
    /\ s.pc = "check"
    /\ UNCHANGED <<lease, ledger, world, faults>>
    /\ IF ~Held(w) \/ (s.op = "release" /\ TurnOpen(events))
       THEN Step(w, Idle) /\ UNCHANGED executions
       ELSE IF s.op \in Settles
       THEN Step(w, Goto(s, "write")) /\ UNCHANGED executions
       ELSE IF Replayed(events, First(s))
       THEN Returns(w)
       ELSE /\ Step(w, IF SameKey(events, First(s)) # {} THEN Raised(s)
                       ELSE [s EXCEPT !.pc = "read", !.seen = status])
            /\ UNCHANGED executions

Read(w) ==
    LET s == wk[w] IN
    /\ s.pc = "read"
    /\ Reading(w, IF Admissible(s.seen, events, First(s), s.refs)
                  THEN [s EXCEPT !.pc = "write", !.base = Len(events)]
                  ELSE Raised(s))

(* The events an operation appends, in one transaction. *)
PreparationEvents(s) == <<First(s), Event("context.composed", s.gen, None),
                          Event("run.running", s.gen, None)>>

(* A faulty variant: the phase advances without the response. *)
ResponseEventsPhaseOnly(s) == <<Event("run.evaluating", s.gen, None)>>

ResponseEvents(s) == <<First(s), Event("run.evaluating", s.gen, None)>>

Batch(s) ==
    CASE s.op = "run.preparing"     -> PreparationEvents(s)
      [] s.op = "subject.responded" -> ResponseEvents(s)
      [] OTHER                      -> <<First(s)>>

(* Faulty variants: no UNIQUE constraint on the operation key, and a       *)
(* terminal event that leaves the job row alone.                           *)
ConflictPositionOnly(s) == Len(events) # s.base

SettledRowUntouched(s) == job

Conflict(s) == Len(events) # s.base \/ SameKey(events, First(s)) # {}

SettledAs(s) == IF s.rejecting THEN "rejected" ELSE "completed"

SettledRow(s) == IF s.rejecting THEN RejectedRow(job) ELSE CompletedRow(job)

AppendEvents(w) ==
    LET s == wk[w] IN
    /\ s.pc = "write"
    /\ s.op \in Appends
    /\ ~Conflict(s)
    /\ s.op \in TerminalEvents => Held(w)
    /\ events' = events \o Batch(s)
    /\ status' = NextStatus(status, Batch(s)[Len(Batch(s))].type)
    /\ IF s.op \in TerminalEvents
       THEN /\ attempts' = [attempts EXCEPT ![s.gen].status = SettledAs(s)]
            /\ job' = SettledRow(s)
       ELSE UNCHANGED lease
    /\ Returns(w)
    /\ UNCHANGED <<world, faults>>

AppendRefused(w) ==
    LET s == wk[w] IN
    /\ s.pc = "write"
    /\ s.op \in Appends
    /\ Conflict(s) \/ (s.op \in TerminalEvents /\ ~Held(w))
    /\ Reading(w, IF Conflict(s) THEN Raised(s) ELSE Idle)

SettleLease(w) ==
    LET s == wk[w] IN
    /\ s.pc = "write"
    /\ s.op \in Settles
    /\ job' = CASE s.op = "release"  -> RequeuedRow(job, 0)
                [] s.op = "reject"   -> RejectedRow(job)
                [] s.op = "complete" -> CompletedRow(job)
    /\ attempts' = [attempts EXCEPT ![s.gen].status =
                       CASE s.op = "release"  -> "released"
                         [] s.op = "reject"   -> "rejected"
                         [] s.op = "complete" -> "completed"]
    /\ Step(w, Idle)
    /\ UNCHANGED <<ledger, world, executions, faults>>

-----------------------------------------------------------------------------
(* Faults.  A storage error can meet any database access of an attempt. *)
Fault == faults < MaxFaults /\ faults' = faults + 1

Crash(w) ==
    /\ Fault
    /\ wk[w].pc # "idle"
    /\ Step(w, Idle)
    /\ UNCHANGED <<lease, ledger, world, executions>>

StorageError(w) ==
    /\ Fault
    /\ wk[w].pc \notin {"idle", "executing", "result"}
    /\ Step(w, StorageFailed(wk[w]))
    /\ UNCHANGED <<lease, ledger, world, executions>>

Owner(w) == wk[w].pc # "idle" /\ wk[w].gen = job.active

Expire ==
    /\ job.status = "leased"
    /\ attempts' = [attempts EXCEPT ![job.active].expiresAt = 0]
    /\ UNCHANGED <<job, ledger, world, wk, executions>>

(* The lease of an attempt whose process is gone lapses. *)
LapseAbandoned ==
    /\ ~Lapsed
    /\ \A w \in Workers : ~Owner(w)
    /\ Expire
    /\ UNCHANGED faults

(* The lease of a live attempt lapses: its heartbeat came too late. *)
LapseUntimely ==
    /\ Fault
    /\ ~Lapsed
    /\ \E w \in Workers : Owner(w) /\ (Stalls \/ wk[w].pc \notin {"read", "write"})
    /\ Expire

Upgrade ==
    /\ Upgrades
    /\ supported
    /\ supported' = FALSE
    /\ UNCHANGED <<lease, ledger, recoverable, wk, executions, faults>>

-----------------------------------------------------------------------------
(* What a worker process does when nothing goes wrong. *)
Work(w) ==
    \/ Claim(w)
    \/ Enter(w)
    \/ Prepare(w)
    \/ Inspect(w)
    \/ Settle(w)
    \/ \E c \in Calls : CallTool(w, c)
    \/ \E r \in ToolResults : ToolReturns(w, r)
    \/ \E o \in Outputs : Answer(w, o)
    \/ \E type \in {"run.budget_exhausted", "run.failed"} : TurnFails(w, type)
    \/ HeartbeatLost(w)
    \/ CloseRun(w)
    \/ RejectAttempt(w)
    \/ Check(w)
    \/ Read(w)
    \/ AppendEvents(w)
    \/ AppendRefused(w)
    \/ SettleLease(w)

Next ==
    \/ \E w \in Workers : Work(w) \/ Crash(w) \/ StorageError(w)
    \/ LapseAbandoned
    \/ LapseUntimely
    \/ Upgrade

Spec == Init /\ [][Next]_vars

(* A worker process is restarted when it dies and keeps working; the lease *)
(* of a dead one runs out.                                                 *)
FairSpec ==
    /\ Spec
    /\ \A w \in Workers : WF_vars(Work(w))
    /\ WF_vars(LapseAbandoned)

-----------------------------------------------------------------------------
(* The status that the events of the ledger lead to. *)
ReplayedStatus ==
    LET moves == {i \in DOMAIN events : Transition(events[i].type) # None}
    IN IF moves = {} THEN "queued"
       ELSE Transition(events[CHOOSE i \in moves : \A j \in moves : j <= i].type)

(* The three tables agree in every state a crash can leave: runs.status is  *)
(* what the ledger replays to (_persist_event, store.py:404-478), and the   *)
(* job is finished exactly when the Run is, because a terminal event and    *)
(* the settlement of the lease commit together.                             *)
TablesAgree ==
    /\ TypeOK
    /\ status = ReplayedStatus
    /\ job.finished <=> status \in TerminalStatuses

(* The ledger of an ended Run is closed: nothing follows its terminal event *)
(* (_validate_phase, store.py:334-335), and no tool call is left without an *)
(* outcome (check_terminal_event, lifecycle.py:181-191).                    *)
EndedLedgerIsClosed ==
    \A i \in Of(events, TerminalEvents) : i = Len(events) /\ OpenCalls(events) = {}

(* At most one terminal event, one invocation, one response and one         *)
(* evaluation, whatever attempts overlapped (operation_key).                *)
OncePerRun ==
    /\ Cardinality(Of(events, TerminalEvents)) <= 1
    /\ \A t \in {"subject.invoked", "subject.responded", "evaluation.completed"} :
          Count(events, t) <= 1

(* A newer attempt's events are never followed by an older attempt's: the   *)
(* ledger is written by one attempt at a time.                              *)
GenerationsInOrder ==
    \A i, j \in DOMAIN events : i < j => events[i].gen <= events[j].gen

(* A completed Run has a response, and its evaluation graded exactly that   *)
(* response, even if another attempt computed it.                           *)
CompletedIsEvidenced ==
    /\ status = "completed" => Happened(events, "evaluation.completed")
    /\ \A i \in Of(events, {"evaluation.completed"}) :
          \E j \in Of(events, {"subject.responded"}) :
             j < i /\ events[j].arg = events[i].arg

(* Every queued Run ends.                                                   *)
RunEnds == <>(status \in TerminalStatuses)

(* Executing a Run across workers, crashes and takeovers implements the     *)
(* sequential life of RunLifecycle; the Subject is executed at most once    *)
(* (execute_attempt, attempt.py:1-13, ADR 0014).                            *)
Phase ==
    IF Happened(events, "evaluation.completed") THEN "graded"
    ELSE IF Happened(events, "subject.responded") THEN "answered"
    ELSE IF Happened(events, "subject.invoked") THEN "invoked"
    ELSE IF Happened(events, "run.running") THEN "ready"
    ELSE "queued"

Lifecycle == INSTANCE RunLifecycle WITH
    phase <- Phase,
    outcome <- IF status \in TerminalStatuses THEN status ELSE None,
    executions <- executions

ImplementsLifecycle == Lifecycle!Spec
=============================================================================
