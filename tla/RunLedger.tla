----------------------------- MODULE RunLedger -----------------------------
(***************************************************************************)
(* The rules of a Run's event ledger (infrastructure/database/ledger) as   *)
(* operators on the sequence of its events: which status an event leads    *)
(* to, which events may follow which, and what a terminal event requires.  *)
(*                                                                         *)
(* An event is [type, gen, arg].  gen is the lease generation of the       *)
(* attempt that wrote it (0 for enqueue_run); the program does not store   *)
(* it, the properties need it.  arg is what the checks tell apart in the   *)
(* payload: the call id of a tool event, the output of subject.responded   *)
(* and the output an evaluation.completed record graded.                   *)
(***************************************************************************)
EXTENDS Naturals, Sequences, FiniteSets

None == "none"

TerminalStatuses == {"completed", "failed", "cancelled", "budget_exhausted",
                     "guardrail_stopped"}

LiveStatuses == {"queued", "preparing", "running", "evaluating"}

RunStatus == LiveStatuses \cup TerminalStatuses

TerminalEvents == {"run.completed", "run.failed", "run.cancelled",
                   "run.budget_exhausted", "run.guardrail_stopped"}

ToolResults == {"tool.completed", "tool.denied", "tool.failed"}

ToolEvents == ToolResults \cup {"tool.called"}

EventTypes == {"run.queued", "run.preparing", "context.composed", "run.running",
               "subject.invoked", "subject.responded", "run.evaluating",
               "evaluation.completed"} \cup ToolEvents \cup TerminalEvents

Event(type, gen, arg) == [type |-> type, gen |-> gen, arg |-> arg]

(* event_transition: the statuses an event may be appended in and the      *)
(* status it leads to; the events outside this table leave it alone.       *)
Transition(type) ==
    CASE type = "run.preparing"         -> "preparing"
      [] type = "run.running"           -> "running"
      [] type = "run.evaluating"        -> "evaluating"
      [] type = "run.completed"         -> "completed"
      [] type = "run.failed"            -> "failed"
      [] type = "run.cancelled"         -> "cancelled"
      [] type = "run.budget_exhausted"  -> "budget_exhausted"
      [] type = "run.guardrail_stopped" -> "guardrail_stopped"
      [] OTHER                          -> None

NextStatus(status, type) ==
    IF Transition(type) = None THEN status ELSE Transition(type)

(* The statuses that event_transition and EVENT_ALLOWED_RUN_STATUSES allow. *)
AllowedIn(type) ==
    CASE type = "run.preparing"                               -> {"queued"}
      [] type \in {"context.composed", "run.running"}         -> {"preparing"}
      [] type \in {"subject.invoked", "subject.responded",
                   "run.evaluating"} \cup ToolEvents          -> {"running"}
      [] type \in {"evaluation.completed", "run.completed"}   -> {"evaluating"}
      [] type \in TerminalEvents \ {"run.completed"}          -> LiveStatuses
      [] OTHER                                                -> {}

-----------------------------------------------------------------------------
Of(events, types) == {i \in DOMAIN events : events[i].type \in types}

Count(events, type) == Cardinality(Of(events, {type}))

Happened(events, type) == Of(events, {type}) # {}

(* One Subject turn is open: invoked and not yet answered. *)
TurnOpen(events) ==
    Count(events, "subject.invoked") > Count(events, "subject.responded")

CallIds(events, types) == {events[i].arg : i \in Of(events, types)}

OpenCalls(events) == CallIds(events, {"tool.called"}) \ CallIds(events, ToolResults)

(* operation_key: one per event type, one per call and type for the tool   *)
(* events, and a single one for all the terminal events.                   *)
Key(e) ==
    CASE e.type \in TerminalEvents -> <<"run:terminal">>
      [] e.type \in ToolEvents     -> <<e.type, e.arg>>
      [] OTHER                     -> <<e.type>>

SameKey(events, e) == {i \in DOMAIN events : Key(events[i]) = Key(e)}

(* Every evaluation makes a record with a new id, so the payloads of two   *)
(* attempts never agree.                                                   *)
SameRecord(e, f) == e.type = "evaluation.completed" => e.gen = f.gen

(* The existing event with this operation key has the same payload. *)
Replayed(events, e) ==
    \E i \in SameKey(events, e) :
        /\ events[i].type = e.type
        /\ events[i].arg = e.arg
        /\ SameRecord(e, events[i])

(* A faulty variant: a terminal event does not ask for closed tool calls. *)
AdmissibleOpenCalls(status, events, e, refs) ==
    /\ status \in AllowedIn(e.type)
    /\ e.type = "subject.invoked" => ~TurnOpen(events)
    /\ e.type \in ToolEvents \cup {"subject.responded"} => TurnOpen(events)
    /\ e.type = "tool.called" => e.arg \notin CallIds(events, {"tool.called"})
    /\ e.type \in ToolResults => e.arg \in OpenCalls(events)
    /\ e.type = "run.evaluating" => Happened(events, "subject.responded")
    /\ e.type \in TerminalEvents => refs = Happened(events, "evaluation.completed")
    /\ e.type = "run.completed" => Happened(events, "subject.responded") /\ refs

(* _validate_phase and the family checks, on a status read earlier and the *)
(* prior events read now; refs says whether the payload of a terminal      *)
(* event references the evaluation record.                                 *)
Admissible(status, events, e, refs) ==
    /\ status \in AllowedIn(e.type)
    /\ e.type = "subject.invoked" => ~TurnOpen(events)
    /\ e.type \in ToolEvents \cup {"subject.responded"} => TurnOpen(events)
    /\ e.type = "tool.called" => e.arg \notin CallIds(events, {"tool.called"})
    /\ e.type \in ToolResults => e.arg \in OpenCalls(events)
    /\ e.type = "run.evaluating" => Happened(events, "subject.responded")
    /\ e.type \in TerminalEvents =>
          /\ refs = Happened(events, "evaluation.completed")
          /\ OpenCalls(events) = {}
    /\ e.type = "run.completed" => Happened(events, "subject.responded") /\ refs
=============================================================================
