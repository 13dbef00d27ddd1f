------------------------------ MODULE LabTurn ------------------------------
(***************************************************************************)
(* The turns of one Lab session (lab/session, lab/loop, lab/serving): a    *)
(* human message starts a turn, the loop asks the provider, serves the     *)
(* tool calls of its response and asks again, until a terminal ends it.    *)
(*                                                                         *)
(* All turns run as tasks of one event loop.  A turn gives the loop up     *)
(* only while it waits for the provider ("asking"); everything between     *)
(* two waits runs without another turn in between (Free), but every write  *)
(* is a transaction of its own, and the process may stop between two.      *)
(*                                                                         *)
(* A tool call is [tool, doc].  doc is what the checks tell apart in the   *)
(* arguments: a document, or Malformed for arguments the schema refuses.   *)
(* The calls of one response are chosen one at a time while they are       *)
(* served; the budgets bound how many there can be.                        *)
(***************************************************************************)
EXTENDS Naturals, Sequences, FiniteSets, Bags

CONSTANTS Turns,        \* the turns that people start in the session
          Docs,         \* the documents a draft may have
          MaxToolCalls, MaxRoundTrips, MaxRefusals,    \* TurnLimits
          MaxCrashes    \* bound: how often the API process stops

ASSUME LimitsAssumption ==
    /\ MaxToolCalls \in Nat \ {0}
    /\ MaxRoundTrips \in Nat \ {0}
    /\ MaxRefusals \in Nat \ {0}
    /\ MaxCrashes \in Nat

VARIABLES messages,      \* chat_messages in order of sequence: [role, turn]
          instructions,  \* turn_sequence of the lab_turn_instructions rows
          traces,        \* bag of lab_tool_traces rows
          drafts,        \* the documents registered as draft revisions
          asked,         \* the drafts whose status is proposed
          turn,          \* the LabTurnState of every turn and where it is
          late,          \* the turns past max_wall_seconds_per_turn
          gone,          \* the turns whose client was seen to disconnect
          crashes

vars == <<messages, instructions, traces, drafts, asked, turn, late, gone, crashes>>

None == "none"

Malformed == "malformed"

Offered == {"read", "validate_draft", "propose_draft", "request_human_approval"}

(* One malformed call and one of a tool that is not offered stand for all: *)
(* neither gets as far as a tool.                                          *)
Calls == [tool : Offered, doc : Docs]
         \cup {[tool |-> "read", doc |-> Malformed], [tool |-> "unknown", doc |-> Malformed]}

Steps == {"idle", "prepare", "loop", "asking", "serving", "served", "executed",
          "storing", "ended"}

Complete == {"answered", "proposed"}

Terminals == Complete \cup {"budget_exhausted", "repeated_refusal", "provider_failed",
                            "cancelled"}

Budgets == {"tool_calls", "round_trips", "wall_seconds", "refusals"}

NoResult == [call |-> [tool |-> None, doc |-> None], outcome |-> None]

Fresh == [pc |-> "idle", human |-> 0, seq |-> 0, trips |-> 0, calls |-> 0, refusals |-> 0,
          digests |-> {}, open |-> 0, validated |-> {}, proposed |-> FALSE,
          last |-> NoResult, terminal |-> None, budget |-> None]

Init ==
    /\ messages = <<>>
    /\ instructions = {}
    /\ traces = EmptyBag
    /\ drafts = {}
    /\ asked = {}
    /\ turn = [t \in Turns |-> Fresh]
    /\ late = {}
    /\ gone = {}
    /\ crashes = 0

-----------------------------------------------------------------------------
(* The event loop is free: no turn is between two waits. *)
Free == \A t \in Turns : turn[t].pc \in {"idle", "asking", "ended"}

(* No other turn is between two waits. *)
Holds(t) == \A u \in Turns \ {t} : turn[u].pc \in {"idle", "asking", "ended"}

Trace(t, seq, call, outcome, code) ==
    [turn |-> t, seq |-> seq, call |-> call, outcome |-> outcome, code |-> code]

Traced(row) == traces' = traces (+) SetToBag({row})

(* The turn after the terminal name, for the budget that was reached. *)
Ended(state, name, budget) ==
    [state EXCEPT !.pc = "ended", !.terminal = name, !.budget = budget, !.last = NoResult]

(* A faulty variant: one call too many. *)
ToolCallDeniedLate(attempted) == attempted > MaxToolCalls + 1

(* TurnBudgetGuard. *)
ToolCallDenied(attempted) == attempted > MaxToolCalls

RoundTripDenied(completed) == completed >= MaxRoundTrips

RefusalExhausted(recorded) == recorded >= MaxRefusals

(* run_turn: the human message is stored first. *)
Start(t) ==
    /\ turn[t].pc = "idle"
    /\ Free
    /\ messages' = Append(messages, [role |-> "human", turn |-> t])
    /\ turn' = [turn EXCEPT ![t].pc = "prepare", ![t].human = Len(messages')]
    /\ UNCHANGED <<instructions, traces, drafts, asked, late, gone, crashes>>

(* _prepare reads the history, whose last sequence numbers the traces of   *)
(* the turn; the instruction is stored under that of the human message.    *)
Prepare(t) ==
    /\ turn[t].pc = "prepare"
    /\ instructions' = instructions \cup {turn[t].human}
    /\ turn' = [turn EXCEPT ![t].pc = "loop", ![t].seq = Len(messages)]
    /\ UNCHANGED <<messages, traces, drafts, asked, late, gone, crashes>>

(* The head of the loop: cancellation, wall time and round trips, in this  *)
(* order, and then the request to the provider.                            *)
Boundary(t) ==
    /\ turn[t].pc = "loop"
    /\ turn' = [turn EXCEPT ![t] =
          CASE t \in gone                         -> Ended(@, "cancelled", None)
            [] t \notin gone /\ t \in late        -> Ended(@, "budget_exhausted", "wall_seconds")
            [] t \notin gone /\ t \notin late
               /\ RoundTripDenied(@.trips)       -> Ended(@, "budget_exhausted", "round_trips")
            [] OTHER                              -> [@ EXCEPT !.pc = "asking"]]
    /\ UNCHANGED <<messages, instructions, traces, drafts, asked, late, gone, crashes>>

-----------------------------------------------------------------------------
Counted(state) == [state EXCEPT !.trips = @ + 1]

(* A faulty variant: an unusable response is asked for again. *)
ProviderFailsAsksAgain(t) ==
    /\ turn[t].pc = "asking"
    /\ Holds(t)
    /\ turn' = [turn EXCEPT ![t].pc = "loop"]
    /\ UNCHANGED <<messages, instructions, traces, drafts, asked, late, gone, crashes>>

(* The provider fails, before or after its response was counted, or the    *)
(* response has neither tool calls nor text.                               *)
ProviderFails(t) ==
    /\ turn[t].pc = "asking"
    /\ Holds(t)
    /\ \E state \in {turn[t], Counted(turn[t])} :
          turn' = [turn EXCEPT ![t] = Ended(state, "provider_failed", None)]
    /\ UNCHANGED <<messages, instructions, traces, drafts, asked, late, gone, crashes>>

(* The response is a text: a complete terminal, and the answer is stored   *)
(* next.                                                                   *)
ProviderAnswers(t) ==
    /\ turn[t].pc = "asking"
    /\ Holds(t)
    /\ turn' = [turn EXCEPT ![t] =
          [Ended(Counted(@), IF @.proposed THEN "proposed" ELSE "answered", None)
             EXCEPT !.pc = "storing"]]
    /\ UNCHANGED <<messages, instructions, traces, drafts, asked, late, gone, crashes>>

(* The response has at least one tool call. *)
ProviderCalls(t) ==
    /\ turn[t].pc = "asking"
    /\ Holds(t)
    /\ turn' = [turn EXCEPT ![t] = [Counted(@) EXCEPT !.pc = "serving"]]
    /\ UNCHANGED <<messages, instructions, traces, drafts, asked, late, gone, crashes>>

(* execute_turn after the loop returned a complete terminal. *)
StoreAnswer(t) ==
    /\ turn[t].pc = "storing"
    /\ messages' = Append(messages, [role |-> "agent", turn |-> t])
    /\ turn' = [turn EXCEPT ![t].pc = "ended"]
    /\ UNCHANGED <<instructions, traces, drafts, asked, late, gone, crashes>>
-----------------------------------------------------------------------------
(* A faulty variant: a repeated refusal is not recognised. *)
RefusedForgets(t, state, call, code) ==
    LET next == [state EXCEPT !.refusals = @ + 1, !.open = @ - 1]
    IN /\ Traced(Trace(t, state.seq, call, "refused", code))
       /\ turn' = [turn EXCEPT ![t] =
             IF RefusalExhausted(next.refusals)
             THEN Ended(next, "budget_exhausted", "refusals")
             ELSE [next EXCEPT !.pc = "served"]]

(* refuse_and_maybe_terminate: the refusal is traced and returned to the   *)
(* model; an exact repetition ends the turn, and so does the last refusal  *)
(* the budget allows.                                                      *)
Refused(t, state, call, code) ==
    LET repeated == <<call, code>> \in state.digests
        next == [state EXCEPT !.refusals = @ + 1, !.digests = @ \cup {<<call, code>>},
                              !.open = @ - 1]
    IN /\ Traced(Trace(t, state.seq, call, "refused", code))
       /\ turn' = [turn EXCEPT ![t] =
             CASE repeated -> Ended(next, "repeated_refusal", None)
               [] ~repeated /\ RefusalExhausted(next.refusals)
                           -> Ended(next, "budget_exhausted", "refusals")
               [] OTHER    -> [next EXCEPT !.pc = "served"]]

(* _deny_budget: the denial is traced, then the turn ends. *)
Denied(t, state, call, budget) ==
    /\ Traced(Trace(t, state.seq, call, "refused", budget))
    /\ turn' = [turn EXCEPT ![t] = Ended(state, "budget_exhausted", budget)]

(* The tool ran; its result waits for the trace. *)
Ran(t, state, call, outcome) ==
    /\ turn' = [turn EXCEPT ![t] =
          [state EXCEPT !.pc = "executed", !.last = [call |-> call, outcome |-> outcome]]]
    /\ traces' = traces

(* Reading changes nothing; what the session may not see is refused. *)
Read(t, state, call) ==
    /\ \/ \E outcome \in {"completed", "failed"} : Ran(t, state, call, outcome)
       \/ Refused(t, state, call, "target_not_visible")
    /\ UNCHANGED <<drafts, asked>>

(* validate_draft remembers the document for the rest of the turn. *)
Validate(t, state, call) ==
    /\ \/ Ran(t, [state EXCEPT !.validated = @ \cup {call.doc}], call, "completed")
       \/ Ran(t, state, call, "failed")
       \/ Refused(t, state, call, "validation_failed")
    /\ UNCHANGED <<drafts, asked>>

(* A faulty variant: the document need not have been validated. *)
ProposeUnchecked(t, state, call) ==
    /\ drafts' = drafts \cup {call.doc}
    /\ Ran(t, state, call, "completed")
    /\ asked' = asked

(* propose_draft uses the validation up; the document may have become      *)
(* invalid since, and storing it may fail before or after it is stored.    *)
Propose(t, state, call) ==
    LET used == [state EXCEPT !.validated = @ \ {call.doc}]
    IN /\ \/ /\ call.doc \notin state.validated
             /\ Refused(t, state, call, "not_validated")
             /\ drafts' = drafts
          \/ /\ call.doc \in state.validated
             /\ Refused(t, used, call, "validation_failed")
             /\ drafts' = drafts
          \/ /\ call.doc \in state.validated
             /\ drafts' = drafts \cup {call.doc}
             /\ \E outcome \in {"completed", "failed"} : Ran(t, used, call, outcome)
          \/ /\ call.doc \in state.validated
             /\ drafts' = drafts
             /\ Ran(t, used, call, "failed")
       /\ asked' = asked

(* request_human_approval moves a draft to proposed; a draft that does not *)
(* exist, was decided by a person or is proposed already is refused.       *)
RequestApproval(t, state, call) ==
    /\ \/ /\ call.doc \notin drafts
          /\ Refused(t, state, call, "target_not_visible")
          /\ asked' = asked
       \/ /\ call.doc \in drafts
          /\ Refused(t, state, call, "decision_required")
          /\ asked' = asked
       \/ /\ call.doc \in asked
          /\ Refused(t, state, call, "effect_forbidden")
          /\ asked' = asked
       \/ /\ call.doc \in drafts \ asked
          /\ asked' = asked \cup {call.doc}
          /\ Ran(t, state, call, "completed")
       \/ /\ call.doc \in drafts
          /\ Ran(t, state, call, "failed")
          /\ asked' = asked
    /\ drafts' = drafts

Execute(t, state, call) ==
    CASE call.tool = "read"                   -> Read(t, state, call)
      [] call.tool = "validate_draft"         -> Validate(t, state, call)
      [] call.tool = "propose_draft"          -> Propose(t, state, call)
      [] call.tool = "request_human_approval" -> RequestApproval(t, state, call)

(* serve, for one call: catalogue, budgets, schema and then the tool. *)
Serve(t, call) ==
    LET state == [turn[t] EXCEPT !.open = @ + 1]
        tried == [state EXCEPT !.calls = @ + 1]
    IN /\ turn[t].pc \in {"serving", "served"}
       /\ CASE call.tool \notin Offered ->
                  Refused(t, state, call, "catalog") /\ UNCHANGED <<drafts, asked>>
            [] call.tool \in Offered /\ ToolCallDenied(tried.calls) ->
                  Denied(t, tried, call, "tool_calls") /\ UNCHANGED <<drafts, asked>>
            [] call.tool \in Offered /\ ~ToolCallDenied(tried.calls) /\ t \in late ->
                  Denied(t, tried, call, "wall_seconds") /\ UNCHANGED <<drafts, asked>>
            [] call.tool \in Offered /\ ~ToolCallDenied(tried.calls) /\ t \notin late
               /\ call.doc = Malformed ->
                  Refused(t, tried, call, "schema") /\ UNCHANGED <<drafts, asked>>
            [] OTHER -> Execute(t, tried, call)
       /\ UNCHANGED <<messages, instructions, late, gone, crashes>>

(* _execute after the tool returned or raised: the trace, the output, and  *)
(* only then the look at the cancellation.                                 *)
Record(t) ==
    LET state == turn[t]
        done  == [state EXCEPT !.last = NoResult, !.open = @ - 1, !.pc = "served",
                               !.proposed = @ \/ state.last.call.tool = "propose_draft"]
    IN /\ state.pc = "executed"
       /\ Traced(Trace(t, state.seq, state.last.call, state.last.outcome, None))
       /\ turn' = [turn EXCEPT ![t] =
             CASE state.last.outcome = "failed" -> Ended(state, "provider_failed", None)
               [] state.last.outcome = "completed" /\ t \in gone
                                                -> Ended(done, "cancelled", None)
               [] OTHER                         -> done]
       /\ UNCHANGED <<messages, instructions, drafts, asked, late, gone, crashes>>

(* The last call of the response was served. *)
Continue(t) ==
    /\ turn[t].pc = "served"
    /\ turn' = [turn EXCEPT ![t].pc = "loop"]
    /\ UNCHANGED <<messages, instructions, traces, drafts, asked, late, gone, crashes>>

-----------------------------------------------------------------------------
(* observe_disconnect sees that the client of the turn has left. *)
Disconnect(t) ==
    /\ turn[t].pc = "asking"
    /\ Free
    /\ gone' = gone \cup {t}
    /\ UNCHANGED <<messages, instructions, traces, drafts, asked, turn, late, crashes>>

(* A faulty variant: the answer of a cancelled task is stored. *)
AbandonStores(t) ==
    /\ turn[t].pc = "asking"
    /\ Free
    /\ messages' = Append(messages, [role |-> "agent", turn |-> t])
    /\ turn' = [turn EXCEPT ![t] = Ended(@, None, None)]
    /\ UNCHANGED <<instructions, traces, drafts, asked, late, gone, crashes>>

(* The response stream is closed while the provider works: run_turn        *)
(* cancels the task, which ends without a terminal.                        *)
Abandon(t) ==
    /\ turn[t].pc = "asking"
    /\ Free
    /\ turn' = [turn EXCEPT ![t] = Ended(@, None, None)]
    /\ UNCHANGED <<messages, instructions, traces, drafts, asked, late, gone, crashes>>

(* The monotonic clock passes the limit of the turn. *)
WallPasses(t) ==
    /\ turn[t].pc \notin {"idle", "prepare", "ended"}
    /\ late' = late \cup {t}
    /\ UNCHANGED <<messages, instructions, traces, drafts, asked, turn, gone, crashes>>

(* The API process stops: every turn it was running is over. *)
Crash ==
    /\ crashes < MaxCrashes
    /\ crashes' = crashes + 1
    /\ turn' = [t \in Turns |->
          IF turn[t].pc \in {"idle", "ended"} THEN turn[t]
          ELSE [turn[t] EXCEPT !.pc = "ended", !.last = NoResult, !.terminal = None]]
    /\ UNCHANGED <<messages, instructions, traces, drafts, asked, late, gone>>

Work(t) ==
    \/ Prepare(t)
    \/ Boundary(t)
    \/ ProviderFails(t)
    \/ ProviderAnswers(t)
    \/ ProviderCalls(t)
    \/ StoreAnswer(t)
    \/ \E call \in Calls : Serve(t, call)
    \/ Record(t)
    \/ Continue(t)

Next ==
    \/ \E t \in Turns : Start(t)
    \/ \E t \in Turns : Work(t)
    \/ \E t \in Turns : Disconnect(t)
    \/ \E t \in Turns : Abandon(t)
    \/ \E t \in Turns : WallPasses(t)
    \/ Crash

Spec == Init /\ [][Next]_vars

(* The event loop runs every task that can run, and the provider, which    *)
(* has a timeout of its own, answers or fails.                             *)
FairSpec == Spec /\ \A t \in Turns : WF_vars(Work(t))
-----------------------------------------------------------------------------
Rows(t) == {row \in BagToSet(traces) : row.turn = t}

(* How many trace rows are among these. *)
Number(rows) == BagCardinality([row \in rows |-> CopiesIn(row, traces)])

Refusals(t) == {row \in Rows(t) : row.outcome = "refused"}

Said(role, t) == {i \in DOMAIN messages : messages[i] = [role |-> role, turn |-> t]}

(* Types, and: a turn that waits for a trace knows which call it ran, and  *)
(* a turn that a budget ended names that budget.                           *)
TypeOK ==
    /\ messages \in Seq([role : {"human", "agent"}, turn : Turns])
    /\ instructions \subseteq 1..Len(messages)
    /\ IsABag(traces)
    /\ drafts \subseteq Docs
    /\ asked \subseteq drafts
    /\ late \subseteq Turns
    /\ gone \subseteq Turns
    /\ crashes \in 0..MaxCrashes
    /\ \A t \in Turns :
          /\ turn[t].pc \in Steps
          /\ turn[t].terminal \in Terminals \cup {None}
          /\ turn[t].budget \in Budgets \cup {None}
          /\ (turn[t].pc = "executed") <=> (turn[t].last # NoResult)
          /\ (turn[t].terminal = "budget_exhausted") <=> (turn[t].budget # None)

(* No sequence of responses makes a turn run more tools, ask the provider  *)
(* more often or be refused more often than its limits allow: the calls    *)
(* the loop refuses before the budget (catalogue) are bounded as well      *)
(* (TurnBudgetGuard as loop and serving use it).                           *)
WithinBudgets ==
    /\ TypeOK
    /\ \A t \in Turns :
        /\ turn[t].trips <= MaxRoundTrips
        /\ Number(Rows(t) \ Refusals(t)) <= MaxToolCalls
        /\ Number(Refusals(t)) <= MaxRefusals + 1

(* Every refusal is in the trace, the denial that ends the turn included:  *)
(* the rows of a turn account for its refusals, plus one if a budget that  *)
(* is checked before a tool ended it while calls were being served.  And   *)
(* an exact repetition of a refused call ends the turn: a turn that goes   *)
(* on was never refused the same call twice for the same reason (_refuse   *)
(* and refusal_digests).                                                   *)
RefusalsAreTraced ==
    \A t \in Turns :
        /\ Number(Refusals(t)) >= turn[t].refusals
        /\ turn[t].budget = "tool_calls" => \E row \in Refusals(t) : row.code = "tool_calls"
        /\ Number(Refusals(t)) > turn[t].refusals =>
              turn[t].budget \in {"tool_calls", "wall_seconds"}
        /\ \A row \in Refusals(t) : CopiesIn(row, traces) > 1 =>
              /\ CopiesIn(row, traces) = 2 /\ turn[t].pc = "ended"
              /\ turn[t].terminal \in {"repeated_refusal", None}

(* A registered draft was validated before, in a call that is traced       *)
(* (consume_draft_validation).                                             *)
DraftsWereValidated ==
    \A doc \in drafts : \E row \in BagToSet(traces) :
        /\ row.outcome = "completed"
        /\ row.call = [tool |-> "validate_draft", doc |-> doc]

(* What a turn leaves behind is whole.  Whenever the transcript is sent to *)
(* the provider, every function_call in it has its function_call_output,   *)
(* whichever way the earlier calls went (serve, _execute and _refuse       *)
(* append the two apart).  The session has the answer of a turn exactly if *)
(* the turn ended in a complete terminal, once, and after its question; a  *)
(* turn cut short by a budget, a failure, a cancellation or a stop of the  *)
(* process leaves no agent message (execute_turn in run_turn).             *)
AnswersAreWhole ==
    \A t \in Turns :
        /\ turn[t].pc \in {"loop", "asking"} => turn[t].open = 0
        /\ Cardinality(Said("agent", t)) =
              IF turn[t].pc = "ended" /\ turn[t].terminal \in Complete THEN 1 ELSE 0
        /\ \A i \in Said("agent", t) : \E j \in Said("human", t) : j < i

(* Whatever the provider keeps asking for, every turn comes to an end: a  *)
(* call outside the catalogue uses no budget of tool calls, the budget of   *)
(* refusals ends a turn that makes nothing else (serve, TurnBudgetGuard).   *)
TurnEnds == \A t \in Turns : turn[t].pc = "prepare" ~> turn[t].pc = "ended"
=============================================================================
