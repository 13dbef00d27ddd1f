---------------------------- MODULE RunLifecycle ----------------------------
(***************************************************************************)
(* What the execution of a Run promises, whoever executes it: the Run is   *)
(* prepared once, its Subject is executed at most once, at most one answer *)
(* is kept and graded, and it ends with one outcome that fits how far it   *)
(* got.                                                                    *)
(***************************************************************************)
EXTENDS Naturals

VARIABLES
    phase,          \* how far the evidence of the Run got
    outcome,        \* its terminal status, "none" while it is live
    executions      \* how many times its Subject was executed

vars == <<phase, outcome, executions>>

Init == phase = "queued" /\ outcome = "none" /\ executions = 0

Advance(from, to) ==
    /\ outcome = "none"
    /\ phase = from
    /\ phase' = to
    /\ UNCHANGED outcome

Prepare == Advance("queued", "ready") /\ UNCHANGED executions

Execute == Advance("ready", "invoked") /\ executions' = executions + 1

Answer == Advance("invoked", "answered") /\ UNCHANGED executions

Grade == Advance("answered", "graded") /\ UNCHANGED executions

End(result) ==
    /\ outcome = "none"
    /\ result = "completed" => phase = "graded"
    /\ result = "budget_exhausted" => phase \in {"ready", "invoked"}
    /\ outcome' = result
    /\ UNCHANGED <<phase, executions>>

Next ==
    \/ Prepare
    \/ Execute
    \/ Answer
    \/ Grade
    \/ \E result \in {"completed", "failed", "budget_exhausted"} : End(result)

Spec == Init /\ [][Next]_vars
=============================================================================
