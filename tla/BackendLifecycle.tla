-------------------------- MODULE BackendLifecycle --------------------------
(***************************************************************************)
(* BackendLifecycle (apps/desktop/src/main/backend-lifecycle.ts): the      *)
(* desktop app supervises the process that serves the API.  It differs     *)
(* from the executor's supervisor: every stop() call waits on its own, and *)
(* whether a process still has to be killed is read from child.killed,     *)
(* which says that a signal was sent, not that the process is gone.  The   *)
(* states it publishes are left out, and its signals can always be sent.   *)
(***************************************************************************)
EXTENDS ExecutorLifecycle

CONSTANT MaxBackends  \* bound: how many backends are spawned

ASSUME BackendBounds == MaxBackends \in Nat

VARIABLES
    bchild,    \* this.child (0: null)
    bconn,     \* the process this.connection names (0: null)
    bstart,    \* the process of this.startPromise (0: null)
    backends,  \* every backend ever spawned
    bstops     \* the stop() each caller is in

backVars == <<bchild, bconn, bstart, backends, bstops>>

Backends == 1..MaxBackends

(* line: the first line was read, or it was read after the exit event. *)
BackendRow == [os : {"none", "alive", "dead"}, line : {"no", "read", "late"}, timer : BOOLEAN,
               killed : BOOLEAN]

NoBackend == [os |-> "none", line |-> "no", timer |-> FALSE, killed |-> FALSE]

NewBackend == [NoBackend EXCEPT !.os = "alive", !.timer = TRUE]

(* wait: for the exit of proc or the timeout; then "start" for restart(). *)
NoStop == [stage |-> "idle", proc |-> 0, restarts |-> FALSE]

BackTypeOK ==
    /\ bchild \in 0..MaxBackends /\ bconn \in 0..MaxBackends /\ bstart \in 0..MaxBackends
    /\ backends \in [Backends -> BackendRow]
    /\ bstops \in [Callers -> [stage : {"idle", "wait", "resume"}, proc : 0..MaxBackends,
                               restarts : BOOLEAN]]

BackInit ==
    /\ bchild = 0 /\ bconn = 0 /\ bstart = 0
    /\ backends = [p \in Backends |-> NoBackend]
    /\ bstops = [c \in Callers |-> NoStop]

BackDrained == \A c \in Callers : bstops[c].stage # "resume"

FreshBackend ==
    {p \in Backends : backends[p].os = "none"
                      /\ \A q \in 1..(p - 1) : backends[q].os # "none"}

(* A bound, as Room. *)
BackRoom ==
    Cardinality({c \in Callers : bstops[c].restarts})
        < Cardinality({p \in Backends : backends[p].os = "none"})

(* start(): the connection or the start under way is returned. *)
BackStart ==
    \/ /\ bconn # 0 \/ bstart # 0
       /\ UNCHANGED <<bchild, bconn, bstart, backends>>
    \/ /\ bconn = 0 /\ bstart = 0
       /\ \E p \in FreshBackend :
            /\ bchild' = p /\ bstart' = p
            /\ backends' = [backends EXCEPT ![p] = NewBackend]
       /\ UNCHANGED bconn

(* A signal sets killed when there is a process to send it to. *)
Signalled(rows, p) ==
    IF rows[p].os = "alive" THEN [rows EXCEPT ![p].killed = TRUE] ELSE rows

(* stop(): the child and the connection are dropped at once. *)
BackStop(c, restarts) ==
    /\ bchild' = 0 /\ bconn' = 0
    /\ IF bchild = 0 \/ (bchild # 0 /\ backends[bchild].killed)
         THEN /\ bstops' = [bstops EXCEPT ![c] =
                   [stage |-> "resume", proc |-> 0, restarts |-> restarts]]
              /\ UNCHANGED backends
         ELSE /\ backends' = Signalled(backends, bchild)
              /\ bstops' = [bstops EXCEPT ![c] =
                   [stage |-> "wait", proc |-> bchild, restarts |-> restarts]]
    /\ UNCHANGED bstart

(* restart() continues with start() once its stop has resolved. *)
BackResumeRestart(c) ==
    /\ bstops[c].stage = "resume" /\ bstops[c].restarts
    /\ bstops' = [bstops EXCEPT ![c] = NoStop]
    /\ BackStart

(* Four seconds after SIGTERM: SIGKILL only if no signal was sent. *)
BackStopTimeout(c) ==
    /\ bstops[c].stage = "wait"
    /\ bstops' = [bstops EXCEPT ![c].stage = "resume"]
    /\ UNCHANGED <<bchild, bconn, bstart, backends>>

Rejected(p) == bstart' = IF bstart = p THEN 0 ELSE bstart

BackHandshakeTimeout(p) ==
    /\ backends[p].timer
    /\ backends' = Signalled([backends EXCEPT ![p].timer = FALSE], p)
    /\ Rejected(p)
    /\ UNCHANGED <<bchild, bconn, bstops>>

(* Node may deliver the buffered output of a process after its exit event. *)
BackReadable(p) == backends[p].line = "no" /\ backends[p].os # "none"

LineRead(rows, p) ==
    [rows EXCEPT ![p].line = IF rows[p].os = "alive" THEN "read" ELSE "late", ![p].timer = FALSE]

BackReadyLine(p) ==
    /\ BackReadable(p)
    /\ backends' = LineRead(backends, p)
    /\ bconn' = p
    /\ Rejected(p)
    /\ UNCHANGED <<bchild, bstops>>

BackInvalidLine(p) ==
    /\ BackReadable(p)
    /\ backends' = Signalled(LineRead(backends, p), p)
    /\ Rejected(p)
    /\ UNCHANGED <<bchild, bconn, bstops>>

(* The process could not be spawned; the child is kept. *)
BackSpawnError(p) ==
    /\ backends[p].os = "alive" /\ backends[p].timer /\ backends[p].line = "no"
    /\ backends' = [backends EXCEPT ![p].os = "dead", ![p].line = "read", ![p].timer = FALSE]
    /\ bconn' = 0
    /\ Rejected(p)
    /\ UNCHANGED <<bchild, bstops>>

(* The process ends: its exit handler drops whatever child and connection  *)
(* there are, and the stop() calls that wait for it resolve.               *)
BackExit(p) ==
    /\ backends[p].os = "alive"
    /\ backends' = [backends EXCEPT ![p].os = "dead", ![p].timer = FALSE]
    /\ bchild' = 0 /\ bconn' = 0
    /\ Rejected(p)
    /\ bstops' = [c \in Callers |->
          IF bstops[c].stage = "wait" /\ bstops[c].proc = p
            THEN [bstops[c] EXCEPT !.stage = "resume"] ELSE bstops[c]]

-----------------------------------------------------------------------------
(* What start() returns to the renderer: in any order of stops, restarts   *)
(* and exits, a connection never names a process that has ended, unless    *)
(* the readiness line itself was read after the exit event.                *)
ConnectionIsRunning ==
    bconn # 0 => backends[bconn].os = "alive" \/ backends[bconn].line = "late"
=============================================================================
