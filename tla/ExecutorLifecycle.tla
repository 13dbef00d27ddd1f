-------------------------- MODULE ExecutorLifecycle --------------------------
(***************************************************************************)
(* ExecutorLifecycle (apps/desktop/src/main/executor-lifecycle.ts): the    *)
(* desktop app supervises the process that executes Runs.  JavaScript runs *)
(* one turn at a time, so an action is a turn: a call from the renderer or *)
(* the shutdown, a timer, a line or an exit of a process.  What a turn     *)
(* resolves continues in microtasks before the next turn; they are actions *)
(* of their own, and every other action waits until none is left.          *)
(*                                                                         *)
(* A process that has ended without its exit event handled yet looks       *)
(* exactly like a running one, so the end and its event are one step.  The *)
(* state published to the renderer decides nothing and is left out.        *)
(***************************************************************************)
EXTENDS Naturals, FiniteSets

CONSTANTS
    Callers,    \* the concurrent callers of start, restart and stop
    MaxSpawns,  \* bound: how many executors are spawned
    KillFails   \* whether a signal may fail to be sent

ASSUME ExecutorBounds ==
    MaxSpawns \in Nat /\ KillFails \in BOOLEAN

VARIABLES
    child,     \* this.child (0: null)
    starting,  \* the process of this.startPromise (0: null)
    stopStage, \* this.stopPromise and the signal it has sent
    stopped,   \* the child that terminate() waits for
    execs,     \* every executor ever spawned
    callers    \* where each caller is

execVars == <<child, starting, stopStage, stopped, execs, callers>>

Execs == 1..MaxSpawns

ExecRow == [os : {"none", "alive", "dead"}, line : BOOLEAN,
            timer : BOOLEAN, timedOut : BOOLEAN, onError : BOOLEAN,
            reap : {"no", "wait", "ok", "failed"}]

NoExec == [os |-> "none", line |-> FALSE, timer |-> FALSE,
           timedOut |-> FALSE, onError |-> FALSE, reap |-> "no"]

(* Spawned: the handshake timer runs and the handlers are registered. *)
NewExec == [NoExec EXCEPT !.os = "alive", !.timer = TRUE, !.onError = TRUE]

CallerStates == {"idle", "startWait", "restartWait", "stopWait",
                 "resumeStart", "resumeRestart", "resumeStop", "failedStop"}

ExecTypeOK ==
    /\ child \in 0..MaxSpawns /\ starting \in 0..MaxSpawns /\ stopped \in 0..MaxSpawns
    /\ stopStage \in {"none", "term", "kill"}
    /\ execs \in [Execs -> ExecRow]
    /\ callers \in [Callers -> CallerStates]

ExecInit ==
    /\ child = 0 /\ starting = 0 /\ stopped = 0
    /\ stopStage = "none"
    /\ execs = [p \in Execs |-> NoExec]
    /\ callers = [c \in Callers |-> "idle"]

(* No continuation is left in the microtask queue. *)
Drained ==
    /\ \A c \in Callers : callers[c] \in {"idle", "startWait", "restartWait", "stopWait"}
    /\ \A p \in Execs : execs[p].reap \in {"no", "wait"}

Running(p) == p # 0 /\ execs[p].os = "alive"

Fresh == {p \in Execs : execs[p].os = "none" /\ \A q \in 1..(p - 1) : execs[q].os # "none"}

-----------------------------------------------------------------------------
(* Who continues when stopPromise settles. *)
Settled(pcs, ok) ==
    [c \in Callers |->
        CASE pcs[c] = "startWait"   -> IF ok THEN "resumeStart" ELSE "idle"
          [] pcs[c] = "restartWait" -> IF ok THEN "resumeRestart" ELSE "idle"
          [] pcs[c] = "stopWait"    -> IF ok THEN "resumeStop" ELSE "failedStop"
          [] OTHER                  -> pcs[c]]

Reaped(rows, ok) ==
    [p \in Execs |->
        IF rows[p].reap = "wait"
          THEN [rows[p] EXCEPT !.reap = IF ok THEN "ok" ELSE "failed"] ELSE rows[p]]

(* spawnExecutor. *)
Spawn(p) ==
    /\ child' = p
    /\ starting' = p
    /\ execs' = [execs EXCEPT ![p] = NewExec]

(* The spawn's own error handler, which runs once and drops the child. *)
AfterError(rows, p) == [rows EXCEPT ![p].onError = FALSE, ![p].timer = FALSE]

(* stop() with the callers and rows of its caller: join the stop under     *)
(* way, finish at once without a running child, or send SIGTERM.  A signal *)
(* that fails emits "error": the handler of the spawn drops the child and  *)
(* rejects its start, and the catch of terminate() takes it back.          *)
StopWith(pcs, rows) ==
    \/ /\ stopStage # "none"
       /\ callers' = pcs /\ execs' = rows
       /\ UNCHANGED <<child, starting, stopStage, stopped>>
    \/ /\ stopStage = "none" /\ ~Running(child)
       /\ child' = 0
       /\ callers' = Settled(pcs, TRUE) /\ execs' = Reaped(rows, TRUE)
       /\ UNCHANGED <<starting, stopStage, stopped>>
    \/ /\ stopStage = "none" /\ Running(child)
       /\ stopStage' = "term" /\ stopped' = child
       /\ callers' = pcs /\ execs' = rows
       /\ UNCHANGED <<child, starting>>
    \/ /\ stopStage = "none" /\ Running(child) /\ KillFails
       /\ starting' = IF rows[child].onError /\ starting = child THEN 0 ELSE starting
       /\ callers' = Settled(pcs, FALSE) /\ execs' = Reaped(AfterError(rows, child), FALSE)
       /\ UNCHANGED <<child, stopStage, stopped>>

(* start() after its wait: an existing child or start is returned.         *)
StartAfterWait(c) ==
    \/ /\ child # 0 \/ starting # 0
       /\ callers' = [callers EXCEPT ![c] = "idle"]
       /\ UNCHANGED <<child, starting, stopStage, stopped, execs>>
    \/ /\ child = 0 /\ starting = 0
       /\ \E p \in Fresh : Spawn(p)
       /\ callers' = [callers EXCEPT ![c] = "idle"]
       /\ UNCHANGED <<stopStage, stopped>>

(* start() from its first line. *)
StartWith(c) ==
    \/ /\ stopStage # "none"
       /\ callers' = [callers EXCEPT ![c] = "startWait"]
       /\ UNCHANGED <<child, starting, stopStage, stopped, execs>>
    \/ /\ stopStage = "none"
       /\ StartAfterWait(c)

-----------------------------------------------------------------------------
(* A bound: spawns are left for every start under way, for n and one more. *)
Room(n) ==
    n + Cardinality({c \in Callers : callers[c] \in {"startWait", "restartWait"}})
        < Cardinality({p \in Execs : execs[p].os = "none"})

(* restart(): start() behind stop(). *)
Restart(c) ==
    /\ Drained /\ callers[c] = "idle" /\ Room(0)
    /\ StopWith([callers EXCEPT ![c] = "restartWait"], execs)

(* The continuations. *)
ResumeStart(c) == callers[c] = "resumeStart" /\ StartAfterWait(c)

ResumeRestart(c) == callers[c] = "resumeRestart" /\ StartWith(c)

(* rejectAfterStop once its stop has settled. *)
Reap(p) ==
    /\ execs[p].reap \in {"ok", "failed"}
    /\ starting' = IF starting = p THEN 0 ELSE starting
    /\ execs' = [execs EXCEPT ![p].reap = "no"]
    /\ UNCHANGED <<child, stopStage, stopped, callers>>

-----------------------------------------------------------------------------
(* The events. *)
HandshakeTimeout(p) ==
    /\ Drained
    /\ execs[p].timer
    /\ StopWith(callers, [execs EXCEPT ![p].timer = FALSE, ![p].timedOut = TRUE,
                                       ![p].reap = "wait"])

(* Node may deliver the buffered output of a process after its exit event. *)
Readable(p) == Drained /\ ~execs[p].line /\ execs[p].os # "none"

(* The first line is a valid readiness message. *)
ReadyLine(p) ==
    /\ Readable(p)
    /\ execs' = [execs EXCEPT ![p].line = TRUE, ![p].timer = FALSE]
    /\ starting' = IF starting = p THEN 0 ELSE starting
    /\ UNCHANGED <<child, stopStage, stopped, callers>>

(* The first line is anything else. *)
InvalidLine(p) ==
    /\ Readable(p)
    /\ StopWith(callers, [execs EXCEPT ![p].line = TRUE, ![p].timer = FALSE,
                                       ![p].reap = "wait"])

(* The process could not be spawned. *)
SpawnError(p) ==
    /\ Drained
    /\ execs[p].os = "alive" /\ execs[p].onError /\ execs[p].timer /\ ~execs[p].line
    /\ child' = 0
    /\ starting' = IF starting = p THEN 0 ELSE starting
    /\ LET dead == [AfterError(execs, p) EXCEPT ![p].os = "dead", ![p].line = TRUE]
           ends == stopStage # "none" /\ stopped = p IN
         /\ execs' = IF ends THEN Reaped(dead, FALSE) ELSE dead
         /\ callers' = IF ends THEN Settled(callers, FALSE) ELSE callers
         /\ stopStage' = IF ends THEN "none" ELSE stopStage
         /\ stopped' = IF ends THEN 0 ELSE stopped

(* The process ends: the handler of the spawn, then the one of terminate(); *)
(* nothing looks at its two flags again.                                    *)
Exit(p) ==
    /\ Drained /\ execs[p].os = "alive"
    /\ LET dead == [execs EXCEPT ![p].os = "dead", ![p].timer = FALSE,
                              ![p].timedOut = FALSE, ![p].onError = FALSE]
           ends == stopStage # "none" /\ stopped = p
       IN /\ child' = 0
          /\ starting' = IF starting = p /\ ~execs[p].timedOut THEN 0 ELSE starting
          /\ execs' = IF ends THEN Reaped(dead, TRUE) ELSE dead
          /\ callers' = IF ends THEN Settled(callers, TRUE) ELSE callers
          /\ stopStage' = IF ends THEN "none" ELSE stopStage
          /\ stopped' = IF ends THEN 0 ELSE stopped

(* The stop fails: the catch of terminate() keeps a child that runs. *)
StopFails(rows) ==
    /\ stopStage' = "none" /\ stopped' = 0
    /\ child' = IF Running(stopped) THEN stopped ELSE child
    /\ callers' = Settled(callers, FALSE)
    /\ execs' = Reaped(rows, FALSE)

(* A faulty variant: the first timeout trusts the signal already sent. *)
TermTimeoutTrusting ==
    /\ Drained /\ stopStage = "term"
    /\ stopStage' = "none" /\ stopped' = 0
    /\ child' = 0
    /\ callers' = Settled(callers, TRUE)
    /\ execs' = Reaped(execs, TRUE)
    /\ UNCHANGED starting

(* Eight seconds after SIGTERM the process is still running: SIGKILL. *)
TermTimeout ==
    /\ Drained /\ stopStage = "term"
    /\ \/ /\ stopStage' = "kill"
          /\ UNCHANGED <<child, starting, stopped, execs, callers>>
       \/ /\ KillFails
          /\ starting' = IF execs[stopped].onError /\ starting = stopped THEN 0 ELSE starting
          /\ StopFails(AfterError(execs, stopped))

(* A faulty variant: there is no second timer. *)
KillTimeoutMissing == stopStage = "kill" /\ FALSE /\ UNCHANGED execVars

(* Eight seconds later there is still no exit. *)
KillTimeout ==
    /\ Drained /\ stopStage = "kill"
    /\ StopFails(execs)
    /\ UNCHANGED starting

ExecMicrotasks ==
    \/ \E c \in Callers : ResumeStart(c) \/ ResumeRestart(c)
    \/ \E p \in Execs : Reap(p)

ExecEvents ==
    \/ \E p \in Execs : HandshakeTimeout(p) \/ ReadyLine(p) \/ InvalidLine(p)
                        \/ SpawnError(p) \/ Exit(p)
    \/ TermTimeout
    \/ KillTimeout

-----------------------------------------------------------------------------
(* start() waits for a stop under way and a failed stop keeps its child:   *)
(* a running executor is always the supervised one, so two never run at    *)
(* once and a later stop can still act on it.                              *)
RunningIsSupervised == \A p \in Execs : execs[p].os = "alive" => child = p
=============================================================================
