-------------------------- MODULE DesktopSupervisor --------------------------
(***************************************************************************)
(* The main process of the desktop app (apps/desktop/src/main/index.ts):   *)
(* the window, the two supervisors and the ShutdownCoordinator, which      *)
(* stops the executor, then the backend, and only then lets the app quit.  *)
(***************************************************************************)
EXTENDS BackendLifecycle

CONSTANTS
    Window,      \* the caller that is createApplicationWindow
    Quitter,     \* the caller that is the ShutdownCoordinator
    Darwin,      \* whether the app outlives its last window (macOS)
    MaxRequests  \* bound: requests to quit and launches of a second instance

ASSUME SupervisorBounds ==
    /\ Window \in Callers /\ Quitter \in Callers /\ Darwin \in BOOLEAN
    /\ MaxRequests \in Nat

VARIABLES
    window,          \* "none" before the first, then "open" or "closed"
    opening,         \* the backend start that createApplicationWindow awaits
    attempt,         \* the stage of the shutdown under way
    retryRequested,
    retryable,
    quit,            \* quitAuthorized, and the app is gone
    requests,        \* requests so far
    late             \* whether a call was ever under way during a shutdown

coordVars == <<attempt, retryRequested, retryable, quit, requests>>

vars == <<execVars, backVars, window, opening, coordVars, late>>

Renderers == Callers \ {Window, Quitter}

NotOpening == [stage |-> "no", proc |-> 0]

TypeOK ==
    /\ ExecTypeOK /\ BackTypeOK
    /\ window \in {"none", "open", "closed"}
    /\ opening \in [stage : {"no", "wait", "resume"}, proc : 0..MaxBackends]
    /\ attempt \in {"none", "executor", "backend"}
    /\ retryRequested \in BOOLEAN /\ retryable \in BOOLEAN /\ quit \in BOOLEAN
    /\ requests \in 0..MaxRequests
    /\ late \in BOOLEAN

Init ==
    /\ ExecInit /\ BackInit
    /\ window = "none"
    /\ opening = NotOpening
    /\ attempt = "none"
    /\ retryRequested = FALSE /\ retryable = FALSE /\ quit = FALSE
    /\ requests = 0
    /\ late = FALSE

(* A turn may begin: the app lives and no continuation is left. *)
Turn == ~quit /\ Drained /\ BackDrained /\ opening.stage # "resume"

(* A call is taken now. *)
Called == late' = (late \/ attempt # "none")

-----------------------------------------------------------------------------
(* createApplicationWindow up to its await of backend.start(). *)
CreateWindow ==
    /\ Turn /\ BackRoom /\ Room(0)
    /\ opening = NotOpening /\ callers[Window] = "idle"
    /\ window = "none" \/ (Darwin /\ window = "closed")
    /\ window' = "open"
    /\ BackStart
    /\ opening' = IF bconn # 0 THEN [stage |-> "resume", proc |-> 0]
                                ELSE [stage |-> "wait", proc |-> bstart']
    /\ Called
    /\ UNCHANGED <<execVars, bstops, coordVars>>

(* The rest: the executor is started once the backend is ready. *)
WindowContinues ==
    /\ ~quit /\ opening.stage = "resume"
    /\ opening' = NotOpening
    /\ StartWith(Window)
    /\ UNCHANGED <<backVars, window, coordVars, late>>

(* How the await of createApplicationWindow sees an event of its backend.  *)
Opened(p, ready) ==
    opening' = IF opening.stage = "wait" /\ opening.proc = p
                 THEN IF ready THEN [opening EXCEPT !.stage = "resume"] ELSE NotOpening
                 ELSE opening

(* The renderer's requests over IPC. *)
Ipc(c) ==
    /\ Turn /\ window = "open"
    /\ callers[c] = "idle" /\ bstops[c] = NoStop
    /\ \/ BackRoom /\ BackStart /\ UNCHANGED <<bstops, execVars>>
       \/ BackRoom /\ BackStop(c, TRUE) /\ UNCHANGED execVars
       \/ Room(IF opening = NotOpening THEN 0 ELSE 1) /\ Restart(c) /\ UNCHANGED backVars
    /\ Called
    /\ UNCHANGED <<window, opening, coordVars>>

-----------------------------------------------------------------------------
NothingUnderWay ==
    /\ opening = NotOpening
    /\ \A c \in Callers \ {Quitter} : callers[c] = "idle" /\ bstops[c] = NoStop

(* startShutdown: executor.stop() is called at once. *)
StartShutdown ==
    /\ attempt' = "executor"
    /\ retryable' = FALSE
    /\ StopWith([callers EXCEPT ![Quitter] = "stopWait"], execs)
    /\ late' = (late \/ ~NothingUnderWay)
    /\ UNCHANGED <<backVars, opening, quit>>

MayQuit == Turn /\ requests < MaxRequests

(* handleBeforeQuit, for a quit that is not authorized yet; other systems  *)
(* than macOS ask for it when the last window is closed.                   *)
HandleBeforeQuit ==
    /\ MayQuit
    /\ window' \in {window} \cup (IF window = "open" /\ ~Darwin THEN {"closed"} ELSE {})
    /\ requests' = requests + 1
    /\ \/ attempt = "none" /\ StartShutdown /\ UNCHANGED retryRequested
       \/ /\ attempt # "none"
          /\ UNCHANGED <<execVars, backVars, opening, attempt, retryRequested, retryable, quit, late>>

(* On macOS the app stays when the last window is closed. *)
CloseWindow ==
    /\ Turn /\ Darwin /\ window = "open"
    /\ window' = "closed"
    /\ UNCHANGED <<execVars, backVars, opening, coordVars, late>>

(* handleSecondInstance without a window: retryShutdown. *)
HandleSecondInstance ==
    /\ MayQuit /\ window # "open"
    /\ requests' = requests + 1
    /\ \/ /\ attempt # "none"
          /\ retryRequested' = TRUE
          /\ UNCHANGED <<execVars, backVars, opening, attempt, retryable, quit, late>>
       \/ attempt = "none" /\ retryable /\ StartShutdown /\ UNCHANGED retryRequested
    /\ UNCHANGED window

(* stopExecutor has resolved: stopBackend. *)
ShutdownStopsBackend ==
    /\ callers[Quitter] = "resumeStop"
    /\ callers' = [callers EXCEPT ![Quitter] = "idle"]
    /\ attempt' = "backend"
    /\ BackStop(Quitter, FALSE)
    /\ UNCHANGED <<child, starting, stopStage, stopped, execs, window, opening,
                   retryRequested, retryable, quit, requests, late>>

(* A faulty variant: a failed stop of the executor is only reported. *)
ShutdownFailsOpen ==
    /\ callers[Quitter] = "failedStop"
    /\ callers' = [callers EXCEPT ![Quitter] = "idle"]
    /\ attempt' = "backend"
    /\ BackStop(Quitter, FALSE)
    /\ UNCHANGED <<child, starting, stopStage, stopped, execs, window, opening,
                   retryRequested, retryable, quit, requests, late>>

(* A faulty variant: the failed attempt does not say that it may be retried. *)
ShutdownFailsSilently ==
    /\ callers[Quitter] = "failedStop"
    /\ attempt' = "none"
    /\ callers' = [callers EXCEPT ![Quitter] = "idle"]
    /\ UNCHANGED <<child, starting, stopStage, stopped, execs, backVars, window,
                   opening, retryRequested, retryable, quit, requests, late>>

(* stopExecutor has failed; a retry requested meanwhile starts over. *)
ShutdownFails ==
    /\ callers[Quitter] = "failedStop"
    /\ retryRequested' = FALSE
    /\ \/ retryRequested /\ StartShutdown
       \/ /\ ~retryRequested
          /\ attempt' = "none" /\ retryable' = TRUE
          /\ callers' = [callers EXCEPT ![Quitter] = "idle"]
          /\ UNCHANGED <<child, starting, stopStage, stopped, execs, backVars,
                         opening, quit, late>>
    /\ UNCHANGED <<window, requests>>

(* stopBackend has resolved: the app quits. *)
ShutdownQuits ==
    /\ bstops[Quitter].stage = "resume"
    /\ bstops' = [bstops EXCEPT ![Quitter] = NoStop]
    /\ attempt' = "none"
    /\ quit' = TRUE
    /\ UNCHANGED <<execVars, bchild, bconn, bstart, backends, window, opening,
                   retryRequested, retryable, requests, late>>

-----------------------------------------------------------------------------
Microtasks ==
    \/ ~quit /\ ExecMicrotasks /\ UNCHANGED <<backVars, window, opening, coordVars, late>>
    \/ /\ ~quit /\ \E c \in Renderers : BackResumeRestart(c)
       /\ UNCHANGED <<execVars, window, opening, coordVars, late>>
    \/ WindowContinues
    \/ ShutdownStopsBackend
    \/ ShutdownFails
    \/ ShutdownQuits

ExecutorEvents ==
    Turn /\ ExecEvents /\ UNCHANGED <<backVars, window, opening, coordVars, late>>

BackendEvents ==
    /\ Turn
    /\ \/ \E p \in Backends : BackReadyLine(p) /\ Opened(p, TRUE)
       \/ \E p \in Backends :
            /\ BackHandshakeTimeout(p) \/ BackInvalidLine(p) \/ BackSpawnError(p) \/ BackExit(p)
            /\ Opened(p, FALSE)
       \/ \E c \in Callers : BackStopTimeout(c) /\ UNCHANGED opening
    /\ UNCHANGED <<execVars, window, coordVars, late>>

Next ==
    \/ Microtasks
    \/ CreateWindow
    \/ CloseWindow
    \/ \E c \in Renderers : Ipc(c)
    \/ HandleBeforeQuit
    \/ HandleSecondInstance
    \/ ExecutorEvents
    \/ BackendEvents

ExecutorTimers ==
    Turn /\ (TermTimeout \/ KillTimeout) /\ UNCHANGED <<backVars, window, opening, coordVars, late>>

QuitterTimer ==
    /\ Turn /\ BackStopTimeout(Quitter)
    /\ UNCHANGED <<execVars, window, opening, coordVars, late>>

(* The event loop runs every continuation and fires every timer, however   *)
(* many turns other events take; nothing is assumed of the processes.      *)
Spec ==
    /\ Init /\ [][Next]_vars
    /\ WF_vars(Microtasks) /\ SF_vars(ExecutorTimers) /\ SF_vars(QuitterTimer)

-----------------------------------------------------------------------------
(* What both supervisors promise the rest of the app, in any order of      *)
(* calls, timers, lines and exits: a running executor is the supervised    *)
(* one, and a connection handed to the renderer names a running backend.   *)
SupervisedAndConnected == TypeOK /\ RunningIsSupervised /\ ConnectionIsRunning

(* ShutdownCoordinator fails closed: when the app quits and no call was    *)
(* under way during a shutdown, no executor is left running, whatever its  *)
(* process did with the signals.                                           *)
QuitLeavesNoExecutor == quit /\ ~late => \A p \in Execs : execs[p].os # "alive"

(* stop(), and start() and restart() behind it: whatever the process does  *)
(* with its signals, no caller waits for ever while the app lives.         *)
CallsSettle == \A c \in Callers : callers[c] # "idle" ~> callers[c] = "idle" \/ quit

(* A quit request that is blocked for the teardown is decided: the app     *)
(* quits, or it stays and the shutdown may be retried.                     *)
ShutdownSettles == attempt # "none" ~> quit \/ retryable
=============================================================================
