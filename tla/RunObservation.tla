--------------------------- MODULE RunObservation ---------------------------
(***************************************************************************)
(* How the Observability page follows one Run: the event stream of the API *)
(* (routers/runs.py, run_stream), the reconnecting subscription            *)
(* (api/client.ts, runEventStream) and the query of the page that holds    *)
(* what it shows (useObservabilityWorkspace.ts).                           *)
(*                                                                         *)
(* The events of the Run are the numbers 1 .. ledger; the last one ends    *)
(* the Run when its status is terminal.  The worker appends in another     *)
(* process, so it may append between any two reads of the API.             *)
(***************************************************************************)
EXTENDS Naturals, Sequences

CONSTANTS
    MaxEvents,      \* bound: events of the Run
    MaxFailures,    \* bound: lost connections and failed requests
    MaxRefetches    \* bound: invalidations by the rest of the page

VARIABLES
    ledger,         \* the number of events of the Run
    ended,          \* the status of the Run is terminal
    stream,         \* the generator of the current connection
    wire,           \* the events sent and not yet received
    phase,          \* where the loop of subscribe stands
    aborted,        \* the subscription was cancelled
    delivered,      \* the events handed to onEvent, in order
    fetch,          \* the request of the detail query
    view,           \* the data of the detail query
    failures,
    refetches

server == <<stream, wire>>
page == <<fetch, view, refetches>>
vars == <<ledger, ended, server, phase, aborted, delivered, page, failures>>

ASSUME BoundsAssumption ==
    /\ MaxEvents \in Nat \ {0, 1}
    /\ MaxFailures \in Nat
    /\ MaxRefetches \in Nat

Phases == {"connecting", "reading", "waiting", "closed"}

NoStream == [at |-> "none", emitted |-> 0, upto |-> 0]

NewFetch(retried) == [at |-> "run", ended |-> FALSE, upto |-> 0, retried |-> retried]

Idle == [NewFetch(FALSE) EXCEPT !.at = "idle"]

Unloaded == [loaded |-> FALSE, ended |-> FALSE, events |-> {}]

(* The types; a generator never counts more events as sent than it read. *)
TypeOK ==
    /\ ledger \in 1..MaxEvents
    /\ ended \in BOOLEAN
    /\ stream \in [at : {"none", "loop", "send", "sleep", "over"},
                   emitted : 0..MaxEvents, upto : 0..MaxEvents]
    /\ stream.emitted <= stream.upto /\ stream.upto <= ledger
    /\ wire \in Seq(1..MaxEvents)
    /\ phase \in Phases
    /\ aborted \in BOOLEAN
    /\ delivered \in Seq(1..MaxEvents)
    /\ fetch \in [at : {"idle", "run", "events", "done", "failed"},
                  ended : BOOLEAN, upto : 0..MaxEvents, retried : BOOLEAN]
    /\ view \in [loaded : BOOLEAN, ended : BOOLEAN, events : SUBSET (1..MaxEvents)]
    /\ failures \in 0..MaxFailures
    /\ refetches \in 0..MaxRefetches

(* The page opens on a Run: its query and its subscription start together. *)
Init ==
    /\ ledger \in 1..(MaxEvents - 1)
    /\ ended = FALSE
    /\ stream = NoStream
    /\ wire = <<>>
    /\ phase = "connecting"
    /\ aborted = FALSE
    /\ delivered = <<>>
    /\ fetch = NewFetch(FALSE)
    /\ view = Unloaded
    /\ failures = 0
    /\ refetches = 0

-----------------------------------------------------------------------------
(* The worker appends an event; the last one sets the status with it. *)
LedgerGrows ==
    /\ ~ended
    /\ ledger < MaxEvents
    /\ ledger' = ledger + 1
    /\ ended' \in BOOLEAN
    /\ UNCHANGED <<server, phase, aborted, delivered, page, failures>>

-----------------------------------------------------------------------------
(* run_stream: read the events, send the new ones, read the status, sleep. *)
ServerReads ==
    /\ stream.at = "loop"
    /\ stream' = [stream EXCEPT !.at = "send", !.upto = ledger]
    /\ UNCHANGED <<ledger, ended, wire, phase, aborted, delivered, page, failures>>

ServerSends ==
    /\ stream.at = "send"
    /\ stream.emitted < stream.upto
    /\ stream' = [stream EXCEPT !.emitted = @ + 1]
    /\ wire' = Append(wire, stream.emitted + 1)
    /\ UNCHANGED <<ledger, ended, phase, aborted, delivered, page, failures>>

ServerChecks ==
    /\ stream.at = "send"
    /\ stream.emitted = stream.upto
    /\ stream' = [stream EXCEPT !.at = IF ended THEN "over" ELSE "sleep"]
    /\ UNCHANGED <<ledger, ended, wire, phase, aborted, delivered, page, failures>>

ServerWakes ==
    /\ stream.at = "sleep"
    /\ stream' = [stream EXCEPT !.at = "loop"]
    /\ UNCHANGED <<ledger, ended, wire, phase, aborted, delivered, page, failures>>

Server == ServerReads \/ ServerSends \/ ServerChecks \/ ServerWakes

-----------------------------------------------------------------------------
(* The detail query.  queryFn asks for the Run, whose handler reads the    *)
(* status and later the events, and for the events; their union is what    *)
(* the later of the two reads saw.                                         *)
FetchRun ==
    /\ fetch.at = "run"
    /\ fetch' = [fetch EXCEPT !.at = "events", !.ended = ended]
    /\ UNCHANGED <<ledger, ended, server, phase, aborted, delivered, view, failures, refetches>>

FetchEvents ==
    /\ fetch.at = "events"
    /\ fetch' = [fetch EXCEPT !.at = "done", !.upto = ledger]
    /\ UNCHANGED <<ledger, ended, server, phase, aborted, delivered, view, failures, refetches>>

(* What was fetched replaces the data, what the stream merged included. *)
FetchDone ==
    /\ fetch.at = "done"
    /\ fetch' = Idle
    /\ view' = [loaded |-> TRUE, ended |-> fetch.ended, events |-> 1..fetch.upto]
    /\ UNCHANGED <<ledger, ended, server, phase, aborted, delivered, failures, refetches>>

(* A request fails: the query tries once more (retry: 1). *)
FetchFails ==
    /\ fetch.at \in {"run", "events"}
    /\ failures < MaxFailures
    /\ failures' = failures + 1
    /\ fetch' = IF fetch.retried THEN [Idle EXCEPT !.at = "failed"] ELSE NewFetch(TRUE)
    /\ UNCHANGED <<ledger, ended, server, phase, aborted, delivered, view, refetches>>

(* invalidateQueries: a request under way is replaced only when the query  *)
(* has data; the first request is joined instead.                          *)
Invalidated(f) ==
    IF f.at \in {"run", "events", "done"} /\ ~view.loaded THEN f ELSE NewFetch(FALSE)

(* The backend or the executor became ready, or a Study was created. *)
PageInvalidates ==
    /\ refetches < MaxRefetches
    /\ refetches' = refetches + 1
    /\ fetch' = Invalidated(fetch)
    /\ UNCHANGED <<ledger, ended, server, phase, aborted, delivered, view, failures>>

Query == FetchRun \/ FetchEvents \/ FetchDone

-----------------------------------------------------------------------------
(* runEventStream.subscribe: connect, deliver, reconnect until the event   *)
(* that ends the Run was delivered.                                        *)
IsTerminal(e) == ended /\ e = ledger

Seen(e) == \E i \in DOMAIN delivered : delivered[i] = e

TerminalDelivered == \E i \in DOMAIN delivered : IsTerminal(delivered[i])

Connect ==
    /\ phase = "connecting"
    /\ ~aborted
    /\ phase' = "reading"
    /\ stream' = [NoStream EXCEPT !.at = "loop"]
    /\ wire' = <<>>
    /\ UNCHANGED <<ledger, ended, aborted, delivered, page, failures>>

ConnectFails ==
    /\ phase = "connecting"
    /\ ~aborted
    /\ failures < MaxFailures
    /\ failures' = failures + 1
    /\ phase' = "waiting"
    /\ UNCHANGED <<ledger, ended, server, aborted, delivered, page>>

(* Faulty variants: no deduplication; the end of the Run refreshes nothing. *)
ReceiveAll ==
    /\ phase = "reading"
    /\ wire # <<>>
    /\ wire' = Tail(wire)
    /\ delivered' = Append(delivered, Head(wire))
    /\ view' = IF view.loaded THEN [view EXCEPT !.events = @ \cup {Head(wire)}] ELSE view
    /\ fetch' = IF IsTerminal(Head(wire)) THEN Invalidated(fetch) ELSE fetch
    /\ UNCHANGED <<ledger, ended, stream, phase, aborted, failures, refetches>>

ReceiveOnly ==
    /\ phase = "reading"
    /\ wire # <<>>
    /\ wire' = Tail(wire)
    /\ IF Seen(Head(wire))
         THEN UNCHANGED <<delivered, view>>
         ELSE /\ delivered' = Append(delivered, Head(wire))
              /\ view' = IF view.loaded THEN [view EXCEPT !.events = @ \cup {Head(wire)}]
                                        ELSE view
    /\ UNCHANGED <<ledger, ended, stream, phase, aborted, fetch, failures, refetches>>

(* deliver and the onEvent of the page: an event is merged into the data   *)
(* if there is any, and the one that ends the Run invalidates the query.   *)
Receive ==
    /\ phase = "reading"
    /\ wire # <<>>
    /\ wire' = Tail(wire)
    /\ IF Seen(Head(wire))
         THEN UNCHANGED <<delivered, view, fetch>>
         ELSE /\ delivered' = Append(delivered, Head(wire))
              /\ view' = IF view.loaded THEN [view EXCEPT !.events = @ \cup {Head(wire)}]
                                        ELSE view
              /\ fetch' = IF IsTerminal(Head(wire)) THEN Invalidated(fetch) ELSE fetch
    /\ UNCHANGED <<ledger, ended, stream, phase, aborted, failures, refetches>>

(* A faulty variant: a stream that ended is taken for the end of the Run. *)
StreamOverCloses ==
    /\ phase = "reading"
    /\ stream.at = "over"
    /\ wire = <<>>
    /\ phase' = "closed"
    /\ stream' = NoStream
    /\ UNCHANGED <<ledger, ended, wire, aborted, delivered, page, failures>>

(* The response is complete. *)
StreamOver ==
    /\ phase = "reading"
    /\ stream.at = "over"
    /\ wire = <<>>
    /\ phase' = IF TerminalDelivered THEN "closed" ELSE "waiting"
    /\ stream' = NoStream
    /\ UNCHANGED <<ledger, ended, wire, aborted, delivered, page, failures>>

(* The connection is lost with what it carried: the read throws, and the   *)
(* loop leaves only if the Run's last event was delivered.                 *)
ConnectionLost ==
    /\ phase = "reading"
    /\ failures < MaxFailures
    /\ failures' = failures + 1
    /\ phase' = "waiting"
    /\ stream' = NoStream
    /\ wire' = <<>>
    /\ UNCHANGED <<ledger, ended, aborted, delivered, page>>

(* After the delay the loop tests its condition again. *)
Reconnect ==
    /\ phase = "waiting"
    /\ phase' = IF TerminalDelivered THEN "closed" ELSE "connecting"
    /\ UNCHANGED <<ledger, ended, server, aborted, delivered, page, failures>>

(* The page selects another Run or closes.  A block that was read already  *)
(* may still be delivered before the loop notices.                         *)
Unsubscribe ==
    /\ ~aborted
    /\ phase # "closed"
    /\ aborted' = TRUE
    /\ UNCHANGED <<ledger, ended, server, phase, delivered, page, failures>>

Stops ==
    /\ aborted
    /\ phase # "closed"
    /\ phase' = "closed"
    /\ stream' = NoStream
    /\ wire' = <<>>
    /\ UNCHANGED <<ledger, ended, aborted, delivered, page, failures>>

Client == Connect \/ Receive \/ StreamOver \/ Reconnect \/ Stops

Next ==
    \/ LedgerGrows \/ Server \/ Query \/ Client
    \/ FetchFails \/ PageInvalidates
    \/ ConnectFails \/ ConnectionLost \/ Unsubscribe

(* The API serves its requests and the page's event loop runs; the worker  *)
(* need not append, and failures are bounded.                              *)
Fairness == WF_vars(Server) /\ WF_vars(Query) /\ WF_vars(Client)

Spec == Init /\ [][Next]_vars /\ Fairness

-----------------------------------------------------------------------------
(* onEvent gets the ledger in its order, each event once and none left     *)
(* out, through any number of reconnections (client.ts, deliver).          *)
DeliveredInOrder == TypeOK /\ \A i \in DOMAIN delivered : delivered[i] = i

(* A subscription that is not cancelled delivers the event that ends the   *)
(* Run once the Run has ended.                                             *)
EndIsDelivered == ended ~> (TerminalDelivered \/ aborted)

ShowsOutcome == view.ended /\ view.events = 1..ledger

(* A page that had loaded the Run before it learned of its end comes to    *)
(* show the final status and every event, unless a request failed.         *)
LoadedPageShowsOutcome ==
    (ended /\ view.loaded /\ ~TerminalDelivered)
        ~> (ShowsOutcome \/ aborted \/ fetch.at = "failed")
=============================================================================
