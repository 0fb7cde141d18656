--------------------------- MODULE HandlerSession ---------------------------
(***************************************************************************)
(* The daemon's side of a session: the LocHalDaemonClientHandler of one    *)
(* client (location_hal_daemon/LocHalDaemonClientHandler.cpp), the         *)
(* functions of LocationApiService that lead to it, and the LocationAPI    *)
(* object it uses.  LocationAPI is not part of this repository: it answers *)
(* every call once, in the order of the calls.                             *)
(*                                                                         *)
(* mPendingMessages remembers which requests to answer; a callback of the  *)
(* API is matched with its front, whatever call it is the answer of.       *)
(***************************************************************************)
EXTENDS SessionLink

CONSTANT
    StartResults   \* may LocationAPI accept a start (TRUE), may it refuse one (FALSE)?

ASSUME StartResultsAssumption == StartResults \subseteq BOOLEAN

VARIABLE handler   \* the client's handler

\* calls: the API calls not answered yet, each with the start it serves; refused: did
\* the API ever refuse to start a session?; trip: is the batching session's trip over?
Handler ==
    [registered : BOOLEAN, mCapabilityMask : BOOLEAN,
     mSubscriptionMask : SUBSET (TrackCbs \cup {"BATCHING", "BATCHING_STATUS"}),
     mSessionId : BOOLEAN, mOptions : Options,
     mBatchingId : BOOLEAN, mBatchOptions : BatchModes \cup {"none"},
     mBatchingMode : BatchModes \cup {"none"},
     mPendingMessages : Seq({"START_TRACKING", "UPDATE_TRACKING", "START_BATCHING",
                             "STOP_BATCHING"}),
     calls : Seq(0..MaxStarts), refused : BOOLEAN, trip : BOOLEAN]

NoHandler ==
    [registered |-> FALSE, mCapabilityMask |-> FALSE, mSubscriptionMask |-> {},
     mSessionId |-> FALSE, mOptions |-> "passive",
     mBatchingId |-> FALSE, mBatchOptions |-> "none", mBatchingMode |-> "none",
     mPendingMessages |-> <<>>, calls |-> <<>>, refused |-> FALSE, trip |-> FALSE]

NewHandler == [NoHandler EXCEPT !.registered = TRUE]

-----------------------------------------------------------------------------
(* Sending *)

\* The handler becomes h and its client is sent msg.  A client whose socket does not
\* take the message is purged: its handler goes, and the name of its socket.
SendTo(h, msg) ==
    \/ /\ reachable
       /\ inbox' = Append(inbox, msg)
       /\ handler' = h
       /\ UNCHANGED reachable
    \/ /\ Lossy
       /\ handler' = NoHandler
       /\ reachable' = FALSE
       /\ UNCHANGED inbox

SendNothing(h) == handler' = h /\ UNCHANGED <<inbox, reachable>>

-----------------------------------------------------------------------------
(* Requests *)

\* The next message on the daemon's socket.
Receive(type) ==
    /\ up
    /\ toDaemon # <<>>
    /\ Head(toDaemon).type = type
    /\ toDaemon' = Tail(toDaemon)
    /\ UNCHANGED <<up, crashes>>

\* What the functions below do when the client is not registered: nothing.
Request(type) == Receive(type) /\ handler.registered

unknownClient ==
    /\ up /\ toDaemon # <<>>
    /\ ~handler.registered /\ Head(toDaemon).type # "REGISTER"
    /\ toDaemon' = Tail(toDaemon)
    /\ UNCHANGED <<inbox, reachable, up, crashes, handler>>

newClient ==
    /\ Receive("REGISTER")
    /\ IF handler.mCapabilityMask
       THEN SendTo(handler, [type |-> "CAPABILITIES"])
       ELSE SendNothing(IF handler.registered THEN handler ELSE NewHandler)

updateSubscription ==
    /\ Request("UPDATE_CALLBACKS")
    /\ SendNothing([handler EXCEPT !.mSubscriptionMask = Head(toDaemon).mask])

\* Variant: the request is not remembered.
StartUnremembered ==
    /\ Request("START_TRACKING")
    /\ IF handler.mSessionId THEN SendNothing(handler)
       ELSE \E ok \in StartResults :
           SendNothing([handler EXCEPT !.mOptions = Head(toDaemon).opt,
                                       !.mSessionId = ok,
                                       !.calls = IF ok THEN Append(@, Head(toDaemon).start) ELSE @,
                                       !.refused = @ \/ ~ok])

\* Ignored if there is a session.  The request is remembered even if the API refuses.
startTracking ==
    /\ Request("START_TRACKING")
    /\ IF handler.mSessionId THEN SendNothing(handler)
       ELSE \E ok \in StartResults :
           SendNothing([handler EXCEPT !.mOptions = Head(toDaemon).opt,
                                       !.mSessionId = ok,
                                       !.calls = IF ok THEN Append(@, Head(toDaemon).start) ELSE @,
                                       !.mPendingMessages = Append(@, "START_TRACKING"),
                                       !.refused = @ \/ ~ok])

\* With clearSubscriptions, as this client always asks: the callbacks go and no answer
\* is sent, but the API will answer.
stopTracking ==
    /\ Request("STOP_TRACKING")
    /\ SendNothing([handler EXCEPT !.mSubscriptionMask = @ \ TrackCbs,
                                   !.mSessionId = FALSE,
                                   !.calls = IF handler.mSessionId THEN Append(@, 0) ELSE @])

updateTrackingOptions ==
    /\ Request("UPDATE_TRACKING")
    /\ LET h == [handler EXCEPT !.mPendingMessages = Append(@, "UPDATE_TRACKING")] IN
       SendNothing(IF ~handler.mSessionId THEN h
                   ELSE [h EXCEPT !.mOptions = Head(toDaemon).opt,
                                  !.calls = Append(@, Head(toDaemon).start)])

\* The API is called if there is no session; unless it refuses, the request is
\* remembered and the mode replaced.
startBatching ==
    /\ Request("START_BATCHING")
    /\ LET m == Head(toDaemon)
           Started(h) == [h EXCEPT !.mBatchingMode = m.opt,
                                   !.mPendingMessages = Append(@, "START_BATCHING")]
       IN IF handler.mBatchingId THEN SendNothing(Started(handler))
          ELSE \E ok \in StartResults :
              SendNothing(IF ok THEN Started([handler EXCEPT !.mBatchingId = TRUE,
                                                             !.mBatchOptions = m.opt,
                                                             !.calls = Append(@, m.start),
                                                             !.trip = FALSE])
                          ELSE [handler EXCEPT !.mBatchOptions = m.opt, !.refused = TRUE])

stopBatching ==
    /\ Request("STOP_BATCHING")
    /\ SendNothing([handler EXCEPT !.mBatchingMode = "none",
                                   !.mBatchingId = FALSE,
                                   !.calls = IF handler.mBatchingId THEN Append(@, 0) ELSE @,
                                   !.mPendingMessages = Append(@, "STOP_BATCHING")])

-----------------------------------------------------------------------------
(* Callbacks of LocationAPI *)

onCapabilitiesCallback ==
    /\ handler.registered /\ ~handler.mCapabilityMask
    /\ SendTo([handler EXCEPT !.mCapabilityMask = TRUE], [type |-> "CAPABILITIES"])
    /\ UNCHANGED <<toDaemon, up, crashes>>

\* The answer of a call: the first request remembered is answered with it.
onResponseCb ==
    /\ handler.calls # <<>>
    /\ LET h == [handler EXCEPT !.calls = Tail(@)] IN
       IF handler.mPendingMessages = <<>> THEN SendNothing(h)
       ELSE SendTo([h EXCEPT !.mPendingMessages = Tail(@)],
                   [type |-> "RESPONSE", to |-> Head(handler.mPendingMessages),
                    start |-> Head(handler.calls)])
    /\ UNCHANGED <<toDaemon, up, crashes>>

\* The engine reports the end of a trip it batches for.
onBatchingStatusCb ==
    /\ handler.mBatchingId /\ handler.mBatchOptions = "TRIP" /\ ~handler.trip
    /\ LET h == [handler EXCEPT !.trip = TRUE] IN
       IF "BATCHING_STATUS" \in handler.mSubscriptionMask /\ handler.mBatchingMode = "TRIP"
       THEN SendTo(h, [type |-> "TRIP_COMPLETED"])
       ELSE SendNothing(h)
    /\ UNCHANGED <<toDaemon, up, crashes>>

-----------------------------------------------------------------------------
(* The process *)

\* All state is in memory, and what was on the socket is gone.
Crash ==
    /\ up
    /\ crashes < MaxCrashes
    /\ crashes' = crashes + 1
    /\ up' = FALSE
    /\ toDaemon' = <<>>
    /\ handler' = NoHandler
    /\ UNCHANGED <<inbox, reachable>>

\* Once its listener is ready the daemon tells every client socket it finds.
onListenerReady ==
    /\ ~up
    /\ up' = TRUE
    /\ inbox' = IF reachable THEN Append(inbox, [type |-> "HAL_READY"]) ELSE inbox
    /\ UNCHANGED <<toDaemon, reachable, crashes, handler>>

DaemonRequest ==
    \/ unknownClient
    \/ newClient
    \/ updateSubscription
    \/ startTracking
    \/ stopTracking
    \/ updateTrackingOptions
    \/ startBatching
    \/ stopBatching

EngineCallback ==
    \/ onCapabilitiesCallback
    \/ onResponseCb
    \/ onBatchingStatusCb
=============================================================================
