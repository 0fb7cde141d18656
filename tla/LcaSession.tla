----------------------------- MODULE LcaSession -----------------------------
(***************************************************************************)
(* The client side of a session: LocationClientApiImpl                     *)
(* (client_api/src/LocationClientApiImpl.cpp) behind the calls             *)
(* startPositionSession, stopPositionSession, startTripBatchingSession,    *)
(* startRoutineBatchingSession and stopBatchingSession of                  *)
(* LocationClientApi.  All of it runs on one task, LcaMsgTask: an action   *)
(* is one message of that task.  A call of the application is a step when  *)
(* the task gets to it.                                                    *)
(*                                                                         *)
(* The client's geofences (module Geofence) share one variable with its    *)
(* sessions, mPositionSessionResponseCbPending.  What they do to it are    *)
(* steps of their own here.                                                *)
(***************************************************************************)
EXTENDS SessionLink

VARIABLES
    mHalRegistered,    \* has the daemon reported its capabilities?
    mSessionId,        \* is there a tracking session?
    mLocationOptions,  \* its options
    mBatchingId,       \* is there a batching session?
    mBatchingOptions,  \* its mode
    mCallbacksMask,    \* callbacks subscribed
    mPositionSessionResponseCbPending,
    ofStart,           \* history: does the flag stand for the last start call?
    withGeofences,     \* history: has the application added geofences?
    starts,            \* history: start calls accepted
    told               \* history: the last start answered, and whose answer it got

clientVars == <<mHalRegistered, mSessionId, mLocationOptions, mBatchingId,
                mBatchingOptions, mCallbacksMask, mPositionSessionResponseCbPending,
                ofStart, withGeofences, starts, told>>

sessionVars == <<mSessionId, mLocationOptions, mBatchingId, mBatchingOptions>>

\* The flag, and what it stands for.
pendingVars == <<mPositionSessionResponseCbPending, ofStart>>

\* The listener is ready and registers.
ClientInit ==
    /\ mHalRegistered = FALSE
    /\ mSessionId = FALSE
    /\ mLocationOptions = "passive"
    /\ mBatchingId = FALSE
    /\ mBatchingOptions = "none"
    /\ mCallbacksMask = {}
    /\ mPositionSessionResponseCbPending = FALSE
    /\ ofStart = FALSE
    /\ withGeofences = FALSE
    /\ starts = 0
    /\ told = [start |-> 0, answer |-> 0]

-----------------------------------------------------------------------------
(* Messages *)

UpdateCallbacks(mask) == <<[type |-> "UPDATE_CALLBACKS", mask |-> mask]>>

\* A session that only listens is not known to the daemon.
StartTracking(o, n) ==
    IF o = "passive" THEN <<>> ELSE <<[type |-> "START_TRACKING", opt |-> o, start |-> n]>>

StopTracking(o) == IF o = "passive" THEN <<>> ELSE <<[type |-> "STOP_TRACKING"]>>

StartBatching(mode, n) == <<[type |-> "START_BATCHING", opt |-> mode, start |-> n]>>

\* What new options o of a running session have the client send.
updateTrackingOptionsSync(o, n) ==
    IF o = "passive" THEN StopTracking(mLocationOptions)
    ELSE IF mLocationOptions = "passive" THEN StartTracking(o, n)
    ELSE <<[type |-> "UPDATE_TRACKING", opt |-> o, start |-> n]>>

-----------------------------------------------------------------------------
(* Calls of the application *)

\* Variant: a session of the other kind does not matter.
AcceptedBesides(otherSession) ==
    /\ ~mPositionSessionResponseCbPending
    /\ starts < MaxStarts
    /\ starts' = starts + 1

\* A start call is refused, with no other effect, while an answer is awaited or a
\* session of the other kind exists.
Accepted(otherSession) ==
    /\ ~mPositionSessionResponseCbPending
    /\ ~otherSession
    /\ starts < MaxStarts
    /\ starts' = starts + 1

\* Tracking: the callbacks are replaced, then the session is started or updated; the
\* options it has already are answered on the spot.
startPositionSession(o) ==
    /\ Accepted(mBatchingId)
    /\ mCallbacksMask' = mCallbacksMask \cup TrackCbs
    /\ mSessionId' = TRUE
    /\ mLocationOptions' = o
    /\ Send(IF ~mHalRegistered THEN <<>>
            ELSE UpdateCallbacks(mCallbacksMask') \o
                 (IF ~mSessionId THEN StartTracking(o, starts')
                  ELSE IF o # mLocationOptions THEN updateTrackingOptionsSync(o, starts')
                  ELSE <<>>))
    /\ IF mHalRegistered /\ mSessionId /\ o = mLocationOptions
       THEN /\ told' = [start |-> starts', answer |-> starts']
            /\ UNCHANGED pendingVars
       ELSE /\ mPositionSessionResponseCbPending' = TRUE
            /\ ofStart' = TRUE
            /\ UNCHANGED told
    /\ UNCHANGED <<inbox, reachable, up, crashes, mHalRegistered, mBatchingId, mBatchingOptions,
                   withGeofences>>

\* stopTrackingAndClearSubscriptions; nobody expects an answer.
stopPositionSession ==
    /\ mSessionId \/ mPositionSessionResponseCbPending
    /\ Send(IF mSessionId /\ mHalRegistered THEN StopTracking(mLocationOptions) ELSE <<>>)
    /\ mLocationOptions' = "passive"
    /\ mSessionId' = FALSE
    /\ mPositionSessionResponseCbPending' = FALSE
    /\ ofStart' = FALSE
    /\ mCallbacksMask' = mCallbacksMask \ TrackCbs
    /\ UNCHANGED <<inbox, reachable, up, crashes, mHalRegistered, mBatchingId, mBatchingOptions,
                   withGeofences, starts, told>>

\* Batching: with the daemon not registered yet the application is told so, and the
\* call stays pending.  A running session is started again: startBatchingSync looks
\* for a tracking session.
startBatchingSession(mode) ==
    /\ Accepted(mSessionId)
    /\ mPositionSessionResponseCbPending' = TRUE
    /\ ofStart' = TRUE
    /\ mCallbacksMask' = mCallbacksMask \cup BatchCbs(mode)
    /\ mBatchingOptions' = mode
    /\ mBatchingId' = (mBatchingId \/ mHalRegistered)
    /\ Send(IF ~mHalRegistered THEN <<>>
            ELSE (IF mCallbacksMask' = mCallbacksMask THEN <<>>
                  ELSE UpdateCallbacks(mCallbacksMask'))
                 \o StartBatching(mode, starts'))
    /\ UNCHANGED <<inbox, reachable, up, crashes, mHalRegistered, mSessionId, mLocationOptions,
                   withGeofences, told>>

\* StopBatchingReq, whoever posted it.
StopBatchingReq ==
    /\ Send(IF mBatchingId THEN <<[type |-> "STOP_BATCHING"]>> ELSE <<>>)
    /\ mBatchingId' = FALSE
    /\ mBatchingOptions' = IF mBatchingId THEN "none" ELSE mBatchingOptions
    /\ UNCHANGED <<reachable, up, crashes, mHalRegistered, mSessionId, mLocationOptions,
                   mCallbacksMask, pendingVars, withGeofences, starts, told>>

stopBatchingSession == mBatchingId /\ StopBatchingReq /\ UNCHANGED inbox

\* addGeofences takes the flag for its own answer.
AddGeofencesTakesFlag ==
    /\ Geofences
    /\ ~mPositionSessionResponseCbPending
    /\ mPositionSessionResponseCbPending' = TRUE
    /\ withGeofences' = TRUE
    /\ UNCHANGED <<linkVars, mHalRegistered, sessionVars, mCallbacksMask, ofStart, starts, told>>

\* The answer to any request about a geofence clears the flag, whoever set it.  The
\* request is not seen, so the answer may come whenever the client is registered.
GeofenceAnswerClearsFlag ==
    /\ withGeofences /\ mHalRegistered
    /\ mPositionSessionResponseCbPending
    /\ mPositionSessionResponseCbPending' = FALSE
    /\ ofStart' = FALSE
    /\ UNCHANGED <<linkVars, mHalRegistered, sessionVars, mCallbacksMask, withGeofences, starts,
                   told>>

GeofenceStep == AddGeofencesTakesFlag \/ GeofenceAnswerClearsFlag

-----------------------------------------------------------------------------
(* Messages of the task *)

\* The listener's message: the client registers.
ClientRegisterReq ==
    /\ Take("REGISTER")
    /\ Send(<<[type |-> "REGISTER"]>>)
    /\ UNCHANGED <<reachable, up, crashes, clientVars>>

\* The daemon has started again: register before anything else is sent to it.
onHalReady ==
    /\ TakeAndPost("HAL_READY", "REGISTER")
    /\ mHalRegistered' = FALSE
    /\ UNCHANGED <<toDaemon, reachable, up, crashes, sessionVars, mCallbacksMask,
                   pendingVars, withGeofences, starts, told>>

\* Variant: no session is started again.
ForgetsSessions ==
    /\ Take("CAPABILITIES")
    /\ mHalRegistered' = TRUE
    /\ Send(IF mCallbacksMask # {} THEN UpdateCallbacks(mCallbacksMask) ELSE <<>>)
    /\ UNCHANGED <<reachable, up, crashes, sessionVars, mCallbacksMask,
                   pendingVars, withGeofences, starts, told>>

\* Variant: the callbacks are not subscribed again.
ForgetsCallbacks ==
    /\ Take("CAPABILITIES")
    /\ mHalRegistered' = TRUE
    /\ Send(IF mHalRegistered THEN <<>>
            ELSE IF mSessionId THEN StartTracking(mLocationOptions, starts)
            ELSE IF mBatchingId THEN StartBatching(mBatchingOptions, starts)
            ELSE <<>>)
    /\ UNCHANGED <<reachable, up, crashes, sessionVars, mCallbacksMask,
                   pendingVars, withGeofences, starts, told>>

\* The callbacks are subscribed; after a registration the session is started again.
capabilitesCallback ==
    /\ Take("CAPABILITIES")
    /\ mHalRegistered' = TRUE
    /\ Send((IF mCallbacksMask # {} THEN UpdateCallbacks(mCallbacksMask) ELSE <<>>) \o
            (IF mHalRegistered THEN <<>>
             ELSE IF mSessionId THEN StartTracking(mLocationOptions, starts)
             ELSE IF mBatchingId THEN StartBatching(mBatchingOptions, starts)
             ELSE <<>>))
    /\ UNCHANGED <<reachable, up, crashes, sessionVars, mCallbacksMask,
                   pendingVars, withGeofences, starts, told>>

\* The answer to a session request; that of STOP_TRACKING is not looked at, and this
\* client never asks for one.
onResponse ==
    /\ Take("RESPONSE")
    /\ told' = IF mPositionSessionResponseCbPending
               THEN [start |-> starts, answer |-> Head(inbox).start] ELSE told
    /\ mPositionSessionResponseCbPending' = FALSE
    /\ ofStart' = FALSE
    /\ UNCHANGED <<toDaemon, reachable, up, crashes, mHalRegistered, sessionVars, mCallbacksMask,
                   withGeofences, starts>>

\* The trip is over: a StopBatchingReq is posted.
onTripCompleted ==
    /\ IF "BATCHING" \in mCallbacksMask
       THEN TakeAndPost("TRIP_COMPLETED", "STOP_BATCHING")
       ELSE Take("TRIP_COMPLETED")
    /\ UNCHANGED <<toDaemon, reachable, up, crashes, clientVars>>

ClientCall ==
    \/ \E o \in TrackOptions : startPositionSession(o)
    \/ stopPositionSession
    \/ \E mode \in BatchModes : startBatchingSession(mode)
    \/ stopBatchingSession

ClientTask ==
    \/ ClientRegisterReq
    \/ onHalReady
    \/ capabilitesCallback
    \/ onResponse
    \/ onTripCompleted
    \/ Take("STOP_BATCHING") /\ StopBatchingReq

ClientTypes ==
    /\ mHalRegistered \in BOOLEAN
    /\ mSessionId \in BOOLEAN
    /\ mLocationOptions \in Options
    /\ mBatchingId \in BOOLEAN
    /\ mBatchingOptions \in BatchModes \cup {"none"}
    /\ mCallbacksMask \subseteq TrackCbs \cup {"BATCHING", "BATCHING_STATUS"}
    /\ mPositionSessionResponseCbPending \in BOOLEAN
    /\ {ofStart, withGeofences} \subseteq BOOLEAN
    /\ starts \in 0..MaxStarts
    /\ told \in [start : 0..MaxStarts, answer : 0..MaxStarts]
=============================================================================
