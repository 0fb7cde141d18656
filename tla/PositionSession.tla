--------------------------- MODULE PositionSession ---------------------------
(***************************************************************************)
(* A client with its sessions and the daemon that serves it, composed: the *)
(* two share the sockets and nothing else.  Of the client's geofences only *)
(* the flag they share with the sessions is seen.                          *)
(***************************************************************************)
EXTENDS LcaSession, HandlerSession

vars == <<linkVars, clientVars, handler>>

\* The client's listener is ready; the daemon may be there or is yet to come, which
\* counts as a crash.
Init ==
    /\ ClientInit
    /\ handler = NoHandler
    /\ toDaemon = <<>>
    /\ inbox = <<[type |-> "REGISTER"]>>
    /\ reachable = TRUE
    /\ up \in BOOLEAN
    /\ crashes = IF up THEN 0 ELSE 1
    /\ crashes =< MaxCrashes

ClientStep == (ClientCall \/ ClientTask \/ GeofenceStep) /\ UNCHANGED handler

DaemonStep ==
    (DaemonRequest \/ EngineCallback \/ Crash \/ onListenerReady) /\ UNCHANGED clientVars

Next == ClientStep \/ DaemonStep

Spec == Init /\ [][Next]_vars

\* The client's task and the daemon's receiver run, LocationAPI answers its calls and
\* reports its capabilities, and the daemon is started again.  The application owes
\* nothing, and neither do a trip and the geofences.
FairSpec ==
    /\ Spec
    /\ WF_vars(ClientTask /\ UNCHANGED handler)
    /\ WF_vars(DaemonRequest /\ UNCHANGED clientVars)
    /\ WF_vars(onCapabilitiesCallback /\ UNCHANGED clientVars)
    /\ WF_vars(onResponseCb /\ UNCHANGED clientVars)
    /\ WF_vars(onListenerReady /\ UNCHANGED clientVars)

\* The client is served by the daemon, or is about to be, and has still to register with
\* its next run: with two runs of the daemon in one registration, the messages of the one
\* are taken for the other's.
StillRegisters ==
    /\ mHalRegistered \/ \E m \in Range(inbox) : m.type = "CAPABILITIES"
    /\ \E m \in Range(inbox) : m.type \in {"HAL_READY", "REGISTER"}

\* The daemon may crash as often as it likes, but not while the client still registers.
CalmNext == Next /\ (Crash => ~StillRegisters)

CalmSpec == Init /\ [][CalmNext]_vars

-----------------------------------------------------------------------------
(* Properties *)

\* The state keeps its types; the client is never sent the answer to a stop.
TypeOK ==
    /\ ClientTypes
    /\ handler \in Handler
    /\ toDaemon \in Seq(Requests)
    /\ inbox \in Seq(Indications)
    /\ reachable \in BOOLEAN
    /\ up \in BOOLEAN
    /\ crashes \in 0..MaxCrashes

\* Client and daemon have nothing left to tell each other.
Settled ==
    /\ up /\ mHalRegistered /\ reachable
    /\ toDaemon = <<>> /\ inbox = <<>>

\* Whenever client and daemon have settled, the daemon runs exactly the session the
\* client believes in, with the client's options, whatever starts, updates and stops
\* a crash of the daemon and the registration after it swallowed.  A start that
\* LocationAPI refused is excepted, and so, by CalmSpec or by MaxCrashes = 1, is a daemon
\* that starts again while the client still registers (LocationClientApiImpl.cpp:2185-2591,
\* 3306-3345, LocHalDaemonClientHandler.cpp:261-338).
SessionsAgree ==
    Settled /\ ~handler.refused =>
        /\ handler.mSessionId <=> mSessionId /\ mLocationOptions # "passive"
        /\ handler.mSessionId => handler.mOptions = mLocationOptions
        /\ handler.mBatchingId <=> mBatchingId

\* The daemon never runs a tracking and a batching session for one client, though
\* only the client checks and it does not wait for the answers of its stops.  A daemon
\* that starts again while the client registers is excepted, by CalmSpec or by
\* MaxCrashes = 1: there a stop is not sent (LocationClientApiImpl.cpp:2291-2295,
\* 2520-2524, LocationClientApi.h:4064).
OneKindOfSession == ~(handler.mSessionId /\ handler.mBatchingId)

\* Whenever client and daemon have settled, the daemon reports what the callbacks of
\* the client's session are there for; the client replaces its callbacks, the daemon
\* drops them at a stop and forgets them in a crash (LocationClientApiImpl.cpp:
\* 2077-2167, 2373-2402, LocHalDaemonClientHandler.cpp:290-296).
SubscriptionsAgree ==
    Settled => (mSessionId => TrackCbs \subseteq handler.mSubscriptionMask)

\* A session the client holds is in the end run by the daemon with its options, or
\* the client gives it up: also if the daemon crashes or is not there yet
\* (LocationClientApiImpl.cpp:2196-2202, 3336-3351).
SessionIsServed ==
    \A o \in TrackOptions :
        mSessionId /\ mLocationOptions = o
            ~> \/ handler.mSessionId /\ handler.mOptions = o
               \/ ~(mSessionId /\ mLocationOptions = o)

\* A start call that was accepted is answered, unless its session is stopped or the answer
\* to a request about a geofence clears the flag first: until then the client drops every
\* report and refuses every other start (LocationClientApiImpl.cpp:2287-2301, 3421-3428,
\* 3582-3584).
StartIsAnswered == ofStart ~> ~ofStart

\* What LocationClientApi.h:3538-3540 says of a session that was started: responseCallback
\* will be invoked, as long as the session is not stopped and not started anew.
StartIsReported ==
    \A n \in 1..MaxStarts :
        ofStart /\ starts = n ~> told.start >= n \/ ~mSessionId \/ starts > n

\* What LocationClientApi.h:4115-4118 says of a start during a session: the parameters
\* are updated.
BatchingModeAgrees ==
    Settled /\ mBatchingId /\ ~handler.refused => handler.mBatchOptions = mBatchingOptions

\* What LocHalDaemonClientHandler.cpp:505 says of an answer: it corresponds to the
\* request that is pending.
AnswerIsItsOwn == told.answer = told.start
=============================================================================
