----------------------------- MODULE SingleFix -----------------------------
(***************************************************************************)
(* Single-shot fixes of the location HAL daemon                            *)
(* (location_hal_daemon/LocationApiService.cpp).  A client asks for one    *)
(* terrestrial (GTP WWAN) fix or one fused fix, with a timeout.  The       *)
(* daemon keeps the pending requests in two maps, runs one network session *)
(* and one tracking session on behalf of all of them, and arms a timer per *)
(* request.  A timer that fires posts a message to the maintenance message *)
(* task, which takes mMutex and answers the client.                        *)
(*                                                                         *)
(* Every handler holds mMutex from its first to its last access, so each   *)
(* is one step (all but the maintenance's call of deleteClientbyName, see  *)
(* ClientRegistry).  The message posted by a timer carries the client's    *)
(* name and the kind of fix; which request armed the timer is history.     *)
(***************************************************************************)
EXTENDS Integers, Sequences, FiniteSets

CONSTANTS
    Clients,     \* client (socket) names
    MaxReqs,     \* bound: requests and cancellations received in all
    MaxQoS       \* bound: horizontal accuracies asked for are 1..MaxQoS

ASSUME BoundsAssumption == MaxReqs \in Nat /\ MaxQoS \in Nat \ {0}

VARIABLES
    mClients,                     \* names of the registered clients
    mOptInTerrestrialService,     \* -1: not set, 0: refused, 1: consent given
    mGtpWwanSsLocationApi,        \* has the network LocationAPI been created?
    networkSessions,              \* startNetworkLocation minus stopNetworkLocation
    mTerrestrialFixTimeoutMap,    \* client -> its pending request, 0 if none
    mSingleFixReqMap,             \* client -> its pending request, 0 if none
    mSingleFixTrackingSessionId,  \* 0 if the daemon thinks it has no session
    mSingleFixLastLocation,       \* last fix received for the fused requests
    tracking,                     \* ids of the sessions LocationAPI is running
    sessionsStarted,              \* sessions LocationAPI has ever started
    armed,                        \* requests whose timer is running
    mMsgTask,                     \* timeouts posted, by the request that armed them
    reqs,                         \* history: the requests received, in order
    answers                       \* history: what was sent for each request

apiVars   == <<networkSessions, mTerrestrialFixTimeoutMap>>
fusedVars == <<mSingleFixReqMap, mSingleFixTrackingSessionId,
               mSingleFixLastLocation, tracking, sessionsStarted>>
consentVars == <<mOptInTerrestrialService, mGtpWwanSsLocationApi>>
vars == <<mClients, consentVars, apiVars, fusedVars, armed, mMsgTask, reqs,
          answers>>

-----------------------------------------------------------------------------
(* State *)

\* A location is its accuracy; NoPosition is one without latitude and longitude,
\* which is also what Location{} is.
NoPosition == -1
Locations  == NoPosition..MaxQoS

Kinds == {"TERRESTRIAL", "FUSED"}

\* horQoS is 0 for a terrestrial request and for the cancellation of a fused one.
Request == [client : Clients, kind : Kinds, horQoS : 0..MaxQoS]

\* timer is history: the request whose timer caused the answer, 0 if none did.
Answer == [error : {"SUCCESS", "TIMEOUT", "NOT_SUPPORTED"}, location : Locations,
           timer : Nat]

\* The clients that have an entry in one of the two maps.
Pending(map) == {c \in Clients : map[c] # 0}

\* sendTerrestrialFix / sendSingleFusedFix for each request in rs whose client is
\* still registered (getClient).
Send(rs, error, location, timer) ==
    [r \in 1..MaxReqs |->
        IF r \in rs /\ reqs[r].client \in mClients
        THEN Append(answers[r], [error |-> error, location |-> location,
                                 timer |-> timer])
        ELSE answers[r]]

\* A new request, which nothing has been sent for.
Receive(c, kind, q) ==
    /\ Len(reqs) < MaxReqs
    /\ reqs' = Append(reqs, [client |-> c, kind |-> kind, horQoS |-> q])

Init ==
    /\ mClients = {}
    /\ mOptInTerrestrialService = -1
    /\ mGtpWwanSsLocationApi = FALSE
    /\ networkSessions = 0
    /\ mTerrestrialFixTimeoutMap = [c \in Clients |-> 0]
    /\ mSingleFixReqMap = [c \in Clients |-> 0]
    /\ mSingleFixTrackingSessionId = 0
    /\ mSingleFixLastLocation = NoPosition
    /\ tracking = {}
    /\ sessionsStarted = 0
    /\ armed = {}
    /\ mMsgTask = <<>>
    /\ reqs = <<>>
    /\ answers = [r \in 1..MaxReqs |-> <<>>]

-----------------------------------------------------------------------------
(* Clients and consent *)

\* A name that is already registered is only sent its capabilities again.
newClient(c) ==
    /\ c \notin mClients
    /\ mClients' = mClients \cup {c}
    /\ UNCHANGED <<consentVars, apiVars, fusedVars, armed, mMsgTask, reqs, answers>>

\* Variant: every request that ends stops the session.
StopsWithAnyRequest(map) == networkSessions - 1

\* stopNetworkLocation when the last terrestrial request has gone.
NetworkSessionsAfter(map) ==
    IF Pending(map) = {} THEN networkSessions - 1 ELSE networkSessions

\* Variants: the session is left running; the last location is kept.
StopForgetsSession(map, location) ==
    /\ mSingleFixLastLocation' = IF Pending(map) = {} THEN NoPosition ELSE location
    /\ mSingleFixTrackingSessionId' = IF Pending(map) = {}
                                      THEN 0 ELSE mSingleFixTrackingSessionId
    /\ UNCHANGED tracking

StopKeepsLocation(map, location) ==
    /\ mSingleFixLastLocation' = location
    /\ tracking' = IF Pending(map) = {}
                   THEN tracking \ {mSingleFixTrackingSessionId} ELSE tracking
    /\ mSingleFixTrackingSessionId' = IF Pending(map) = {}
                                      THEN 0 ELSE mSingleFixTrackingSessionId

\* The other requests stay; the tracking session stops with the last of them.
stopTrackingSessionForSingleFixes(map, location) ==
    IF Pending(map) = {}
    THEN /\ mSingleFixLastLocation' = NoPosition
         /\ tracking' = tracking \ {mSingleFixTrackingSessionId}
         /\ mSingleFixTrackingSessionId' = 0
    ELSE /\ mSingleFixLastLocation' = location
         /\ UNCHANGED <<tracking, mSingleFixTrackingSessionId>>

\* Variant: the fused request of the client stays.
DeleteKeepsFused(c) ==
    /\ c \in mClients
    /\ mClients' = mClients \ {c}
    /\ mTerrestrialFixTimeoutMap' = [mTerrestrialFixTimeoutMap EXCEPT ![c] = 0]
    /\ networkSessions' = IF mTerrestrialFixTimeoutMap[c] # 0
                          THEN NetworkSessionsAfter(mTerrestrialFixTimeoutMap')
                          ELSE networkSessions
    /\ armed' = armed \ {mTerrestrialFixTimeoutMap[c]}
    /\ UNCHANGED <<consentVars, fusedVars, mMsgTask, reqs, answers>>

\* Deregistration, a failed ping or a QRTR client that went down.
deleteClientbyName(c) ==
    /\ c \in mClients
    /\ mClients' = mClients \ {c}
    /\ mTerrestrialFixTimeoutMap' = [mTerrestrialFixTimeoutMap EXCEPT ![c] = 0]
    /\ networkSessions' = IF mTerrestrialFixTimeoutMap[c] # 0
                          THEN NetworkSessionsAfter(mTerrestrialFixTimeoutMap')
                          ELSE networkSessions
    /\ mSingleFixReqMap' = [mSingleFixReqMap EXCEPT ![c] = 0]
    /\ stopTrackingSessionForSingleFixes(mSingleFixReqMap', mSingleFixLastLocation)
    /\ armed' = armed \ {mTerrestrialFixTimeoutMap[c], mSingleFixReqMap[c]}
    /\ UNCHANGED <<consentVars, sessionsStarted, mMsgTask, reqs, answers>>

\* The LocationAPI is created with the first consent and kept when it is withdrawn.
configUserConsentTerrestrialPositioning(userConsent) ==
    /\ mOptInTerrestrialService' = userConsent
    /\ mGtpWwanSsLocationApi' = (mGtpWwanSsLocationApi \/ userConsent = 1)
    /\ UNCHANGED <<mClients, apiVars, fusedVars, armed, mMsgTask, reqs, answers>>

-----------------------------------------------------------------------------
(* Terrestrial fixes *)

TerrestrialRefused(c) ==
    /\ mOptInTerrestrialService # 1
    /\ Receive(c, "TERRESTRIAL", 0)
    /\ answers' = [answers EXCEPT ![Len(reqs')] =
                      IF c \in mClients
                      THEN <<[error |-> "NOT_SUPPORTED", location |-> NoPosition,
                              timer |-> 0]>>
                      ELSE <<>>]
    /\ UNCHANGED <<mClients, consentVars, apiVars, fusedVars, armed, mMsgTask>>

\* Variant: the old entry of the client is erased before the size is read.
TerrestrialAcceptedErasesFirst(c) ==
    /\ mOptInTerrestrialService = 1
    /\ Receive(c, "TERRESTRIAL", 0)
    /\ mTerrestrialFixTimeoutMap' =
           [mTerrestrialFixTimeoutMap EXCEPT ![c] = Len(reqs')]
    /\ armed' = (armed \ {mTerrestrialFixTimeoutMap[c]}) \cup {Len(reqs')}
    /\ networkSessions' = IF Pending(mTerrestrialFixTimeoutMap) \subseteq {c}
                          THEN networkSessions + 1
                          ELSE networkSessions
    /\ UNCHANGED <<mClients, consentVars, fusedVars, mMsgTask, answers>>

\* An entry of the same client is erased, and its timer with it.
TerrestrialAccepted(c) ==
    /\ mOptInTerrestrialService = 1
    /\ Receive(c, "TERRESTRIAL", 0)
    /\ mTerrestrialFixTimeoutMap' =
           [mTerrestrialFixTimeoutMap EXCEPT ![c] = Len(reqs')]
    /\ armed' = (armed \ {mTerrestrialFixTimeoutMap[c]}) \cup {Len(reqs')}
    /\ networkSessions' = IF Pending(mTerrestrialFixTimeoutMap) = {}
                          THEN networkSessions + 1
                          ELSE networkSessions
    /\ UNCHANGED <<mClients, consentVars, fusedVars, mMsgTask, answers>>

getSingleTerrestrialPos(c) == TerrestrialRefused(c) \/ TerrestrialAccepted(c)

\* One fix serves everybody; without consent, or without a position, it serves
\* nobody and nothing changes.
onGtpWwanTrackingCallback(location) ==
    /\ Pending(mTerrestrialFixTimeoutMap) # {}
    /\ location # NoPosition
    /\ mOptInTerrestrialService = 1
    /\ answers' = Send({mTerrestrialFixTimeoutMap[c] :
                            c \in Pending(mTerrestrialFixTimeoutMap)},
                       "SUCCESS", location, 0)
    /\ mTerrestrialFixTimeoutMap' = [c \in Clients |-> 0]
    /\ networkSessions' = networkSessions - 1
    /\ armed' = armed \ {mTerrestrialFixTimeoutMap[c] : c \in Clients}
    /\ UNCHANGED <<mClients, consentVars, fusedVars, mMsgTask, reqs>>

-----------------------------------------------------------------------------
(* Fused fixes *)

\* Variant: only the request that starts the session gets a timer.
SinglePosTimesSession(c, q) ==
    /\ Receive(c, "FUSED", q)
    /\ mSingleFixReqMap' = [mSingleFixReqMap EXCEPT ![c] = Len(reqs')]
    /\ armed' = (armed \ {mSingleFixReqMap[c]})
              \cup (IF mSingleFixTrackingSessionId = 0 THEN {Len(reqs')} ELSE {})
    /\ IF mSingleFixTrackingSessionId = 0
       THEN /\ sessionsStarted' = sessionsStarted + 1
            /\ mSingleFixTrackingSessionId' = sessionsStarted'
            /\ tracking' = tracking \cup {sessionsStarted'}
       ELSE UNCHANGED <<sessionsStarted, mSingleFixTrackingSessionId, tracking>>
    /\ UNCHANGED <<mClients, consentVars, apiVars, mSingleFixLastLocation, mMsgTask,
                   answers>>

\* Any earlier request of the client is replaced; one session serves all.
SinglePosRequested(c, q) ==
    /\ Receive(c, "FUSED", q)
    /\ mSingleFixReqMap' = [mSingleFixReqMap EXCEPT ![c] = Len(reqs')]
    /\ armed' = (armed \ {mSingleFixReqMap[c]}) \cup {Len(reqs')}
    /\ IF mSingleFixTrackingSessionId = 0
       THEN /\ sessionsStarted' = sessionsStarted + 1
            /\ mSingleFixTrackingSessionId' = sessionsStarted'
            /\ tracking' = tracking \cup {sessionsStarted'}
       ELSE UNCHANGED <<sessionsStarted, mSingleFixTrackingSessionId, tracking>>
    /\ UNCHANGED <<mClients, consentVars, apiVars, mSingleFixLastLocation, mMsgTask,
                   answers>>

\* A request with timeout or accuracy 0 cancels the client's request.  Nothing is
\* sent, and the session stops with the last request.
SinglePosCancelled(c) ==
    /\ Receive(c, "FUSED", 0)
    /\ mSingleFixReqMap' = [mSingleFixReqMap EXCEPT ![c] = 0]
    /\ stopTrackingSessionForSingleFixes(mSingleFixReqMap', mSingleFixLastLocation)
    /\ armed' = armed \ {mSingleFixReqMap[c]}
    /\ UNCHANGED <<mClients, consentVars, apiVars, sessionsStarted, mMsgTask, answers>>

getSinglePos(c, q) == IF q = 0 THEN SinglePosCancelled(c) ELSE SinglePosRequested(c, q)

\* The clients whose request this location meets.
Met(location) ==
    {c \in Pending(mSingleFixReqMap) :
        /\ location # NoPosition
        /\ location < reqs[mSingleFixReqMap[c]].horQoS}

\* Variant: the map is cleared, as the terrestrial callback does.
LocationClearsMap(location) ==
    /\ sessionsStarted # 0
    /\ answers' = Send({mSingleFixReqMap[c] : c \in Met(location)},
                       "SUCCESS", location, 0)
    /\ mSingleFixReqMap' = [c \in Clients |-> 0]
    /\ armed' = armed \ {mSingleFixReqMap[c] : c \in Clients}
    /\ stopTrackingSessionForSingleFixes(mSingleFixReqMap', location)
    /\ UNCHANGED <<mClients, consentVars, apiVars, sessionsStarted, mMsgTask, reqs>>

\* A location may still come after its session was stopped.
onGnssLocationInfoCb(location) ==
    /\ sessionsStarted # 0
    /\ answers' = Send({mSingleFixReqMap[c] : c \in Met(location)},
                       "SUCCESS", location, 0)
    /\ mSingleFixReqMap' = [c \in Clients |->
                               IF c \in Met(location) THEN 0 ELSE mSingleFixReqMap[c]]
    /\ armed' = armed \ {mSingleFixReqMap[c] : c \in Met(location)}
    /\ stopTrackingSessionForSingleFixes(mSingleFixReqMap', location)
    /\ UNCHANGED <<mClients, consentVars, apiVars, sessionsStarted, mMsgTask, reqs>>

-----------------------------------------------------------------------------
(* Timeouts *)

\* SingleFixTimer::timeOutCallback.  A timer whose entry was erased is destroyed
\* and does not fire.
timeOutCallback(r) ==
    /\ r \in armed
    /\ armed' = armed \ {r}
    /\ mMsgTask' = Append(mMsgTask, r)
    /\ UNCHANGED <<mClients, consentVars, apiVars, fusedVars, reqs, answers>>

\* The head of the message queue is a timeout of this kind and client.
Due(kind, c) ==
    /\ mMsgTask # <<>>
    /\ reqs[Head(mMsgTask)].kind = kind
    /\ reqs[Head(mMsgTask)].client = c
    /\ mMsgTask' = Tail(mMsgTask)

gtpFixRequestTimeout(c) ==
    /\ Due("TERRESTRIAL", c)
    /\ IF mTerrestrialFixTimeoutMap[c] # 0
       THEN /\ answers' = Send({mTerrestrialFixTimeoutMap[c]}, "TIMEOUT", NoPosition,
                               Head(mMsgTask))
            /\ mTerrestrialFixTimeoutMap' = [mTerrestrialFixTimeoutMap EXCEPT ![c] = 0]
            /\ networkSessions' = NetworkSessionsAfter(mTerrestrialFixTimeoutMap')
            /\ armed' = armed \ {mTerrestrialFixTimeoutMap[c]}
       ELSE UNCHANGED <<answers, apiVars, armed>>
    /\ UNCHANGED <<mClients, consentVars, fusedVars, reqs>>

\* Variant: the request stays in the map after its timeout was reported.
TimeoutKeepsRequest(c) ==
    /\ Due("FUSED", c)
    /\ IF mSingleFixReqMap[c] # 0
       THEN answers' = Send({mSingleFixReqMap[c]}, "TIMEOUT",
                            mSingleFixLastLocation, Head(mMsgTask))
       ELSE UNCHANGED answers
    /\ UNCHANGED <<mClients, consentVars, apiVars, fusedVars, armed, reqs>>

singleFixRequestTimeout(c) ==
    /\ Due("FUSED", c)
    /\ IF mSingleFixReqMap[c] # 0
       THEN /\ answers' = Send({mSingleFixReqMap[c]}, "TIMEOUT",
                               mSingleFixLastLocation, Head(mMsgTask))
            /\ mSingleFixReqMap' = [mSingleFixReqMap EXCEPT ![c] = 0]
            /\ armed' = armed \ {mSingleFixReqMap[c]}
            /\ stopTrackingSessionForSingleFixes(mSingleFixReqMap',
                                                 mSingleFixLastLocation)
       ELSE UNCHANGED <<answers, mSingleFixReqMap, armed, mSingleFixLastLocation,
                        mSingleFixTrackingSessionId, tracking>>
    /\ UNCHANGED <<mClients, consentVars, apiVars, sessionsStarted, reqs>>

-----------------------------------------------------------------------------
(* Specification *)

ClientStep ==
    \E c \in Clients :
        \/ newClient(c)
        \/ deleteClientbyName(c)
        \/ getSingleTerrestrialPos(c)
        \/ \E q \in 0..MaxQoS : getSinglePos(c, q)

EngineStep ==
    \E location \in Locations :
        \/ onGtpWwanTrackingCallback(location)
        \/ onGnssLocationInfoCb(location)

TimerStep == \E r \in 1..MaxReqs : timeOutCallback(r)

MsgTaskStep ==
    \E c \in Clients : gtpFixRequestTimeout(c) \/ singleFixRequestTimeout(c)

Next ==
    \/ ClientStep
    \/ \E consent \in {0, 1} : configUserConsentTerrestrialPositioning(consent)
    \/ EngineStep
    \/ TimerStep
    \/ MsgTaskStep

Spec == Init /\ [][Next]_vars

\* Timers expire and the message task runs; clients and engines owe nothing.
FairSpec ==
    /\ Spec
    /\ \A r \in 1..MaxReqs : WF_vars(timeOutCallback(r))
    /\ WF_vars(MsgTaskStep)

-----------------------------------------------------------------------------
(* Properties *)

ServiceTypes ==
    /\ mClients \subseteq Clients
    /\ mOptInTerrestrialService \in {-1, 0, 1}
    /\ mGtpWwanSsLocationApi \in BOOLEAN
    /\ networkSessions \in Nat
    /\ mTerrestrialFixTimeoutMap \in [Clients -> 0..Len(reqs)]
    /\ armed \subseteq 1..MaxReqs
    /\ mMsgTask \in Seq(1..MaxReqs)

FusedTypes ==
    /\ mSingleFixReqMap \in [Clients -> 0..Len(reqs)]
    /\ sessionsStarted \in Nat
    /\ mSingleFixTrackingSessionId \in 0..sessionsStarted
    /\ mSingleFixLastLocation \in Locations
    /\ tracking \subseteq 1..sessionsStarted

HistoryTypes ==
    /\ reqs \in Seq(Request)
    /\ Len(reqs) =< MaxReqs
    /\ answers \in [1..MaxReqs -> Seq(Answer)]

\* The state keeps its types.  A session that is stopped was started:
\* networkSessions never goes below zero.
TypeOK == ServiceTypes /\ FusedTypes /\ HistoryTypes

\* The network session runs exactly while somebody waits for a terrestrial fix, and
\* the LocationAPI it is stopped through exists even if consent was withdrawn
\* meanwhile (LocationApiService.cpp:881-888, 1866-1884, 2042-2097).
NetworkSessionIsExact ==
    LET pending == Pending(mTerrestrialFixTimeoutMap) IN
    /\ networkSessions = IF pending = {} THEN 0 ELSE 1
    /\ pending # {} => mGtpWwanSsLocationApi

\* LocationAPI runs exactly the tracking session the daemon remembers, and only
\* while somebody waits for a fused fix: no session is leaked, none is started
\* twice (LocationApiService.cpp:2150-2180).
TrackingSessionIsExact ==
    /\ tracking = {mSingleFixTrackingSessionId} \ {0}
    /\ mSingleFixTrackingSessionId = 0 <=> Pending(mSingleFixReqMap) = {}

\* The location handed out at a timeout was received while a request was pending:
\* nothing is left over from an earlier session, though callbacks may come late
\* (mSingleFixLastLocation, LocationApiService.cpp:1891, 2170).
LastLocationIsOfThisSession ==
    mSingleFixLastLocation # NoPosition => Pending(mSingleFixReqMap) # {}

\* A timer for request r runs, or has fired and its message is queued.
Timed(r) == r \in armed \/ \E i \in 1..Len(mMsgTask) : mMsgTask[i] = r

\* A request that waits is timed: none can wait for ever, whatever was replaced,
\* cancelled or answered meanwhile.
RequestIsTimed ==
    \A c \in Clients :
        /\ mTerrestrialFixTimeoutMap[c] # 0 => Timed(mTerrestrialFixTimeoutMap[c])
        /\ mSingleFixReqMap[c] # 0 => Timed(mSingleFixReqMap[c])

\* Request r waits in one of the maps.
Waits(r) == \E c \in Clients : mTerrestrialFixTimeoutMap[c] = r \/ mSingleFixReqMap[c] = r

\* A request is answered at most once, and not while it still waits: a fix and a
\* timeout that race do not both reach the client.
AnsweredAtMostOnce ==
    \A r \in 1..Len(reqs) :
        /\ Len(answers[r]) =< 1
        /\ Waits(r) => Len(answers[r]) = 0

\* A request of a client that stays registered leaves the maps with an answer, or
\* because the client itself sent a newer request or a cancellation.
NoSilentDrop ==
    [][\A r \in 1..Len(reqs) :
          Waits(r) /\ ~Waits(r)' =>
              \/ Len(answers'[r]) = 1
              \/ reqs[r].client \notin mClients \cap mClients'
              \/ /\ Len(reqs') > Len(reqs)
                 /\ reqs'[Len(reqs')].client = reqs[r].client]_vars

-----------------------------------------------------------------------------
(* The abstract requests *)

\* What a client is told of its request, without the timer behind it.
ToldOf(r) == [i \in 1..Len(answers[r]) |-> [error |-> answers[r][i].error,
                                            location |-> answers[r][i].location]]

Told == [r \in 1..MaxReqs |-> ToldOf(r)]

Waiting == {r \in 1..Len(reqs) : Waits(r)}

Fixes == INSTANCE FixRequests WITH
             registered <- mClients, requests <- reqs, waiting <- Waiting, told <- Told

\* The maps, sessions, timers and messages implement the abstract requests: nothing is said
\* of a request that was answered or replaced or whose client has gone, though timeouts
\* carry names and names come back, and a location serves all it is good enough for
\* (LocationApiService.cpp:1951-2197).
FixesAreServed == Fixes!FixSpec

-----------------------------------------------------------------------------
(* Liveness and promises of the documentation *)

\* Every request leaves the maps: it is answered, replaced or cancelled, or its
\* client goes.
EveryRequestEnds == \A r \in 1..MaxReqs : Waits(r) ~> ~Waits(r)

\* What LocationClientApi.h:3797-3800 promises: a request is told TIMEOUT when its
\* own timeout has passed.  The message carries the name of the client, so the
\* timeout of a request that was just answered ends the next one.
TimeoutIsItsOwn ==
    \A r \in 1..Len(reqs) : \A i \in 1..Len(answers[r]) :
        answers[r][i].error = "TIMEOUT" => answers[r][i].timer = r

\* A request that comes finds no timeout in the queue for its client and its kind.  A client
\* that hurries, or comes back, cannot know.
Patient ==
    Len(reqs') > Len(reqs) =>
        \A i \in 1..Len(mMsgTask) :
            \/ reqs[mMsgTask[i]].client # reqs'[Len(reqs')].client
            \/ reqs[mMsgTask[i]].kind # reqs'[Len(reqs')].kind

\* With patient clients every timeout is that of the request it ends.
PatientNext == Next /\ Patient

PatientSpec == Init /\ [][PatientNext]_vars

\* What LocationClientApi.h:3837-3839 promises: the position delivered with TIMEOUT
\* does not satisfy the QoS asked for.
TimeoutMissesQoS ==
    \A r \in 1..Len(reqs) : \A i \in 1..Len(answers[r]) :
        answers[r][i].error = "TIMEOUT" /\ answers[r][i].location # NoPosition
            => answers[r][i].location >= reqs[r].horQoS
=============================================================================
