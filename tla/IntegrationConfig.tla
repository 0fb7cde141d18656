-------------------------- MODULE IntegrationConfig --------------------------
(***************************************************************************)
(* The location integration API: the configuration requests of one client, *)
(* which are queued until the daemon is there, counted until they are      *)
(* answered, cached for the next daemon, and sent again when it restarts   *)
(* (integration_api/src/LocationIntegrationApiImpl.cpp), with the part of  *)
(* the daemon that takes them (location_hal_daemon/LocationApiService.cpp).*)
(*                                                                         *)
(* mMsgTask is one thread.  A request of the application is posted to it,  *)
(* as is every message from the socket; in what order is open, so a call   *)
(* and its processing are one step.  A request has a number, the ghost     *)
(* that stands for the content of the configuration.                       *)
(***************************************************************************)
EXTENDS Naturals, Sequences, SequencesExt, FiniteSets

CONSTANTS
    Types,       \* the LocConfigTypeEnum values the application uses
    MaxConfigs,  \* bound: requests of the application
    MaxRestarts  \* bound: crashes of the daemon

\* The types of LocConfigTypeEnum by what becomes of them: the ones with a cache of
\* their own, the other configurations, the ones above CONFIG_ENUM_MAX that are not
\* cached, and the registration for xtra status updates.  "odcpi" is type 0.
CachedTypes ==
    {"CONSTELLATIONS", "CONSTELLATION_SECONDARY_BAND", "CONSTRAINED_TIME_UNCERTAINTY",
     "POSITION_ASSISTED_CLOCK_ESTIMATOR", "LEVER_ARM", "ROBUST_LOCATION",
     "DEAD_RECKONING_ENGINE", "ENGINE_RUN_STATE", "OUTPUT_NMEA_TYPES",
     "USER_CONSENT_TERRESTRIAL_POSITIONING", "ENGINE_INTEGRITY_RISK"}
UncachedConfigs ==
    {"AIDING_DATA_DELETION", "MIN_GPS_WEEK", "MIN_SV_ELEVATION", "XTRA_PARAMS",
     "MERKLE_TREE", "OSNMA_ENABLEMENT", "MAP_MATCHED_FEEDBACK", "odcpi"}
XtraUpdate == "REGISTER_XTRA_STATUS_UPDATE"
AboveMax ==
    {"GET_ROBUST_LOCATION_CONFIG", "GET_MIN_GPS_WEEK", "GET_MIN_SV_ELEVATION",
     "GET_CONSTELLATION_SECONDARY_BAND_CONFIG", "GET_XTRA_STATUS",
     "REGISTER_SIGNAL_TYPES_UPDATE", "XTRA_USER_CONSENT", XtraUpdate}

\* The type the client credits an answer to: getLocConfigTypeFromMsgId does not know the
\* map matched feedback, and the type it does not find is that of an injected location.
Credited(k) == IF k = "MAP_MATCHED_FEEDBACK" THEN "odcpi" ELSE k

\* Requests whose type is not credited with an answer of its own: the daemon never
\* answers an injected location, the client drops the answer to a consent for xtra, and
\* credits that to a map matched feedback to the injected locations.
Unanswered == {"odcpi", "XTRA_USER_CONSENT", "MAP_MATCHED_FEEDBACK"}

ASSUME ConfigTypes == Types \subseteq CachedTypes \cup UncachedConfigs \cup AboveMax
ASSUME ConfigBounds == MaxConfigs \in Nat /\ MaxRestarts \in Nat

VARIABLES
    \* the client
    listener,         \* "starting", "ready" or "destroyed"
    configRegistered, \* mHalRegistered
    mQueuedMsg,       \* messages kept until the daemon can be reached
    cached,           \* last accepted configuration of a cached type, 0: none
    svConfigValid,    \* mSvConfigInfo.isValid
    mRegisterXtraUpdate,
    mXtraUpdateUponRegisterPending,
    mConfigReqCntMap, \* requests of a type that wait for an answer
    \* the sockets and the daemon
    toService,        \* messages on the daemon's socket
    toApi,            \* messages on the client's socket and in mMsgTask
    service,          \* "down", "bound" (its socket is there) or "ready"
    restarts,
    apiRegistered,    \* is the client in the daemon's mClients?
    engineConfig,     \* the configuration of a type the engine was given last, 0: none
    mConfigReqs,      \* requests under way in the control API
    xtraRegistered,   \* is the client in mClientsRegForXtraStatus?
    \* history
    number,           \* requests so far
    asked,            \* requests of a type so far
    answered,         \* calls of configCb with a type so far
    flushed,          \* types that configCb was told SUCCESS of by a flush
    registrations,    \* requests to be updated about the xtra status
    xtraTold          \* reports upon registration the application was given

configClient == <<listener, configRegistered, mQueuedMsg, cached, svConfigValid,
                  mRegisterXtraUpdate, mXtraUpdateUponRegisterPending, mConfigReqCntMap>>
configHistory == <<number, asked, answered, flushed, registrations, xtraTold>>
configDaemon == <<apiRegistered, engineConfig, mConfigReqs, xtraRegistered>>
configVars == <<configClient, toService, toApi, service, restarts, configDaemon,
                configHistory>>

Numbers == 0..MaxConfigs

\* type REGISTER: the registration; otherwise a request, sent again by the cache or not.
ServiceMsgs == [type : Types \cup {"REGISTER", "DEREGISTER_CLIENT"}, number : Numbers,
                on : BOOLEAN, again : BOOLEAN]
Msg(type, nr, on, again) ==
    [type |-> type, number |-> nr, on |-> on, again |-> again]
Registration == Msg("REGISTER", 0, FALSE, FALSE)
Deregistration == Msg("DEREGISTER_CLIENT", 0, FALSE, FALSE)

ApiMsgs == [type : Types \cup {"HAL_READY", "UPON_REGISTRATION"}]

Zero == [k \in Types |-> 0]

ConfigInit ==
    /\ listener = "starting"
    /\ configRegistered = FALSE
    /\ mQueuedMsg = <<>>
    /\ cached = Zero
    /\ svConfigValid = FALSE
    /\ mRegisterXtraUpdate = FALSE
    /\ mXtraUpdateUponRegisterPending = FALSE
    /\ mConfigReqCntMap = Zero
    /\ toService = <<>>
    /\ toApi = <<>>
    /\ service \in {"down", "ready"}
    /\ restarts = 0
    /\ apiRegistered = FALSE
    /\ engineConfig = Zero
    /\ mConfigReqs = {}
    /\ xtraRegistered = FALSE
    /\ number = 0
    /\ asked = Zero
    /\ answered = Zero
    /\ flushed = {}
    /\ registrations = 0
    /\ xtraTold = 0

-----------------------------------------------------------------------------
(* The client *)

SvTypes == {"CONSTELLATIONS", "CONSTELLATION_SECONDARY_BAND"}

\* What a caller of sendConfigMsgToHalDaemon remembers when it returned true.
Accept(m) ==
    /\ cached' = IF m.type \in CachedTypes THEN [cached EXCEPT ![m.type] = m.number]
                                           ELSE cached
    /\ svConfigValid' = (svConfigValid \/ m.type \in SvTypes)
    /\ mRegisterXtraUpdate' = IF m.type = XtraUpdate THEN m.on ELSE mRegisterXtraUpdate
    /\ mXtraUpdateUponRegisterPending' =
          IF m.type = XtraUpdate THEN m.on ELSE mXtraUpdateUponRegisterPending

\* Not registered: the message is queued and the configuration accepted; a message that
\* cannot be sent fails and is not remembered.
sendConfigMsgToHalDaemon(m) ==
    \/ /\ ~configRegistered
       /\ mQueuedMsg' = Append(mQueuedMsg, m)
       /\ Accept(m)
       /\ UNCHANGED <<toService, mConfigReqCntMap, answered>>
    \/ /\ configRegistered /\ service # "down"
       /\ toService' = Append(toService, m)
       /\ mConfigReqCntMap' = [mConfigReqCntMap EXCEPT ![m.type] = @ + 1]
       /\ Accept(m)
       /\ UNCHANGED <<mQueuedMsg, answered>>
    \/ /\ configRegistered /\ service = "down"
       /\ answered' = [answered EXCEPT ![m.type] = @ + 1]
       /\ UNCHANGED <<mQueuedMsg, toService, mConfigReqCntMap, cached, svConfigValid,
                      mRegisterXtraUpdate, mXtraUpdateUponRegisterPending>>

\* A call of the application; only the registration for xtra updates may be undone.
configRequest(k, on) ==
    /\ listener # "destroyed"
    /\ number < MaxConfigs
    /\ on \/ k = XtraUpdate
    /\ number' = number + 1
    /\ asked' = [asked EXCEPT ![k] = @ + 1]
    /\ registrations' = IF k = XtraUpdate /\ on THEN registrations + 1 ELSE registrations
    /\ sendConfigMsgToHalDaemon(Msg(k, number + 1, on, FALSE))
    /\ UNCHANGED <<listener, configRegistered, toApi, service, restarts, configDaemon,
                   flushed, xtraTold>>

\* The daemon dies: what it knew and what was on its socket is lost.
ServiceDies ==
    /\ restarts < MaxRestarts
    /\ service' = "down"
    /\ restarts' = restarts + 1
    /\ toService' = <<>>
    /\ apiRegistered' = FALSE
    /\ engineConfig' = Zero
    /\ mConfigReqs' = {}
    /\ xtraRegistered' = FALSE

OfType(k, first, last) == Cardinality({i \in first..last : mQueuedMsg[i].type = k})

\* processQueuedReqs behind a registration that was sent.  The daemon may die after
\* it took some of the messages; the others cannot be sent.
processQueuedReqs(sent) ==
    /\ configRegistered' = TRUE
    /\ mQueuedMsg' = <<>>
    /\ mConfigReqCntMap' = [k \in Types |-> mConfigReqCntMap[k] + OfType(k, 1, sent)]
    /\ answered' = [k \in Types |-> answered[k] + OfType(k, sent + 1, Len(mQueuedMsg))]
    /\ IF sent = Len(mQueuedMsg)
       THEN /\ toService' = Append(toService, Registration) \o mQueuedMsg
            /\ UNCHANGED <<service, restarts, configDaemon>>
       ELSE ServiceDies
    /\ UNCHANGED <<cached, svConfigValid, mRegisterXtraUpdate,
                   mXtraUpdateUponRegisterPending, number, asked, flushed, registrations,
                   xtraTold>>

\* The client's socket is there.
ConfigRegisterReq ==
    /\ listener = "starting"
    /\ listener' = "ready"
    /\ IF service # "down"
       THEN \E sent \in 0..Len(mQueuedMsg) : processQueuedReqs(sent)
       ELSE UNCHANGED <<configRegistered, mQueuedMsg, cached, svConfigValid,
                        mRegisterXtraUpdate, mXtraUpdateUponRegisterPending,
                        mConfigReqCntMap, toService, service, restarts, configDaemon,
                        configHistory>>
    /\ UNCHANGED toApi

ConfigReceive(type) ==
    /\ listener = "ready"
    /\ toApi # <<>>
    /\ Head(toApi).type = type
    /\ toApi' = Tail(toApi)

\* Variant: the registration for xtra updates is not sent again.
CachedConfigsOnly ==
    {Msg(k, cached[k], TRUE, TRUE) :
        k \in {t \in Types \cap CachedTypes :
                  cached[t] # 0 \/ (t = "CONSTELLATIONS" /\ svConfigValid)}}

\* Everything that is cached, to be sent again; constellations whenever one of the two
\* types of mSvConfigInfo was configured.
CachedMsgs ==
    {Msg(k, cached[k], TRUE, TRUE) :
        k \in {t \in Types \cap CachedTypes :
                  cached[t] # 0 \/ (t = "CONSTELLATIONS" /\ svConfigValid)}}
    \cup {Msg(k, 0, TRUE, TRUE) : k \in {t \in Types \cap {XtraUpdate} : mRegisterXtraUpdate}}

\* Variant: the requests that were pending go on waiting.
FlushNothing == UNCHANGED <<answered, flushed, mConfigReqCntMap>>

flushConfigReqs ==
    /\ answered' = [k \in Types |-> answered[k] + mConfigReqCntMap[k]]
    /\ flushed' = flushed \cup {k \in Types \ AboveMax : mConfigReqCntMap[k] > 0}
    /\ mConfigReqCntMap' = Zero

\* The daemon says that it has started: register, and either send what was queued or
\* give up what was pending and send the cache again.
processHalReadyMsg ==
    /\ ConfigReceive("HAL_READY")
    /\ \/ /\ service = "down"
          /\ UNCHANGED <<configRegistered, mQueuedMsg, cached, svConfigValid,
                         mRegisterXtraUpdate, mXtraUpdateUponRegisterPending,
                         mConfigReqCntMap, toService, service, restarts, configDaemon,
                         configHistory>>
       \/ /\ service # "down" /\ mQueuedMsg # <<>>
          /\ \E sent \in 0..Len(mQueuedMsg) : processQueuedReqs(sent)
       \/ /\ service # "down" /\ mQueuedMsg = <<>>
          /\ configRegistered' = TRUE
          /\ flushConfigReqs
          /\ toService' = Append(toService, Registration) \o SetToSeq(CachedMsgs)
          /\ UNCHANGED <<mQueuedMsg, cached, svConfigValid, mRegisterXtraUpdate,
                         mXtraUpdateUponRegisterPending, service, restarts, configDaemon,
                         number, asked, registrations, xtraTold>>
    /\ UNCHANGED listener

\* Variant: every answer is passed on.
RespAlwaysTold(k) ==
    /\ ConfigReceive(k)
    /\ answered' = [j \in Types |-> IF j = Credited(k) THEN answered[j] + 1 ELSE answered[j]]
    /\ mConfigReqCntMap' = [j \in Types |-> IF j = Credited(k) /\ mConfigReqCntMap[j] > 0
                                            THEN mConfigReqCntMap[j] - 1
                                            ELSE mConfigReqCntMap[j]]
    /\ UNCHANGED <<listener, configRegistered, mQueuedMsg, cached, svConfigValid,
                   mRegisterXtraUpdate, mXtraUpdateUponRegisterPending, toService, service,
                   restarts, configDaemon, number, asked, flushed, registrations, xtraTold>>

\* Variant: every answer is counted.
RespAlwaysCounted(k) ==
    /\ ConfigReceive(k)
    /\ mConfigReqCntMap' = [j \in Types |-> IF j = Credited(k) THEN mConfigReqCntMap[j] - 1
                                            ELSE mConfigReqCntMap[j]]
    /\ answered' = [j \in Types |-> IF j = Credited(k) /\ mConfigReqCntMap[j] > 0
                                    THEN answered[j] + 1 ELSE answered[j]]
    /\ UNCHANGED <<listener, configRegistered, mQueuedMsg, cached, svConfigValid,
                   mRegisterXtraUpdate, mXtraUpdateUponRegisterPending, toService, service,
                   restarts, configDaemon, number, asked, flushed, registrations, xtraTold>>

\* The answer to a request of the type, maybe one that was sent again: it counts for the
\* type it is credited to.  OnReceiveHandler does not know that to a consent for xtra.
processConfigRespCb(k) ==
    /\ ConfigReceive(k)
    /\ \/ /\ k # "XTRA_USER_CONSENT"
          /\ \E c \in Types \cap {Credited(k)} :
                /\ mConfigReqCntMap[c] > 0
                /\ answered' = [answered EXCEPT ![c] = @ + 1]
                /\ mConfigReqCntMap' = [mConfigReqCntMap EXCEPT ![c] = @ - 1]
       \/ /\ \/ k = "XTRA_USER_CONSENT"
             \/ \A c \in Types \cap {Credited(k)} : mConfigReqCntMap[c] = 0
          /\ UNCHANGED <<answered, mConfigReqCntMap>>
    /\ UNCHANGED <<listener, configRegistered, mQueuedMsg, cached, svConfigValid,
                   mRegisterXtraUpdate, mXtraUpdateUponRegisterPending, toService, service,
                   restarts, configDaemon, number, asked, flushed, registrations, xtraTold>>

\* Variant: every report upon registration is passed on.
XtraStaysPending ==
    /\ ConfigReceive("UPON_REGISTRATION")
    /\ xtraTold' = IF mRegisterXtraUpdate THEN xtraTold + 1 ELSE xtraTold
    /\ UNCHANGED <<listener, configRegistered, mQueuedMsg, cached, svConfigValid,
                   mRegisterXtraUpdate, mXtraUpdateUponRegisterPending, mConfigReqCntMap,
                   toService, service, restarts, configDaemon, number, asked, answered, flushed,
                   registrations>>

\* The report upon registration is passed on once per registration.
processGetXtraStatusRespCb ==
    /\ ConfigReceive("UPON_REGISTRATION")
    /\ IF mRegisterXtraUpdate /\ mXtraUpdateUponRegisterPending
       THEN xtraTold' = xtraTold + 1 /\ mXtraUpdateUponRegisterPending' = FALSE
       ELSE UNCHANGED <<xtraTold, mXtraUpdateUponRegisterPending>>
    /\ UNCHANGED <<listener, configRegistered, mQueuedMsg, cached, svConfigValid,
                   mRegisterXtraUpdate, mConfigReqCntMap, toService, service, restarts,
                   configDaemon, number, asked, answered, flushed, registrations>>

destroy ==
    /\ listener = "ready"
    /\ listener' = "destroyed"
    /\ toService' = IF configRegistered /\ service # "down"
                    THEN Append(toService, Deregistration) ELSE toService
    /\ UNCHANGED <<configRegistered, mQueuedMsg, cached, svConfigValid, mRegisterXtraUpdate,
                   mXtraUpdateUponRegisterPending, mConfigReqCntMap, toApi, service,
                   restarts, configDaemon, configHistory>>

-----------------------------------------------------------------------------
(* The daemon *)

Answer(types) == toApi' = IF apiRegistered
                          THEN toApi \o [i \in DOMAIN types |-> [type |-> types[i]]]
                          ELSE toApi

\* The daemon takes a message.  A request begins a session of the control API, which
\* may refuse: then it is answered at once.
processClientMsg ==
    /\ service = "ready"
    /\ toService # <<>>
    /\ toService' = Tail(toService)
    /\ LET m == Head(toService) IN
       \/ /\ m = Registration
          /\ apiRegistered' = TRUE
          /\ UNCHANGED <<engineConfig, mConfigReqs, xtraRegistered, toApi>>
       \/ /\ m = Deregistration
          /\ apiRegistered' = FALSE
          /\ UNCHANGED <<engineConfig, mConfigReqs, xtraRegistered, toApi>>
       \/ /\ m.type \in Types
          /\ engineConfig' = IF m.type \in AboveMax \cup {"odcpi"} THEN engineConfig
                             ELSE [engineConfig EXCEPT ![m.type] = m.number]
          /\ xtraRegistered' = IF m.type = XtraUpdate THEN m.on ELSE xtraRegistered
          /\ \/ m.type = "odcpi" /\ UNCHANGED <<mConfigReqs, toApi>>
             \/ /\ m.type \notin {"odcpi", "REGISTER_SIGNAL_TYPES_UPDATE"}
                /\ mConfigReqs' = mConfigReqs \cup {m}
                /\ UNCHANGED toApi
             \/ /\ m.type # "odcpi"
                /\ Answer(<<m.type>>)
                /\ UNCHANGED mConfigReqs
          /\ UNCHANGED apiRegistered
    /\ UNCHANGED <<configClient, service, restarts, configHistory>>

\* The control API ends a session.  A registration for xtra updates is answered with the
\* status as well.
EndConfigReq(m) ==
    /\ m \in mConfigReqs
    /\ mConfigReqs' = mConfigReqs \ {m}
    /\ \/ Answer(<<m.type>>)
       \/ m.type = XtraUpdate /\ m.on /\ Answer(<<m.type, "UPON_REGISTRATION">>)
    /\ UNCHANGED <<configClient, toService, service, restarts, apiRegistered, engineConfig,
                   xtraRegistered, configHistory>>

ServiceCrash ==
    /\ service # "down"
    /\ ServiceDies
    /\ UNCHANGED <<configClient, toApi, configHistory>>

\* The daemon's socket is there before the daemon tells its clients.
ServiceBinds ==
    /\ service = "down"
    /\ service' = "bound"
    /\ UNCHANGED <<configClient, toService, toApi, restarts, configDaemon, configHistory>>

ServiceReady ==
    /\ service = "bound"
    /\ service' = "ready"
    /\ \/ listener # "destroyed" /\ toApi' = Append(toApi, [type |-> "HAL_READY"])
       \/ listener # "ready" /\ UNCHANGED toApi
    /\ UNCHANGED <<configClient, toService, restarts, configDaemon, configHistory>>

-----------------------------------------------------------------------------
ApiTask ==
    \/ ConfigRegisterReq
    \/ processHalReadyMsg
    \/ \E k \in Types : processConfigRespCb(k)
    \/ processGetXtraStatusRespCb

ServiceTask == processClientMsg \/ ServiceBinds \/ ServiceReady

ConfigNext ==
    \/ \E k \in Types, on \in BOOLEAN : configRequest(k, on)
    \/ destroy
    \/ ApiTask
    \/ ServiceTask
    \/ \E m \in mConfigReqs : EndConfigReq(m)
    \/ ServiceCrash

ConfigSpec == ConfigInit /\ [][ConfigNext]_configVars

\* The client's task and the daemon run, the daemon is started again, and the control
\* API ends its sessions.
ConfigFairSpec ==
    /\ ConfigSpec
    /\ WF_configVars(ApiTask)
    /\ WF_configVars(ServiceTask)
    /\ WF_configVars(\E m \in mConfigReqs : EndConfigReq(m))

-----------------------------------------------------------------------------
(* Properties *)

Counters == {mConfigReqCntMap, asked, answered}

\* The state keeps its types; what is queued was asked for and never sent before.
ConfigTypeOK ==
    /\ listener \in {"starting", "ready", "destroyed"}
    /\ configRegistered \in BOOLEAN
    /\ mQueuedMsg \in Seq([type : Types, number : Numbers, on : BOOLEAN, again : {FALSE}])
    /\ cached \in [Types -> Numbers]
    /\ {svConfigValid, mRegisterXtraUpdate, mXtraUpdateUponRegisterPending} \subseteq BOOLEAN
    /\ Counters \subseteq [Types -> Nat]
    /\ toService \in Seq(ServiceMsgs)
    /\ toApi \in Seq(ApiMsgs)
    /\ service \in {"down", "bound", "ready"}
    /\ restarts \in 0..MaxRestarts
    /\ {apiRegistered, xtraRegistered} \subseteq BOOLEAN
    /\ engineConfig \in [Types -> Numbers]
    /\ mConfigReqs \subseteq ServiceMsgs
    /\ flushed \subseteq Types
    /\ {number, registrations, xtraTold} \subseteq Nat

\* Every request is queued, waits for its answer, or was reported to configCb once, and
\* in no two of these ways: however sending, failing, the queue, answers to messages that
\* were sent again and the flush at a restart interleave
\* (LocationIntegrationApiImpl.cpp:1442-1475, 1648-1715).
EveryConfigIsAccounted ==
    \A k \in Types :
        asked[k] = answered[k] + mConfigReqCntMap[k] + OfType(k, 1, Len(mQueuedMsg))

\* The client has registered with a daemon that has nothing left to read from it, and
\* knows of every start of the daemon.
ConfigSettled ==
    /\ listener = "ready" /\ configRegistered
    /\ service = "ready" /\ toService = <<>>
    /\ [type |-> "HAL_READY"] \notin Range(toApi)

\* Whenever client and daemon have settled, the engine was given the last configuration
\* that was accepted of each cached type and the daemon knows whether the client wants
\* xtra updates, also if the daemon died in between (LocationIntegrationApiImpl.cpp:
\* 1495-1646).
ConfigsAreRestored ==
    ConfigSettled =>
        /\ apiRegistered
        /\ \A k \in Types \cap CachedTypes :
              cached[k] # 0 => engineConfig[k] = cached[k]
        /\ XtraUpdate \in Types => xtraRegistered = mRegisterXtraUpdate

\* The application is given a report upon registration at most once for each of its
\* registrations, though the registration is repeated when the daemon restarts
\* (LocationIntegrationApiImpl.cpp:1829-1836).
XtraToldOncePerRegistration ==
    xtraTold + (IF mXtraUpdateUponRegisterPending THEN 1 ELSE 0) =< registrations

ConfigIsOwed == \E k \in Types \ Unanswered : asked[k] > answered[k]

\* Every request of a type that is credited with its own answers is reported to configCb
\* in the end, also if the daemon is not there yet or dies before it answers
\* (LocationIntegrationApiImpl.cpp:89-178, 418-437, 1661-1715).
EveryConfigIsTold ==
    ConfigIsOwed ~> ~ConfigIsOwed \/ listener = "destroyed"

\* What LocationIntegrationApiImpl.cpp:1703-1704 says of the types the flush reports
\* SUCCESS of: they are cached, and will be issued again.
FlushedConfigsAreCached == flushed \subseteq CachedTypes
=============================================================================
