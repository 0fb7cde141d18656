--------------------------- MODULE ClientRegistry ---------------------------
(***************************************************************************)
(* The client registry of the location HAL daemon                          *)
(* (location_hal_daemon/LocationApiService.cpp) and the lifetime of its    *)
(* client handlers (LocHalDaemonClientHandler.cpp).                        *)
(*                                                                         *)
(* A client is known by the name of its socket; mClients maps the name to  *)
(* a handler object on the heap.  Handlers go with a deregistration, with  *)
(* a message that could not be sent ("purge this client if failed"), with  *)
(* a QRTR peer that goes down, or in the periodic maintenance.  The module *)
(* follows them together with what outlives a single call: configuration   *)
(* requests, the energy query and the xtra status registrations.           *)
(*                                                                         *)
(* Handlers of messages and of engine callbacks hold mMutex throughout and *)
(* are one step each.  performMaintenance runs on the message task and     *)
(* holds mMutex only while it copies the client names: its calls of        *)
(* deleteClientbyName interleave with the other threads.                   *)
(*                                                                         *)
(* Undefined behaviour ends a behaviour: fault says what happened, and     *)
(* nothing is claimed about the process after it.                          *)
(***************************************************************************)
EXTENDS Integers, Sequences, FiniteSets

CONSTANTS
    Clients,       \* client (socket) names
    IntClients,    \* those of type LOCATION_INTEGRATION_API: no LocationAPI object
    EapClients,    \* those on QRTR, which maintenance does not ping
    MaxHandlers,   \* bound: handler objects ever created
    MaxReqs        \* bound: requests received in all

ASSUME ClientsAssumption == IntClients \subseteq Clients /\ EapClients \subseteq Clients
ASSUME BoundsAssumption == MaxHandlers \in Nat /\ MaxReqs \in Nat

VARIABLES
    mClients,                  \* name -> handler, 0 if the name is not registered
    created,                   \* handlers created so far
    life,                      \* where each handler is in its life
    owner,                     \* mName of each handler
    mEngineInfoRequestMask,    \* handlers that asked for the energy consumed
    reachable,                 \* names whose socket still takes messages
    reqs,                      \* history: configuration and energy requests
    mConfigReqs,               \* session ids that wait for an answer
    controlApi,                \* session ids LocationControlAPI works on
    responses,                 \* history: responses sent for each request
    energyQueries,             \* energy queries the engine works on
    mClientsRegForXtraStatus,  \* names registered for xtra status updates
    xtraRegistering,           \* names whose registration waits for mMutex
    xtraUpdates,               \* does the engine report xtra status updates?
    maint,                     \* the maintenance in progress
    fault                      \* undefined behaviour met, "none" so far

handlerVars == <<mClients, created, life, owner, mEngineInfoRequestMask>>
configVars  == <<reqs, mConfigReqs, controlApi, responses>>
xtraVars    == <<mClientsRegForXtraStatus, xtraRegistering, xtraUpdates>>
vars == <<handlerVars, reachable, configVars, energyQueries, xtraVars, maint, fault>>

-----------------------------------------------------------------------------
(* State *)

Handlers == 1..MaxHandlers

\* mIpcSender is set exactly while a handler is "live": cleanup clears it, and a
\* handler with a LocationAPI is then "destroying" until the API reports back.
Life == {"unborn", "live", "destroying", "freed"}

\* Answered by a response, by a response and a GnssConfig, or by an energy report.
Kinds == {"SET", "GET", "ENERGY"}

\* todo: names still to ping; victim: the handler a failed ping made it fetch.
Maint == [phase : {"idle", "ping", "erase"}, todo : SUBSET Clients,
          name : Clients \cup {"none"}, victim : 0..MaxHandlers]

NoMaint == [phase |-> "idle", todo |-> {}, name |-> "none", victim |-> 0]

Pinging(names) == [phase |-> "ping", todo |-> names, name |-> "none", victim |-> 0]

Registered == {c \in Clients : mClients[c] # 0}

Init ==
    /\ mClients = [c \in Clients |-> 0]
    /\ created = 0
    /\ life = [h \in Handlers |-> "unborn"]
    /\ owner = [h \in Handlers |-> "none"]
    /\ mEngineInfoRequestMask = {}
    /\ reachable = Clients
    /\ reqs = <<>>
    /\ mConfigReqs = {}
    /\ controlApi = {}
    /\ responses = [r \in 1..MaxReqs |-> 0]
    /\ energyQueries = 0
    /\ mClientsRegForXtraStatus = {}
    /\ xtraRegistering = {}
    /\ xtraUpdates = FALSE
    /\ maint = NoMaint
    /\ fault = "none"

-----------------------------------------------------------------------------
(* Removing clients *)

\* The life of handler h after LocHalDaemonClientHandler::cleanup.
cleanup(h) ==
    IF life[h] = "live" /\ owner[h] \notin IntClients THEN "destroying" ELSE "freed"

\* Variant: the name stays in the map.
KeepsNames(S) ==
    /\ life' = [h \in Handlers |->
                   IF \E c \in S : mClients[c] = h THEN cleanup(h) ELSE life[h]]
    /\ UNCHANGED mClients

\* deleteClientbyName of every name in S by a thread that holds mMutex.
deleteClientbyName(S) ==
    /\ life' = [h \in Handlers |->
                   IF \E c \in S : mClients[c] = h THEN cleanup(h) ELSE life[h]]
    /\ mClients' = [c \in Clients |-> IF c \in S THEN 0 ELSE mClients[c]]

\* The clients a send fails for: those that are gone, and any whose socket is full.
Undelivered(S) == {F \in SUBSET S : S \ reachable \subseteq F}

\* "purge this client if failed": deleteClientbyName with forceRemove, which also
\* unlinks a local client's socket.
Purge(F) ==
    /\ deleteClientbyName(F)
    /\ reachable' = reachable \ (F \ EapClients)

\* A message is sent to the clients in S, for each on its own.
SendTo(S) == \E F \in Undelivered(S) : Purge(F)

newClient(c) ==
    /\ mClients[c] = 0
    /\ created < MaxHandlers
    /\ created' = created + 1
    /\ mClients' = [mClients EXCEPT ![c] = created']
    /\ life' = [life EXCEPT ![created'] = "live"]
    /\ owner' = [owner EXCEPT ![created'] = c]
    /\ UNCHANGED <<mEngineInfoRequestMask, reachable, configVars, energyQueries,
                   xtraVars, maint, fault>>

\* A second registration under the name is answered with the capabilities, as is a
\* change of capabilities; reports and the ping test are sent the same way.
sendMessage(c) ==
    /\ c \in Registered
    /\ SendTo({c})
    /\ UNCHANGED <<created, owner, mEngineInfoRequestMask, configVars, energyQueries,
                   xtraVars, maint, fault>>

deleteClient(c) ==
    /\ c \in Registered
    /\ deleteClientbyName({c})
    /\ UNCHANGED <<created, owner, mEngineInfoRequestMask, reachable, configVars,
                   energyQueries, xtraVars, maint, fault>>

\* A QRTR client went down; the socket name is no file, so nothing is unlinked.
deleteEapClientByIds(c) ==
    /\ c \in Registered \cap EapClients
    /\ Purge({c})
    /\ UNCHANGED <<created, owner, mEngineInfoRequestMask, configVars, energyQueries,
                   xtraVars, maint, fault>>

\* LocationAPI::destroy is asynchronous; the handler frees itself at its end.
onLocationApiDestroyCompleteCb(h) ==
    /\ life[h] = "destroying"
    /\ life' = [life EXCEPT ![h] = "freed"]
    /\ UNCHANGED <<mClients, created, owner, mEngineInfoRequestMask, reachable,
                   configVars, energyQueries, xtraVars, maint, fault>>

\* The process behind a name ends without deregistering.
ClientDies(c) ==
    /\ c \in reachable
    /\ reachable' = reachable \ {c}
    /\ UNCHANGED <<handlerVars, configVars, energyQueries, xtraVars, maint, fault>>

-----------------------------------------------------------------------------
(* Configuration requests *)

\* A request is received; its number serves as the session id it may be given.
Receive(c, kind) ==
    /\ Len(reqs) < MaxReqs
    /\ reqs' = Append(reqs, [client |-> c, kind |-> kind])

\* Response to request r for the client called c, which may have gone.
Respond(r, c) ==
    /\ SendTo({c} \cap Registered)
    /\ responses' = [responses EXCEPT ![r] = IF c \in Registered THEN @ + 1 ELSE @]

\* With session id 0 the client is told GENERAL_FAILURE at once.
addConfigRequestToMap(c, accepted) ==
    IF accepted
    THEN /\ mConfigReqs' = mConfigReqs \cup {Len(reqs')}
         /\ controlApi' = controlApi \cup {Len(reqs')}
         /\ UNCHANGED <<mClients, life, reachable, responses>>
    ELSE /\ Respond(Len(reqs'), c)
         /\ UNCHANGED <<mConfigReqs, controlApi>>

\* The config... requests: the control API is called and gives a session id.
configRequest(c) ==
    /\ Receive(c, "SET")
    /\ \E accepted \in BOOLEAN : addConfigRequestToMap(c, accepted)
    /\ UNCHANGED <<created, owner, mEngineInfoRequestMask, energyQueries, xtraVars,
                   maint, fault>>

\* getGnssConfig, getConstellationSecondaryBandConfig and getXtraStatus.
getGnssConfig(c) ==
    /\ Receive(c, "GET")
    /\ \E accepted \in BOOLEAN : addConfigRequestToMap(c, accepted)
    /\ UNCHANGED <<created, owner, mEngineInfoRequestMask, energyQueries, xtraVars,
                   maint, fault>>

\* Variant: the entry is not erased.
ResponseKeepsEntry(r) ==
    /\ r \in controlApi
    /\ controlApi' = controlApi \ {r}
    /\ IF r \in mConfigReqs
       THEN Respond(r, reqs[r].client)
       ELSE UNCHANGED <<mClients, life, reachable, responses>>
    /\ UNCHANGED <<created, owner, mEngineInfoRequestMask, reqs, mConfigReqs,
                   energyQueries, xtraVars, maint, fault>>

\* onControlResponseCallback, or onControlCollectiveResponseCallback with one id: the
\* result of a SET, the error of a GET.
onControlResponseCallback(r) ==
    /\ r \in controlApi
    /\ controlApi' = controlApi \ {r}
    /\ IF r \in mConfigReqs
       THEN Respond(r, reqs[r].client) /\ mConfigReqs' = mConfigReqs \ {r}
       ELSE UNCHANGED <<mClients, life, reachable, responses, mConfigReqs>>
    /\ UNCHANGED <<created, owner, mEngineInfoRequestMask, reqs, energyQueries,
                   xtraVars, maint, fault>>

\* The answer of a GET: the response and then the configuration, two messages.  If
\* the first fails the handler is removed, and the second call uses it all the same:
\* it finds mIpcSender null, or it finds freed memory.  If only the second fails the
\* handler is removed then.
onGnssConfigCallback(r) ==
    /\ r \in controlApi
    /\ reqs[r].kind = "GET"
    /\ controlApi' = controlApi \ {r}
    /\ mConfigReqs' = mConfigReqs \ {r}
    /\ LET c == reqs[r].client IN
       /\ Respond(r, c)
       /\ fault' \in IF mClients'[c] = mClients[c] \/ c \notin IntClients THEN {"none"}
                     ELSE IF c \in reachable THEN {"none", "freed handler used"}
                     ELSE {"freed handler used"}
    /\ UNCHANGED <<created, owner, mEngineInfoRequestMask, reqs, energyQueries,
                   xtraVars, maint>>

-----------------------------------------------------------------------------
(* Energy query *)

EnergyPending == {c \in Registered : mClients[c] \in mEngineInfoRequestMask}

\* Variant: the client's bit is set before the pending requests are looked for.
EnergyMarkedFirst(c) ==
    /\ Receive(c, "ENERGY")
    /\ mEngineInfoRequestMask' = mEngineInfoRequestMask \cup ({mClients[c]} \ {0})
    /\ energyQueries' = IF c \notin Registered /\ EnergyPending = {}
                        THEN energyQueries + 1 ELSE energyQueries
    /\ UNCHANGED <<mClients, created, life, owner, reachable, mConfigReqs, controlApi,
                   responses, xtraVars, maint, fault>>

\* One query serves every client that asks before it is answered.
getGnssEnergyConsumed(c) ==
    /\ Receive(c, "ENERGY")
    /\ mEngineInfoRequestMask' = mEngineInfoRequestMask \cup ({mClients[c]} \ {0})
    /\ energyQueries' = IF c \in Registered /\ EnergyPending = {}
                        THEN energyQueries + 1 ELSE energyQueries
    /\ UNCHANGED <<mClients, created, life, owner, reachable, mConfigReqs, controlApi,
                   responses, xtraVars, maint, fault>>

\* Every client that asked is told and its bit cleared.  A send that fails erases the
\* element of mClients the loop stands on.
onGnssEnergyConsumedCb ==
    /\ energyQueries > 0
    /\ energyQueries' = energyQueries - 1
    /\ mEngineInfoRequestMask' =
           mEngineInfoRequestMask \ {mClients[c] : c \in EnergyPending}
    /\ \E F \in Undelivered(EnergyPending) :
           /\ Purge(F)
           /\ fault' = IF F = {} THEN "none" ELSE "iterator of an erased client"
    /\ UNCHANGED <<created, owner, configVars, xtraVars, maint>>

-----------------------------------------------------------------------------
(* Xtra status updates *)

\* registerXtraStatusUpdate adds the name before it takes mMutex ...
registerXtraStatusUpdate(c) ==
    /\ c \notin xtraRegistering
    /\ Cardinality(xtraRegistering) + Len(reqs) < MaxReqs
    /\ mClientsRegForXtraStatus' = mClientsRegForXtraStatus \cup {c}
    /\ xtraRegistering' = xtraRegistering \cup {c}
    /\ UNCHANGED <<handlerVars, reachable, configVars, energyQueries, xtraUpdates,
                   maint, fault>>

\* ... and tells the engine once it has it.
RegisterXtraLocked(c) ==
    /\ c \in xtraRegistering
    /\ xtraRegistering' = xtraRegistering \ {c}
    /\ xtraUpdates' = TRUE
    /\ Receive(c, "GET")
    /\ \E accepted \in BOOLEAN : addConfigRequestToMap(c, accepted)
    /\ UNCHANGED <<created, owner, mEngineInfoRequestMask, energyQueries,
                   mClientsRegForXtraStatus, maint, fault>>

\* Variant: the engine is told whoever else is registered.
DeregisterStopsUpdates(c) ==
    /\ mClientsRegForXtraStatus' = mClientsRegForXtraStatus \ {c}
    /\ Receive(c, "SET")
    /\ xtraUpdates' = FALSE
    /\ \E accepted \in BOOLEAN : addConfigRequestToMap(c, accepted)
    /\ UNCHANGED <<created, owner, mEngineInfoRequestMask, energyQueries,
                   xtraRegistering, maint, fault>>

\* The engine is told when the last name goes; any other deregistration is answered
\* at once.
deregisterXtraStatusUpdate(c) ==
    /\ mClientsRegForXtraStatus' = mClientsRegForXtraStatus \ {c}
    /\ Receive(c, "SET")
    /\ IF mClientsRegForXtraStatus' = {}
       THEN /\ xtraUpdates' = FALSE
            /\ \E accepted \in BOOLEAN : addConfigRequestToMap(c, accepted)
       ELSE /\ Respond(Len(reqs'), c)
            /\ UNCHANGED <<xtraUpdates, mConfigReqs, controlApi>>
    /\ UNCHANGED <<created, owner, mEngineInfoRequestMask, energyQueries,
                   xtraRegistering, maint, fault>>

\* onGnssConfigCallback with session id 0.  The loop runs over the registered names,
\* so removing clients does not disturb it.
onXtraStatusUpdate ==
    /\ xtraUpdates
    /\ SendTo(mClientsRegForXtraStatus \cap Registered)
    /\ UNCHANGED <<created, owner, mEngineInfoRequestMask, configVars, energyQueries,
                   xtraVars, maint, fault>>

-----------------------------------------------------------------------------
(* Maintenance *)

\* Variant: QRTR clients are pinged as well.
MaintenancePingsAll ==
    /\ maint.phase = "idle"
    /\ maint' = Pinging(Registered)
    /\ UNCHANGED <<handlerVars, reachable, configVars, energyQueries, xtraVars, fault>>

\* The timer's message runs: the names are copied under mMutex.
performMaintenance ==
    /\ maint.phase = "idle"
    /\ maint' = Pinging(Registered \ EapClients)
    /\ UNCHANGED <<handlerVars, reachable, configVars, energyQueries, xtraVars, fault>>

\* A ping that fails makes the task look its handler up, without mMutex.
MaintPing(c) ==
    /\ maint.phase = "ping"
    /\ c \in maint.todo
    /\ \E F \in Undelivered({c}) :
           maint' = IF F # {} /\ c \in Registered
                    THEN [phase |-> "erase", todo |-> maint.todo \ {c}, name |-> c,
                          victim |-> mClients[c]]
                    ELSE [maint EXCEPT !.todo = @ \ {c}]
    /\ UNCHANGED <<handlerVars, reachable, configVars, energyQueries, xtraVars, fault>>

\* The rest of deleteClientbyName: what the map holds under the name by now is erased,
\* the handler fetched before is cleaned up.
MaintErase ==
    /\ maint.phase = "erase"
    /\ mClients' = [mClients EXCEPT ![maint.name] = 0]
    /\ life' = [life EXCEPT ![maint.victim] = cleanup(maint.victim)]
    /\ fault' = IF life[maint.victim] = "live" THEN "none" ELSE "cleaned up twice"
    /\ reachable' = reachable \ {maint.name}
    /\ maint' = Pinging(maint.todo)
    /\ UNCHANGED <<created, owner, mEngineInfoRequestMask, configVars, energyQueries,
                   xtraVars>>

\* Variant: the timer is not started again.
MaintenanceRunsOnce ==
    /\ maint.phase = "ping" /\ maint.todo = {}
    /\ UNCHANGED vars

\* The timer is started again when every client has been pinged.
MaintEnd ==
    /\ maint.phase = "ping" /\ maint.todo = {}
    /\ maint' = NoMaint
    /\ UNCHANGED <<handlerVars, reachable, configVars, energyQueries, xtraVars, fault>>

-----------------------------------------------------------------------------
(* Specification *)

ClientStep ==
    \E c \in Clients :
        \/ newClient(c)
        \/ sendMessage(c)
        \/ deleteClient(c)
        \/ deleteEapClientByIds(c)
        \/ ClientDies(c)
        \/ configRequest(c)
        \/ getGnssConfig(c)
        \/ getGnssEnergyConsumed(c)
        \/ registerXtraStatusUpdate(c)
        \/ RegisterXtraLocked(c)
        \/ deregisterXtraStatusUpdate(c)

EngineStep ==
    \/ \E h \in Handlers : onLocationApiDestroyCompleteCb(h)
    \/ \E r \in 1..MaxReqs : onControlResponseCallback(r) \/ onGnssConfigCallback(r)
    \/ onGnssEnergyConsumedCb
    \/ onXtraStatusUpdate

MaintStep ==
    \/ performMaintenance
    \/ \E c \in Clients : MaintPing(c)
    \/ MaintErase
    \/ MaintEnd

Next == fault = "none" /\ (ClientStep \/ EngineStep \/ MaintStep)

Spec == Init /\ [][Next]_vars

\* The timer fires and the message task runs; nobody else owes anything.
FairSpec == Spec /\ WF_vars(fault = "none" /\ MaintStep)

-----------------------------------------------------------------------------
(* Properties *)

HandlerTypes ==
    /\ mClients \in [Clients -> 0..created]
    /\ created \in 0..MaxHandlers
    /\ life \in [Handlers -> Life]
    /\ owner \in [Handlers -> Clients \cup {"none"}]
    /\ mEngineInfoRequestMask \subseteq 1..created
    /\ reachable \subseteq Clients

RequestTypes ==
    /\ reqs \in Seq([client : Clients, kind : Kinds])
    /\ Len(reqs) =< MaxReqs
    /\ mConfigReqs \subseteq 1..Len(reqs)
    /\ controlApi \subseteq 1..Len(reqs)
    /\ responses \in [1..MaxReqs -> Nat]
    /\ energyQueries \in Nat

OtherTypes ==
    /\ mClientsRegForXtraStatus \subseteq Clients
    /\ xtraRegistering \subseteq Clients
    /\ xtraUpdates \in BOOLEAN
    /\ maint \in Maint
    /\ maint.todo \cap EapClients = {}
    /\ maint.phase = "erase" => maint.name \in Clients \ EapClients
    /\ fault \in {"none", "freed handler used", "iterator of an erased client",
                  "cleaned up twice"}

\* The state keeps its types; maintenance only ever pings local clients.
TypeOK == HandlerTypes /\ RequestTypes /\ OtherTypes

\* As long as nothing undefined has happened, mClients holds exactly the live
\* handlers, each under its own name: no pointer to a handler that was cleaned up,
\* no handler that nothing can remove any more (LocationApiService.cpp:840-895,
\* LocHalDaemonClientHandler.cpp:462-483).
RegistryIsLive ==
    fault = "none" =>
        \A h \in Handlers :
            /\ life[h] = "live" => owner[h] \in Clients /\ mClients[owner[h]] = h
            /\ \A c \in Clients : mClients[c] = h => life[h] = "live" /\ owner[h] = c

\* The control API works on exactly the sessions the map holds, and a request is
\* answered at most once, never before its session has ended: an answer can neither
\* overtake its entry in the map nor be matched with a request that was answered
\* (LocationApiService.cpp:1741-1841).
ConfigAnsweredOnce ==
    /\ mConfigReqs = controlApi
    /\ \A r \in 1..MaxReqs :
          /\ responses[r] =< 1
          /\ r \in mConfigReqs \/ r > Len(reqs) => responses[r] = 0

\* A registered client that waits for the energy consumed has a query under way,
\* though only one client's request reaches the engine and that client may go
\* (LocationApiService.cpp:991-1029, LocHalDaemonClientHandler.cpp:1366-1385).
EnergyIsQueried == EnergyPending # {} => energyQueries > 0

\* The maintenance has fetched a handler of the name it is about to erase.
MaintVictimIsNamed ==
    maint.phase = "erase" => maint.victim \in 1..created /\ owner[maint.victim] = maint.name

\* Once every registration has been passed on, the engine reports xtra status
\* updates if a name is registered for them, however registrations that wait for
\* mMutex and deregistrations interleave (LocationApiService.cpp:1092-1142).
XtraReportedWhileRegistered ==
    mClientsRegForXtraStatus # {} /\ xtraRegistering = {} => xtraUpdates

\* A client that died without deregistering does not stay registered: maintenance
\* finds it (LocationApiService.cpp:1978-2019), unless the daemon itself fails.
DeadClientsAreRemoved ==
    \A c \in Clients \ EapClients :
        c \in Registered /\ c \notin reachable ~> c \notin Registered \/ fault # "none"

\* What LocHalDaemonClientHandler.cpp:463-464 says of cleanup: its caller holds the
\* lock, so no two callers clean up one handler.
CleanedUpOnce == fault # "cleaned up twice"

\* What LocHalDaemonClientHandler.cpp:478-479 says: the handler of an integration
\* client can be freed right away, nobody uses it any more.
NoUseAfterFree == fault # "freed handler used"
=============================================================================
