------------------------------ MODULE Geofence ------------------------------
(***************************************************************************)
(* The geofences of one client: mGeofenceMap of LocationClientApiImpl      *)
(* (client_api/src/LocationClientApiImpl.cpp), mGfIdsMap and               *)
(* mGfPendingMessages of its handler in the daemon (location_hal_daemon),  *)
(* and LocationAPI, which is not part of this repository: it answers every *)
(* call once, in the order of the calls.                                   *)
(*                                                                         *)
(* A geofence is the number its client gives it and stands for the area as *)
(* well.  Requests of the application are messages of the client's one     *)
(* task; a call and its processing are one step.                           *)
(*                                                                         *)
(* The client's position and batching sessions (module LcaSession) share   *)
(* one variable with the geofences, gfPending.  What they do to it are     *)
(* steps of their own here.                                                *)
(***************************************************************************)
EXTENDS Naturals, Sequences, SequencesExt, FiniteSets

CONSTANTS
    GfOptions,     \* options of a geofence
    GfResults,     \* may LocationAPI accept a request (TRUE), may it refuse it (FALSE)?
    MaxGeofences,  \* bound: geofences the application makes
    MaxGfRequests, \* bound: removals, modifications, pauses and resumptions
    MaxBreaches,   \* bound: breaches on their way to the client
    MaxGfCrashes   \* bound: crashes of the daemon

ASSUME GfResultsAssumption == GfResults \subseteq BOOLEAN
ASSUME GfBounds == {MaxGeofences, MaxGfRequests, MaxBreaches, MaxGfCrashes} \subseteq Nat

VARIABLES
    \* the client
    gfRegistered,        \* mHalRegistered
    mGeofenceMap,        \* the options of every geofence the client knows of
    mLastAddedClientIds, \* the ids of the last call that added geofences
    gfPending,           \* mPositionSessionResponseCbPending
    gfMask,              \* is breach reporting in mCallbacksMask?
    gfAborted,           \* did a look-up in mGeofenceMap throw?
    \* the sockets and the daemon
    gfToDaemon,
    gfInbox,             \* the client's socket and the queue of its task, as one
    gfUp, gfCrashes,
    gfHandler,           \* the client's handler, see below
    \* LocationAPI
    gfSessions,          \* sessions begun by this daemon
    engineFences,        \* the geofence and options of every session of the engine
    gfCalls,             \* calls not answered yet
    \* history
    made,                \* geofences made by the application
    requested,           \* further requests
    refused,             \* geofences told ALREADY_STARTED, which the daemon never sees
    awaited,             \* geofences with a request that is not answered
    unanswered,          \* geofences whose addition the engine has not answered
    troubles             \* which of "overlap", "failure", "restart", "dropped" have happened

gfClient == <<gfRegistered, mGeofenceMap, mLastAddedClientIds, gfPending, gfMask>>
gfHistory == <<made, requested, refused, awaited, unanswered, troubles>>
gfDaemon == <<gfHandler, gfSessions, engineFences, gfCalls>>
gfProcess == <<gfUp, gfCrashes>>
gfVars == <<gfClient, gfAborted, gfToDaemon, gfInbox, gfProcess, gfDaemon, gfHistory>>

Fences == 1..MaxGeofences
FenceIds == Fences \cup {0}   \* 0: an id no geofence has
GfTypes == {"ADD", "REMOVE", "MODIFY", "PAUSE"}

NoGfHandler == [registered |-> FALSE, capable |-> FALSE, subscribed |-> FALSE,
                mGfIdsMap |-> <<>>, mGfPendingMessages |-> <<>>]

\* The listener is ready and registers; a daemon yet to come counts as a crash.
GfInit ==
    /\ gfRegistered = FALSE
    /\ mGeofenceMap = <<>>
    /\ mLastAddedClientIds = <<>>
    /\ gfPending = FALSE
    /\ gfMask = FALSE
    /\ gfAborted = FALSE
    /\ gfToDaemon = <<>>
    /\ gfInbox = <<[type |-> "REGISTER"]>>
    /\ gfUp \in BOOLEAN
    /\ gfCrashes = IF gfUp THEN 0 ELSE 1
    /\ gfCrashes =< MaxGfCrashes
    /\ gfHandler = NoGfHandler
    /\ gfSessions = 0
    /\ engineFences = <<>>
    /\ gfCalls = <<>>
    /\ made = 0
    /\ requested = 0
    /\ refused = {}
    /\ awaited = {}
    /\ unanswered = {}
    /\ troubles = {}

\* A map with the entries of another one in the places of its own.
Over(new, map) ==
    [x \in DOMAIN new \cup DOMAIN map |-> IF x \in DOMAIN new THEN new[x] ELSE map[x]]

-----------------------------------------------------------------------------
(* The client *)

Known == DOMAIN mGeofenceMap

\* The result of sending is not looked at.
GfSend(msgs) == gfToDaemon' = IF gfUp THEN gfToDaemon \o msgs ELSE gfToDaemon

UpdateGfCallbacks == <<[type |-> "UPDATE_CALLBACKS"]>>

\* The data of the geofences are sent with the ids of the last call that added some, by
\* position; beyond its end the ids are whatever is in memory.
AddMsg(fences, ids, map) ==
    <<[type |-> "ADD",
       fences |-> [i \in DOMAIN fences |-> [id |-> ids[i], of |-> fences[i],
                                            opt |-> map[fences[i]]]]]>>

LastAdded(count) ==
    {ids \in [1..count -> FenceIds] :
        \A i \in 1..count :
            i =< Len(mLastAddedClientIds) => ids[i] = mLastAddedClientIds[i]}

\* The application adds n geofences.  While an answer is awaited they are refused, and yet
\* remembered; without a daemon they are reported as failed, and the call stays pending.
AddGeofencesReq(n, opt) ==
    LET fences == [i \in 1..n |-> made + i]
        map == [g \in 1..made + n |-> opt]
        merged == Over(mGeofenceMap, [g \in Range(fences) |-> opt])
    IN
    /\ ~gfAborted
    /\ made + n =< MaxGeofences
    /\ made' = made + n
    /\ mGeofenceMap' = merged
    /\ \/ /\ gfPending
          /\ refused' = refused \cup Range(fences)
          /\ UNCHANGED <<mLastAddedClientIds, gfPending, gfMask, gfToDaemon, awaited,
                         unanswered>>
       \/ /\ ~gfPending
          /\ gfPending' = TRUE
          /\ gfMask' = TRUE
          /\ mLastAddedClientIds' = fences
          /\ awaited' = awaited \cup Range(fences)
          /\ unanswered' = unanswered \cup Range(fences)
          /\ GfSend(IF ~gfRegistered THEN <<>>
                    ELSE (IF gfMask THEN <<>> ELSE UpdateGfCallbacks)
                         \o AddMsg(fences, fences, map))
          /\ UNCHANGED refused
    /\ UNCHANGED <<gfRegistered, gfAborted, gfInbox, gfProcess, gfDaemon, requested,
                   troubles>>

\* The guards RemoveGeofencesReq, ModifyGeofencesReq, PauseGeofencesReq and
\* ResumeGeofencesReq share: ids that are not known, and all without a daemon, are ignored.
GfRequest(g, msg) ==
    /\ ~gfAborted
    /\ requested < MaxGfRequests
    /\ requested' = requested + 1
    /\ g \in Known /\ gfRegistered
    /\ GfSend(<<msg>>)
    /\ awaited' = awaited \cup {g}
    /\ troubles' = IF g \in awaited THEN troubles \cup {"overlap"} ELSE troubles
    /\ UNCHANGED <<gfRegistered, mLastAddedClientIds, gfPending, gfMask, gfAborted, gfInbox,
                   gfProcess, gfDaemon, made, refused, unanswered>>

RemoveGeofencesReq(g) ==
    /\ GfRequest(g, [type |-> "REMOVE", id |-> g])
    /\ UNCHANGED mGeofenceMap

ModifyGeofencesReq(g, opt) ==
    /\ GfRequest(g, [type |-> "MODIFY", id |-> g, opt |-> opt])
    /\ mGeofenceMap' = [mGeofenceMap EXCEPT ![g] = opt]

\* Pausing and resuming differ in what LocationAPI does.
PauseGeofencesReq(g) ==
    /\ GfRequest(g, [type |-> "PAUSE", id |-> g])
    /\ UNCHANGED mGeofenceMap

GfTake(type) ==
    /\ ~gfAborted
    /\ gfInbox # <<>>
    /\ Head(gfInbox).type = type

GfRegisterReq ==
    /\ GfTake("REGISTER")
    /\ gfInbox' = Tail(gfInbox)
    /\ GfSend(<<[type |-> "REGISTER"]>>)
    /\ UNCHANGED <<gfClient, gfAborted, gfProcess, gfDaemon, gfHistory>>

\* The daemon has started: register again, with a message of the task that overtakes what
\* is still on the socket.
GfHalReady ==
    /\ GfTake("HAL_READY")
    /\ gfRegistered' = FALSE
    /\ \E k \in 1..Len(gfInbox) : gfInbox' = InsertAt(Tail(gfInbox), k, [type |-> "REGISTER"])
    /\ awaited' = {}
    /\ UNCHANGED <<mGeofenceMap, mLastAddedClientIds, gfPending, gfMask, gfAborted,
                   gfToDaemon, gfProcess, gfDaemon, made, requested, refused, unanswered,
                   troubles>>

\* Variant: the daemon is taken to remember the geofences.
AddsNothingAgain ==
    /\ GfTake("CAPABILITIES")
    /\ gfInbox' = Tail(gfInbox)
    /\ gfRegistered' = TRUE
    /\ GfSend(IF gfMask THEN UpdateGfCallbacks ELSE <<>>)
    /\ UNCHANGED <<mGeofenceMap, mLastAddedClientIds, gfPending, gfMask, gfAborted,
                   gfProcess, gfDaemon, gfHistory>>

\* Variant: the daemon is taken to remember the subscription.
SubscribesNotAgain ==
    /\ GfTake("CAPABILITIES")
    /\ gfInbox' = Tail(gfInbox)
    /\ gfRegistered' = TRUE
    /\ \E fences \in SetToSeqs(Known) :
          GfSend(IF gfRegistered THEN <<>> ELSE AddMsg(fences, fences, mGeofenceMap))
    /\ awaited' = IF gfRegistered THEN awaited ELSE Known
    /\ UNCHANGED <<mGeofenceMap, mLastAddedClientIds, gfPending, gfMask, gfAborted,
                   gfProcess, gfDaemon, made, requested, refused, unanswered, troubles>>

\* After a registration all geofences are added again, in the order of the map, which is
\* not defined.
GfCapabilities ==
    /\ GfTake("CAPABILITIES")
    /\ gfInbox' = Tail(gfInbox)
    /\ gfRegistered' = TRUE
    /\ LET subscribe == IF gfMask THEN UpdateGfCallbacks ELSE <<>> IN
       \/ /\ gfRegistered \/ Known = {}
          /\ GfSend(subscribe)
          /\ UNCHANGED <<awaited, troubles>>
       \/ /\ ~gfRegistered /\ Known # {}
          /\ \E fences \in SetToSeqs(Known), ids \in LastAdded(Cardinality(Known)) :
                /\ GfSend(subscribe \o AddMsg(fences, ids, mGeofenceMap))
                /\ troubles' = IF mLastAddedClientIds = fences THEN troubles
                               ELSE troubles \cup {"restart"}
          /\ awaited' = Known
    /\ UNCHANGED <<mGeofenceMap, mLastAddedClientIds, gfPending, gfMask, gfAborted,
                   gfProcess, gfDaemon, made, requested, refused, unanswered>>

\* Variant: the geofences go before the application looks them up.
EraseBeforeCallback ==
    LET m == Head(gfInbox)
        gone == {r.id : r \in {x \in Range(m.resp) : m.to = "REMOVE" \/ ~x.ok}}
    IN
    /\ GfTake("RESPONSE")
    /\ gfInbox' = Tail(gfInbox)
    /\ gfMask' = (gfMask /\ Known # {})
    /\ mGeofenceMap' = Restrict(mGeofenceMap, Known \ gone)
    /\ gfAborted' = \E r \in Range(m.resp) : r.id \notin Known \ gone
    /\ gfPending' = FALSE
    /\ awaited' = awaited \ {r.id : r \in Range(m.resp)}
    /\ unanswered' = IF m.to = "ADD" THEN unanswered \ {r.id : r \in Range(m.resp)}
                     ELSE unanswered
    /\ UNCHANGED <<gfRegistered, mLastAddedClientIds, gfToDaemon, gfProcess, gfDaemon, made,
                   requested, refused, troubles>>

\* The answer to any request.  The callback of the application looks the geofences up,
\* which throws for an id that is not known; then those that were removed or failed go.
GfResponse ==
    LET m == Head(gfInbox)
        ids == {r.id : r \in Range(m.resp)}
        gone == {r.id : r \in {x \in Range(m.resp) : m.to = "REMOVE" \/ ~x.ok}}
    IN
    /\ GfTake("RESPONSE")
    /\ gfInbox' = Tail(gfInbox)
    /\ gfMask' = (gfMask /\ Known # {})
    /\ IF ids \subseteq Known
       THEN /\ mGeofenceMap' = Restrict(mGeofenceMap, Known \ gone)
            /\ gfPending' = FALSE
            /\ awaited' = awaited \ ids
            /\ unanswered' = IF m.to = "ADD" THEN unanswered \ ids ELSE unanswered
            /\ UNCHANGED gfAborted
       ELSE /\ gfAborted' = TRUE
            /\ UNCHANGED <<mGeofenceMap, gfPending, awaited, unanswered>>
    /\ UNCHANGED <<gfRegistered, mLastAddedClientIds, gfToDaemon, gfProcess, gfDaemon, made,
                   requested, refused, troubles>>

\* A breach of a geofence, which is looked up too.
GfBreach ==
    /\ GfTake("BREACH")
    /\ gfInbox' = Tail(gfInbox)
    /\ gfAborted' = (gfMask /\ Head(gfInbox).id \notin Known)
    /\ UNCHANGED <<gfClient, gfToDaemon, gfProcess, gfDaemon, gfHistory>>

\* A session of the client takes the flag for the answer to its start, or clears it: when
\* it is answered or stopped, whoever set the flag.
SessionMovesFlag ==
    /\ ~gfAborted
    /\ gfPending' = ~gfPending
    /\ UNCHANGED <<gfRegistered, mGeofenceMap, mLastAddedClientIds, gfMask, gfAborted,
                   gfToDaemon, gfInbox, gfProcess, gfDaemon, gfHistory>>

-----------------------------------------------------------------------------
(* The daemon *)

GfTakes(type) ==
    /\ gfUp
    /\ gfToDaemon # <<>>
    /\ Head(gfToDaemon).type = type
    /\ gfToDaemon' = Tail(gfToDaemon)
    /\ UNCHANGED <<gfClient, gfAborted, gfProcess, made, requested, refused, awaited, unanswered>>

GfReceive(type) == GfTakes(type) /\ UNCHANGED troubles

GfDropped ==
    /\ ~gfHandler.registered
    /\ \E type \in GfTypes \cup {"UPDATE_CALLBACKS"} : GfReceive(type)
    /\ UNCHANGED <<gfInbox, gfDaemon>>

\* The daemon gives a request up without an answer: it names too many geofences, there is
\* no memory for it, or LocationAPI takes no geofences.
GfGivenUp ==
    /\ gfHandler.registered
    /\ \E type \in GfTypes : GfTakes(type)
    /\ troubles' = troubles \cup {"dropped"}
    /\ UNCHANGED <<gfInbox, gfDaemon>>

GfNewClient ==
    /\ GfReceive("REGISTER")
    /\ gfHandler' = [gfHandler EXCEPT !.registered = TRUE]
    /\ gfInbox' = IF gfHandler.capable THEN Append(gfInbox, [type |-> "CAPABILITIES"])
                  ELSE gfInbox
    /\ UNCHANGED <<gfSessions, engineFences, gfCalls>>

GfUpdateSubscription ==
    /\ gfHandler.registered
    /\ GfReceive("UPDATE_CALLBACKS")
    /\ gfHandler' = [gfHandler EXCEPT !.subscribed = TRUE]
    /\ UNCHANGED <<gfInbox, gfSessions, engineFences, gfCalls>>

\* A new session for each geofence; of two with one id the later stays in the map.
addGeofences ==
    /\ gfHandler.registered
    /\ GfReceive("ADD")
    /\ LET fences == Head(gfToDaemon).fences
           ids == {f.id : f \in Range(fences)}
           LastOf(id) == CHOOSE i \in DOMAIN fences :
                            /\ fences[i].id = id
                            /\ \A j \in i + 1..Len(fences) : fences[j].id # id
       IN /\ gfHandler' =
                [gfHandler EXCEPT
                    !.mGfIdsMap = Over([id \in ids |-> gfSessions + LastOf(id)], @),
                    !.mGfPendingMessages = Append(@, "ADD")]
          /\ gfSessions' = gfSessions + Len(fences)
          /\ gfCalls' = Append(gfCalls, [type |-> "ADD", session |-> gfSessions + 1,
                                         fences |-> fences])
    /\ UNCHANGED <<gfInbox, engineFences>>

\* removeGeofences, modifyGeofences, pauseGeofences and resumeGeofences: LocationAPI is
\* called about the session of the id.  An id that is not in the map gets into it, as
\* session 0.
gfSessionRequest(type) ==
    /\ gfHandler.registered
    /\ GfReceive(type)
    /\ LET m == Head(gfToDaemon)
           map == Over(gfHandler.mGfIdsMap, [id \in {m.id} |-> 0])
       IN /\ gfHandler' = [gfHandler EXCEPT !.mGfIdsMap = map,
                                            !.mGfPendingMessages = Append(@, type)]
          /\ gfCalls' = Append(gfCalls,
                               IF type = "MODIFY"
                               THEN [type |-> type, session |-> map[m.id], opt |-> m.opt]
                               ELSE [type |-> type, session |-> map[m.id]])
    /\ UNCHANGED <<gfInbox, gfSessions, engineFences>>

\* The id of a session: the last one found, 0 if there is none.
getClientId(s) ==
    LET ids == {id \in DOMAIN gfHandler.mGfIdsMap : gfHandler.mGfIdsMap[id] = s} IN
    IF ids = {} THEN {0} ELSE ids

\* Variant: a geofence that could not be added stays in the map.
FailureKeepsId(c, ids, oks) ==
    LET to == Head(gfHandler.mGfPendingMessages) IN
    /\ gfCalls' = Tail(gfCalls)
    /\ gfHandler' = [gfHandler EXCEPT
                        !.mGfPendingMessages = Tail(@),
                        !.mGfIdsMap = IF to = "REMOVE" THEN Restrict(@, DOMAIN @ \ Range(ids))
                                      ELSE @]
    /\ gfInbox' = Append(gfInbox, [type |-> "RESPONSE", to |-> to,
                                   resp |-> [i \in DOMAIN ids |-> [id |-> ids[i],
                                                                   ok |-> oks[i]]]])
    /\ UNCHANGED <<gfClient, gfAborted, gfToDaemon, gfProcess, gfSessions, made, requested,
                   refused, awaited, unanswered>>

\* The answer to call c is taken for the one to the request that waits longest.  What was
\* removed or failed goes from the map.
GfRespond(c, ids, oks) ==
    LET to == Head(gfHandler.mGfPendingMessages)
        gone == {ids[i] : i \in {j \in DOMAIN ids : to = "REMOVE" \/ ~oks[j]}}
    IN
    /\ gfCalls' = Tail(gfCalls)
    /\ gfHandler' = [gfHandler EXCEPT !.mGfPendingMessages = Tail(@),
                                      !.mGfIdsMap = Restrict(@, DOMAIN @ \ gone)]
    /\ gfInbox' = Append(gfInbox, [type |-> "RESPONSE", to |-> to,
                                   resp |-> [i \in DOMAIN ids |-> [id |-> ids[i],
                                                                   ok |-> oks[i]]]])
    /\ UNCHANGED <<gfClient, gfAborted, gfToDaemon, gfProcess, gfSessions, made, requested,
                   refused, awaited, unanswered>>

\* LocationAPI answers that it has added geofences, or not.
onAddedGeofences ==
    /\ gfCalls # <<>> /\ Head(gfCalls).type = "ADD"
    /\ LET c == Head(gfCalls)
           n == Len(c.fences)
       IN \E oks \in [1..n -> GfResults], ids \in [1..n -> FenceIds] :
             /\ \A i \in 1..n : ids[i] \in getClientId(c.session + i - 1)
             /\ GfRespond(c, ids, oks)
             /\ engineFences' =
                   Over([s \in {c.session + i - 1 : i \in {j \in 1..n : oks[j]}} |->
                            [of |-> c.fences[s - c.session + 1].of,
                             opt |-> c.fences[s - c.session + 1].opt]],
                        engineFences)
    /\ UNCHANGED troubles

\* LocationAPI answers a request about one session; about none it fails.
onChangedGeofence ==
    /\ gfCalls # <<>> /\ Head(gfCalls).type # "ADD"
    /\ LET c == Head(gfCalls)
           there == c.session \in DOMAIN engineFences
       IN \E ok \in IF there THEN GfResults ELSE {FALSE}, id \in getClientId(c.session) :
             /\ GfRespond(c, <<id>>, <<ok>>)
             /\ engineFences' =
                   IF ~ok \/ c.type = "PAUSE" THEN engineFences
                   ELSE IF c.type = "REMOVE"
                   THEN Restrict(engineFences, DOMAIN engineFences \ {c.session})
                   ELSE [engineFences EXCEPT ![c.session].opt = c.opt]
             /\ troubles' = IF there /\ ~ok THEN troubles \cup {"failure"} ELSE troubles

\* A breach is reported to a client that subscribed to it.
onGeofenceBreachCb(s) ==
    /\ Cardinality({i \in DOMAIN gfInbox : gfInbox[i].type = "BREACH"}) < MaxBreaches
    /\ gfHandler.subscribed
    /\ \E id \in getClientId(s) : gfInbox' = Append(gfInbox, [type |-> "BREACH", id |-> id])
    /\ UNCHANGED <<gfClient, gfAborted, gfToDaemon, gfProcess, gfDaemon, made, requested,
                   refused, awaited, unanswered, troubles>>

GfCapabilitiesCb ==
    /\ gfHandler.registered /\ ~gfHandler.capable
    /\ gfHandler' = [gfHandler EXCEPT !.capable = TRUE]
    /\ gfInbox' = Append(gfInbox, [type |-> "CAPABILITIES"])
    /\ UNCHANGED <<gfClient, gfAborted, gfToDaemon, gfProcess, gfSessions, engineFences,
                   gfCalls, gfHistory>>

\* The client has the capabilities of this daemon but is still to register with it again,
\* so the registration may reach the next one before the client hears of that.
RegistrationIsDelayed ==
    /\ gfRegistered \/ [type |-> "CAPABILITIES"] \in Range(gfInbox)
    /\ \E m \in Range(gfInbox) : m.type \in {"HAL_READY", "REGISTER"}

GfCrash ==
    /\ gfUp /\ gfCrashes < MaxGfCrashes
    /\ gfUp' = FALSE
    /\ gfCrashes' = gfCrashes + 1
    /\ gfToDaemon' = <<>>
    /\ gfHandler' = NoGfHandler
    /\ gfSessions' = 0
    /\ engineFences' = <<>>
    /\ gfCalls' = <<>>
    /\ troubles' = IF RegistrationIsDelayed THEN troubles \cup {"restart"} ELSE troubles
    /\ UNCHANGED <<gfClient, gfAborted, gfInbox, made, requested, refused, awaited, unanswered>>

GfListenerReady ==
    /\ ~gfUp
    /\ gfUp' = TRUE
    /\ gfInbox' = Append(gfInbox, [type |-> "HAL_READY"])
    /\ UNCHANGED <<gfClient, gfAborted, gfToDaemon, gfCrashes, gfDaemon, gfHistory>>

-----------------------------------------------------------------------------
GfCall ==
    \/ \E n \in Fences, opt \in GfOptions : AddGeofencesReq(n, opt)
    \/ \E g \in Fences :
          \/ RemoveGeofencesReq(g)
          \/ \E opt \in GfOptions : ModifyGeofencesReq(g, opt)
          \/ PauseGeofencesReq(g)

GfTask == GfRegisterReq \/ GfHalReady \/ GfCapabilities \/ GfResponse \/ GfBreach

GfService ==
    \/ GfDropped
    \/ GfGivenUp
    \/ GfNewClient
    \/ GfUpdateSubscription
    \/ addGeofences
    \/ \E type \in GfTypes \ {"ADD"} : gfSessionRequest(type)
    \/ GfListenerReady

GfAnswer == onAddedGeofences \/ onChangedGeofence \/ GfCapabilitiesCb

GfNext ==
    \/ GfCall
    \/ GfTask
    \/ GfService
    \/ GfAnswer
    \/ SessionMovesFlag
    \/ \E s \in DOMAIN engineFences : onGeofenceBreachCb(s)
    \/ GfCrash

GfSpec == GfInit /\ [][GfNext]_gfVars

\* The client's task and the daemon's receiver run, LocationAPI answers, and the daemon is
\* started again.
GfFairSpec ==
    /\ GfSpec
    /\ WF_gfVars(GfTask)
    /\ WF_gfVars(GfService)
    /\ WF_gfVars(onAddedGeofences \/ onChangedGeofence)
    /\ WF_gfVars(GfCapabilitiesCb)

-----------------------------------------------------------------------------
(* Properties *)

\* The state keeps its types; every call LocationAPI still has to answer is a request the
\* daemon waits for.
GfTypeOK ==
    /\ {gfRegistered, gfPending, gfMask, gfAborted, gfUp} \subseteq BOOLEAN
    /\ Known \subseteq Fences /\ Range(mGeofenceMap) \subseteq GfOptions
    /\ mLastAddedClientIds \in Seq(Fences)
    /\ gfCrashes \in 0..MaxGfCrashes
    /\ DOMAIN gfHandler.mGfIdsMap \subseteq FenceIds
    /\ Range(gfHandler.mGfIdsMap) \subseteq 0..gfSessions
    /\ gfHandler.mGfPendingMessages = [i \in DOMAIN gfCalls |-> gfCalls[i].type]
    /\ DOMAIN engineFences \subseteq 1..gfSessions
    /\ refused \cup awaited \cup unanswered \subseteq Fences
    /\ troubles \subseteq {"overlap", "failure", "restart", "dropped"}

GfSettled ==
    /\ gfUp /\ gfRegistered /\ ~gfAborted
    /\ gfToDaemon = <<>> /\ gfInbox = <<>> /\ gfCalls = <<>>

\* The application is never told of a geofence its client does not know, which would end
\* it with an exception, as long as no two requests about one geofence overlap, the engine
\* refuses no request about a geofence it has, the daemon drops none, no restart sends other
\* ids and none overtakes a registration: also for geofences the daemon never saw, and for
\* breaches that race a removal (LocationClientApiImpl.cpp:3537-3585, 3666-3703,
\* LocHalDaemonClientHandler.cpp:552-641).
KnownGeofencesOnly == gfAborted => troubles # {}

\* Unless one of these has happened, client, daemon and engine have the same geofences with
\* the same options whenever they have settled, also after a restart; the ones refused
\* while an answer was awaited are in the client only (LocationClientApiImpl.cpp:2667-2735,
\* 2779-2832, 3354-3384, LocHalDaemonClientHandler.cpp:356-399).
GeofencesAgree ==
    GfSettled /\ troubles = {} =>
        LET map == gfHandler.mGfIdsMap IN
        /\ DOMAIN map = Known \ refused
        /\ Range(map) = DOMAIN engineFences
        /\ \A g \in DOMAIN map : engineFences[map[g]] = [of |-> g, opt |-> mGeofenceMap[g]]

\* A client with geofences in the engine is sent their breaches whenever all have settled,
\* though the client drops its callbacks when the map is empty and the daemon forgets them
\* in a crash (LocationClientApiImpl.cpp:2077-2167, 3314-3328, 3563-3565).
BreachesAreReported ==
    GfSettled /\ Known \ refused # {} /\ ~gfPending => gfHandler.subscribed /\ gfMask

\* Every geofence of a call that was accepted is in the end answered by the engine, also if
\* the daemon is not there or dies, unless the daemon drops a request, a restart sends other
\* ids or an exception ends the application (LocationClientApiImpl.cpp:2620-2735, 3354-3384,
\* 3537-3585, LocationApiService.cpp:1248-1300).
AddIsAnswered ==
    \A g \in Fences :
        g \in unanswered ~>
            g \notin unanswered \/ gfAborted \/ troubles \cap {"dropped", "restart"} # {}

\* What LocationClientApi.h:4185-4187 says of a geofence that was added: it is the
\* identifier throughout the remaining communication.  So the daemon's session of an id is
\* about that geofence.
GeofencesKeepTheirIdentity ==
    \A g \in DOMAIN gfHandler.mGfIdsMap :
        LET s == gfHandler.mGfIdsMap[g] IN
        s \in DOMAIN engineFences => engineFences[s].of = g
=============================================================================
