------------------------ MODULE ClientRegistryProofs ------------------------
(***************************************************************************)
(* Proofs about ClientRegistry, for any clients, handlers and requests.    *)
(*                                                                         *)
(* The registry is exact because names are unique: a name is given a       *)
(* handler only when it has none, and every removal by a thread that holds *)
(* mMutex erases the name and cleans the handler up together.  The         *)
(* maintenance does the two for a handler it fetched earlier; if that      *)
(* handler is still live it is still the one under the name, because its   *)
(* owner never changes (MaintVictimIsNamed), and if it is not, the step is *)
(* the fault CleanedUpOnce speaks of.                                      *)
(***************************************************************************)
EXTENDS ClientRegistry, TLAPS

\* The inductive invariant.
IInv ==
    /\ TypeOK
    /\ MaintVictimIsNamed
    /\ RegistryIsLive
    /\ ConfigAnsweredOnce
    /\ EnergyIsQueried
    /\ XtraReportedWhileRegistered

-----------------------------------------------------------------------------
(* Removing clients *)

\* What a removal does to the types of the registry.
LEMMA DeleteTypes ==
  ASSUME HandlerTypes, NEW S, deleteClientbyName(S)
  PROVE  /\ mClients' \in [Clients -> 0..created]
         /\ life' \in [Handlers -> Life]
         /\ \A c \in Clients : mClients'[c] # 0 => mClients'[c] = mClients[c]
         /\ \A c \in Clients : c \notin S => mClients'[c] = mClients[c]
         /\ \A c \in S \cap Clients : mClients'[c] = 0
<1>1. created \in Nat /\ mClients \in [Clients -> 0..created] /\ life \in [Handlers -> Life]
  BY BoundsAssumption DEF HandlerTypes
<1>2. \A h \in Handlers : cleanup(h) \in Life
  BY DEF cleanup, Life
<1> QED
  BY <1>1, <1>2 DEF deleteClientbyName

\* A removal under mMutex leaves the rest of the registry exact.
LEMMA DeleteKeepsRegistry ==
  ASSUME HandlerTypes, RegistryIsLive, fault = "none",
         NEW S \in SUBSET Clients, deleteClientbyName(S), owner' = owner
  PROVE  RegistryIsLive'
<1>1. mClients \in [Clients -> 0..created] /\ life \in [Handlers -> Life] /\ created \in Nat
  BY BoundsAssumption DEF HandlerTypes
<1>2. SUFFICES ASSUME NEW h \in Handlers
      PROVE /\ life'[h] = "live" => owner[h] \in Clients /\ mClients'[owner[h]] = h
            /\ \A c \in Clients : mClients'[c] = h => life'[h] = "live" /\ owner[h] = c
  BY DEF RegistryIsLive
<1>3. /\ life[h] = "live" => owner[h] \in Clients /\ mClients[owner[h]] = h
      /\ \A c \in Clients : mClients[c] = h => life[h] = "live" /\ owner[h] = c
  BY DEF RegistryIsLive
<1>4. life'[h] = IF \E c \in S : mClients[c] = h THEN cleanup(h) ELSE life[h]
  BY DEF deleteClientbyName
<1>5. cleanup(h) # "live"
  BY DEF cleanup
<1>6. \A c \in Clients : mClients'[c] = IF c \in S THEN 0 ELSE mClients[c]
  BY DEF deleteClientbyName
<1>7. h # 0
  BY BoundsAssumption DEF Handlers
<1>8. ASSUME life'[h] = "live" PROVE owner[h] \in Clients /\ mClients'[owner[h]] = h
  <2>1. life[h] = "live" /\ ~ \E c \in S : mClients[c] = h
    BY <1>4, <1>5, <1>8
  <2> QED
    BY <1>3, <1>6, <2>1
<1>9. ASSUME NEW c \in Clients, mClients'[c] = h
      PROVE life'[h] = "live" /\ owner[h] = c
  <2>1. c \notin S /\ mClients[c] = h
    BY <1>6, <1>7, <1>9
  <2>2. life[h] = "live" /\ owner[h] = c
    BY <1>3, <2>1
  <2>3. ~ \E d \in S : mClients[d] = h
    <3>1. SUFFICES ASSUME NEW d \in S, mClients[d] = h PROVE FALSE
      OBVIOUS
    <3> QED
      BY <1>3, <2>1, <2>2, <3>1
  <2> QED
    BY <1>4, <2>2, <2>3
<1> QED
  BY <1>8, <1>9

-----------------------------------------------------------------------------
(* How a step changes the registry *)

\* A step that at most removes some clients, all under mMutex.
Removal ==
    /\ \E S \in SUBSET Clients : deleteClientbyName(S)
    /\ reachable' \subseteq reachable
    /\ UNCHANGED <<created, owner>>

LEMMA NothingRemoved ==
  ASSUME HandlerTypes, UNCHANGED <<mClients, created, life, owner>>,
         reachable' \subseteq reachable
  PROVE  Removal
<1>1. mClients = [c \in Clients |-> mClients[c]] /\ life = [h \in Handlers |-> life[h]]
  BY DEF HandlerTypes
<1>2. deleteClientbyName({})
  BY <1>1 DEF deleteClientbyName
<1> QED
  BY <1>2 DEF Removal

LEMMA SendRemoves ==
  ASSUME NEW S \in SUBSET Clients, SendTo(S), UNCHANGED <<created, owner>>
  PROVE  Removal
BY DEF SendTo, Purge, Undelivered, Removal

LEMMA RespondRemoves ==
  ASSUME NEW r, NEW c, Respond(r, c), UNCHANGED <<created, owner>>
  PROVE  Removal
BY SendRemoves DEF Respond, Registered

LEMMA AddRemoves ==
  ASSUME HandlerTypes, NEW c, NEW accepted, addConfigRequestToMap(c, accepted),
         UNCHANGED <<created, owner>>
  PROVE  Removal
<1>1. CASE accepted
  BY <1>1, NothingRemoved DEF addConfigRequestToMap
<1>2. CASE ~accepted
  BY <1>2, RespondRemoves DEF addConfigRequestToMap
<1> QED
  BY <1>1, <1>2

\* Every step removes clients as above, registers one, frees a handler that was
\* removed before, or is the unlocked removal of the maintenance.
LEMMA RegistryStep ==
  ASSUME HandlerTypes, Next
  PROVE  \/ Removal
         \/ \E c \in Clients : newClient(c)
         \/ \E h \in Handlers : onLocationApiDestroyCompleteCb(h)
         \/ MaintErase
<1> USE DEF handlerVars
<1>1. ASSUME NEW c \in Clients, sendMessage(c) PROVE Removal
  BY <1>1, SendRemoves DEF sendMessage
<1>2. ASSUME NEW c \in Clients, deleteClient(c) PROVE Removal
  BY <1>2 DEF deleteClient, Removal
<1>3. ASSUME NEW c \in Clients, deleteEapClientByIds(c) PROVE Removal
  BY <1>3 DEF deleteEapClientByIds, Purge, Removal
<1>4. ASSUME NEW c \in Clients, ClientDies(c) PROVE Removal
  BY <1>4, NothingRemoved DEF ClientDies
<1>5. ASSUME NEW c \in Clients, configRequest(c) PROVE Removal
  BY <1>5, AddRemoves DEF configRequest
<1>6. ASSUME NEW c \in Clients, getGnssConfig(c) PROVE Removal
  BY <1>6, AddRemoves DEF getGnssConfig
<1>7. ASSUME NEW c \in Clients, getGnssEnergyConsumed(c) PROVE Removal
  BY <1>7, NothingRemoved DEF getGnssEnergyConsumed
<1>8. ASSUME NEW c \in Clients, registerXtraStatusUpdate(c) PROVE Removal
  BY <1>8, NothingRemoved DEF registerXtraStatusUpdate
<1>9. ASSUME NEW c \in Clients, RegisterXtraLocked(c) PROVE Removal
  BY <1>9, AddRemoves DEF RegisterXtraLocked
<1>10. ASSUME NEW c \in Clients, deregisterXtraStatusUpdate(c) PROVE Removal
  <2>1. UNCHANGED <<created, owner>>
    BY <1>10 DEF deregisterXtraStatusUpdate
  <2>2. \/ \E accepted \in BOOLEAN : addConfigRequestToMap(c, accepted)
        \/ Respond(Len(reqs'), c)
    BY <1>10 DEF deregisterXtraStatusUpdate
  <2> QED
    BY <2>1, <2>2, AddRemoves, RespondRemoves
<1>11. ASSUME NEW r \in 1..MaxReqs, onControlResponseCallback(r) PROVE Removal
  <2>1. UNCHANGED <<created, owner>>
    BY <1>11 DEF onControlResponseCallback
  <2>2. Respond(r, reqs[r].client) \/ UNCHANGED <<mClients, life, reachable>>
    BY <1>11 DEF onControlResponseCallback
  <2> QED
    BY <2>1, <2>2, RespondRemoves, NothingRemoved
<1>12. ASSUME NEW r \in 1..MaxReqs, onGnssConfigCallback(r) PROVE Removal
  BY <1>12, RespondRemoves DEF onGnssConfigCallback
<1>13. ASSUME onGnssEnergyConsumedCb PROVE Removal
  <2>1. PICK F \in Undelivered(EnergyPending) : Purge(F)
    BY <1>13 DEF onGnssEnergyConsumedCb
  <2>2. F \in SUBSET Clients
    BY <2>1 DEF Undelivered, EnergyPending, Registered
  <2> QED
    BY <1>13, <2>1, <2>2 DEF onGnssEnergyConsumedCb, Purge, Removal
<1>14. ASSUME onXtraStatusUpdate PROVE Removal
  BY <1>14, SendRemoves DEF onXtraStatusUpdate, Registered
<1>15. ASSUME performMaintenance \/ MaintEnd \/ \E c \in Clients : MaintPing(c) PROVE Removal
  BY <1>15, NothingRemoved DEF performMaintenance, MaintEnd, MaintPing
<1> QED
  BY <1>1, <1>2, <1>3, <1>4, <1>5, <1>6, <1>7, <1>8, <1>9, <1>10, <1>11, <1>12, <1>13,
     <1>14, <1>15 DEF Next, ClientStep, EngineStep, MaintStep

-----------------------------------------------------------------------------
(* The handlers *)

\* The energy bits are those of handlers that exist.
LEMMA MaskStep ==
  ASSUME HandlerTypes, Next
  PROVE  mEngineInfoRequestMask' \subseteq 1..created
<1>1. /\ mEngineInfoRequestMask \subseteq 1..created
      /\ mClients \in [Clients -> 0..created] /\ created \in Nat
  BY BoundsAssumption DEF HandlerTypes
<1>2. ASSUME NEW c \in Clients, getGnssEnergyConsumed(c)
      PROVE mEngineInfoRequestMask' \subseteq 1..created
  <2>1. {mClients[c]} \ {0} \subseteq 1..created
    BY <1>1
  <2>2. mEngineInfoRequestMask' = mEngineInfoRequestMask \cup ({mClients[c]} \ {0})
    BY <1>2 DEF getGnssEnergyConsumed
  <2> QED
    BY <1>1, <2>1, <2>2
<1>3. ASSUME onGnssEnergyConsumedCb PROVE mEngineInfoRequestMask' \subseteq 1..created
  BY <1>1, <1>3 DEF onGnssEnergyConsumedCb
<1>4. \/ \E c \in Clients : getGnssEnergyConsumed(c)
      \/ onGnssEnergyConsumedCb
      \/ mEngineInfoRequestMask' = mEngineInfoRequestMask
  BY DEF Next, ClientStep, EngineStep, MaintStep, newClient, sendMessage, deleteClient,
     deleteEapClientByIds, ClientDies, configRequest, getGnssConfig,
     registerXtraStatusUpdate, RegisterXtraLocked, deregisterXtraStatusUpdate,
     onLocationApiDestroyCompleteCb, onControlResponseCallback, onGnssConfigCallback,
     onXtraStatusUpdate, performMaintenance, MaintPing, MaintErase, MaintEnd, handlerVars
<1> QED
  BY <1>1, <1>2, <1>3, <1>4

LEMMA HandlerTypesStep ==
  ASSUME HandlerTypes, OtherTypes, MaintVictimIsNamed, Next
  PROVE  HandlerTypes'
<1>1. /\ mClients \in [Clients -> 0..created] /\ created \in 0..MaxHandlers /\ created \in Nat
      /\ life \in [Handlers -> Life] /\ owner \in [Handlers -> Clients \cup {"none"}]
      /\ reachable \subseteq Clients
  BY BoundsAssumption DEF HandlerTypes
<1>2. mEngineInfoRequestMask' \subseteq 1..created
  BY MaskStep
<1>3. CASE Removal
  BY <1>1, <1>2, <1>3, DeleteTypes DEF Removal, HandlerTypes
<1>4. ASSUME NEW c \in Clients, newClient(c) PROVE HandlerTypes'
  <2>1. created' = created + 1 /\ created' \in 0..MaxHandlers /\ reachable' = reachable
    BY <1>1, <1>4, BoundsAssumption DEF newClient
  <2>2. mClients' \in [Clients -> 0..created']
    BY <1>1, <1>4, <2>1 DEF newClient
  <2>3. life' \in [Handlers -> Life] /\ owner' \in [Handlers -> Clients \cup {"none"}]
    BY <1>1, <1>4 DEF newClient, Life
  <2>4. mEngineInfoRequestMask' \subseteq 1..created'
    BY <1>1, <1>2, <2>1
  <2> QED
    BY <1>1, <2>1, <2>2, <2>3, <2>4 DEF HandlerTypes
<1>5. ASSUME NEW h \in Handlers, onLocationApiDestroyCompleteCb(h) PROVE HandlerTypes'
  BY <1>1, <1>2, <1>5 DEF onLocationApiDestroyCompleteCb, HandlerTypes, Life
<1>6. CASE MaintErase
  <2>1. cleanup(maint.victim) \in Life
    BY DEF cleanup, Life
  <2>2. /\ mClients' = [mClients EXCEPT ![maint.name] = 0]
        /\ life' = [life EXCEPT ![maint.victim] = cleanup(maint.victim)]
        /\ reachable' \subseteq reachable /\ created' = created /\ owner' = owner
    BY <1>6 DEF MaintErase
  <2>3. life' \in [Handlers -> Life]
    BY <1>1, <2>1, <2>2
  <2>4. mClients' \in [Clients -> 0..created]
    <3>1. 0 \in 0..created
      BY <1>1
    <3> QED
      BY <1>1, <2>2, <3>1
  <2>5. reachable' \subseteq Clients
    BY <1>1, <2>2
  <2> QED
    BY <1>1, <1>2, <2>2, <2>3, <2>4, <2>5 DEF HandlerTypes
<1> QED
  BY <1>3, <1>4, <1>5, <1>6, RegistryStep

\* The registry stays exact until something undefined happens.
LEMMA RegistryPreserved ==
  ASSUME HandlerTypes, OtherTypes, MaintVictimIsNamed, RegistryIsLive, Next
  PROVE  RegistryIsLive'
<1>1. /\ mClients \in [Clients -> 0..created] /\ created \in 0..MaxHandlers /\ created \in Nat
      /\ life \in [Handlers -> Life] /\ owner \in [Handlers -> Clients \cup {"none"}]
  BY BoundsAssumption DEF HandlerTypes
<1>2. fault = "none"
  BY DEF Next
<1>3. \A h \in Handlers :
          /\ life[h] = "live" => owner[h] \in Clients /\ mClients[owner[h]] = h
          /\ \A c \in Clients : mClients[c] = h => life[h] = "live" /\ owner[h] = c
  BY <1>2 DEF RegistryIsLive
<1>4. CASE Removal
  BY <1>2, <1>4, DeleteKeepsRegistry DEF Removal
<1>5. ASSUME NEW c \in Clients, newClient(c) PROVE RegistryIsLive'
  <2>1. /\ mClients[c] = 0 /\ created + 1 \in Handlers /\ 0 \notin Handlers
        /\ mClients' = [mClients EXCEPT ![c] = created + 1]
        /\ life' = [life EXCEPT ![created + 1] = "live"]
        /\ owner' = [owner EXCEPT ![created + 1] = c]
    BY <1>1, <1>5, BoundsAssumption DEF newClient, Handlers
  <2>2. \A d \in Clients : mClients[d] # created + 1
    BY <1>1
  <2>3. ASSUME NEW h \in Handlers, h # created + 1
        PROVE /\ life'[h] = "live" => owner'[h] \in Clients /\ mClients'[owner'[h]] = h
              /\ \A d \in Clients : mClients'[d] = h => life'[h] = "live" /\ owner'[h] = d
    BY <1>1, <1>3, <2>1, <2>3
  <2>4. \A d \in Clients : mClients'[d] = created + 1 => d = c
    BY <1>1, <2>1, <2>2
  <2>5. life'[created + 1] = "live" /\ owner'[created + 1] = c /\ mClients'[c] = created + 1
    BY <1>1, <2>1
  <2> QED
    BY <2>1, <2>3, <2>4, <2>5 DEF RegistryIsLive
<1>6. ASSUME NEW g \in Handlers, onLocationApiDestroyCompleteCb(g) PROVE RegistryIsLive'
  BY <1>1, <1>3, <1>6 DEF onLocationApiDestroyCompleteCb, RegistryIsLive
<1>7. CASE MaintErase
  <2>1. SUFFICES ASSUME fault' = "none" PROVE RegistryIsLive'
    BY DEF RegistryIsLive
  <2>2. /\ maint.victim \in Handlers /\ owner[maint.victim] = maint.name
        /\ life[maint.victim] = "live" /\ 0 \notin Handlers
        /\ mClients' = [mClients EXCEPT ![maint.name] = 0]
        /\ life' = [life EXCEPT ![maint.victim] = cleanup(maint.victim)]
        /\ owner' = owner
    BY <1>1, <1>7, <2>1, BoundsAssumption DEF MaintErase, MaintVictimIsNamed, Handlers
  <2>3. cleanup(maint.victim) # "live"
    BY DEF cleanup
  <2>4. maint.name \in Clients /\ mClients[maint.name] = maint.victim
    BY <1>3, <2>2
  <2> QED
    BY <1>1, <1>3, <2>2, <2>3, <2>4 DEF RegistryIsLive
<1> QED
  BY <1>4, <1>5, <1>6, <1>7, RegistryStep

-----------------------------------------------------------------------------
(* Configuration requests *)

\* How a step changes the requests and their answers.
RequestStep(r) ==
    /\ reqs' = reqs
    /\ controlApi' = controlApi \ {r}
    /\ mConfigReqs' = mConfigReqs \ {r}
    /\ r \in controlApi
    /\ \A s \in 1..MaxReqs : s # r => responses'[s] = responses[s]
    /\ responses'[r] \in {responses[r], responses[r] + 1}
    /\ responses' \in [1..MaxReqs -> Nat]

Received(c, kind) ==
    /\ Receive(c, kind)
    /\ \/ /\ mConfigReqs' = mConfigReqs \cup {Len(reqs')}
          /\ controlApi' = controlApi \cup {Len(reqs')}
          /\ responses' = responses
       \/ /\ UNCHANGED <<mConfigReqs, controlApi>>
          /\ \A s \in 1..MaxReqs : s # Len(reqs') => responses'[s] = responses[s]
          /\ responses'[Len(reqs')] \in {responses[Len(reqs')], responses[Len(reqs')] + 1}
    /\ responses' \in [1..MaxReqs -> Nat]

LEMMA RespondFacts ==
  ASSUME RequestTypes, NEW r \in 1..MaxReqs, NEW c, Respond(r, c)
  PROVE  /\ \A s \in 1..MaxReqs : s # r => responses'[s] = responses[s]
         /\ responses'[r] \in {responses[r], responses[r] + 1}
         /\ responses' \in [1..MaxReqs -> Nat]
<1>1. responses \in [1..MaxReqs -> Nat]
  BY DEF RequestTypes
<1>2. PICK n \in {responses[r], responses[r] + 1} : responses' = [responses EXCEPT ![r] = n]
  BY <1>1 DEF Respond
<1>3. n \in Nat
  BY <1>1
<1> QED
  BY <1>1, <1>2, <1>3

LEMMA ReceivedInRange ==
  ASSUME RequestTypes, NEW c \in Clients, NEW kind \in Kinds, Receive(c, kind)
  PROVE  /\ Len(reqs') = Len(reqs) + 1 /\ Len(reqs') \in 1..MaxReqs
         /\ reqs' \in Seq([client : Clients, kind : Kinds])
<1>1. reqs \in Seq([client : Clients, kind : Kinds]) /\ Len(reqs) \in Nat
  BY DEF RequestTypes
<1>2. [client |-> c, kind |-> kind] \in [client : Clients, kind : Kinds]
  OBVIOUS
<1>3. reqs' = Append(reqs, [client |-> c, kind |-> kind]) /\ Len(reqs) < MaxReqs
  BY DEF Receive
<1> QED
  BY <1>1, <1>2, <1>3, BoundsAssumption

LEMMA AddIsReceived ==
  ASSUME RequestTypes, NEW c \in Clients, NEW kind \in Kinds, Receive(c, kind),
         NEW accepted \in BOOLEAN, addConfigRequestToMap(c, accepted)
  PROVE  Received(c, kind)
<1>1. Len(reqs') \in 1..MaxReqs /\ responses \in [1..MaxReqs -> Nat]
  BY ReceivedInRange DEF RequestTypes
<1>2. CASE accepted
  BY <1>1, <1>2 DEF addConfigRequestToMap, Received
<1>3. CASE ~accepted
  <2>1. Respond(Len(reqs'), c) /\ UNCHANGED <<mConfigReqs, controlApi>>
    BY <1>3 DEF addConfigRequestToMap
  <2> QED
    BY <1>1, <2>1, RespondFacts DEF Received
<1> QED
  BY <1>2, <1>3

\* Every step leaves the requests alone, receives one or ends a session.
LEMMA ConfigStep ==
  ASSUME RequestTypes, ConfigAnsweredOnce, Next
  PROVE  \/ UNCHANGED configVars
         \/ \E c \in Clients, kind \in Kinds : Received(c, kind)
         \/ \E r \in 1..MaxReqs : RequestStep(r)
<1> USE DEF configVars
<1>1. "SET" \in Kinds /\ "GET" \in Kinds /\ "ENERGY" \in Kinds
  BY DEF Kinds
<1>2. responses \in [1..MaxReqs -> Nat] /\ mConfigReqs = controlApi
  BY DEF RequestTypes, ConfigAnsweredOnce
<1>3. ASSUME NEW c \in Clients, configRequest(c) PROVE Received(c, "SET")
  BY <1>1, <1>3, AddIsReceived DEF configRequest
<1>4. ASSUME NEW c \in Clients, getGnssConfig(c) PROVE Received(c, "GET")
  BY <1>1, <1>4, AddIsReceived DEF getGnssConfig
<1>5. ASSUME NEW c \in Clients, getGnssEnergyConsumed(c) PROVE Received(c, "ENERGY")
  BY <1>2, <1>5 DEF getGnssEnergyConsumed, Received
<1>6. ASSUME NEW c \in Clients, RegisterXtraLocked(c) PROVE Received(c, "GET")
  BY <1>1, <1>6, AddIsReceived DEF RegisterXtraLocked
<1>7. ASSUME NEW c \in Clients, deregisterXtraStatusUpdate(c) PROVE Received(c, "SET")
  <2>1. Receive(c, "SET")
    BY <1>7 DEF deregisterXtraStatusUpdate
  <2>2. Len(reqs') \in 1..MaxReqs
    BY <1>1, <2>1, ReceivedInRange
  <2>3. \/ \E accepted \in BOOLEAN : addConfigRequestToMap(c, accepted)
        \/ Respond(Len(reqs'), c) /\ UNCHANGED <<mConfigReqs, controlApi>>
    BY <1>7 DEF deregisterXtraStatusUpdate
  <2>4. CASE \E accepted \in BOOLEAN : addConfigRequestToMap(c, accepted)
    BY <1>1, <2>1, <2>4, AddIsReceived
  <2>5. CASE Respond(Len(reqs'), c) /\ UNCHANGED <<mConfigReqs, controlApi>>
    BY <2>1, <2>2, <2>5, RespondFacts DEF Received
  <2> QED
    BY <2>3, <2>4, <2>5
<1>8. ASSUME NEW r \in 1..MaxReqs, onControlResponseCallback(r) PROVE RequestStep(r)
  <2>1. Respond(r, reqs[r].client) /\ mConfigReqs' = mConfigReqs \ {r}
    BY <1>2, <1>8 DEF onControlResponseCallback
  <2> QED
    BY <1>8, <2>1, RespondFacts DEF onControlResponseCallback, RequestStep
<1>9. ASSUME NEW r \in 1..MaxReqs, onGnssConfigCallback(r) PROVE RequestStep(r)
  <2>1. Respond(r, reqs[r].client)
    BY <1>9 DEF onGnssConfigCallback
  <2> QED
    BY <1>9, <2>1, RespondFacts DEF onGnssConfigCallback, RequestStep
<1>10. \/ UNCHANGED configVars
       \/ \E c \in Clients : \/ configRequest(c) \/ getGnssConfig(c)
                             \/ getGnssEnergyConsumed(c) \/ RegisterXtraLocked(c)
                             \/ deregisterXtraStatusUpdate(c)
       \/ \E r \in 1..MaxReqs : onControlResponseCallback(r) \/ onGnssConfigCallback(r)
  BY DEF Next, ClientStep, EngineStep, MaintStep, newClient, sendMessage, deleteClient,
     deleteEapClientByIds, ClientDies, registerXtraStatusUpdate,
     onLocationApiDestroyCompleteCb, onGnssEnergyConsumedCb, onXtraStatusUpdate,
     performMaintenance, MaintPing, MaintErase, MaintEnd
<1> QED
  BY <1>1, <1>3, <1>4, <1>5, <1>6, <1>7, <1>8, <1>9, <1>10

\* Energy queries are counted up and down, never below zero.
LEMMA QueriesStep ==
  ASSUME RequestTypes, Next
  PROVE  energyQueries' \in Nat
<1>1. energyQueries \in Nat
  BY DEF RequestTypes
<1>2. ASSUME NEW c \in Clients, getGnssEnergyConsumed(c) PROVE energyQueries' \in Nat
  BY <1>1, <1>2 DEF getGnssEnergyConsumed
<1>3. ASSUME onGnssEnergyConsumedCb PROVE energyQueries' \in Nat
  <2>1. energyQueries > 0 /\ energyQueries' = energyQueries - 1
    BY <1>3 DEF onGnssEnergyConsumedCb
  <2> QED
    BY <1>1, <2>1
<1>4. \/ energyQueries' = energyQueries
      \/ \E c \in Clients : getGnssEnergyConsumed(c)
      \/ onGnssEnergyConsumedCb
  BY DEF Next, ClientStep, EngineStep, MaintStep, newClient, sendMessage, deleteClient,
     deleteEapClientByIds, ClientDies, configRequest, getGnssConfig,
     registerXtraStatusUpdate, RegisterXtraLocked,
     deregisterXtraStatusUpdate, onLocationApiDestroyCompleteCb,
     onControlResponseCallback, onGnssConfigCallback, onXtraStatusUpdate,
     performMaintenance, MaintPing, MaintErase, MaintEnd
<1> QED
  BY <1>1, <1>2, <1>3, <1>4

LEMMA ConfigPreserved ==
  ASSUME RequestTypes, ConfigAnsweredOnce, Next
  PROVE  RequestTypes' /\ ConfigAnsweredOnce'
<1>1. /\ reqs \in Seq([client : Clients, kind : Kinds]) /\ Len(reqs) =< MaxReqs
      /\ mConfigReqs \subseteq 1..Len(reqs) /\ mConfigReqs = controlApi
      /\ responses \in [1..MaxReqs -> Nat] /\ Len(reqs) \in Nat
      /\ energyQueries' \in Nat /\ MaxReqs \in Nat
  BY QueriesStep, BoundsAssumption DEF RequestTypes, ConfigAnsweredOnce
<1>2. \A r \in 1..MaxReqs :
          /\ responses[r] =< 1
          /\ r \in mConfigReqs \/ r > Len(reqs) => responses[r] = 0
  BY DEF ConfigAnsweredOnce
<1>3. CASE UNCHANGED configVars
  BY <1>1, <1>2, <1>3 DEF configVars, RequestTypes, ConfigAnsweredOnce
<1>4. ASSUME NEW c \in Clients, NEW kind \in Kinds, Received(c, kind)
      PROVE RequestTypes' /\ ConfigAnsweredOnce'
  <2> DEFINE n == Len(reqs')
  <2>1. /\ n = Len(reqs) + 1 /\ n \in 1..MaxReqs
        /\ reqs' \in Seq([client : Clients, kind : Kinds])
    BY <1>4, ReceivedInRange DEF Received
  <2>2. responses[n] = 0 /\ n \notin mConfigReqs /\ responses' \in [1..MaxReqs -> Nat]
    BY <1>1, <1>2, <1>4, <2>1, SMTT(20) DEF Received
  <2>3. \/ /\ mConfigReqs' = mConfigReqs \cup {n} /\ controlApi' = controlApi \cup {n}
           /\ responses' = responses
        \/ /\ mConfigReqs' = mConfigReqs /\ controlApi' = controlApi
           /\ \A s \in 1..MaxReqs : s # n => responses'[s] = responses[s]
           /\ responses'[n] \in {0, 1}
    BY <1>4, <2>1, <2>2 DEF Received
  <2> HIDE DEF n
  <2>4. mConfigReqs' = controlApi' /\ mConfigReqs' \subseteq 1..n
    <3>1. 1..Len(reqs) \subseteq 1..n /\ n \in 1..n
      BY <1>1, <2>1
    <3> QED
      BY <1>1, <2>3, <3>1
  <2>5. \A r \in 1..MaxReqs :
            /\ responses'[r] =< 1
            /\ r \in mConfigReqs' \/ r > n => responses'[r] = 0
    BY <1>1, <1>2, <2>1, <2>2, <2>3, SMTT(20)
  <2>6. RequestTypes'
    BY <1>1, <2>1, <2>2, <2>4 DEF n, RequestTypes
  <2> QED
    BY <2>4, <2>5, <2>6 DEF n, ConfigAnsweredOnce
<1>5. ASSUME NEW r \in 1..MaxReqs, RequestStep(r) PROVE RequestTypes' /\ ConfigAnsweredOnce'
  <2>1. responses[r] = 0 /\ r \in 1..Len(reqs)
    BY <1>1, <1>2, <1>5 DEF RequestStep
  <2>2. /\ reqs' = reqs /\ mConfigReqs' = mConfigReqs \ {r} /\ controlApi' = mConfigReqs'
        /\ \A s \in 1..MaxReqs : s # r => responses'[s] = responses[s]
        /\ responses'[r] \in {0, 1} /\ responses' \in [1..MaxReqs -> Nat]
    BY <1>1, <1>5, <2>1 DEF RequestStep
  <2>3. RequestTypes'
    BY <1>1, <2>2 DEF RequestTypes
  <2> QED
    BY <1>1, <1>2, <2>1, <2>2, <2>3, SMTT(20) DEF ConfigAnsweredOnce
<1> QED
  BY <1>3, <1>4, <1>5, ConfigStep

-----------------------------------------------------------------------------
(* Energy, xtra status and maintenance *)

\* A removal takes nobody's energy query away.
LEMMA EnergyPreserved ==
  ASSUME HandlerTypes, RequestTypes, EnergyIsQueried, Next
  PROVE  EnergyIsQueried'
<1>1. /\ mClients \in [Clients -> 0..created] /\ created \in Nat /\ energyQueries \in Nat
      /\ mEngineInfoRequestMask \subseteq 1..created
  BY BoundsAssumption DEF HandlerTypes, RequestTypes
<1>2. ASSUME NEW c \in Clients, getGnssEnergyConsumed(c) PROVE EnergyIsQueried'
  <2>1. /\ mClients' = mClients
        /\ mEngineInfoRequestMask' = mEngineInfoRequestMask \cup ({mClients[c]} \ {0})
        /\ energyQueries' = IF c \in Registered /\ EnergyPending = {}
                            THEN energyQueries + 1 ELSE energyQueries
    BY <1>2 DEF getGnssEnergyConsumed
  <2>2. CASE c \in Registered
    BY <1>1, <2>1, <2>2 DEF EnergyIsQueried
  <2>3. CASE c \notin Registered
    BY <1>1, <1>2, <2>1, <2>3 DEF EnergyIsQueried, EnergyPending, Registered
  <2> QED
    BY <2>2, <2>3
<1>3. ASSUME onGnssEnergyConsumedCb, Removal PROVE EnergyIsQueried'
  <2>1. \A c \in Clients : mClients'[c] # 0 => mClients'[c] = mClients[c]
    BY <1>3, DeleteTypes DEF Removal
  <2>2. mEngineInfoRequestMask' =
            mEngineInfoRequestMask \ {mClients[c] : c \in EnergyPending}
    BY <1>3 DEF onGnssEnergyConsumedCb
  <2>3. EnergyPending' = {}
    BY <2>1, <2>2 DEF EnergyPending, Registered
  <2> QED
    BY <2>3 DEF EnergyIsQueried
<1>4. ASSUME mEngineInfoRequestMask' = mEngineInfoRequestMask, energyQueries' = energyQueries,
             \A c \in Clients : mClients'[c] \in 1..created => mClients'[c] = mClients[c]
      PROVE EnergyIsQueried'
  <2>1. EnergyPending' \subseteq EnergyPending
    BY <1>1, <1>4 DEF EnergyPending, Registered
  <2> QED
    BY <1>4, <2>1 DEF EnergyIsQueried
<1>5. \/ \E c \in Clients : getGnssEnergyConsumed(c)
      \/ onGnssEnergyConsumedCb
      \/ UNCHANGED <<mEngineInfoRequestMask, energyQueries>>
  BY DEF Next, ClientStep, EngineStep, MaintStep, newClient, sendMessage, deleteClient,
     deleteEapClientByIds, ClientDies, configRequest, getGnssConfig,
     registerXtraStatusUpdate, RegisterXtraLocked, deregisterXtraStatusUpdate,
     onLocationApiDestroyCompleteCb, onControlResponseCallback, onGnssConfigCallback,
     onXtraStatusUpdate, performMaintenance, MaintPing, MaintErase, MaintEnd, handlerVars
<1>6. CASE Removal
  <2>1. \A c \in Clients : mClients'[c] # 0 => mClients'[c] = mClients[c]
    BY <1>6, DeleteTypes DEF Removal
  <2>2. \A c \in Clients : mClients'[c] \in 1..created => mClients'[c] = mClients[c]
    BY <1>1, <2>1
  <2> QED
    BY <1>2, <1>3, <1>4, <1>5, <1>6, <2>2
<1>7. ASSUME NEW c \in Clients, newClient(c) PROVE EnergyIsQueried'
  <2>1. \A d \in Clients : mClients'[d] \in 1..created => mClients'[d] = mClients[d]
    BY <1>1, <1>7 DEF newClient
  <2> QED
    BY <1>4, <1>7, <2>1 DEF newClient
<1>8. ASSUME NEW h \in Handlers, onLocationApiDestroyCompleteCb(h) PROVE EnergyIsQueried'
  BY <1>4, <1>8 DEF onLocationApiDestroyCompleteCb
<1>9. CASE MaintErase
  <2>1. \A d \in Clients : mClients'[d] \in 1..created => mClients'[d] = mClients[d]
    <3>1. mClients' = [mClients EXCEPT ![maint.name] = 0]
      BY <1>9 DEF MaintErase
    <3> QED
      BY <1>1, <3>1
  <2> QED
    BY <1>4, <1>9, <2>1 DEF MaintErase
<1> QED
  BY <1>6, <1>7, <1>8, <1>9, RegistryStep

\* Only the last deregistration stops the updates.
LEMMA XtraPreserved ==
  ASSUME OtherTypes, XtraReportedWhileRegistered, Next
  PROVE  XtraReportedWhileRegistered'
<1> USE DEF xtraVars
<1>1. ASSUME NEW c \in Clients, registerXtraStatusUpdate(c) PROVE XtraReportedWhileRegistered'
  BY <1>1 DEF registerXtraStatusUpdate, XtraReportedWhileRegistered
<1>2. ASSUME NEW c \in Clients, RegisterXtraLocked(c) PROVE XtraReportedWhileRegistered'
  BY <1>2 DEF RegisterXtraLocked, XtraReportedWhileRegistered
<1>3. ASSUME NEW c \in Clients, deregisterXtraStatusUpdate(c) PROVE XtraReportedWhileRegistered'
  BY <1>3 DEF deregisterXtraStatusUpdate, XtraReportedWhileRegistered
<1>4. CASE UNCHANGED xtraVars
  BY <1>4 DEF XtraReportedWhileRegistered
<1>5. \/ UNCHANGED xtraVars
      \/ \E c \in Clients : \/ registerXtraStatusUpdate(c) \/ RegisterXtraLocked(c)
                            \/ deregisterXtraStatusUpdate(c)
  BY DEF Next, ClientStep, EngineStep, MaintStep, newClient, sendMessage, deleteClient,
     deleteEapClientByIds, ClientDies, configRequest, getGnssConfig,
     getGnssEnergyConsumed, onLocationApiDestroyCompleteCb, onControlResponseCallback,
     onGnssConfigCallback, onGnssEnergyConsumedCb, onXtraStatusUpdate,
     performMaintenance, MaintPing, MaintErase, MaintEnd
<1> QED
  BY <1>1, <1>2, <1>3, <1>4, <1>5

\* Handlers keep their owner, so the one the maintenance fetched keeps its name.
LEMMA VictimPreserved ==
  ASSUME HandlerTypes, OtherTypes, RegistryIsLive, MaintVictimIsNamed, Next
  PROVE  MaintVictimIsNamed'
<1>1. /\ mClients \in [Clients -> 0..created] /\ created \in 0..MaxHandlers /\ created \in Nat
      /\ owner \in [Handlers -> Clients \cup {"none"}] /\ fault = "none"
  BY BoundsAssumption DEF HandlerTypes, Next
<1>2. 1..created \subseteq Handlers /\ created + 1 \notin 1..created
  BY <1>1, BoundsAssumption DEF Handlers
<1>3. created' \in Nat /\ created' >= created /\ \A h \in 1..created : owner'[h] = owner[h]
  <2>1. CASE UNCHANGED <<created, owner>>
    BY <1>1, <2>1
  <2>2. ASSUME NEW c \in Clients, newClient(c)
        PROVE /\ created' \in Nat /\ created' >= created
              /\ \A h \in 1..created : owner'[h] = owner[h]
    BY <1>1, <1>2, <2>2 DEF newClient
  <2> QED
    BY <2>1, <2>2, RegistryStep DEF Removal, onLocationApiDestroyCompleteCb, MaintErase
<1>4. CASE maint' = maint
  BY <1>1, <1>3, <1>4 DEF MaintVictimIsNamed
<1>5. ASSUME NEW c \in Clients, MaintPing(c) PROVE MaintVictimIsNamed'
  <2>1. CASE maint' = [maint EXCEPT !.todo = @ \ {c}]
    BY <1>5, <2>1 DEF MaintPing, MaintVictimIsNamed, OtherTypes, Maint
  <2>2. CASE /\ c \in Registered
             /\ maint' = [phase |-> "erase", todo |-> maint.todo \ {c}, name |-> c,
                          victim |-> mClients[c]]
    <3>1. mClients[c] \in 1..created
      BY <1>1, <2>2 DEF Registered
    <3>2. owner[mClients[c]] = c
      BY <1>1, <1>2, <3>1 DEF RegistryIsLive
    <3> QED
      BY <1>1, <1>3, <2>2, <3>1, <3>2 DEF MaintVictimIsNamed
  <2> QED
    BY <1>5, <2>1, <2>2 DEF MaintPing
<1>6. CASE performMaintenance \/ MaintErase \/ MaintEnd
  <2>1. maint' = NoMaint \/ \E S : maint' = Pinging(S)
    BY <1>6 DEF performMaintenance, MaintErase, MaintEnd
  <2>2. maint'.phase # "erase"
    BY <2>1 DEF NoMaint, Pinging
  <2> QED
    BY <2>2 DEF MaintVictimIsNamed
<1>7. maint' = maint \/ (\E c \in Clients : MaintPing(c))
      \/ performMaintenance \/ MaintErase \/ MaintEnd
  BY DEF Next, ClientStep, EngineStep, MaintStep, newClient, sendMessage, deleteClient,
     deleteEapClientByIds, ClientDies, configRequest, getGnssConfig,
     getGnssEnergyConsumed, registerXtraStatusUpdate, RegisterXtraLocked,
     deregisterXtraStatusUpdate, onLocationApiDestroyCompleteCb,
     onControlResponseCallback, onGnssConfigCallback, onGnssEnergyConsumedCb,
     onXtraStatusUpdate
<1> QED
  BY <1>4, <1>5, <1>6, <1>7

LEMMA MaintTypesStep ==
  ASSUME HandlerTypes, OtherTypes, Next
  PROVE  /\ maint' \in Maint
         /\ maint'.todo \cap EapClients = {}
         /\ maint'.phase = "erase" => maint'.name \in Clients \ EapClients
<1> DEFINE Goal == /\ maint' \in Maint
                   /\ maint'.todo \cap EapClients = {}
                   /\ maint'.phase = "erase" => maint'.name \in Clients \ EapClients
<1>1. /\ maint \in Maint /\ maint.todo \cap EapClients = {}
      /\ maint.phase = "erase" => maint.name \in Clients \ EapClients
      /\ maint.todo \in SUBSET Clients
  BY DEF OtherTypes, Maint
<1>2. mClients \in [Clients -> 0..MaxHandlers] /\ 0 \in 0..MaxHandlers
  BY BoundsAssumption DEF HandlerTypes
<1>3. ASSUME NEW c \in Clients, MaintPing(c) PROVE Goal
  <2>1. CASE maint' = [maint EXCEPT !.todo = @ \ {c}]
    BY <1>1, <1>3, <2>1 DEF MaintPing, Maint
  <2>2. CASE maint' = [phase |-> "erase", todo |-> maint.todo \ {c}, name |-> c,
                       victim |-> mClients[c]]
    BY <1>1, <1>2, <1>3, <2>2 DEF MaintPing, Maint
  <2> QED
    BY <1>3, <2>1, <2>2 DEF MaintPing
<1>4. CASE performMaintenance \/ MaintErase \/ MaintEnd
  <2>1. Registered \ EapClients \in SUBSET (Clients \ EapClients)
    BY DEF Registered
  <2>2. CASE performMaintenance
    BY <1>2, <2>1, <2>2 DEF performMaintenance, Pinging, Maint
  <2>3. CASE MaintErase
    BY <1>1, <1>2, <2>3 DEF MaintErase, Pinging, Maint
  <2>4. CASE MaintEnd
    BY <1>2, <2>4 DEF MaintEnd, NoMaint, Maint
  <2> QED
    BY <1>4, <2>2, <2>3, <2>4
<1>5. maint' = maint \/ (\E c \in Clients : MaintPing(c))
      \/ performMaintenance \/ MaintErase \/ MaintEnd
  BY DEF Next, ClientStep, EngineStep, MaintStep, newClient, sendMessage, deleteClient,
     deleteEapClientByIds, ClientDies, configRequest, getGnssConfig,
     getGnssEnergyConsumed, registerXtraStatusUpdate, RegisterXtraLocked,
     deregisterXtraStatusUpdate, onLocationApiDestroyCompleteCb,
     onControlResponseCallback, onGnssConfigCallback, onGnssEnergyConsumedCb,
     onXtraStatusUpdate
<1> QED
  BY <1>1, <1>3, <1>4, <1>5

LEMMA OtherTypesStep ==
  ASSUME HandlerTypes, OtherTypes, Next
  PROVE  OtherTypes'
<1> USE DEF xtraVars
<1>1. /\ mClientsRegForXtraStatus' \subseteq Clients /\ xtraRegistering' \subseteq Clients
      /\ xtraUpdates' \in BOOLEAN
  BY DEF OtherTypes, Next, ClientStep, EngineStep, MaintStep, newClient, sendMessage,
     deleteClient, deleteEapClientByIds, ClientDies, configRequest, getGnssConfig,
     getGnssEnergyConsumed, registerXtraStatusUpdate, RegisterXtraLocked,
     deregisterXtraStatusUpdate, onLocationApiDestroyCompleteCb,
     onControlResponseCallback, onGnssConfigCallback, onGnssEnergyConsumedCb,
     onXtraStatusUpdate, performMaintenance, MaintPing, MaintErase, MaintEnd
<1>2. fault' \in {"none", "freed handler used", "iterator of an erased client",
                 "cleaned up twice"}
  BY DEF OtherTypes, Next, ClientStep, EngineStep, MaintStep, newClient, sendMessage,
     deleteClient, deleteEapClientByIds, ClientDies, configRequest, getGnssConfig,
     getGnssEnergyConsumed, registerXtraStatusUpdate, RegisterXtraLocked,
     deregisterXtraStatusUpdate, onLocationApiDestroyCompleteCb,
     onControlResponseCallback, onGnssConfigCallback, onGnssEnergyConsumedCb,
     onXtraStatusUpdate, performMaintenance, MaintPing, MaintErase, MaintEnd
<1> QED
  BY <1>1, <1>2, MaintTypesStep DEF OtherTypes

-----------------------------------------------------------------------------
(* The theorems *)

LEMMA InitIInv == Init => IInv
<1> SUFFICES ASSUME Init PROVE IInv
  OBVIOUS
<1> USE BoundsAssumption DEF Init
<1>1. HandlerTypes
  BY DEF HandlerTypes, Life
<1>2. RequestTypes
  BY DEF RequestTypes
<1>3. OtherTypes
  <2>1. maint = [phase |-> "idle", todo |-> {}, name |-> "none", victim |-> 0]
    BY DEF NoMaint
  <2>2. 0 \in 0..MaxHandlers
    OBVIOUS
  <2>3. maint \in Maint
    BY <2>1, <2>2 DEF Maint
  <2>4. /\ maint.todo \cap EapClients = {}
        /\ maint.phase = "erase" => maint.name \in Clients \ EapClients
    BY <2>1
  <2>5. mClientsRegForXtraStatus \subseteq Clients /\ xtraRegistering \subseteq Clients
    OBVIOUS
  <2> QED
    BY <2>3, <2>4, <2>5 DEF OtherTypes
<1>4. MaintVictimIsNamed
  BY DEF MaintVictimIsNamed, NoMaint
<1>5. RegistryIsLive
  BY DEF RegistryIsLive, Handlers
<1>6. ConfigAnsweredOnce /\ XtraReportedWhileRegistered
  BY DEF ConfigAnsweredOnce, XtraReportedWhileRegistered
<1>7. EnergyIsQueried
  BY DEF EnergyIsQueried, EnergyPending, Registered
<1> QED
  BY <1>1, <1>2, <1>3, <1>4, <1>5, <1>6, <1>7 DEF IInv, TypeOK

LEMMA StutterIInv ==
  ASSUME IInv, UNCHANGED vars
  PROVE  IInv'
<1> USE DEF vars, handlerVars, configVars, xtraVars
<1>1. HandlerTypes' /\ RequestTypes' /\ OtherTypes'
  BY DEF IInv, TypeOK, HandlerTypes, RequestTypes, OtherTypes
<1>2. MaintVictimIsNamed' /\ RegistryIsLive'
  BY DEF IInv, MaintVictimIsNamed, RegistryIsLive
<1>3. ConfigAnsweredOnce' /\ XtraReportedWhileRegistered'
  BY DEF IInv, ConfigAnsweredOnce, XtraReportedWhileRegistered
<1>4. EnergyIsQueried'
  BY DEF IInv, EnergyIsQueried, EnergyPending, Registered
<1> QED
  BY <1>1, <1>2, <1>3, <1>4 DEF IInv, TypeOK

\* Every reachable state satisfies the inductive invariant: LocationApiService keeps
\* its registry, its requests and its registrations consistent in every step.
THEOREM Inductive == Spec => []IInv
<1>1. ASSUME IInv, Next PROVE IInv'
  <2>1. HandlerTypes' /\ OtherTypes'
    BY <1>1, HandlerTypesStep, OtherTypesStep DEF IInv, TypeOK
  <2>2. RequestTypes' /\ ConfigAnsweredOnce'
    BY <1>1, ConfigPreserved DEF IInv, TypeOK
  <2>3. RegistryIsLive' /\ MaintVictimIsNamed'
    BY <1>1, RegistryPreserved, VictimPreserved DEF IInv, TypeOK
  <2>4. EnergyIsQueried' /\ XtraReportedWhileRegistered'
    BY <1>1, EnergyPreserved, XtraPreserved DEF IInv, TypeOK
  <2> QED
    BY <2>1, <2>2, <2>3, <2>4 DEF IInv, TypeOK
<1>2. IInv /\ [Next]_vars => IInv'
  BY <1>1, StutterIInv
<1> QED
  BY <1>2, InitIInv, PTL DEF Spec

\* The state of the daemon keeps its types; maintenance pings local clients only.
THEOREM TypeCorrect == Spec => []TypeOK
<1>1. IInv => TypeOK
  BY DEF IInv
<1> QED
  BY <1>1, Inductive, PTL

\* mClients and the live handlers correspond one to one until something undefined
\* happens, whatever clients, failed sends, QRTR and maintenance remove.
THEOREM RegistryIsExact == Spec => []RegistryIsLive
<1>1. IInv => RegistryIsLive
  BY DEF IInv
<1> QED
  BY <1>1, Inductive, PTL

\* No configuration request is answered twice, and the sessions of the control API
\* are those of mConfigReqs.
THEOREM ConfigRequestsAnsweredOnce == Spec => []ConfigAnsweredOnce
<1>1. IInv => ConfigAnsweredOnce
  BY DEF IInv
<1> QED
  BY <1>1, Inductive, PTL

\* A client that waits for the energy consumed never waits without a query.
THEOREM EnergyQueryIsShared == Spec => []EnergyIsQueried
<1>1. IInv => EnergyIsQueried
  BY DEF IInv
<1> QED
  BY <1>1, Inductive, PTL

\* Xtra status updates are on while a name is registered for them.
THEOREM XtraUpdatesAreOn == Spec => []XtraReportedWhileRegistered
<1>1. IInv => XtraReportedWhileRegistered
  BY DEF IInv
<1> QED
  BY <1>1, Inductive, PTL
=============================================================================
