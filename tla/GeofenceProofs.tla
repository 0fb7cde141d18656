---------------------------- MODULE GeofenceProofs ----------------------------
(***************************************************************************)
(* Proofs about Geofence for any number of geofences, requests, breaches   *)
(* and crashes of the daemon.                                              *)
(***************************************************************************)
EXTENDS Geofence, SequenceTheorems, FiniteSetTheorems, WellFoundedInduction, TLAPS

AddEntries == [id : FenceIds, of : Fences, opt : GfOptions]

Changes == [type : {"REMOVE", "PAUSE"}, id : Fences]
           \cup [type : {"MODIFY"}, id : Fences, opt : GfOptions]

DaemonMsgs == [type : {"REGISTER", "UPDATE_CALLBACKS"}]
              \cup [type : {"ADD"}, fences : Seq(AddEntries)]
              \cup Changes

Results == [id : FenceIds, ok : BOOLEAN]

ClientMsgs == [type : {"REGISTER", "HAL_READY", "CAPABILITIES"}]
              \cup [type : {"RESPONSE"}, to : GfTypes, resp : Seq(Results)]
              \cup [type : {"BREACH"}, id : FenceIds]

ChangeCalls == [type : {"REMOVE", "PAUSE"}, session : Nat]
               \cup [type : {"MODIFY"}, session : Nat, opt : GfOptions]

AddCalls == [type : {"ADD"}, session : Nat \ {0}, fences : Seq(AddEntries)]

IdMaps == UNION {[D -> Nat] : D \in SUBSET FenceIds}

Handlers == [registered : BOOLEAN, capable : BOOLEAN, subscribed : BOOLEAN,
             mGfIdsMap : IdMaps, mGfPendingMessages : Seq(GfTypes)]

ClientTyped ==
    /\ {gfRegistered, gfPending, gfMask, gfAborted} \subseteq BOOLEAN
    /\ Known \subseteq Fences /\ mGeofenceMap \in [Known -> GfOptions]
    /\ mLastAddedClientIds \in Seq(Fences)

SocketsTyped ==
    /\ gfToDaemon \in Seq(DaemonMsgs)
    /\ gfInbox \in Seq(ClientMsgs)

MapIsBounded == \A id \in DOMAIN gfHandler.mGfIdsMap : gfHandler.mGfIdsMap[id] =< gfSessions

\* The geofences of the calls that add some have got their sessions.
CallsAreBounded ==
    \A i \in 1..Len(gfCalls) :
        gfCalls[i].type = "ADD" => gfCalls[i].session + Len(gfCalls[i].fences) =< gfSessions + 1

DaemonTyped ==
    /\ gfHandler \in Handlers
    /\ gfSessions \in Nat
    /\ MapIsBounded
    /\ gfCalls \in Seq(AddCalls \cup ChangeCalls)
    /\ CallsAreBounded
    /\ gfHandler.mGfPendingMessages = [i \in DOMAIN gfCalls |-> gfCalls[i].type]
    /\ DOMAIN engineFences \subseteq 1..gfSessions
    /\ engineFences \in [DOMAIN engineFences -> [of : Fences, opt : GfOptions]]

HistoryTyped ==
    /\ gfUp \in BOOLEAN
    /\ gfCrashes \in 0..MaxGfCrashes
    /\ made \in 0..MaxGeofences
    /\ requested \in Nat
    /\ refused \subseteq Fences /\ awaited \subseteq Fences /\ unanswered \subseteq Fences
    /\ troubles \subseteq {"overlap", "failure", "restart", "dropped"}

Typed == ClientTyped /\ SocketsTyped /\ DaemonTyped /\ HistoryTyped

-----------------------------------------------------------------------------
(* Numbers, sequences and maps *)

\* A set of naturals has a least element.
LEMMA LeastExists ==
  ASSUME NEW S, S \subseteq Nat, S # {}
  PROVE  \E x \in S : \A y \in S : x =< y
<1>1. \E R : IsWellFoundedOn(R, Nat) /\ \A a, b \in Nat : a < b => <<a, b>> \in R
  <2> DEFINE R == OpToRel(<, Nat)
  <2>1. IsWellFoundedOn(R, Nat)
    BY NatLessThanWellFounded, Zenon
  <2>2. \A a, b \in Nat : a < b => <<a, b>> \in R
    BY DEF OpToRel
  <2> HIDE DEF R
  <2> QED BY <2>1, <2>2
<1>2. PICK R : IsWellFoundedOn(R, Nat) /\ \A a, b \in Nat : a < b => <<a, b>> \in R
  BY <1>1
<1>3. PICK x \in S : \A y \in S : ~ (<<y, x>> \in R)
  <2>1. IsWellFoundedOn(R, Nat) /\ S \subseteq Nat /\ S # {}
    BY <1>2
  <2> QED BY <2>1, WFMin, Zenon
<1>4. ASSUME NEW y \in S
      PROVE  x =< y
  <2>1. x \in Nat /\ y \in Nat
    OBVIOUS
  <2>2. ~ (y < x)
    BY <1>2, <1>3, <2>1, Zenon
  <2> QED BY <2>1, <2>2
<1> QED BY <1>4

\* The place of the last geofence with an id, which is the one that stays in mGfIdsMap.
LastOf(fences, id) ==
    CHOOSE i \in DOMAIN fences : /\ fences[i].id = id
                                 /\ \A j \in i + 1..Len(fences) : fences[j].id # id

LEMMA LastOfExists ==
  ASSUME NEW fences \in Seq(AddEntries), NEW id, \E i \in 1..Len(fences) : fences[i].id = id
  PROVE  /\ LastOf(fences, id) \in 1..Len(fences)
         /\ fences[LastOf(fences, id)].id = id
<1> DEFINE n == Len(fences)
           S == {k \in 0..n - 1 : fences[n - k].id = id}
<1>1. n \in Nat /\ DOMAIN fences = 1..n
  BY LenProperties
<1>2. PICK i \in 1..n : fences[i].id = id
  OBVIOUS
<1>3. n - i \in S
  <2>1. n - i \in 0..n - 1 /\ n - (n - i) = i
    BY <1>1, <1>2
  <2> QED BY <1>2, <2>1
<1>4. PICK x \in S : \A y \in S : x =< y
  <2>1. S \subseteq Nat
    BY <1>1
  <2>2. S # {}
    BY <1>3
  <2> HIDE DEF S
  <2> QED BY <2>1, <2>2, LeastExists
<1>5. x \in 0..n - 1 /\ n - x \in 1..n /\ fences[n - x].id = id
  BY <1>1, <1>4
<1>6. ASSUME NEW j \in n - x + 1..n, fences[j].id = id
      PROVE  FALSE
  <2>1. n - j \in 0..n - 1 /\ n - (n - j) = j /\ n - j < x
    BY <1>1, <1>5
  <2>2. n - j \in S
    BY <1>6, <2>1
  <2> HIDE DEF S
  <2>3. x =< n - j
    BY <1>4, <2>2
  <2> QED BY <1>1, <1>5, <2>1, <2>3
<1>7. \E k \in DOMAIN fences : /\ fences[k].id = id
                               /\ \A j \in k + 1..Len(fences) : fences[j].id # id
  <2>1. n - x \in DOMAIN fences
    BY <1>1, <1>5
  <2> QED BY <1>5, <1>6, <2>1
<1>8. /\ LastOf(fences, id) \in DOMAIN fences
      /\ fences[LastOf(fences, id)].id = id
  BY <1>7, Zenon DEF LastOf
<1> QED BY <1>1, <1>8

LEMMA FunctionIsSeq ==
  ASSUME NEW S, NEW n \in Nat, NEW f \in [1..n -> S]
  PROVE  f \in Seq(S) /\ Len(f) = n
  OBVIOUS

LEMMA FencesAreFinite ==
  ASSUME NEW S, S \subseteq Fences
  PROVE  IsFiniteSet(S) /\ Cardinality(S) \in Nat
<1>1. IsFiniteSet(Fences)
  BY GfBounds, FS_Interval DEF Fences
<1> QED BY <1>1, FS_Subset, FS_CardinalityType

LEMMA InsertedIsTyped ==
  ASSUME NEW S, NEW q \in Seq(S), NEW m \in S, NEW k \in 1..Len(q) + 1
  PROVE  /\ InsertAt(q, k, m) \in Seq(S)
         /\ Len(InsertAt(q, k, m)) = Len(q) + 1
         /\ \A i \in 1..Len(q) + 1 :
               InsertAt(q, k, m)[i] = IF i < k THEN q[i] ELSE IF i = k THEN m ELSE q[i - 1]
<1> DEFINE n == Len(q)
           a == SubSeq(q, 1, k - 1)
           b == SubSeq(q, k, n)
<1>1. n \in Nat /\ k \in Int /\ \A i \in 1..n : q[i] \in S
  BY LenProperties, ElementOfSeq
<1>2. a \in Seq(S) /\ Len(a) = k - 1 /\ \A i \in 1..k - 1 : a[i] = q[i]
  BY <1>1, SubSeqProperties
<1>3. b \in Seq(S) /\ Len(b) = n - k + 1 /\ \A i \in 1..n - k + 1 : b[i] = q[k + i - 1]
  BY <1>1, SubSeqProperties
<1> HIDE DEF n, a, b
<1>4. /\ a \o <<m>> \in Seq(S) /\ Len(a \o <<m>>) = k
      /\ \A i \in 1..k : (a \o <<m>>)[i] = IF i < k THEN q[i] ELSE m
  BY <1>1, <1>2
<1>5. /\ (a \o <<m>>) \o b \in Seq(S) /\ Len((a \o <<m>>) \o b) = n + 1
      /\ \A i \in 1..n + 1 :
            ((a \o <<m>>) \o b)[i] = IF i < k THEN q[i] ELSE IF i = k THEN m ELSE q[i - 1]
  <2> DEFINE c == a \o <<m>>
  <2>1. c \in Seq(S) /\ Len(c) = k /\ \A i \in 1..k : c[i] = IF i < k THEN q[i] ELSE m
    BY <1>4
  <2> HIDE DEF c
  <2>2. /\ c \o b \in Seq(S) /\ Len(c \o b) = Len(c) + Len(b)
        /\ \A i \in 1..Len(c) + Len(b) : (c \o b)[i] = IF i =< Len(c) THEN c[i] ELSE b[i - Len(c)]
    BY <1>3, <2>1, ConcatProperties
  <2>3. Len(c) + Len(b) = n + 1
    BY <1>1, <1>3, <2>1
  <2>4. ASSUME NEW i \in 1..n + 1
        PROVE  (c \o b)[i] = IF i < k THEN q[i] ELSE IF i = k THEN m ELSE q[i - 1]
    <3>1. CASE i =< k
      <4>1. (c \o b)[i] = c[i]
        BY <2>1, <2>2, <2>3, <3>1
      <4> QED BY <1>1, <2>1, <3>1, <4>1
    <3>2. CASE i > k
      <4>1. (c \o b)[i] = b[i - k]
        <5>1. i \in 1..Len(c) + Len(b) /\ ~ (i =< Len(c))
          BY <1>1, <2>1, <2>3, <3>2
        <5>2. (c \o b)[i] = IF i =< Len(c) THEN c[i] ELSE b[i - Len(c)]
          BY <2>2, <5>1
        <5>3. (c \o b)[i] = b[i - Len(c)]
          BY <5>1, <5>2, Zenon
        <5> QED BY <2>1, <5>3
      <4>2. i - k \in 1..n - k + 1 /\ k + (i - k) - 1 = i - 1
        BY <1>1, <3>2
      <4>3. b[i - k] = q[i - 1]
        BY <1>3, <4>2
      <4>4. ~ (i < k) /\ i # k
        BY <1>1, <3>2
      <4> QED BY <4>1, <4>3, <4>4, Zenon
    <3>3. i =< k \/ i > k
      BY <1>1
    <3> QED BY <3>1, <3>2, <3>3, Zenon
  <2> QED BY <2>2, <2>3, <2>4 DEF c
<1> QED BY <1>5 DEF InsertAt, a, b, n

LEMMA IdMapTyped ==
  ASSUME NEW f
  PROVE  f \in IdMaps <=> DOMAIN f \subseteq FenceIds /\ f \in [DOMAIN f -> Nat]
  BY DEF IdMaps

LEMMA NoMap == <<>> \in IdMaps /\ DOMAIN <<>> = {}
<1>1. DOMAIN <<>> = {} /\ <<>> \in [{} -> Nat]
  OBVIOUS
<1> QED BY <1>1 DEF IdMaps

\* The types of the requests that wait are those of the calls.
PendingOf(calls) == [i \in DOMAIN calls |-> calls[i].type]

LEMMA PendingAppends ==
  ASSUME NEW calls \in Seq(AddCalls \cup ChangeCalls), NEW c \in AddCalls \cup ChangeCalls
  PROVE  Append(PendingOf(calls), c.type) = PendingOf(Append(calls, c))
  BY DEF PendingOf

LEMMA PendingTails ==
  ASSUME NEW calls \in Seq(AddCalls \cup ChangeCalls), calls # <<>>
  PROVE  /\ PendingOf(calls) # <<>>
         /\ Head(PendingOf(calls)) = Head(calls).type
         /\ Tail(PendingOf(calls)) = PendingOf(Tail(calls))
  BY DEF PendingOf

-----------------------------------------------------------------------------
(* Types: the client *)

LEMMA DaemonStaysTyped == DaemonTyped /\ UNCHANGED gfDaemon => DaemonTyped'
<1> SUFFICES ASSUME DaemonTyped, UNCHANGED gfDaemon PROVE DaemonTyped'
  OBVIOUS
<1>1. UNCHANGED <<gfHandler, gfSessions, engineFences, gfCalls>>
  BY DEF gfDaemon
<1> QED BY <1>1 DEF DaemonTyped, MapIsBounded, CallsAreBounded

LEMMA HistoryStaysTyped == HistoryTyped /\ UNCHANGED <<gfProcess, gfHistory>> => HistoryTyped'
  BY DEF HistoryTyped, gfProcess, gfHistory

LEMMA ClientStaysTyped == ClientTyped /\ UNCHANGED <<gfClient, gfAborted>> => ClientTyped'
  BY DEF ClientTyped, gfClient, Known

LEMMA FencesAreIds == Fences \subseteq FenceIds /\ 0 \in FenceIds
  BY DEF FenceIds

LEMMA SimpleMsgs ==
  /\ UpdateGfCallbacks \in Seq(DaemonMsgs)
  /\ Len(UpdateGfCallbacks) = 1 /\ UpdateGfCallbacks[1].type = "UPDATE_CALLBACKS"
  /\ <<[type |-> "REGISTER"]>> \in Seq(DaemonMsgs)
  /\ <<>> \in Seq(DaemonMsgs)
<1>1. [type |-> "UPDATE_CALLBACKS"] \in DaemonMsgs /\ [type |-> "REGISTER"] \in DaemonMsgs
  BY DEF DaemonMsgs
<1> QED BY <1>1 DEF UpdateGfCallbacks

LEMMA Signals ==
  /\ [type |-> "REGISTER"] \in ClientMsgs
  /\ [type |-> "HAL_READY"] \in ClientMsgs
  /\ [type |-> "CAPABILITIES"] \in ClientMsgs
  BY DEF ClientMsgs

LEMMA AddMsgTyped ==
  ASSUME NEW n \in Nat, NEW fences \in [1..n -> Fences], NEW ids \in [1..n -> FenceIds],
         NEW map, \A i \in 1..n : map[fences[i]] \in GfOptions
  PROVE  /\ AddMsg(fences, ids, map) \in Seq(DaemonMsgs)
         /\ Len(AddMsg(fences, ids, map)) = 1
         /\ AddMsg(fences, ids, map)[1].type = "ADD"
<1> DEFINE entries == [i \in DOMAIN fences |-> [id |-> ids[i], of |-> fences[i],
                                                opt |-> map[fences[i]]]]
           m == [type |-> "ADD", fences |-> entries]
<1>1. DOMAIN fences = 1..n
  OBVIOUS
<1>2. \A i \in 1..n : [id |-> ids[i], of |-> fences[i], opt |-> map[fences[i]]] \in AddEntries
  BY DEF AddEntries
<1>3. entries \in [1..n -> AddEntries]
  BY <1>1, <1>2
<1>4. entries \in Seq(AddEntries)
  <2> HIDE DEF entries
  <2> QED BY <1>3, FunctionIsSeq
<1>5. m \in DaemonMsgs
  <2> HIDE DEF entries
  <2> QED BY <1>4 DEF DaemonMsgs
<1>6. AddMsg(fences, ids, map) = <<m>>
  BY DEF AddMsg
<1>7. m.type = "ADD"
  OBVIOUS
<1> HIDE DEF m, entries
<1> QED BY <1>5, <1>6, <1>7

LEMMA GfSendTyped ==
  ASSUME SocketsTyped, NEW msgs \in Seq(DaemonMsgs), GfSend(msgs)
  PROVE  gfToDaemon' \in Seq(DaemonMsgs)
<1>1. gfToDaemon \o msgs \in Seq(DaemonMsgs)
  BY ConcatProperties DEF SocketsTyped
<1> QED BY <1>1 DEF GfSend, SocketsTyped

LEMMA AddReqTyped ==
  ASSUME Typed, NEW n \in Fences, NEW opt \in GfOptions, AddGeofencesReq(n, opt)
  PROVE  Typed'
<1> DEFINE fences == [i \in 1..n |-> made + i]
           map == [g \in 1..made + n |-> opt]
           merged == Over(mGeofenceMap, [g \in Range(fences) |-> opt])
<1>1. n \in Nat /\ made \in Nat /\ made + n =< MaxGeofences /\ MaxGeofences \in Nat
  BY GfBounds DEF Typed, HistoryTyped, Fences, AddGeofencesReq
<1>2. fences \in [1..n -> Fences] /\ fences \in Seq(Fences)
  BY <1>1 DEF Fences
<1>3. Range(fences) \subseteq Fences
  BY <1>2 DEF Range
<1>4. \A i \in 1..n : map[fences[i]] = opt
  BY <1>1
<1>5. fences \in [1..n -> FenceIds]
  BY <1>2, FencesAreIds
<1>6. /\ AddMsg(fences, fences, map) \in Seq(DaemonMsgs)
      /\ \A s \in Seq(DaemonMsgs) : s \o AddMsg(fences, fences, map) \in Seq(DaemonMsgs)
  <2> HIDE DEF fences, map
  <2>1. AddMsg(fences, fences, map) \in Seq(DaemonMsgs)
    BY <1>1, <1>2, <1>4, <1>5, AddMsgTyped
  <2> QED BY <2>1, ConcatProperties
<1>7. gfToDaemon' \in Seq(DaemonMsgs)
  <2>1. CASE gfPending
    BY <2>1 DEF AddGeofencesReq, Typed, SocketsTyped
  <2>2. CASE ~gfPending
    <3> DEFINE msgs == IF ~gfRegistered THEN <<>>
                       ELSE (IF gfMask THEN <<>> ELSE UpdateGfCallbacks)
                            \o AddMsg(fences, fences, map)
    <3>1. GfSend(msgs)
      BY <2>2 DEF AddGeofencesReq
    <3> HIDE DEF fences, map
    <3>2. msgs \in Seq(DaemonMsgs)
      BY <1>6, SimpleMsgs
    <3> HIDE DEF msgs
    <3> QED BY <3>1, <3>2, GfSendTyped DEF Typed
  <2> QED BY <2>1, <2>2
<1>8. SocketsTyped'
  BY <1>7 DEF AddGeofencesReq, Typed, SocketsTyped
<1>9. mGeofenceMap' = merged
  BY DEF AddGeofencesReq
<1>10. ClientTyped'
  <2>1. merged \in [Known \cup Range(fences) -> GfOptions]
    <3> HIDE DEF fences
    <3> QED BY DEF Typed, ClientTyped, Known, Over
  <2>2. Known' = Known \cup Range(fences)
    BY <1>9, <2>1 DEF Known
  <2>3. Known' \subseteq Fences /\ mGeofenceMap' \in [Known' -> GfOptions]
    BY <1>3, <1>9, <2>1, <2>2 DEF Typed, ClientTyped
  <2>4. mLastAddedClientIds' \in Seq(Fences)
    BY <1>2 DEF AddGeofencesReq, Typed, ClientTyped
  <2>5. {gfRegistered', gfPending', gfMask', gfAborted'} \subseteq BOOLEAN
    BY DEF AddGeofencesReq, Typed, ClientTyped
  <2> QED BY <2>3, <2>4, <2>5 DEF ClientTyped
<1>11. HistoryTyped'
  <2>1. refused' \subseteq Fences /\ awaited' \subseteq Fences /\ unanswered' \subseteq Fences
    BY <1>3 DEF AddGeofencesReq, Typed, HistoryTyped
  <2> QED BY <1>1, <2>1 DEF AddGeofencesReq, Typed, HistoryTyped, gfProcess
<1>12. DaemonTyped'
  BY DaemonStaysTyped DEF AddGeofencesReq, Typed
<1> QED BY <1>8, <1>10, <1>11, <1>12 DEF Typed

LEMMA RequestTyped ==
  ASSUME Typed, NEW g \in Fences, NEW msg \in Changes, GfRequest(g, msg),
         \/ UNCHANGED mGeofenceMap
         \/ \E opt \in GfOptions : mGeofenceMap' = [mGeofenceMap EXCEPT ![g] = opt]
  PROVE  Typed'
<1>1. gfToDaemon' \in Seq(DaemonMsgs)
  <2>1. <<msg>> \in Seq(DaemonMsgs) /\ GfSend(<<msg>>)
    BY DEF DaemonMsgs, GfRequest
  <2> QED BY <2>1, GfSendTyped DEF Typed
<1>2. SocketsTyped'
  BY <1>1 DEF GfRequest, Typed, SocketsTyped
<1>3. Known' = Known /\ mGeofenceMap' \in [Known -> GfOptions]
  BY DEF Typed, ClientTyped, Known
<1>4. ClientTyped'
  BY <1>3 DEF GfRequest, Typed, ClientTyped
<1>5. HistoryTyped'
  <2>1. awaited' \subseteq Fences /\ troubles' \subseteq {"overlap", "failure", "restart", "dropped"}
    BY DEF GfRequest, Typed, HistoryTyped
  <2> QED BY <2>1 DEF GfRequest, Typed, HistoryTyped, gfProcess
<1>6. DaemonTyped'
  BY DaemonStaysTyped DEF GfRequest, Typed
<1> QED BY <1>2, <1>4, <1>5, <1>6 DEF Typed

LEMMA CallTyped == Typed /\ GfCall => Typed'
<1> SUFFICES ASSUME Typed, GfCall PROVE Typed'
  OBVIOUS
<1>1. ASSUME NEW n \in Fences, NEW opt \in GfOptions, AddGeofencesReq(n, opt)
      PROVE  Typed'
  BY <1>1, AddReqTyped
<1>2. ASSUME NEW g \in Fences, RemoveGeofencesReq(g)
      PROVE  Typed'
  <2>1. [type |-> "REMOVE", id |-> g] \in Changes
    BY DEF Changes
  <2> QED BY <1>2, <2>1, RequestTyped DEF RemoveGeofencesReq
<1>3. ASSUME NEW g \in Fences, NEW opt \in GfOptions, ModifyGeofencesReq(g, opt)
      PROVE  Typed'
  <2>1. [type |-> "MODIFY", id |-> g, opt |-> opt] \in Changes
    BY DEF Changes
  <2> QED BY <1>3, <2>1, RequestTyped DEF ModifyGeofencesReq
<1>4. ASSUME NEW g \in Fences, PauseGeofencesReq(g)
      PROVE  Typed'
  <2>1. [type |-> "PAUSE", id |-> g] \in Changes
    BY DEF Changes
  <2> QED BY <1>4, <2>1, RequestTyped DEF PauseGeofencesReq
<1> QED BY <1>1, <1>2, <1>3, <1>4 DEF GfCall

LEMMA TakenTyped ==
  ASSUME SocketsTyped, NEW type, GfTake(type)
  PROVE  /\ gfInbox # <<>> /\ Tail(gfInbox) \in Seq(ClientMsgs)
         /\ Len(gfInbox) \in Nat \ {0} /\ Len(Tail(gfInbox)) = Len(gfInbox) - 1
         /\ \A i \in 1..Len(Tail(gfInbox)) : Tail(gfInbox)[i] = gfInbox[i + 1]
         /\ Head(gfInbox) \in ClientMsgs /\ Head(gfInbox).type = type
         /\ Head(gfInbox) = gfInbox[1]
<1>1. gfInbox \in Seq(ClientMsgs) /\ gfInbox # <<>>
  BY DEF SocketsTyped, GfTake
<1>2. /\ Tail(gfInbox) \in Seq(ClientMsgs)
      /\ Len(Tail(gfInbox)) = Len(gfInbox) - 1
      /\ \A i \in 1..Len(Tail(gfInbox)) : Tail(gfInbox)[i] = gfInbox[i + 1]
      /\ Head(gfInbox) \in ClientMsgs
  BY <1>1, HeadTailProperties
<1> QED BY <1>1, <1>2, EmptySeq DEF GfTake

LEMMA ResponsesTyped ==
  ASSUME NEW m \in ClientMsgs
  PROVE  /\ m.type = "RESPONSE" => m.to \in GfTypes /\ m.resp \in Seq(Results)
         /\ m.type = "BREACH" => m.id \in FenceIds
  BY DEF ClientMsgs

LEMMA RegisterReqTyped == Typed /\ GfRegisterReq => Typed'
<1> SUFFICES ASSUME Typed, GfRegisterReq PROVE Typed'
  OBVIOUS
<1>1. gfInbox' \in Seq(ClientMsgs)
  BY TakenTyped DEF GfRegisterReq, Typed
<1>2. gfToDaemon' \in Seq(DaemonMsgs)
  <2>1. GfSend(<<[type |-> "REGISTER"]>>)
    BY DEF GfRegisterReq
  <2> QED BY <2>1, SimpleMsgs, GfSendTyped DEF Typed
<1>3. ClientTyped' /\ DaemonTyped' /\ HistoryTyped'
  BY ClientStaysTyped, DaemonStaysTyped, HistoryStaysTyped DEF GfRegisterReq, Typed
<1> QED BY <1>1, <1>2, <1>3 DEF Typed, SocketsTyped

LEMMA HalReadyTyped == Typed /\ GfHalReady => Typed'
<1> SUFFICES ASSUME Typed, GfHalReady PROVE Typed'
  OBVIOUS
<1>1. gfInbox' \in Seq(ClientMsgs)
  <2>1. PICK k \in 1..Len(gfInbox) :
             gfInbox' = InsertAt(Tail(gfInbox), k, [type |-> "REGISTER"])
    BY DEF GfHalReady
  <2>2. GfTake("HAL_READY")
    BY DEF GfHalReady
  <2>3. Tail(gfInbox) \in Seq(ClientMsgs) /\ k \in 1..Len(Tail(gfInbox)) + 1
    BY <2>2, TakenTyped DEF Typed
  <2> QED BY <2>1, <2>3, Signals, InsertedIsTyped
<1>2. ClientTyped'
  BY DEF GfHalReady, Typed, ClientTyped, Known
<1>3. DaemonTyped'
  BY DaemonStaysTyped DEF GfHalReady, Typed
<1>4. HistoryTyped'
  BY DEF GfHalReady, Typed, HistoryTyped, gfProcess
<1> QED BY <1>1, <1>2, <1>3, <1>4 DEF GfHalReady, Typed, SocketsTyped

LEMMA CapabilitiesTyped == Typed /\ GfCapabilities => Typed'
<1> SUFFICES ASSUME Typed, GfCapabilities PROVE Typed'
  OBVIOUS
<1> DEFINE subscribe == IF gfMask THEN UpdateGfCallbacks ELSE <<>>
<1>1. GfTake("CAPABILITIES") /\ gfInbox' = Tail(gfInbox)
  BY DEF GfCapabilities
<1>2. gfInbox' \in Seq(ClientMsgs)
  BY <1>1, TakenTyped DEF Typed
<1>3. subscribe \in Seq(DaemonMsgs)
  BY SimpleMsgs
<1>4. /\ gfToDaemon' \in Seq(DaemonMsgs)
      /\ troubles' \subseteq {"overlap", "failure", "restart", "dropped"}
      /\ awaited' \subseteq Fences
  <2> HIDE DEF subscribe
  <2>1. CASE gfRegistered \/ Known = {}
    <3>1. GfSend(subscribe) /\ UNCHANGED <<awaited, troubles>>
      BY <2>1 DEF GfCapabilities, subscribe
    <3> QED BY <1>3, <3>1, GfSendTyped DEF Typed, HistoryTyped
  <2>2. CASE ~(gfRegistered \/ Known = {})
    <3>1. PICK fences \in SetToSeqs(Known), ids \in LastAdded(Cardinality(Known)) :
             /\ GfSend(subscribe \o AddMsg(fences, ids, mGeofenceMap))
             /\ troubles' = IF mLastAddedClientIds = fences THEN troubles
                            ELSE troubles \cup {"restart"}
      BY <2>2 DEF GfCapabilities, subscribe
    <3>2. Cardinality(Known) \in Nat
      BY FencesAreFinite DEF Typed, ClientTyped
    <3>3. fences \in [1..Cardinality(Known) -> Known]
      BY DEF SetToSeqs
    <3>4. ids \in [1..Cardinality(Known) -> FenceIds]
      BY DEF LastAdded
    <3>5. /\ fences \in [1..Cardinality(Known) -> Fences]
          /\ \A i \in 1..Cardinality(Known) : mGeofenceMap[fences[i]] \in GfOptions
      BY <3>3 DEF Typed, ClientTyped
    <3>6. AddMsg(fences, ids, mGeofenceMap) \in Seq(DaemonMsgs)
      BY <3>2, <3>4, <3>5, AddMsgTyped
    <3>7. gfToDaemon' \in Seq(DaemonMsgs)
      BY <1>3, <3>1, <3>6, ConcatProperties, GfSendTyped DEF Typed
    <3>8. awaited' = Known
      BY <2>2 DEF GfCapabilities
    <3> QED BY <3>1, <3>7, <3>8 DEF Typed, HistoryTyped, ClientTyped
  <2> QED BY <2>1, <2>2
<1>5. ClientTyped'
  BY DEF GfCapabilities, Typed, ClientTyped, Known
<1>6. HistoryTyped'
  BY <1>4 DEF GfCapabilities, Typed, HistoryTyped, gfProcess
<1>7. DaemonTyped'
  BY DaemonStaysTyped DEF GfCapabilities, Typed
<1> QED BY <1>2, <1>4, <1>5, <1>6, <1>7 DEF Typed, SocketsTyped

LEMMA ResponseTyped == Typed /\ GfResponse => Typed'
<1> SUFFICES ASSUME Typed, GfResponse PROVE Typed'
  OBVIOUS
<1> DEFINE m == Head(gfInbox)
           gone == {r.id : r \in {x \in Range(m.resp) : m.to = "REMOVE" \/ ~x.ok}}
           ids == {r.id : r \in Range(m.resp)}
<1>1. GfTake("RESPONSE") /\ gfInbox' = Tail(gfInbox)
  BY DEF GfResponse
<1>2. gfInbox' \in Seq(ClientMsgs)
  BY <1>1, TakenTyped DEF Typed
<1>3. /\ \/ UNCHANGED <<mGeofenceMap, gfPending, awaited, gfAborted>>
         \/ gfAborted' = TRUE /\ UNCHANGED <<mGeofenceMap, gfPending, awaited>>
         \/ /\ mGeofenceMap' = Restrict(mGeofenceMap, Known \ gone)
            /\ gfPending' = FALSE /\ awaited' = awaited \ ids
            /\ UNCHANGED gfAborted
      /\ gfMask' = (gfMask /\ Known # {})
      /\ unanswered' \in {unanswered, unanswered \ ids}
      /\ UNCHANGED <<gfRegistered, mLastAddedClientIds, gfToDaemon, gfProcess, gfDaemon, made,
                     requested, refused, troubles>>
  BY DEF GfResponse
<1> HIDE DEF gone, ids
<1>4. Known' \subseteq Fences /\ mGeofenceMap' \in [Known' -> GfOptions]
  <2>1. mGeofenceMap' = mGeofenceMap \/ mGeofenceMap' = Restrict(mGeofenceMap, Known \ gone)
    BY <1>3
  <2>2. /\ DOMAIN Restrict(mGeofenceMap, Known \ gone) = Known \ gone
        /\ Restrict(mGeofenceMap, Known \ gone) \in [Known \ gone -> GfOptions]
    BY DEF Restrict, Typed, ClientTyped
  <2> QED BY <2>1, <2>2 DEF Typed, ClientTyped, Known
<1>5. gfAborted' \in BOOLEAN /\ gfPending' \in BOOLEAN /\ gfMask' \in BOOLEAN
  BY <1>3 DEF Typed, ClientTyped
<1>6. ClientTyped'
  BY <1>3, <1>4, <1>5 DEF Typed, ClientTyped
<1>7. HistoryTyped'
  <2>1. awaited' \subseteq Fences /\ unanswered' \subseteq Fences
    BY <1>3 DEF Typed, HistoryTyped
  <2> QED BY <1>3, <2>1 DEF Typed, HistoryTyped, gfProcess
<1>8. DaemonTyped'
  BY <1>3, DaemonStaysTyped DEF Typed
<1> QED BY <1>2, <1>3, <1>6, <1>7, <1>8 DEF Typed, SocketsTyped

LEMMA BreachTyped == Typed /\ GfBreach => Typed'
<1> SUFFICES ASSUME Typed, GfBreach PROVE Typed'
  OBVIOUS
<1>1. gfInbox' \in Seq(ClientMsgs)
  BY TakenTyped DEF GfBreach, Typed
<1>2. gfAborted' \in BOOLEAN
  BY DEF GfBreach
<1>3. ClientTyped'
  BY <1>2 DEF GfBreach, gfClient, Typed, ClientTyped, Known
<1>4. DaemonTyped' /\ HistoryTyped'
  BY DaemonStaysTyped, HistoryStaysTyped DEF GfBreach, Typed
<1> QED BY <1>1, <1>3, <1>4 DEF GfBreach, Typed, SocketsTyped

LEMMA TaskTyped == Typed /\ GfTask => Typed'
  BY RegisterReqTyped, HalReadyTyped, CapabilitiesTyped, ResponseTyped, BreachTyped DEF GfTask

-----------------------------------------------------------------------------
(* Types: the daemon *)

LEMMA TakenByDaemon ==
  ASSUME Typed, NEW type, GfTakes(type)
  PROVE  /\ gfToDaemon' \in Seq(DaemonMsgs)
         /\ gfToDaemon # <<>> /\ gfToDaemon' = Tail(gfToDaemon)
         /\ Len(gfToDaemon) \in Nat \ {0} /\ Len(gfToDaemon') = Len(gfToDaemon) - 1
         /\ \A i \in 1..Len(gfToDaemon') : gfToDaemon'[i] = gfToDaemon[i + 1]
         /\ Head(gfToDaemon) \in DaemonMsgs /\ Head(gfToDaemon).type = type
         /\ Head(gfToDaemon) = gfToDaemon[1]
         /\ ClientTyped'
<1>1. gfToDaemon \in Seq(DaemonMsgs) /\ gfToDaemon # <<>>
  BY DEF Typed, SocketsTyped, GfTakes
<1>2. /\ Tail(gfToDaemon) \in Seq(DaemonMsgs)
      /\ Len(Tail(gfToDaemon)) = Len(gfToDaemon) - 1
      /\ \A i \in 1..Len(Tail(gfToDaemon)) : Tail(gfToDaemon)[i] = gfToDaemon[i + 1]
      /\ Head(gfToDaemon) \in DaemonMsgs
  BY <1>1, HeadTailProperties
<1>3. ClientTyped'
  BY ClientStaysTyped DEF GfTakes, Typed
<1> QED BY <1>1, <1>2, <1>3, EmptySeq DEF GfTakes

LEMMA ReceivedTyped ==
  ASSUME Typed, NEW type, GfReceive(type)
  PROVE  /\ gfToDaemon' \in Seq(DaemonMsgs)
         /\ gfToDaemon # <<>> /\ gfToDaemon' = Tail(gfToDaemon)
         /\ Len(gfToDaemon) \in Nat \ {0} /\ Len(gfToDaemon') = Len(gfToDaemon) - 1
         /\ \A i \in 1..Len(gfToDaemon') : gfToDaemon'[i] = gfToDaemon[i + 1]
         /\ Head(gfToDaemon) \in DaemonMsgs /\ Head(gfToDaemon).type = type
         /\ Head(gfToDaemon) = gfToDaemon[1]
         /\ ClientTyped' /\ HistoryTyped'
<1>1. GfTakes(type) /\ UNCHANGED troubles
  BY DEF GfReceive
<1>2. HistoryTyped'
  BY <1>1, HistoryStaysTyped DEF GfTakes, gfHistory, Typed
<1> QED BY <1>1, <1>2, TakenByDaemon

LEMMA RequestsTyped ==
  ASSUME NEW m \in DaemonMsgs
  PROVE  /\ m.type = "ADD" => m.fences \in Seq(AddEntries)
         /\ m.type \in {"REMOVE", "MODIFY", "PAUSE"} => m.id \in Fences
         /\ m.type = "MODIFY" => m.opt \in GfOptions
         /\ m.type \in GfTypes \cup {"REGISTER", "UPDATE_CALLBACKS"}
  BY DEF DaemonMsgs, Changes, GfTypes

LEMMA AppendTyped ==
  ASSUME SocketsTyped, NEW m \in ClientMsgs
  PROVE  /\ Append(gfInbox, m) \in Seq(ClientMsgs)
         /\ Len(Append(gfInbox, m)) = Len(gfInbox) + 1 /\ Len(gfInbox) \in Nat
         /\ \A i \in 1..Len(gfInbox) : Append(gfInbox, m)[i] = gfInbox[i]
         /\ Append(gfInbox, m)[Len(gfInbox) + 1] = m
  BY AppendProperties, LenProperties DEF SocketsTyped

LEMMA DroppedTyped == Typed /\ GfDropped => Typed'
<1> SUFFICES ASSUME Typed, GfDropped PROVE Typed'
  OBVIOUS
<1>1. PICK type : GfReceive(type)
  BY DEF GfDropped
<1>2. DaemonTyped'
  BY DaemonStaysTyped DEF GfDropped, Typed
<1> QED BY <1>1, <1>2, ReceivedTyped DEF GfDropped, Typed, SocketsTyped

LEMMA NewClientTyped == Typed /\ GfNewClient => Typed'
<1> SUFFICES ASSUME Typed, GfNewClient PROVE Typed'
  OBVIOUS
<1>1. GfReceive("REGISTER") /\ gfHandler' = [gfHandler EXCEPT !.registered = TRUE]
      /\ UNCHANGED <<gfSessions, engineFences, gfCalls>>
  BY DEF GfNewClient
<1>2. gfHandler' \in Handlers /\ gfHandler'.mGfIdsMap = gfHandler.mGfIdsMap
      /\ gfHandler'.mGfPendingMessages = gfHandler.mGfPendingMessages
  BY <1>1 DEF Typed, DaemonTyped, Handlers
<1>3. DaemonTyped'
  BY <1>1, <1>2 DEF Typed, DaemonTyped, MapIsBounded, CallsAreBounded
<1>4. gfInbox' \in Seq(ClientMsgs)
  BY Signals, AppendTyped DEF GfNewClient, Typed, SocketsTyped
<1> QED BY <1>1, <1>3, <1>4, ReceivedTyped DEF Typed, SocketsTyped

LEMMA SubscriptionTyped == Typed /\ GfUpdateSubscription => Typed'
<1> SUFFICES ASSUME Typed, GfUpdateSubscription PROVE Typed'
  OBVIOUS
<1>1. GfReceive("UPDATE_CALLBACKS") /\ gfHandler' = [gfHandler EXCEPT !.subscribed = TRUE]
      /\ UNCHANGED <<gfInbox, gfSessions, engineFences, gfCalls>>
  BY DEF GfUpdateSubscription
<1>2. gfHandler' \in Handlers /\ gfHandler'.mGfIdsMap = gfHandler.mGfIdsMap
      /\ gfHandler'.mGfPendingMessages = gfHandler.mGfPendingMessages
  BY <1>1 DEF Typed, DaemonTyped, Handlers
<1>3. DaemonTyped'
  BY <1>1, <1>2 DEF Typed, DaemonTyped, MapIsBounded, CallsAreBounded
<1> QED BY <1>1, <1>3, ReceivedTyped DEF Typed, SocketsTyped

LEMMA CallAppendTyped ==
  ASSUME DaemonTyped, NEW c \in AddCalls \cup ChangeCalls
  PROVE  /\ Append(gfCalls, c) \in Seq(AddCalls \cup ChangeCalls)
         /\ Len(gfCalls) \in Nat /\ Len(Append(gfCalls, c)) = Len(gfCalls) + 1
         /\ \A i \in 1..Len(gfCalls) : Append(gfCalls, c)[i] = gfCalls[i]
         /\ Append(gfCalls, c)[Len(gfCalls) + 1] = c
         /\ PendingOf(Append(gfCalls, c)) = Append(gfHandler.mGfPendingMessages, c.type)
<1>1. gfCalls \in Seq(AddCalls \cup ChangeCalls)
  BY DEF DaemonTyped
<1>2. gfHandler.mGfPendingMessages = PendingOf(gfCalls)
  BY DEF DaemonTyped, PendingOf
<1> QED BY <1>1, <1>2, PendingAppends, AppendProperties, LenProperties

LEMMA AddGeofencesTyped == Typed /\ addGeofences => Typed'
<1> SUFFICES ASSUME Typed, addGeofences PROVE Typed'
  OBVIOUS
<1> DEFINE fences == Head(gfToDaemon).fences
           ids == {f.id : f \in Range(fences)}
           new == [id \in ids |-> gfSessions + LastOf(fences, id)]
           map == Over(new, gfHandler.mGfIdsMap)
           c == [type |-> "ADD", session |-> gfSessions + 1, fences |-> fences]
<1>1. GfReceive("ADD") /\ UNCHANGED <<gfInbox, engineFences>>
  BY DEF addGeofences
<1>2. fences \in Seq(AddEntries) /\ Len(fences) \in Nat /\ gfSessions \in Nat
  BY <1>1, ReceivedTyped, RequestsTyped, LenProperties DEF Typed, DaemonTyped
<1>3. /\ gfHandler' = [gfHandler EXCEPT !.mGfIdsMap = map,
                                        !.mGfPendingMessages = Append(@, "ADD")]
      /\ gfSessions' = gfSessions + Len(fences)
      /\ gfCalls' = Append(gfCalls, c)
  BY DEF addGeofences, LastOf
<1> HIDE DEF fences
<1>4. ids \subseteq FenceIds /\ \A id \in ids : \E i \in 1..Len(fences) : fences[i].id = id
  <2>1. DOMAIN fences = 1..Len(fences)
    BY <1>2, LenProperties
  <2>2. \A i \in 1..Len(fences) : fences[i] \in AddEntries
    BY <1>2, ElementOfSeq
  <2> QED BY <2>1, <2>2 DEF Range, AddEntries
<1>5. \A id \in ids : LastOf(fences, id) \in 1..Len(fences)
  <2> HIDE DEF ids
  <2> QED BY <1>2, <1>4, LastOfExists
<1> HIDE DEF ids
<1>6. /\ DOMAIN map = ids \cup DOMAIN gfHandler.mGfIdsMap
      /\ \A id \in DOMAIN map :
            map[id] = IF id \in ids THEN gfSessions + LastOf(fences, id)
                      ELSE gfHandler.mGfIdsMap[id]
  BY DEF Over
<1> HIDE DEF map
<1>7. gfHandler.mGfIdsMap \in IdMaps
  BY DEF Typed, DaemonTyped, Handlers
<1>8. \A id \in DOMAIN map : map[id] \in Nat /\ map[id] =< gfSessions + Len(fences)
  <2> TAKE id \in DOMAIN map
  <2>1. CASE id \in ids
    <3>1. map[id] = gfSessions + LastOf(fences, id) /\ LastOf(fences, id) \in 1..Len(fences)
      BY <1>5, <1>6, <2>1
    <3> QED BY <1>2, <3>1
  <2>2. CASE id \notin ids
    <3>1. map[id] = gfHandler.mGfIdsMap[id] /\ id \in DOMAIN gfHandler.mGfIdsMap
      BY <1>6, <2>2
    <3>2. gfHandler.mGfIdsMap[id] \in Nat /\ gfHandler.mGfIdsMap[id] =< gfSessions
      BY <1>7, <3>1, IdMapTyped DEF Typed, DaemonTyped, MapIsBounded
    <3> QED BY <1>2, <3>1, <3>2
  <2> QED BY <2>1, <2>2
<1>9. map \in IdMaps
  <2>1. DOMAIN map \subseteq FenceIds
    BY <1>4, <1>6, <1>7, IdMapTyped
  <2>2. map = [id \in DOMAIN map |-> map[id]]
    BY DEF map, Over
  <2>3. map \in [DOMAIN map -> Nat]
    BY <1>8, <2>2
  <2> QED BY <2>1, <2>3, IdMapTyped
<1>10. c \in AddCalls \cup ChangeCalls
  BY <1>2 DEF AddCalls
<1>11. c.type = "ADD" /\ c.session = gfSessions + 1 /\ c.fences = fences
  OBVIOUS
<1> HIDE DEF c
<1>12. gfHandler' \in Handlers /\ gfHandler'.mGfIdsMap = map
       /\ gfHandler'.mGfPendingMessages = Append(gfHandler.mGfPendingMessages, "ADD")
  <2>1. Append(gfHandler.mGfPendingMessages, "ADD") \in Seq(GfTypes)
    BY DEF Typed, DaemonTyped, Handlers, GfTypes
  <2> QED BY <1>3, <1>9, <2>1 DEF Typed, DaemonTyped, Handlers
<1>13. MapIsBounded'
  BY <1>3, <1>8, <1>12 DEF MapIsBounded
<1>14. /\ gfCalls' \in Seq(AddCalls \cup ChangeCalls)
       /\ gfHandler'.mGfPendingMessages = [i \in DOMAIN gfCalls' |-> gfCalls'[i].type]
  <2>1. DaemonTyped
    BY DEF Typed
  <2>2. /\ gfCalls' \in Seq(AddCalls \cup ChangeCalls)
        /\ PendingOf(gfCalls') = Append(gfHandler.mGfPendingMessages, "ADD")
    BY <1>3, <1>10, <1>11, <2>1, CallAppendTyped
  <2> QED BY <1>12, <2>2 DEF PendingOf
<1>15. CallsAreBounded'
  <2> SUFFICES ASSUME NEW i \in 1..Len(gfCalls'), gfCalls'[i].type = "ADD"
               PROVE  gfCalls'[i].session + Len(gfCalls'[i].fences) =< gfSessions' + 1
    BY DEF CallsAreBounded
  <2>1. CASE i = Len(gfCalls) + 1
    <3>1. gfCalls'[i] = c
      BY <1>3, <1>10, <2>1, CallAppendTyped DEF Typed
    <3> QED BY <1>2, <1>3, <1>11, <3>1
  <2>2. CASE i # Len(gfCalls) + 1
    <3>1. i \in 1..Len(gfCalls) /\ gfCalls'[i] = gfCalls[i]
      BY <1>3, <1>10, <2>2, CallAppendTyped DEF Typed
    <3>2. gfCalls[i] \in AddCalls
      <4>1. gfCalls[i] \in AddCalls \cup ChangeCalls
        BY <3>1, ElementOfSeq DEF Typed, DaemonTyped
      <4> QED BY <3>1, <4>1 DEF ChangeCalls
    <3>3. gfCalls[i].session \in Nat /\ gfCalls[i].fences \in Seq(AddEntries)
      BY <3>2 DEF AddCalls
    <3>4. gfCalls[i].session + Len(gfCalls[i].fences) =< gfSessions + 1
      BY <3>1 DEF Typed, DaemonTyped, CallsAreBounded
    <3> QED BY <1>2, <1>3, <3>1, <3>3, <3>4, LenProperties
  <2> QED BY <2>1, <2>2
<1>16. DOMAIN engineFences' \subseteq 1..gfSessions'
       /\ engineFences' \in [DOMAIN engineFences' -> [of : Fences, opt : GfOptions]]
  <2>1. DOMAIN engineFences \subseteq 1..gfSessions
        /\ engineFences \in [DOMAIN engineFences -> [of : Fences, opt : GfOptions]]
    BY DEF Typed, DaemonTyped
  <2>2. 1..gfSessions \subseteq 1..gfSessions'
    BY <1>2, <1>3
  <2> QED BY <1>1, <2>1, <2>2
<1>17. DaemonTyped'
  <2>1. gfSessions' \in Nat
    BY <1>2, <1>3
  <2> QED BY <1>12, <1>13, <1>14, <1>15, <1>16, <2>1 DEF DaemonTyped
<1>18. ClientTyped' /\ HistoryTyped' /\ SocketsTyped'
  BY <1>1, ReceivedTyped DEF Typed, SocketsTyped
<1> QED BY <1>17, <1>18 DEF Typed

LEMMA SessionRequestTyped ==
  ASSUME Typed, NEW type \in GfTypes \ {"ADD"}, gfSessionRequest(type)
  PROVE  Typed'
<1> DEFINE m == Head(gfToDaemon)
           map == Over(gfHandler.mGfIdsMap, [id \in {m.id} |-> 0])
           c == IF type = "MODIFY" THEN [type |-> type, session |-> map[m.id], opt |-> m.opt]
                ELSE [type |-> type, session |-> map[m.id]]
<1>1. GfReceive(type) /\ UNCHANGED <<gfInbox, gfSessions, engineFences>>
  BY DEF gfSessionRequest
<1>2. /\ gfHandler' = [gfHandler EXCEPT !.mGfIdsMap = map,
                                        !.mGfPendingMessages = Append(@, type)]
      /\ gfCalls' = Append(gfCalls, c)
  BY DEF gfSessionRequest
<1>3. m.id \in Fences /\ (type = "MODIFY" => m.opt \in GfOptions)
  BY <1>1, ReceivedTyped, RequestsTyped DEF GfTypes
<1>4. type \in {"REMOVE", "MODIFY", "PAUSE"}
  BY DEF GfTypes
<1> HIDE DEF m
<1>5. /\ DOMAIN map = DOMAIN gfHandler.mGfIdsMap \cup {m.id}
      /\ \A id \in DOMAIN map :
            map[id] = IF id \in DOMAIN gfHandler.mGfIdsMap THEN gfHandler.mGfIdsMap[id] ELSE 0
      /\ map = [id \in DOMAIN map |-> map[id]]
  BY DEF Over
<1> HIDE DEF map
<1>6. gfHandler.mGfIdsMap \in IdMaps /\ gfSessions \in Nat
  BY DEF Typed, DaemonTyped, Handlers
<1>7. \A id \in DOMAIN map : map[id] \in Nat /\ map[id] =< gfSessions
  <2> TAKE id \in DOMAIN map
  <2>1. CASE id \in DOMAIN gfHandler.mGfIdsMap
    <3>1. map[id] = gfHandler.mGfIdsMap[id]
      BY <1>5, <2>1
    <3> QED BY <1>6, <2>1, <3>1, IdMapTyped DEF Typed, DaemonTyped, MapIsBounded
  <2>2. CASE id \notin DOMAIN gfHandler.mGfIdsMap
    <3>1. map[id] = 0
      BY <1>5, <2>2
    <3> QED BY <1>6, <3>1
  <2> QED BY <2>1, <2>2
<1>8. map \in IdMaps
  <2>1. DOMAIN map \subseteq FenceIds
    <3>1. DOMAIN gfHandler.mGfIdsMap \subseteq FenceIds
      BY <1>6, IdMapTyped
    <3> QED BY <1>3, <1>5, <3>1, FencesAreIds
  <2>2. map \in [DOMAIN map -> Nat]
    BY <1>5, <1>7
  <2> QED BY <2>1, <2>2, IdMapTyped
<1>9. map[m.id] \in Nat
  BY <1>5, <1>7
<1>10. c \in ChangeCalls /\ c.type = type
  BY <1>3, <1>4, <1>9 DEF ChangeCalls
<1> HIDE DEF c
<1>11. gfHandler' \in Handlers /\ gfHandler'.mGfIdsMap = map
       /\ gfHandler'.mGfPendingMessages = Append(gfHandler.mGfPendingMessages, type)
  <2>1. Append(gfHandler.mGfPendingMessages, type) \in Seq(GfTypes)
    BY DEF Typed, DaemonTyped, Handlers
  <2> QED BY <1>2, <1>8, <2>1 DEF Typed, DaemonTyped, Handlers
<1>12. MapIsBounded'
  BY <1>1, <1>7, <1>11 DEF MapIsBounded
<1>13. /\ gfCalls' \in Seq(AddCalls \cup ChangeCalls)
       /\ gfHandler'.mGfPendingMessages = [i \in DOMAIN gfCalls' |-> gfCalls'[i].type]
  <2>1. DaemonTyped
    BY DEF Typed
  <2>2. /\ gfCalls' \in Seq(AddCalls \cup ChangeCalls)
        /\ PendingOf(gfCalls') = Append(gfHandler.mGfPendingMessages, type)
    BY <1>2, <1>10, <2>1, CallAppendTyped
  <2> QED BY <1>11, <2>2 DEF PendingOf
<1>14. CallsAreBounded'
  <2> SUFFICES ASSUME NEW i \in 1..Len(gfCalls'), gfCalls'[i].type = "ADD"
               PROVE  gfCalls'[i].session + Len(gfCalls'[i].fences) =< gfSessions' + 1
    BY DEF CallsAreBounded
  <2>1. i # Len(gfCalls) + 1
    <3>1. gfCalls'[Len(gfCalls) + 1] = c /\ c.type # "ADD"
      BY <1>2, <1>10, CallAppendTyped DEF Typed
    <3> QED BY <3>1
  <2>2. i \in 1..Len(gfCalls) /\ gfCalls'[i] = gfCalls[i]
    BY <1>2, <1>10, <2>1, CallAppendTyped DEF Typed
  <2> QED BY <1>1, <2>2 DEF Typed, DaemonTyped, CallsAreBounded
<1>15. DaemonTyped'
  BY <1>1, <1>11, <1>12, <1>13, <1>14 DEF Typed, DaemonTyped
<1>16. ClientTyped' /\ HistoryTyped' /\ SocketsTyped'
  BY <1>1, ReceivedTyped DEF Typed, SocketsTyped
<1> QED BY <1>15, <1>16 DEF Typed

LEMMA ListenerReadyTyped == Typed /\ GfListenerReady => Typed'
<1> SUFFICES ASSUME Typed, GfListenerReady PROVE Typed'
  OBVIOUS
<1>1. SocketsTyped'
  BY Signals, AppendTyped DEF GfListenerReady, Typed, SocketsTyped
<1>2. ClientTyped' /\ DaemonTyped'
  BY ClientStaysTyped, DaemonStaysTyped DEF GfListenerReady, Typed
<1>3. HistoryTyped'
  BY DEF GfListenerReady, Typed, HistoryTyped, gfHistory
<1> QED BY <1>1, <1>2, <1>3 DEF Typed

LEMMA GivenUpTyped == Typed /\ GfGivenUp => Typed'
<1> SUFFICES ASSUME Typed, GfGivenUp PROVE Typed'
  OBVIOUS
<1>1. PICK type : GfTakes(type)
  BY DEF GfGivenUp
<1>2. DaemonTyped'
  BY DaemonStaysTyped DEF GfGivenUp, Typed
<1>3. HistoryTyped'
  BY <1>1 DEF GfGivenUp, GfTakes, gfProcess, Typed, HistoryTyped
<1> QED BY <1>1, <1>2, <1>3, TakenByDaemon DEF GfGivenUp, Typed, SocketsTyped

LEMMA ServiceTyped == Typed /\ GfService => Typed'
  BY DroppedTyped, GivenUpTyped, NewClientTyped, SubscriptionTyped, AddGeofencesTyped, SessionRequestTyped,
     ListenerReadyTyped DEF GfService

-----------------------------------------------------------------------------
(* Types: LocationAPI, crashes *)

LEMMA ClientIdTyped ==
  ASSUME DaemonTyped, NEW s
  PROVE  getClientId(s) \subseteq FenceIds /\ getClientId(s) # {}
<1>1. DOMAIN gfHandler.mGfIdsMap \subseteq FenceIds
  BY IdMapTyped DEF DaemonTyped, Handlers
<1> QED BY <1>1, FencesAreIds DEF getClientId

\* The first call, and what is left when it is answered.
LEMMA FirstCallTyped ==
  ASSUME DaemonTyped, gfCalls # <<>>
  PROVE  /\ Head(gfCalls) \in AddCalls \cup ChangeCalls
         /\ Head(gfCalls) = gfCalls[1]
         /\ Len(gfCalls) \in Nat \ {0}
         /\ Tail(gfCalls) \in Seq(AddCalls \cup ChangeCalls)
         /\ Len(Tail(gfCalls)) = Len(gfCalls) - 1
         /\ \A i \in 1..Len(Tail(gfCalls)) : Tail(gfCalls)[i] = gfCalls[i + 1]
         /\ gfHandler.mGfPendingMessages # <<>>
         /\ Head(gfHandler.mGfPendingMessages) = Head(gfCalls).type
         /\ Head(gfHandler.mGfPendingMessages) \in GfTypes
         /\ Tail(gfHandler.mGfPendingMessages) = PendingOf(Tail(gfCalls))
         /\ Tail(gfHandler.mGfPendingMessages) \in Seq(GfTypes)
<1>1. gfCalls \in Seq(AddCalls \cup ChangeCalls)
  BY DEF DaemonTyped
<1>2. gfHandler.mGfPendingMessages = PendingOf(gfCalls)
      /\ gfHandler.mGfPendingMessages \in Seq(GfTypes)
  BY DEF DaemonTyped, PendingOf, Handlers
<1>3. /\ Tail(gfCalls) \in Seq(AddCalls \cup ChangeCalls)
      /\ Len(Tail(gfCalls)) = Len(gfCalls) - 1
      /\ \A i \in 1..Len(Tail(gfCalls)) : Tail(gfCalls)[i] = gfCalls[i + 1]
      /\ Head(gfCalls) \in AddCalls \cup ChangeCalls
  BY <1>1, HeadTailProperties
<1>4. Head(gfCalls) = gfCalls[1] /\ Len(gfCalls) \in Nat \ {0}
  BY <1>1, EmptySeq
<1> QED BY <1>1, <1>2, <1>3, <1>4, PendingTails, HeadTailProperties

LEMMA RespondTyped ==
  ASSUME Typed, gfCalls # <<>>, NEW c, NEW n \in Nat,
         NEW ids \in [1..n -> FenceIds], NEW oks \in [1..n -> BOOLEAN],
         GfRespond(c, ids, oks),
         troubles' \subseteq {"overlap", "failure", "restart", "dropped"},
         DOMAIN engineFences' \subseteq 1..gfSessions,
         engineFences' \in [DOMAIN engineFences' -> [of : Fences, opt : GfOptions]]
  PROVE  Typed'
<1> DEFINE to == Head(gfHandler.mGfPendingMessages)
           gone == {ids[i] : i \in {j \in DOMAIN ids : to = "REMOVE" \/ ~oks[j]}}
           map == Restrict(gfHandler.mGfIdsMap, DOMAIN gfHandler.mGfIdsMap \ gone)
           resp == [i \in DOMAIN ids |-> [id |-> ids[i], ok |-> oks[i]]]
           m == [type |-> "RESPONSE", to |-> to, resp |-> resp]
<1>1. /\ gfCalls' = Tail(gfCalls)
      /\ gfHandler' = [gfHandler EXCEPT !.mGfPendingMessages = Tail(@), !.mGfIdsMap = map]
      /\ gfInbox' = Append(gfInbox, m)
      /\ UNCHANGED <<gfClient, gfAborted, gfToDaemon, gfProcess, gfSessions, made, requested,
                     refused, awaited, unanswered>>
  BY DEF GfRespond
<1>2. resp \in Seq(Results)
  <2>1. \A i \in 1..n : [id |-> ids[i], ok |-> oks[i]] \in Results
    BY DEF Results
  <2>2. resp \in [1..n -> Results]
    BY <2>1
  <2> HIDE DEF resp
  <2> QED BY <2>2, FunctionIsSeq
<1> HIDE DEF resp, gone
<1>3. m \in ClientMsgs
  BY <1>2, FirstCallTyped DEF ClientMsgs, Typed
<1>4. gfInbox' \in Seq(ClientMsgs)
  <2> HIDE DEF m
  <2> QED BY <1>1, <1>3, AppendTyped DEF Typed
<1>5. gfHandler.mGfIdsMap \in IdMaps
  BY DEF Typed, DaemonTyped, Handlers
<1>6. /\ DOMAIN map \subseteq DOMAIN gfHandler.mGfIdsMap
      /\ \A id \in DOMAIN map : map[id] = gfHandler.mGfIdsMap[id]
      /\ map = [id \in DOMAIN map |-> map[id]]
  BY DEF Restrict
<1> HIDE DEF map
<1>7. map \in IdMaps
  <2>1. DOMAIN map \subseteq FenceIds /\ \A id \in DOMAIN map : map[id] \in Nat
    BY <1>5, <1>6, IdMapTyped
  <2> QED BY <1>6, <2>1, IdMapTyped
<1>8. gfHandler' \in Handlers /\ gfHandler'.mGfIdsMap = map
      /\ gfHandler'.mGfPendingMessages = Tail(gfHandler.mGfPendingMessages)
  <2>1. Tail(gfHandler.mGfPendingMessages) \in Seq(GfTypes)
    BY FirstCallTyped DEF Typed
  <2> QED BY <1>1, <1>7, <2>1 DEF Typed, DaemonTyped, Handlers
<1>9. MapIsBounded'
  BY <1>1, <1>6, <1>8 DEF Typed, DaemonTyped, MapIsBounded
<1>10. /\ gfCalls' \in Seq(AddCalls \cup ChangeCalls)
       /\ gfHandler'.mGfPendingMessages = [i \in DOMAIN gfCalls' |-> gfCalls'[i].type]
  BY <1>1, <1>8, FirstCallTyped DEF Typed, PendingOf
<1>11. CallsAreBounded'
  <2> SUFFICES ASSUME NEW i \in 1..Len(gfCalls'), gfCalls'[i].type = "ADD"
               PROVE  gfCalls'[i].session + Len(gfCalls'[i].fences) =< gfSessions' + 1
    BY DEF CallsAreBounded
  <2>1. gfCalls'[i] = gfCalls[i + 1] /\ i + 1 \in 1..Len(gfCalls)
    BY <1>1, FirstCallTyped DEF Typed
  <2> QED BY <1>1, <2>1 DEF Typed, DaemonTyped, CallsAreBounded
<1>12. DaemonTyped'
  BY <1>1, <1>8, <1>9, <1>10, <1>11 DEF Typed, DaemonTyped
<1>13. ClientTyped'
  BY <1>1, ClientStaysTyped DEF Typed
<1>14. HistoryTyped'
  BY <1>1 DEF Typed, HistoryTyped, gfProcess
<1> QED BY <1>1, <1>4, <1>12, <1>13, <1>14 DEF Typed, SocketsTyped

LEMMA AddedTyped == Typed /\ onAddedGeofences => Typed'
<1> SUFFICES ASSUME Typed, onAddedGeofences PROVE Typed'
  OBVIOUS
<1> DEFINE c == Head(gfCalls)
           n == Len(c.fences)
<1>1. PICK oks \in [1..n -> GfResults], ids \in [1..n -> FenceIds] :
         /\ GfRespond(c, ids, oks)
         /\ engineFences' =
               Over([s \in {c.session + i - 1 : i \in {j \in 1..n : oks[j]}} |->
                        [of |-> c.fences[s - c.session + 1].of,
                         opt |-> c.fences[s - c.session + 1].opt]],
                    engineFences)
  BY DEF onAddedGeofences
<1>2. gfCalls # <<>> /\ c.type = "ADD" /\ UNCHANGED troubles
  BY DEF onAddedGeofences
<1>3. c \in AddCalls
  <2>1. c \in AddCalls \cup ChangeCalls
    BY <1>2, FirstCallTyped DEF Typed
  <2> HIDE DEF c
  <2> QED BY <1>2, <2>1 DEF ChangeCalls
<1>4. c.session \in Nat \ {0} /\ c.fences \in Seq(AddEntries)
  <2> HIDE DEF c
  <2> QED BY <1>3 DEF AddCalls
<1>5. n \in Nat /\ \A i \in 1..n : c.fences[i] \in AddEntries
  BY <1>4, LenProperties, ElementOfSeq
<1>6. c.session + n =< gfSessions + 1 /\ gfSessions \in Nat
  <2>1. c = gfCalls[1] /\ 1 \in 1..Len(gfCalls)
    BY <1>2, FirstCallTyped DEF Typed
  <2> QED BY <1>2, <2>1 DEF Typed, DaemonTyped, CallsAreBounded
<1> DEFINE D == {c.session + i - 1 : i \in {j \in 1..n : oks[j]}}
           new == [s \in D |-> [of |-> c.fences[s - c.session + 1].of,
                                opt |-> c.fences[s - c.session + 1].opt]]
<1> HIDE DEF c, n
<1>7. /\ D \subseteq 1..gfSessions
      /\ \A s \in D : s - c.session + 1 \in 1..n
  <2>1. n \in Nat /\ c.session \in Nat \ {0}
    BY <1>4, <1>5
  <2>2. ASSUME NEW i \in 1..n
        PROVE  /\ c.session + i - 1 \in 1..gfSessions
               /\ (c.session + i - 1) - c.session + 1 = i
    BY <1>6, <2>1
  <2> QED BY <2>2
<1> HIDE DEF D
<1>8. new \in [D -> [of : Fences, opt : GfOptions]]
  BY <1>5, <1>7 DEF AddEntries
<1>9. /\ DOMAIN Over(new, engineFences) = D \cup DOMAIN engineFences
      /\ Over(new, engineFences) \in [D \cup DOMAIN engineFences -> [of : Fences, opt : GfOptions]]
  <2>1. DOMAIN new = D /\ engineFences \in [DOMAIN engineFences -> [of : Fences, opt : GfOptions]]
    BY DEF Typed, DaemonTyped
  <2> HIDE DEF new
  <2> QED BY <1>8, <2>1 DEF Over
<1>10. engineFences' = Over(new, engineFences)
  BY <1>1 DEF D, c, n
<1>11. /\ DOMAIN engineFences' \subseteq 1..gfSessions
       /\ engineFences' \in [DOMAIN engineFences' -> [of : Fences, opt : GfOptions]]
  <2> HIDE DEF new
  <2> QED BY <1>7, <1>9, <1>10 DEF Typed, DaemonTyped
<1>12. oks \in [1..n -> BOOLEAN] /\ ids \in [1..n -> FenceIds]
  BY GfResultsAssumption
<1>13. troubles' \subseteq {"overlap", "failure", "restart", "dropped"}
  BY <1>2 DEF Typed, HistoryTyped
<1>14. GfRespond(c, ids, oks)
  BY <1>1
<1> QED BY <1>2, <1>5, <1>11, <1>12, <1>13, <1>14, RespondTyped

LEMMA ChangedTyped == Typed /\ onChangedGeofence => Typed'
<1> SUFFICES ASSUME Typed, onChangedGeofence PROVE Typed'
  OBVIOUS
<1> DEFINE c == Head(gfCalls)
           there == c.session \in DOMAIN engineFences
<1>1. PICK ok \in (IF there THEN GfResults ELSE {FALSE}), id \in getClientId(c.session) :
         /\ GfRespond(c, <<id>>, <<ok>>)
         /\ engineFences' =
               IF ~ok \/ c.type = "PAUSE" THEN engineFences
               ELSE IF c.type = "REMOVE"
               THEN Restrict(engineFences, DOMAIN engineFences \ {c.session})
               ELSE [engineFences EXCEPT ![c.session].opt = c.opt]
         /\ troubles' = IF there /\ ~ok THEN troubles \cup {"failure"} ELSE troubles
  BY DEF onChangedGeofence
<1>2. gfCalls # <<>> /\ c.type # "ADD"
  BY DEF onChangedGeofence
<1>3. c \in ChangeCalls
  <2>1. c \in AddCalls \cup ChangeCalls
    BY <1>2, FirstCallTyped DEF Typed
  <2> HIDE DEF c
  <2> QED BY <1>2, <2>1 DEF AddCalls
<1>4. c.type \in {"REMOVE", "PAUSE", "MODIFY"} /\ (c.type = "MODIFY" => c.opt \in GfOptions)
  <2> HIDE DEF c
  <2> QED BY <1>3 DEF ChangeCalls
<1>5. ok \in BOOLEAN /\ id \in FenceIds
  BY GfResultsAssumption, ClientIdTyped DEF Typed
<1> HIDE DEF c
<1>6. /\ DOMAIN engineFences \subseteq 1..gfSessions
      /\ engineFences \in [DOMAIN engineFences -> [of : Fences, opt : GfOptions]]
  BY DEF Typed, DaemonTyped
<1>7. /\ DOMAIN engineFences' \subseteq 1..gfSessions
      /\ engineFences' \in [DOMAIN engineFences' -> [of : Fences, opt : GfOptions]]
  <2>1. CASE ~ok \/ c.type = "PAUSE"
    BY <1>1, <1>6, <2>1
  <2>2. CASE ok /\ c.type = "REMOVE"
    <3>1. engineFences' = Restrict(engineFences, DOMAIN engineFences \ {c.session})
      BY <1>1, <2>2
    <3> QED BY <1>6, <3>1 DEF Restrict
  <2>3. CASE ok /\ c.type = "MODIFY"
    <3>1. engineFences' = [engineFences EXCEPT ![c.session].opt = c.opt]
      BY <1>1, <2>3
    <3>2. c.opt \in GfOptions /\ there
      BY <1>1, <1>4, <2>3
    <3> QED BY <1>6, <3>1, <3>2
  <2> QED BY <1>4, <1>5, <2>1, <2>2, <2>3
<1>8. <<id>> \in [1..1 -> FenceIds] /\ <<ok>> \in [1..1 -> BOOLEAN] /\ 1 \in Nat
  BY <1>5
<1>9. troubles' \subseteq {"overlap", "failure", "restart", "dropped"}
  BY <1>1 DEF Typed, HistoryTyped
<1>10. GfRespond(c, <<id>>, <<ok>>)
  BY <1>1
<1> QED BY <1>2, <1>7, <1>8, <1>9, <1>10, RespondTyped

LEMMA BreachCbTyped == ASSUME Typed, NEW s, onGeofenceBreachCb(s) PROVE Typed'
<1>1. PICK id \in getClientId(s) : gfInbox' = Append(gfInbox, [type |-> "BREACH", id |-> id])
  BY DEF onGeofenceBreachCb
<1>2. [type |-> "BREACH", id |-> id] \in ClientMsgs
  BY ClientIdTyped DEF ClientMsgs, Typed
<1>3. SocketsTyped'
  BY <1>1, <1>2, AppendTyped DEF onGeofenceBreachCb, Typed, SocketsTyped
<1>4. ClientTyped' /\ DaemonTyped' /\ HistoryTyped'
  BY ClientStaysTyped, DaemonStaysTyped, HistoryStaysTyped
     DEF onGeofenceBreachCb, Typed, gfHistory
<1> QED BY <1>3, <1>4 DEF Typed

LEMMA CapabilitiesCbTyped == Typed /\ GfCapabilitiesCb => Typed'
<1> SUFFICES ASSUME Typed, GfCapabilitiesCb PROVE Typed'
  OBVIOUS
<1>1. gfHandler' = [gfHandler EXCEPT !.capable = TRUE]
      /\ UNCHANGED <<gfSessions, engineFences, gfCalls>>
  BY DEF GfCapabilitiesCb
<1>2. gfHandler' \in Handlers /\ gfHandler'.mGfIdsMap = gfHandler.mGfIdsMap
      /\ gfHandler'.mGfPendingMessages = gfHandler.mGfPendingMessages
  BY <1>1 DEF Typed, DaemonTyped, Handlers
<1>3. DaemonTyped'
  BY <1>1, <1>2 DEF Typed, DaemonTyped, MapIsBounded, CallsAreBounded
<1>4. SocketsTyped'
  BY Signals, AppendTyped DEF GfCapabilitiesCb, Typed, SocketsTyped
<1>5. ClientTyped' /\ HistoryTyped'
  BY ClientStaysTyped, HistoryStaysTyped DEF GfCapabilitiesCb, Typed
<1> QED BY <1>3, <1>4, <1>5 DEF Typed

LEMMA NewDaemonTyped ==
  ASSUME gfHandler = NoGfHandler, gfSessions = 0, engineFences = <<>>, gfCalls = <<>>
  PROVE  DaemonTyped
<1>1. gfHandler \in Handlers /\ gfHandler.mGfIdsMap = <<>>
      /\ gfHandler.mGfPendingMessages = <<>>
  BY NoMap DEF Handlers, NoGfHandler
<1>2. MapIsBounded
  BY <1>1, NoMap DEF MapIsBounded
<1>3. gfCalls \in Seq(AddCalls \cup ChangeCalls) /\ Len(gfCalls) = 0 /\ DOMAIN gfCalls = {}
  OBVIOUS
<1>4. CallsAreBounded
  BY <1>3 DEF CallsAreBounded
<1>5. gfHandler.mGfPendingMessages = [i \in DOMAIN gfCalls |-> gfCalls[i].type]
  BY <1>1
<1>6. DOMAIN engineFences = {} /\ engineFences \in [{} -> [of : Fences, opt : GfOptions]]
  OBVIOUS
<1>7. DOMAIN engineFences \subseteq 1..gfSessions
      /\ engineFences \in [DOMAIN engineFences -> [of : Fences, opt : GfOptions]]
  BY <1>6
<1>8. gfSessions \in Nat
  OBVIOUS
<1> QED BY <1>1, <1>2, <1>3, <1>4, <1>5, <1>7, <1>8 DEF DaemonTyped

LEMMA CrashTyped == Typed /\ GfCrash => Typed'
<1> SUFFICES ASSUME Typed, GfCrash PROVE Typed'
  OBVIOUS
<1>1. DaemonTyped'
  <2>1. gfHandler' = NoGfHandler /\ gfSessions' = 0 /\ engineFences' = <<>> /\ gfCalls' = <<>>
    BY DEF GfCrash
  <2>2. gfHandler' \in Handlers /\ gfHandler'.mGfIdsMap = <<>>
        /\ gfHandler'.mGfPendingMessages = <<>>
    BY <2>1, NoMap DEF Handlers, NoGfHandler
  <2>3. MapIsBounded'
    BY <2>2, NoMap DEF MapIsBounded
  <2>4. gfCalls' \in Seq(AddCalls \cup ChangeCalls) /\ Len(gfCalls') = 0 /\ DOMAIN gfCalls' = {}
    BY <2>1
  <2>5. CallsAreBounded'
    BY <2>4 DEF CallsAreBounded
  <2>6. gfHandler'.mGfPendingMessages = [i \in DOMAIN gfCalls' |-> gfCalls'[i].type]
    BY <2>2, <2>4
  <2>7. DOMAIN <<>> = {} /\ <<>> \in [{} -> [of : Fences, opt : GfOptions]]
    OBVIOUS
  <2>8. DOMAIN engineFences' \subseteq 1..gfSessions'
        /\ engineFences' \in [DOMAIN engineFences' -> [of : Fences, opt : GfOptions]]
    BY <2>1, <2>7
  <2>9. gfSessions' \in Nat
    BY <2>1
  <2> QED BY <2>2, <2>3, <2>4, <2>5, <2>6, <2>8, <2>9 DEF DaemonTyped
<1>2. SocketsTyped' /\ ClientTyped'
  BY ClientStaysTyped DEF GfCrash, Typed, SocketsTyped
<1>3. HistoryTyped'
  <2>1. gfCrashes' \in 0..MaxGfCrashes
    BY GfBounds DEF GfCrash, Typed, HistoryTyped
  <2> QED BY <2>1 DEF GfCrash, Typed, HistoryTyped
<1> QED BY <1>1, <1>2, <1>3 DEF Typed

LEMMA InitTyped == GfInit => Typed
<1> SUFFICES ASSUME GfInit PROVE Typed
  OBVIOUS
<1>1. DaemonTyped
  BY NewDaemonTyped DEF GfInit
<1>2. ClientTyped
  <2>1. DOMAIN mGeofenceMap = {} /\ mGeofenceMap \in [{} -> GfOptions]
    BY DEF GfInit
  <2>2. Known = {} /\ mLastAddedClientIds \in Seq(Fences)
    BY <2>1 DEF GfInit, Known
  <2>3. {gfRegistered, gfPending, gfMask, gfAborted} \subseteq BOOLEAN
    BY DEF GfInit
  <2> QED BY <2>1, <2>2, <2>3 DEF ClientTyped
<1>3. SocketsTyped
  BY Signals DEF GfInit, SocketsTyped
<1>4. HistoryTyped
  <2>1. gfCrashes \in 0..MaxGfCrashes /\ made \in 0..MaxGeofences
    BY GfBounds DEF GfInit
  <2> QED BY <2>1 DEF GfInit, HistoryTyped
<1> QED BY <1>1, <1>2, <1>3, <1>4 DEF Typed

LEMMA NextTyped == Typed /\ [GfNext]_gfVars => Typed'
<1> SUFFICES ASSUME Typed, [GfNext]_gfVars PROVE Typed'
  OBVIOUS
<1>1. CASE UNCHANGED gfVars
  <2>1. UNCHANGED <<gfClient, gfAborted>> /\ UNCHANGED gfDaemon
        /\ UNCHANGED <<gfProcess, gfHistory>> /\ UNCHANGED <<gfToDaemon, gfInbox>>
    BY <1>1 DEF gfVars
  <2>2. SocketsTyped'
    BY <2>1 DEF Typed, SocketsTyped
  <2> QED BY <2>1, <2>2, ClientStaysTyped, DaemonStaysTyped, HistoryStaysTyped DEF Typed
<1>2. CASE GfAnswer
  BY <1>2, AddedTyped, ChangedTyped, CapabilitiesCbTyped DEF GfAnswer
<1>3. CASE \E s \in DOMAIN engineFences : onGeofenceBreachCb(s)
  BY <1>3, BreachCbTyped
<1>4. CASE SessionMovesFlag
  <2>1. UNCHANGED <<gfToDaemon, gfInbox>> /\ UNCHANGED gfDaemon
        /\ UNCHANGED <<gfProcess, gfHistory>>
    BY <1>4 DEF SessionMovesFlag
  <2>2. SocketsTyped'
    BY <2>1 DEF Typed, SocketsTyped
  <2>3. ClientTyped'
    <3>1. gfPending' \in BOOLEAN
      BY <1>4 DEF SessionMovesFlag
    <3> QED BY <1>4, <3>1 DEF SessionMovesFlag, Typed, ClientTyped, Known
  <2> QED BY <2>1, <2>2, <2>3, DaemonStaysTyped, HistoryStaysTyped DEF Typed
<1> QED BY <1>1, <1>2, <1>3, <1>4, CallTyped, TaskTyped, ServiceTyped, CrashTyped DEF GfNext

LEMMA TypedIsTypeOK == Typed => GfTypeOK
<1> SUFFICES ASSUME Typed PROVE GfTypeOK
  OBVIOUS
<1>1. DOMAIN gfHandler.mGfIdsMap \subseteq FenceIds /\ gfHandler.mGfIdsMap \in [DOMAIN gfHandler.mGfIdsMap -> Nat]
  BY IdMapTyped DEF Typed, DaemonTyped, Handlers
<1>2. Range(gfHandler.mGfIdsMap) \subseteq 0..gfSessions
  BY <1>1 DEF Typed, DaemonTyped, MapIsBounded, Range
<1>3. Range(mGeofenceMap) \subseteq GfOptions
  BY DEF Typed, ClientTyped, Known, Range
<1> QED BY <1>1, <1>2, <1>3 DEF GfTypeOK, Typed, ClientTyped, DaemonTyped, HistoryTyped

\* The state keeps its types, and the daemon waits for the answer to exactly the calls
\* LocationAPI has not answered: mGfPendingMessages and the calls have the same types in the
\* same order (LocHalDaemonClientHandler.cpp:401-434, 552-641).
THEOREM GeofencesAreTyped == GfSpec => []GfTypeOK
  BY InitTyped, NextTyped, TypedIsTypeOK, PTL DEF GfSpec

-----------------------------------------------------------------------------
(* The subscription to breaches.                                           *)
(*                                                                         *)
(* Two facts carry it.  A client with geofences the daemon has been told   *)
(* of has breach reporting in its mask.  And once the client has taken     *)
(* the last HAL_READY, everything it does with a registration it does with *)
(* the daemon that is up: the subscription it sends when it hears of the   *)
(* capabilities, or with the first geofence after that, reaches a daemon   *)
(* that has registered it.                                                 *)

NoReady == \A j \in 1..Len(gfInbox) : gfInbox[j].type # "HAL_READY"

\* Capabilities that no HAL_READY follows are those of the daemon that is up.
CapabilitiesAreCurrent ==
    gfUp => \A k \in 1..Len(gfInbox) :
        /\ gfInbox[k].type = "CAPABILITIES"
        /\ \A j \in 1..Len(gfInbox) : j > k => gfInbox[j].type # "HAL_READY"
        => gfHandler.registered

RegistrationIsCurrent == gfUp /\ gfRegistered /\ NoReady => gfHandler.registered

Subscribing ==
    \/ gfHandler.subscribed
    \/ \E k \in 1..Len(gfToDaemon) : gfToDaemon[k].type = "UPDATE_CALLBACKS"

SubscriptionArrives == gfUp /\ gfRegistered /\ NoReady /\ gfMask => Subscribing

MaskIsSet == Known \ refused # {} => gfMask

BInv ==
    /\ CapabilitiesAreCurrent /\ RegistrationIsCurrent
    /\ SubscriptionArrives /\ MaskIsSet

\* The messages for the client in a step that appends one.
LEMMA AppendKeepsCapabilities ==
  ASSUME Typed, CapabilitiesAreCurrent, NEW m \in ClientMsgs,
         gfInbox' = Append(gfInbox, m),
         gfUp' => gfUp \/ m.type = "HAL_READY",
         gfUp /\ gfHandler.registered => gfHandler'.registered,
         m.type = "CAPABILITIES" => gfHandler'.registered
  PROVE  /\ CapabilitiesAreCurrent'
         /\ NoReady' => NoReady /\ m.type # "HAL_READY"
<1> DEFINE n == Len(gfInbox)
<1>1. n \in Nat /\ Len(gfInbox') = n + 1 /\ gfInbox'[n + 1] = m
      /\ \A i \in 1..n : gfInbox'[i] = gfInbox[i]
  BY AppendTyped DEF Typed
<1> HIDE DEF n
<1>2. NoReady' => NoReady /\ m.type # "HAL_READY"
  <2> SUFFICES ASSUME NoReady' PROVE NoReady /\ m.type # "HAL_READY"
    OBVIOUS
  <2>1. \A j \in 1..n + 1 : gfInbox'[j].type # "HAL_READY"
    BY <1>1 DEF NoReady
  <2>2. n + 1 \in 1..n + 1 /\ \A j \in 1..n : j \in 1..n + 1
    BY <1>1
  <2> QED BY <1>1, <2>1, <2>2 DEF NoReady, n
<1>3. CapabilitiesAreCurrent'
  <2> SUFFICES ASSUME gfUp', NEW k \in 1..n + 1, gfInbox'[k].type = "CAPABILITIES",
                      \A j \in 1..n + 1 : j > k => gfInbox'[j].type # "HAL_READY"
               PROVE  gfHandler'.registered
    BY <1>1 DEF CapabilitiesAreCurrent
  <2>1. CASE k = n + 1
    BY <1>1, <2>1
  <2>2. CASE k # n + 1
    <3>1. k \in 1..n /\ n + 1 \in 1..n + 1 /\ n + 1 > k /\ \A j \in 1..n : j \in 1..n + 1
      BY <1>1, <2>2
    <3>2. m.type # "HAL_READY" /\ gfUp
      BY <1>1, <3>1
    <3>3. gfInbox[k].type = "CAPABILITIES"
          /\ \A j \in 1..n : j > k => gfInbox[j].type # "HAL_READY"
      BY <1>1, <3>1
    <3> QED BY <3>1, <3>2, <3>3 DEF CapabilitiesAreCurrent, n
  <2> QED BY <2>1, <2>2
<1> QED BY <1>2, <1>3

LEMMA TakingKeepsCapabilities ==
  ASSUME Typed, CapabilitiesAreCurrent, NEW type, GfTake(type), gfInbox' = Tail(gfInbox),
         UNCHANGED <<gfUp, gfHandler>>
  PROVE  /\ CapabilitiesAreCurrent'
         /\ NoReady' /\ type # "HAL_READY" => NoReady
         /\ NoReady' /\ type = "CAPABILITIES" /\ gfUp => gfHandler.registered
<1> DEFINE n == Len(gfInbox)
<1>1. n \in Nat \ {0} /\ Len(gfInbox') = n - 1 /\ gfInbox[1].type = type
      /\ \A i \in 1..n - 1 : gfInbox'[i] = gfInbox[i + 1]
  BY TakenTyped DEF Typed
<1> HIDE DEF n
<1>2. ASSUME NoReady'
      PROVE  \A j \in 1..n : j > 1 => gfInbox[j].type # "HAL_READY"
  <2> TAKE j \in 1..n
  <2> HAVE j > 1
  <2>1. j - 1 \in 1..n - 1 /\ (j - 1) + 1 = j
    BY <1>1
  <2>2. gfInbox'[j - 1].type # "HAL_READY"
    BY <1>1, <1>2, <2>1 DEF NoReady
  <2> QED BY <1>1, <2>1, <2>2
<1>3. NoReady' /\ type # "HAL_READY" => NoReady
  <2> SUFFICES ASSUME NoReady', type # "HAL_READY", NEW j \in 1..n
               PROVE  gfInbox[j].type # "HAL_READY"
    BY DEF NoReady, n
  <2>1. j = 1 \/ j > 1
    BY <1>1
  <2> QED BY <1>1, <1>2, <2>1
<1>4. NoReady' /\ type = "CAPABILITIES" /\ gfUp => gfHandler.registered
  <2>1. 1 \in 1..n
    BY <1>1
  <2> QED BY <1>1, <1>2, <2>1 DEF CapabilitiesAreCurrent, n
<1>5. CapabilitiesAreCurrent'
  <2> SUFFICES ASSUME gfUp, NEW k \in 1..n - 1, gfInbox'[k].type = "CAPABILITIES",
                      \A j \in 1..n - 1 : j > k => gfInbox'[j].type # "HAL_READY"
               PROVE  gfHandler.registered
    BY <1>1 DEF CapabilitiesAreCurrent
  <2>1. k + 1 \in 1..n /\ gfInbox[k + 1].type = "CAPABILITIES"
    BY <1>1
  <2>2. ASSUME NEW j \in 1..n, j > k + 1
        PROVE  gfInbox[j].type # "HAL_READY"
    <3>1. j - 1 \in 1..n - 1 /\ j - 1 > k /\ (j - 1) + 1 = j
      BY <1>1, <2>2
    <3>2. gfInbox'[j - 1].type # "HAL_READY" /\ gfInbox'[j - 1] = gfInbox[(j - 1) + 1]
      BY <1>1, <3>1
    <3> QED BY <3>1, <3>2
  <2> QED BY <2>1, <2>2 DEF CapabilitiesAreCurrent, n
<1> QED BY <1>3, <1>4, <1>5

LEMMA SendingKeepsSubscribing ==
  ASSUME Typed, NEW msgs \in Seq(DaemonMsgs), GfSend(msgs), gfUp, UNCHANGED gfHandler
  PROVE  /\ Subscribing => Subscribing'
         /\ (\E k \in 1..Len(msgs) : msgs[k].type = "UPDATE_CALLBACKS") => Subscribing'
<1> DEFINE n == Len(gfToDaemon)
           l == Len(msgs)
<1>1. n \in Nat /\ l \in Nat
  BY LenProperties DEF Typed, SocketsTyped
<1>2. Len(gfToDaemon') = n + l
      /\ \A i \in 1..n + l : gfToDaemon'[i] = IF i =< n THEN gfToDaemon[i] ELSE msgs[i - n]
  BY ConcatProperties DEF GfSend, Typed, SocketsTyped
<1> HIDE DEF n, l
<1>3. ASSUME NEW k \in 1..n
      PROVE  k \in 1..n + l /\ gfToDaemon'[k] = gfToDaemon[k]
  <2>1. k \in 1..n + l /\ k =< n
    BY <1>1
  <2> QED BY <1>2, <2>1, Zenon
<1>4. ASSUME NEW k \in 1..l
      PROVE  n + k \in 1..n + l /\ gfToDaemon'[n + k] = msgs[k]
  <2>1. n + k \in 1..n + l /\ ~ (n + k =< n) /\ (n + k) - n = k
    BY <1>1
  <2>2. gfToDaemon'[n + k] = msgs[(n + k) - n]
    BY <1>2, <2>1, Zenon
  <2> QED BY <2>1, <2>2
<1>5. Subscribing => Subscribing'
  <2>1. CASE gfHandler.subscribed
    BY <2>1 DEF Subscribing
  <2>2. ASSUME NEW k \in 1..n, gfToDaemon[k].type = "UPDATE_CALLBACKS"
        PROVE  Subscribing'
    <3>1. k \in 1..Len(gfToDaemon') /\ gfToDaemon'[k].type = "UPDATE_CALLBACKS"
      BY <1>2, <1>3, <2>2
    <3> QED BY <3>1 DEF Subscribing
  <2> QED BY <2>1, <2>2 DEF Subscribing, n
<1>6. ASSUME NEW k \in 1..l, msgs[k].type = "UPDATE_CALLBACKS"
      PROVE  Subscribing'
  <2>1. n + k \in 1..Len(gfToDaemon') /\ gfToDaemon'[n + k].type = "UPDATE_CALLBACKS"
    BY <1>2, <1>4, <1>6
  <2> QED BY <2>1 DEF Subscribing
<1> QED BY <1>5, <1>6 DEF l

LEMMA ReceivingKeepsSubscribing ==
  ASSUME Typed, NEW type, type # "UPDATE_CALLBACKS", GfTakes(type),
         gfHandler.subscribed => gfHandler'.subscribed, Subscribing
  PROVE  Subscribing'
<1>1. CASE gfHandler.subscribed
  BY <1>1 DEF Subscribing
<1>2. CASE ~gfHandler.subscribed
  <2>1. PICK k \in 1..Len(gfToDaemon) : gfToDaemon[k].type = "UPDATE_CALLBACKS"
    BY <1>2 DEF Subscribing
  <2>2. gfToDaemon[1].type = type /\ Len(gfToDaemon) \in Nat
        /\ Len(gfToDaemon') = Len(gfToDaemon) - 1
        /\ \A i \in 1..Len(gfToDaemon') : gfToDaemon'[i] = gfToDaemon[i + 1]
    BY TakenByDaemon
  <2>3. k # 1
    BY <2>1, <2>2
  <2>4. k - 1 \in 1..Len(gfToDaemon') /\ (k - 1) + 1 = k
    BY <2>2, <2>3
  <2>5. gfToDaemon'[k - 1].type = "UPDATE_CALLBACKS"
    BY <2>1, <2>2, <2>4
  <2> QED BY <2>4, <2>5 DEF Subscribing
<1> QED BY <1>1, <1>2

\* Steps that leave the messages for the client and the registration alone.
LEMMA NothingNew ==
  ASSUME BInv, UNCHANGED <<gfInbox, gfUp>>, gfRegistered' => gfRegistered,
         gfHandler.registered => gfHandler'.registered
  PROVE  /\ CapabilitiesAreCurrent' /\ RegistrationIsCurrent'
         /\ NoReady' = NoReady
  BY DEF BInv, CapabilitiesAreCurrent, RegistrationIsCurrent, NoReady

LEMMA AddReqSubscribed ==
  ASSUME Typed, BInv, NEW n \in Fences, NEW opt \in GfOptions, AddGeofencesReq(n, opt)
  PROVE  BInv'
<1> DEFINE fences == [i \in 1..n |-> made + i]
           map == [g \in 1..made + n |-> opt]
<1>1. /\ UNCHANGED <<gfRegistered, gfInbox, gfUp, gfHandler>>
      /\ Known' = Known \cup Range(fences)
  <2>1. mGeofenceMap' = Over(mGeofenceMap, [g \in Range(fences) |-> opt])
    BY DEF AddGeofencesReq
  <2> HIDE DEF fences
  <2> QED BY <2>1 DEF AddGeofencesReq, gfProcess, gfDaemon, Known, Over
<1>2. CapabilitiesAreCurrent' /\ RegistrationIsCurrent' /\ NoReady' = NoReady
  BY <1>1, NothingNew
<1>3. CASE gfPending
  <2>1. UNCHANGED <<gfMask, gfToDaemon>> /\ refused' = refused \cup Range(fences)
    BY <1>3 DEF AddGeofencesReq
  <2>2. MaskIsSet'
    BY <1>1, <2>1 DEF BInv, MaskIsSet
  <2>3. SubscriptionArrives'
    BY <1>1, <1>2, <2>1 DEF BInv, SubscriptionArrives, Subscribing
  <2> QED BY <1>2, <2>2, <2>3 DEF BInv
<1>4. CASE ~gfPending
  <2>1. /\ gfMask' = TRUE
        /\ GfSend(IF ~gfRegistered THEN <<>>
                  ELSE (IF gfMask THEN <<>> ELSE UpdateGfCallbacks)
                       \o AddMsg(fences, fences, map))
    BY <1>4 DEF AddGeofencesReq
  <2>2. MaskIsSet'
    BY <2>1 DEF MaskIsSet
  <2>3. ASSUME gfUp', gfRegistered', NoReady'
        PROVE  Subscribing'
    <3> DEFINE add == AddMsg(fences, fences, map)
               msgs == (IF gfMask THEN <<>> ELSE UpdateGfCallbacks) \o add
    <3>1. gfUp /\ gfRegistered /\ NoReady /\ GfSend(msgs)
      BY <1>1, <1>2, <2>1, <2>3
    <3>2. add \in Seq(DaemonMsgs) /\ Len(add) = 1
      <4>1. n \in Nat /\ made \in Nat /\ made + n =< MaxGeofences /\ MaxGeofences \in Nat
        BY GfBounds DEF Typed, HistoryTyped, Fences, AddGeofencesReq
      <4>2. fences \in [1..n -> Fences]
        BY <4>1 DEF Fences
      <4>3. \A i \in 1..n : map[fences[i]] = opt
        BY <4>1
      <4> HIDE DEF fences, map
      <4>4. fences \in [1..n -> FenceIds]
        BY <4>2, FencesAreIds
      <4> QED BY <4>1, <4>2, <4>3, <4>4, AddMsgTyped
    <3> HIDE DEF add
    <3>3. msgs \in Seq(DaemonMsgs)
      BY <3>2, SimpleMsgs
    <3>4. CASE gfMask
      <4>1. Subscribing
        BY <3>1, <3>4 DEF BInv, SubscriptionArrives
      <4> HIDE DEF msgs
      <4> QED BY <1>1, <3>1, <3>3, <4>1, SendingKeepsSubscribing
    <3>5. CASE ~gfMask
      <4>1. msgs = UpdateGfCallbacks \o add
        BY <3>5
      <4>2. Len(msgs) = 2 /\ msgs[1] = UpdateGfCallbacks[1]
        BY <3>2, <4>1, SimpleMsgs, ConcatProperties
      <4> HIDE DEF msgs
      <4>3. 1 \in 1..Len(msgs) /\ msgs[1].type = "UPDATE_CALLBACKS"
        <5>1. msgs[1].type = "UPDATE_CALLBACKS"
          BY <4>2, SimpleMsgs
        <5> QED BY <4>2, <5>1
      <4> QED BY <1>1, <3>1, <3>3, <4>3, SendingKeepsSubscribing
    <3> QED BY <3>4, <3>5
  <2> QED BY <1>2, <2>2, <2>3 DEF BInv, SubscriptionArrives
<1> QED BY <1>3, <1>4

LEMMA RequestSubscribed ==
  ASSUME Typed, BInv, NEW g \in Fences, NEW msg \in Changes, GfRequest(g, msg),
         \/ UNCHANGED mGeofenceMap
         \/ \E opt \in GfOptions : mGeofenceMap' = [mGeofenceMap EXCEPT ![g] = opt]
  PROVE  BInv'
<1>1. /\ UNCHANGED <<gfRegistered, gfInbox, gfUp, gfHandler, gfMask, refused>>
      /\ GfSend(<<msg>>)
  BY DEF GfRequest, gfProcess, gfDaemon
<1>2. CapabilitiesAreCurrent' /\ RegistrationIsCurrent' /\ NoReady' = NoReady
  BY <1>1, NothingNew
<1>3. <<msg>> \in Seq(DaemonMsgs)
  BY DEF DaemonMsgs
<1>4. SubscriptionArrives'
  BY <1>1, <1>2, <1>3, SendingKeepsSubscribing DEF BInv, SubscriptionArrives
<1>5. Known' = Known
  BY DEF Known, Typed, ClientTyped
<1> QED BY <1>1, <1>2, <1>4, <1>5 DEF BInv, MaskIsSet

LEMMA CallSubscribed == Typed /\ BInv /\ GfCall => BInv'
<1> SUFFICES ASSUME Typed, BInv, GfCall PROVE BInv'
  OBVIOUS
<1>1. ASSUME NEW g \in Fences, RemoveGeofencesReq(g)
      PROVE  BInv'
  <2>1. [type |-> "REMOVE", id |-> g] \in Changes
    BY DEF Changes
  <2> QED BY <1>1, <2>1, RequestSubscribed DEF RemoveGeofencesReq
<1>2. ASSUME NEW g \in Fences, NEW opt \in GfOptions, ModifyGeofencesReq(g, opt)
      PROVE  BInv'
  <2>1. [type |-> "MODIFY", id |-> g, opt |-> opt] \in Changes
    BY DEF Changes
  <2> QED BY <1>2, <2>1, RequestSubscribed DEF ModifyGeofencesReq
<1>3. ASSUME NEW g \in Fences, PauseGeofencesReq(g)
      PROVE  BInv'
  <2>1. [type |-> "PAUSE", id |-> g] \in Changes
    BY DEF Changes
  <2> QED BY <1>3, <2>1, RequestSubscribed DEF PauseGeofencesReq
<1> QED BY <1>1, <1>2, <1>3, AddReqSubscribed DEF GfCall

LEMMA RegisterReqSubscribed == Typed /\ BInv /\ GfRegisterReq => BInv'
<1> SUFFICES ASSUME Typed, BInv, GfRegisterReq PROVE BInv'
  OBVIOUS
<1>1. /\ GfTake("REGISTER") /\ gfInbox' = Tail(gfInbox)
      /\ GfSend(<<[type |-> "REGISTER"]>>)
      /\ UNCHANGED <<gfRegistered, gfUp, gfHandler, gfMask, refused, mGeofenceMap>>
  BY DEF GfRegisterReq, gfClient, gfProcess, gfDaemon, gfHistory
<1>2. CapabilitiesAreCurrent' /\ (NoReady' => NoReady)
  BY <1>1, TakingKeepsCapabilities DEF BInv
<1>3. SubscriptionArrives'
  BY <1>1, <1>2, SimpleMsgs, SendingKeepsSubscribing DEF BInv, SubscriptionArrives
<1> QED BY <1>1, <1>2, <1>3 DEF BInv, MaskIsSet, RegistrationIsCurrent, Known

LEMMA HalReadySubscribed == Typed /\ BInv /\ GfHalReady => BInv'
<1> SUFFICES ASSUME Typed, BInv, GfHalReady PROVE BInv'
  OBVIOUS
<1>1. GfTake("HAL_READY") /\ gfRegistered' = FALSE
      /\ UNCHANGED <<gfUp, gfHandler, gfMask, refused, mGeofenceMap>>
  BY DEF GfHalReady, gfProcess, gfDaemon
<1>2. PICK p \in 1..Len(gfInbox) : gfInbox' = InsertAt(Tail(gfInbox), p, [type |-> "REGISTER"])
  BY DEF GfHalReady
<1> DEFINE n == Len(gfInbox)
<1>3. /\ n \in Nat \ {0} /\ Tail(gfInbox) \in Seq(ClientMsgs) /\ Len(Tail(gfInbox)) = n - 1
      /\ \A i \in 1..n - 1 : Tail(gfInbox)[i] = gfInbox[i + 1]
  BY <1>1, TakenTyped DEF Typed
<1>4. /\ Len(gfInbox') = n
      /\ \A i \in 1..n : gfInbox'[i] = IF i < p THEN Tail(gfInbox)[i]
                                       ELSE IF i = p THEN [type |-> "REGISTER"]
                                       ELSE Tail(gfInbox)[i - 1]
  <2>1. p \in 1..Len(Tail(gfInbox)) + 1 /\ Len(Tail(gfInbox)) + 1 = n
    BY <1>2, <1>3
  <2> DEFINE q == Tail(gfInbox)
             m == [type |-> "REGISTER"]
  <2>2. q \in Seq(ClientMsgs) /\ m \in ClientMsgs
    BY <1>3, Signals
  <2> HIDE DEF q, m, n
  <2>3. /\ Len(InsertAt(q, p, m)) = n
        /\ \A i \in 1..n :
              InsertAt(q, p, m)[i] = IF i < p THEN q[i] ELSE IF i = p THEN m ELSE q[i - 1]
    <3>1. p \in 1..Len(q) + 1 /\ Len(q) + 1 = n
      BY <2>1 DEF q
    <3> QED BY <2>2, <3>1, InsertedIsTyped
  <2>4. gfInbox' = InsertAt(q, p, m)
    BY <1>2 DEF q, m
  <2> QED BY <2>3, <2>4, Zenon DEF q, m
<1> HIDE DEF n
\* where a message comes from
<1>5. ASSUME NEW i \in 1..n, i # p
      PROVE  LET o == IF i < p THEN i + 1 ELSE i IN o \in 2..n /\ gfInbox'[i] = gfInbox[o]
  <2>1. p \in 1..n
    BY <1>2 DEF n
  <2>2. CASE i < p
    <3>1. gfInbox'[i] = Tail(gfInbox)[i]
      BY <1>4, <2>2
    <3>2. i \in 1..n - 1 /\ i + 1 \in 2..n
      BY <1>3, <2>1, <2>2
    <3>3. Tail(gfInbox)[i] = gfInbox[i + 1]
      BY <1>3, <3>2
    <3> QED BY <2>2, <3>1, <3>2, <3>3
  <2>3. CASE i > p
    <3>1. ~ (i < p) /\ i - 1 \in 1..n - 1 /\ (i - 1) + 1 = i /\ i \in 2..n
      BY <1>3, <2>1, <2>3
    <3>2. gfInbox'[i] = Tail(gfInbox)[i - 1]
      BY <1>4, <1>5, <3>1, Zenon
    <3> QED BY <1>3, <3>1, <3>2
  <2>4. i < p \/ i > p
    BY <1>3, <1>5, <2>1
  <2> QED BY <2>2, <2>3, <2>4
<1>6. CapabilitiesAreCurrent'
  <2> SUFFICES ASSUME gfUp, NEW k \in 1..n, gfInbox'[k].type = "CAPABILITIES",
                      \A j \in 1..n : j > k => gfInbox'[j].type # "HAL_READY"
               PROVE  gfHandler.registered
    BY <1>1, <1>4 DEF CapabilitiesAreCurrent
  <2>1. p \in 1..n /\ n \in Nat
    BY <1>2, <1>3 DEF n
  <2>2. k # p
    BY <1>4, <2>1
  <2> DEFINE o == IF k < p THEN k + 1 ELSE k
  <2>3. o \in 2..n /\ gfInbox[o].type = "CAPABILITIES"
    BY <1>5, <2>2
  <2>4. ASSUME NEW j \in 1..n, j > o
        PROVE  gfInbox[j].type # "HAL_READY"
    <3> DEFINE i == IF j =< p THEN j - 1 ELSE j
    <3>1. i \in 1..n /\ i # p /\ i > k /\ j = IF i < p THEN i + 1 ELSE i
      BY <2>1, <2>2, <2>3, <2>4
    <3> HIDE DEF i, o
    <3>2. gfInbox'[i].type # "HAL_READY"
      BY <3>1
    <3>3. gfInbox'[i] = gfInbox[j]
      BY <1>5, <3>1
    <3> QED BY <3>2, <3>3
  <2>5. o \in 1..n
    BY <2>3
  <2> HIDE DEF o
  <2> QED BY <2>3, <2>4, <2>5 DEF BInv, CapabilitiesAreCurrent, n
<1> QED BY <1>1, <1>6 DEF BInv, MaskIsSet, RegistrationIsCurrent, SubscriptionArrives, Known

LEMMA CapabilitiesSubscribed == Typed /\ BInv /\ GfCapabilities => BInv'
<1> SUFFICES ASSUME Typed, BInv, GfCapabilities PROVE BInv'
  OBVIOUS
<1> DEFINE subscribe == IF gfMask THEN UpdateGfCallbacks ELSE <<>>
<1>1. /\ GfTake("CAPABILITIES") /\ gfInbox' = Tail(gfInbox)
      /\ UNCHANGED <<gfUp, gfHandler, gfMask, refused, mGeofenceMap>>
  BY DEF GfCapabilities, gfProcess, gfDaemon
<1>2. /\ CapabilitiesAreCurrent' /\ (NoReady' => NoReady)
      /\ NoReady' /\ gfUp => gfHandler.registered
  BY <1>1, TakingKeepsCapabilities DEF BInv
<1>3. MaskIsSet' /\ RegistrationIsCurrent'
  BY <1>1, <1>2 DEF BInv, MaskIsSet, RegistrationIsCurrent, Known
\* what is sent begins with the subscription
<1>4. PICK rest \in Seq(DaemonMsgs) : GfSend(subscribe \o rest)
  <2>1. CASE gfRegistered \/ Known = {}
    <3>1. GfSend(subscribe)
      BY <2>1 DEF GfCapabilities
    <3>2. <<>> \in Seq(DaemonMsgs) /\ subscribe \o <<>> = subscribe
      BY SimpleMsgs, ConcatEmptySeq
    <3> HIDE DEF subscribe
    <3> QED BY <3>1, <3>2, Zenon
  <2>2. CASE ~(gfRegistered \/ Known = {})
    <3>1. PICK fences \in SetToSeqs(Known), ids \in LastAdded(Cardinality(Known)) :
             GfSend(subscribe \o AddMsg(fences, ids, mGeofenceMap))
      BY <2>2 DEF GfCapabilities
    <3>2. Cardinality(Known) \in Nat
      BY FencesAreFinite DEF Typed, ClientTyped
    <3>3. fences \in [1..Cardinality(Known) -> Known] /\ ids \in [1..Cardinality(Known) -> FenceIds]
      BY DEF SetToSeqs, LastAdded
    <3>4. /\ fences \in [1..Cardinality(Known) -> Fences]
          /\ \A i \in 1..Cardinality(Known) : mGeofenceMap[fences[i]] \in GfOptions
      BY <3>3 DEF Typed, ClientTyped
    <3>5. AddMsg(fences, ids, mGeofenceMap) \in Seq(DaemonMsgs)
      BY <3>2, <3>3, <3>4, AddMsgTyped
    <3> QED BY <3>1, <3>5
  <2> QED BY <2>1, <2>2
<1>5. ASSUME gfUp, gfMask
      PROVE  Subscribing'
  <2> DEFINE msgs == subscribe \o rest
  <2>1. subscribe = UpdateGfCallbacks
    BY <1>5
  <2>2. msgs \in Seq(DaemonMsgs) /\ 1 \in 1..Len(msgs) /\ msgs[1] = UpdateGfCallbacks[1]
    <3>1. /\ msgs \in Seq(DaemonMsgs) /\ Len(msgs) = 1 + Len(rest) /\ Len(rest) \in Nat
          /\ \A i \in 1..1 + Len(rest) :
                msgs[i] = IF i =< 1 THEN UpdateGfCallbacks[i] ELSE rest[i - 1]
      <4>1. UpdateGfCallbacks \in Seq(DaemonMsgs) /\ Len(UpdateGfCallbacks) = 1
            /\ Len(rest) \in Nat /\ msgs = UpdateGfCallbacks \o rest
        BY <2>1, SimpleMsgs, LenProperties
      <4> HIDE DEF msgs
      <4> QED BY <4>1, ConcatProperties
    <3>2. 1 \in 1..1 + Len(rest) /\ 1 =< 1
      BY <3>1
    <3> HIDE DEF msgs
    <3>3. msgs[1] = UpdateGfCallbacks[1]
      BY <3>1, <3>2, Zenon
    <3> QED BY <3>1, <3>2, <3>3
  <2>3. msgs[1].type = "UPDATE_CALLBACKS"
    BY <2>2, SimpleMsgs
  <2>4. GfSend(msgs)
    BY <1>4
  <2> HIDE DEF msgs
  <2> QED BY <1>1, <1>5, <2>2, <2>3, <2>4, SendingKeepsSubscribing
<1>6. SubscriptionArrives'
  BY <1>1, <1>5 DEF SubscriptionArrives
<1> QED BY <1>2, <1>3, <1>6 DEF BInv

LEMMA ResponseSubscribed == Typed /\ BInv /\ GfResponse => BInv'
<1> SUFFICES ASSUME Typed, BInv, GfResponse PROVE BInv'
  OBVIOUS
<1>1. /\ GfTake("RESPONSE") /\ gfInbox' = Tail(gfInbox)
      /\ UNCHANGED <<gfRegistered, gfToDaemon, gfUp, gfHandler, refused>>
      /\ gfMask' = (gfMask /\ Known # {})
  BY DEF GfResponse, gfProcess, gfDaemon
<1>2. Known' \subseteq Known
  BY DEF GfResponse, Known, Restrict
<1>3. CapabilitiesAreCurrent' /\ (NoReady' => NoReady)
  BY <1>1, TakingKeepsCapabilities DEF BInv
<1>4. MaskIsSet'
  BY <1>1, <1>2 DEF BInv, MaskIsSet
<1>5. SubscriptionArrives' /\ RegistrationIsCurrent'
  BY <1>1, <1>3 DEF BInv, SubscriptionArrives, Subscribing, RegistrationIsCurrent
<1> QED BY <1>3, <1>4, <1>5 DEF BInv

LEMMA BreachSubscribed == Typed /\ BInv /\ GfBreach => BInv'
<1> SUFFICES ASSUME Typed, BInv, GfBreach PROVE BInv'
  OBVIOUS
<1>1. /\ GfTake("BREACH") /\ gfInbox' = Tail(gfInbox)
      /\ UNCHANGED <<gfRegistered, gfToDaemon, gfUp, gfHandler, refused, gfMask, mGeofenceMap>>
  BY DEF GfBreach, gfClient, gfProcess, gfDaemon, gfHistory
<1>2. CapabilitiesAreCurrent' /\ (NoReady' => NoReady)
  BY <1>1, TakingKeepsCapabilities DEF BInv
<1> QED BY <1>1, <1>2 DEF BInv, SubscriptionArrives, Subscribing, RegistrationIsCurrent,
        MaskIsSet, Known

LEMMA TaskSubscribed == Typed /\ BInv /\ GfTask => BInv'
  BY RegisterReqSubscribed, HalReadySubscribed, CapabilitiesSubscribed, ResponseSubscribed,
     BreachSubscribed DEF GfTask

\* A message for the daemon; whoever is subscribed or registered stays so.
LEMMA ReceiptSubscribed ==
  ASSUME Typed, BInv, NEW type, GfTakes(type), type # "UPDATE_CALLBACKS",
         gfHandler.registered => gfHandler'.registered,
         gfHandler.subscribed => gfHandler'.subscribed,
         UNCHANGED gfInbox \/ gfInbox' = Append(gfInbox, [type |-> "CAPABILITIES"]),
         gfInbox' # gfInbox => gfHandler'.registered
  PROVE  BInv'
<1>1. UNCHANGED <<gfRegistered, gfUp, refused, gfMask, mGeofenceMap>>
  BY DEF GfTakes, gfClient, gfProcess
<1>2. CapabilitiesAreCurrent' /\ (NoReady' => NoReady)
  <2>1. CASE UNCHANGED gfInbox
    BY <1>1, <2>1, NothingNew
  <2>2. CASE ~UNCHANGED gfInbox
    BY <1>1, <2>2, Signals, AppendKeepsCapabilities DEF BInv
  <2> QED BY <2>1, <2>2
<1>3. Subscribing => Subscribing'
  BY ReceivingKeepsSubscribing
<1> QED BY <1>1, <1>2, <1>3 DEF BInv, SubscriptionArrives, RegistrationIsCurrent, MaskIsSet, Known

LEMMA ServiceSubscribed == Typed /\ BInv /\ GfService => BInv'
<1> SUFFICES ASSUME Typed, BInv, GfService PROVE BInv'
  OBVIOUS
<1>1. CASE GfDropped
  <2>1. PICK type : GfReceive(type)
    BY <1>1 DEF GfDropped
  <2>2. /\ UNCHANGED <<gfRegistered, gfUp, refused, gfMask, mGeofenceMap, gfInbox, gfHandler>>
        /\ ~gfHandler.registered
    BY <1>1, <2>1 DEF GfDropped, GfReceive, GfTakes, gfClient, gfProcess, gfHistory, gfDaemon
  <2>3. CapabilitiesAreCurrent' /\ NoReady' = NoReady
    BY <2>2, NothingNew
  <2> QED BY <2>2, <2>3 DEF BInv, SubscriptionArrives, RegistrationIsCurrent, MaskIsSet, Known
<1>2. CASE GfNewClient
  <2>1. /\ GfReceive("REGISTER") /\ gfHandler' = [gfHandler EXCEPT !.registered = TRUE]
        /\ UNCHANGED gfInbox \/ gfInbox' = Append(gfInbox, [type |-> "CAPABILITIES"])
    BY <1>2 DEF GfNewClient
  <2>2. gfHandler'.registered /\ gfHandler'.subscribed = gfHandler.subscribed
    BY <2>1 DEF Typed, DaemonTyped, Handlers
  <2> QED BY <2>1, <2>2, ReceiptSubscribed DEF GfReceive
<1>3. CASE GfUpdateSubscription
  <2>1. /\ GfReceive("UPDATE_CALLBACKS") /\ gfHandler' = [gfHandler EXCEPT !.subscribed = TRUE]
        /\ UNCHANGED gfInbox
    BY <1>3 DEF GfUpdateSubscription
  <2>2. UNCHANGED <<gfRegistered, gfUp, refused, gfMask, mGeofenceMap>>
    BY <2>1 DEF GfReceive, GfTakes, gfClient, gfProcess, gfHistory
  <2>3. gfHandler'.registered = gfHandler.registered /\ gfHandler'.subscribed
    BY <2>1 DEF Typed, DaemonTyped, Handlers
  <2>4. CapabilitiesAreCurrent' /\ RegistrationIsCurrent'
    BY <2>1, <2>2, <2>3, NothingNew
  <2> QED BY <2>2, <2>3, <2>4 DEF BInv, SubscriptionArrives, Subscribing, MaskIsSet, Known
<1>4. ASSUME NEW type, type # "UPDATE_CALLBACKS", GfReceive(type), UNCHANGED gfInbox,
             NEW map, NEW pending,
             gfHandler' = [gfHandler EXCEPT !.mGfIdsMap = map, !.mGfPendingMessages = pending]
      PROVE  BInv'
  <2>1. gfHandler'.registered = gfHandler.registered
        /\ gfHandler'.subscribed = gfHandler.subscribed
    BY <1>4 DEF Typed, DaemonTyped, Handlers
  <2> QED BY <1>4, <2>1, ReceiptSubscribed DEF GfReceive
<1>5. CASE addGeofences
  BY <1>4, <1>5 DEF addGeofences
<1>6. ASSUME NEW type \in GfTypes \ {"ADD"}, gfSessionRequest(type)
      PROVE  BInv'
  <2>1. type # "UPDATE_CALLBACKS"
    BY DEF GfTypes
  <2> QED BY <1>4, <1>6, <2>1 DEF gfSessionRequest
<1>7. CASE GfListenerReady
  <2>1. /\ gfInbox' = Append(gfInbox, [type |-> "HAL_READY"])
        /\ UNCHANGED <<gfHandler, gfMask, refused, mGeofenceMap>> /\ ~gfUp
    BY <1>7 DEF GfListenerReady, gfClient, gfHistory, gfDaemon
  <2>2. CapabilitiesAreCurrent' /\ ~NoReady'
    BY <2>1, Signals, AppendKeepsCapabilities DEF BInv
  <2> QED BY <2>1, <2>2 DEF BInv, SubscriptionArrives, RegistrationIsCurrent, MaskIsSet, Known
<1>8. CASE GfGivenUp
  <2>1. PICK type \in GfTypes : GfTakes(type)
    BY <1>8 DEF GfGivenUp
  <2>2. type # "UPDATE_CALLBACKS" /\ UNCHANGED gfInbox /\ UNCHANGED gfHandler
    BY <1>8 DEF GfGivenUp, GfTypes, gfDaemon
  <2> QED BY <2>1, <2>2, ReceiptSubscribed
<1> QED BY <1>1, <1>2, <1>3, <1>5, <1>6, <1>7, <1>8 DEF GfService

\* What LocationAPI does leaves the registration, and tells of capabilities only who has
\* registered.
LEMMA EngineSubscribed ==
  ASSUME Typed, BInv, NEW m \in ClientMsgs, gfInbox' = Append(gfInbox, m),
         m.type # "HAL_READY", m.type = "CAPABILITIES" => gfHandler.registered,
         gfHandler'.registered = gfHandler.registered,
         gfHandler'.subscribed = gfHandler.subscribed,
         UNCHANGED <<gfClient, gfToDaemon, gfProcess, refused>>
  PROVE  BInv'
<1>1. UNCHANGED <<gfRegistered, gfUp, gfMask, mGeofenceMap>>
  BY DEF gfClient, gfProcess
<1>2. CapabilitiesAreCurrent' /\ (NoReady' => NoReady)
  BY <1>1, AppendKeepsCapabilities DEF BInv
<1> QED BY <1>1, <1>2 DEF BInv, SubscriptionArrives, Subscribing, RegistrationIsCurrent,
        MaskIsSet, Known

LEMMA AnswerSubscribed ==
  ASSUME Typed, BInv, gfCalls # <<>>, NEW c, NEW n \in Nat, NEW ids \in [1..n -> FenceIds],
         NEW oks \in [1..n -> BOOLEAN], GfRespond(c, ids, oks)
  PROVE  BInv'
<1> DEFINE to == Head(gfHandler.mGfPendingMessages)
           resp == [i \in DOMAIN ids |-> [id |-> ids[i], ok |-> oks[i]]]
           m == [type |-> "RESPONSE", to |-> to, resp |-> resp]
<1>1. gfInbox' = Append(gfInbox, m) /\ UNCHANGED <<gfClient, gfToDaemon, gfProcess, refused>>
  BY DEF GfRespond
<1>2. gfHandler'.registered = gfHandler.registered
      /\ gfHandler'.subscribed = gfHandler.subscribed
  BY DEF GfRespond, Typed, DaemonTyped, Handlers
<1>3. resp \in Seq(Results)
  <2>1. \A i \in 1..n : [id |-> ids[i], ok |-> oks[i]] \in Results
    BY DEF Results
  <2>2. resp \in [1..n -> Results]
    BY <2>1
  <2> HIDE DEF resp
  <2> QED BY <2>2, FunctionIsSeq
<1> HIDE DEF resp
<1>4. m \in ClientMsgs /\ m.type = "RESPONSE"
  BY <1>3, FirstCallTyped DEF ClientMsgs, Typed
<1> HIDE DEF m
<1> QED BY <1>1, <1>2, <1>4, EngineSubscribed

LEMMA OtherStepsSubscribed ==
  ASSUME Typed, BInv,
         GfAnswer \/ GfCrash \/ (\E s \in DOMAIN engineFences : onGeofenceBreachCb(s))
  PROVE  BInv'
<1>1. CASE onAddedGeofences
  <2>1. PICK n \in Nat : n = Len(Head(gfCalls).fences)
    <3>1. Head(gfCalls) \in AddCalls
      <4>1. Head(gfCalls) \in AddCalls \cup ChangeCalls /\ Head(gfCalls).type = "ADD"
        BY <1>1, FirstCallTyped DEF onAddedGeofences, Typed
      <4> QED BY <4>1 DEF ChangeCalls
    <3>2. Head(gfCalls).fences \in Seq(AddEntries)
      BY <3>1 DEF AddCalls
    <3> QED BY <3>2, LenProperties
  <2>2. PICK oks \in [1..n -> GfResults], ids \in [1..n -> FenceIds] :
           GfRespond(Head(gfCalls), ids, oks)
    BY <1>1, <2>1 DEF onAddedGeofences
  <2>3. oks \in [1..n -> BOOLEAN] /\ gfCalls # <<>>
    BY <1>1, GfResultsAssumption DEF onAddedGeofences
  <2> QED BY <2>2, <2>3, AnswerSubscribed
<1>2. CASE onChangedGeofence
  <2>1. PICK ok \in BOOLEAN, id \in getClientId(Head(gfCalls).session) :
           GfRespond(Head(gfCalls), <<id>>, <<ok>>)
    BY <1>2, GfResultsAssumption DEF onChangedGeofence
  <2>2. id \in FenceIds /\ gfCalls # <<>>
    BY <1>2, ClientIdTyped DEF onChangedGeofence, Typed
  <2>3. <<id>> \in [1..1 -> FenceIds] /\ <<ok>> \in [1..1 -> BOOLEAN] /\ 1 \in Nat
    BY <2>2
  <2> QED BY <2>1, <2>2, <2>3, AnswerSubscribed
<1>3. CASE GfCapabilitiesCb
  <2>1. /\ gfInbox' = Append(gfInbox, [type |-> "CAPABILITIES"]) /\ gfHandler.registered
        /\ gfHandler' = [gfHandler EXCEPT !.capable = TRUE]
        /\ UNCHANGED <<gfClient, gfToDaemon, gfProcess, refused>>
    BY <1>3 DEF GfCapabilitiesCb, gfHistory
  <2>2. gfHandler'.registered = gfHandler.registered
        /\ gfHandler'.subscribed = gfHandler.subscribed
    BY <2>1 DEF Typed, DaemonTyped, Handlers
  <2> QED BY <2>1, <2>2, Signals, EngineSubscribed
<1>4. ASSUME NEW s \in DOMAIN engineFences, onGeofenceBreachCb(s)
      PROVE  BInv'
  <2>1. PICK id \in getClientId(s) : gfInbox' = Append(gfInbox, [type |-> "BREACH", id |-> id])
    BY <1>4 DEF onGeofenceBreachCb
  <2>2. [type |-> "BREACH", id |-> id] \in ClientMsgs
    BY ClientIdTyped DEF ClientMsgs, Typed
  <2>3. UNCHANGED <<gfClient, gfToDaemon, gfProcess, refused, gfHandler>>
    BY <1>4 DEF onGeofenceBreachCb, gfDaemon
  <2> QED BY <2>1, <2>2, <2>3, EngineSubscribed
<1>5. CASE GfCrash
  BY <1>5 DEF GfCrash, BInv, CapabilitiesAreCurrent, RegistrationIsCurrent, SubscriptionArrives,
     MaskIsSet, gfClient, Known
<1> QED BY <1>1, <1>2, <1>3, <1>4, <1>5 DEF GfAnswer

LEMMA InitSubscribed == GfInit => BInv
<1> SUFFICES ASSUME GfInit PROVE BInv
  OBVIOUS
<1>1. CapabilitiesAreCurrent
  BY DEF GfInit, CapabilitiesAreCurrent
<1>2. Known = {}
  BY DEF GfInit, Known
<1> QED BY <1>1, <1>2 DEF GfInit, BInv, RegistrationIsCurrent, SubscriptionArrives, MaskIsSet

LEMMA NextSubscribed == Typed /\ BInv /\ [GfNext]_gfVars => BInv'
<1> SUFFICES ASSUME Typed, BInv, [GfNext]_gfVars PROVE BInv'
  OBVIOUS
<1>1. CASE SessionMovesFlag \/ UNCHANGED gfVars
  <2>1. UNCHANGED <<gfRegistered, gfUp, gfMask, mGeofenceMap, gfInbox, gfHandler, gfToDaemon,
                    refused>>
    BY <1>1 DEF SessionMovesFlag, gfVars, gfClient, gfProcess, gfDaemon, gfHistory
  <2>2. CapabilitiesAreCurrent' /\ RegistrationIsCurrent' /\ NoReady' = NoReady
    BY <2>1, NothingNew
  <2> QED BY <2>1, <2>2 DEF BInv, SubscriptionArrives, Subscribing, MaskIsSet, Known
<1> QED BY <1>1, CallSubscribed, TaskSubscribed, ServiceSubscribed, OtherStepsSubscribed DEF GfNext

LEMMA SettledIsSubscribed == BInv => BreachesAreReported
<1> SUFFICES ASSUME BInv, GfSettled, Known \ refused # {}
             PROVE  gfHandler.subscribed /\ gfMask
  BY DEF BreachesAreReported
<1>1. gfUp /\ gfRegistered /\ Len(gfInbox) = 0 /\ Len(gfToDaemon) = 0
  BY DEF GfSettled
<1>2. NoReady /\ gfMask
  BY <1>1 DEF NoReady, BInv, MaskIsSet
<1> QED BY <1>1, <1>2 DEF BInv, SubscriptionArrives, Subscribing

\* However often the daemon crashes and however its messages and the client's cross, a client
\* with geofences the daemon was told of is subscribed to their breaches once all have settled
\* (LocationClientApiImpl.cpp:2077-2167, 3314-3328, 3563-3565).
THEOREM ClientsAreSubscribed == GfSpec => []BreachesAreReported
<1>1. Typed /\ BInv /\ [GfNext]_gfVars => Typed' /\ BInv'
  BY NextTyped, NextSubscribed
<1>2. GfInit => Typed /\ BInv
  BY InitTyped, InitSubscribed
<1> QED BY <1>1, <1>2, SettledIsSubscribed, PTL DEF GfSpec

-----------------------------------------------------------------------------
(* What the messages and calls are about.                                  *)
(*                                                                         *)
(* The rest of the proofs looks at a queue only through the sets below:    *)
(* what all its messages are about, and whether two are about the same.    *)

IdsOf(entries) == {entries[i].id : i \in 1..Len(entries)}

\* The geofences of a message.
About(m) == IF m.type = "ADD" THEN IdsOf(m.fences)
            ELSE IF m.type \in {"REMOVE", "MODIFY", "PAUSE"} THEN {m.id}
            ELSE IF m.type = "RESPONSE" THEN IdsOf(m.resp)
            ELSE {}

\* The geofences a message for the application names.
Told(m) == IF m.type = "BREACH" THEN {m.id} ELSE About(m)

\* The geofences that go with a response.
Erased(m) == IF m.type # "RESPONSE" THEN {}
             ELSE {m.resp[i].id : i \in {j \in 1..Len(m.resp) : m.to = "REMOVE" \/ ~m.resp[j].ok}}

\* The geofences a message adds, and those it adds twice.
Added(m) == IF m.type = "ADD" THEN IdsOf(m.fences) ELSE {}

Twice(m) ==
    IF m.type # "ADD" THEN {}
    ELSE {m.fences[i].id : i \in {j \in 1..Len(m.fences) :
              \E k \in 1..Len(m.fences) : k # j /\ m.fences[k].id = m.fences[j].id}}

Modified(m) == IF m.type = "MODIFY" THEN {m.id} ELSE {}

\* The ids, areas and options in a message.
Entries(m) == IF m.type = "ADD" THEN {m.fences[i] : i \in 1..Len(m.fences)}
              ELSE IF m.type = "MODIFY" THEN {[id |-> m.id, of |-> m.id, opt |-> m.opt]}
              ELSE {}

\* The sessions a call begins, and the one it is about.
Begun(c) == IF c.type = "ADD" THEN c.session..c.session + Len(c.fences) - 1 ELSE {}
Changed(c) == IF c.type # "ADD" /\ c.session # 0 THEN {c.session} ELSE {}

\* The sessions of a call with their ids, areas and options, and those it modifies.
Opened(c) ==
    IF c.type # "ADD" THEN {}
    ELSE {[id |-> c.fences[k].id, session |-> c.session + k - 1,
           of |-> c.fences[k].of, opt |-> c.fences[k].opt] : k \in 1..Len(c.fences)}
Updates(c) == IF c.type = "MODIFY" THEN {[session |-> c.session, opt |-> c.opt]} ELSE {}

Of(kind, m) == IF kind = "about" THEN About(m)
               ELSE IF kind = "told" THEN Told(m)
               ELSE IF kind = "erased" THEN Erased(m)
               ELSE IF kind = "added" THEN Added(m)
               ELSE IF kind = "twice" THEN Twice(m)
               ELSE IF kind = "modified" THEN Modified(m)
               ELSE IF kind = "entries" THEN Entries(m)
               ELSE IF kind = "sessions" THEN Begun(m) \cup Changed(m)
               ELSE IF kind = "begun" THEN Begun(m)
               ELSE IF kind = "changed" THEN Changed(m)
               ELSE IF kind = "opened" THEN Opened(m)
               ELSE Updates(m)

All(kind, q) == UNION {Of(kind, q[i]) : i \in 1..Len(q)}

\* No two messages are about the same.
Apart(kind, q) ==
    \A i, j \in 1..Len(q) : i # j => Of(kind, q[i]) \cap Of(kind, q[j]) = {}

LEMMA Kinds ==
  ASSUME NEW m
  PROVE  /\ Of("about", m) = About(m) /\ Of("told", m) = Told(m)
         /\ Of("erased", m) = Erased(m) /\ Of("added", m) = Added(m)
         /\ Of("twice", m) = Twice(m) /\ Of("modified", m) = Modified(m)
         /\ Of("entries", m) = Entries(m)
         /\ Of("sessions", m) = Begun(m) \cup Changed(m)
         /\ Of("begun", m) = Begun(m) /\ Of("changed", m) = Changed(m)
         /\ Of("opened", m) = Opened(m) /\ Of("updates", m) = Updates(m)
  BY DEF Of

LEMMA InAll ==
  ASSUME NEW kind, NEW q, NEW x
  PROVE  x \in All(kind, q) <=> \E i \in 1..Len(q) : x \in Of(kind, q[i])
  BY DEF All

LEMMA AllJoined ==
  ASSUME NEW kind, NEW S, NEW q \in Seq(S), NEW r \in Seq(S)
  PROVE  /\ All(kind, q \o r) = All(kind, q) \cup All(kind, r)
         /\ Apart(kind, q) /\ Apart(kind, r) /\ All(kind, q) \cap All(kind, r) = {}
              => Apart(kind, q \o r)
<1> DEFINE n == Len(q)
           l == Len(r)
           p == q \o r
<1>1. n \in Nat /\ l \in Nat /\ Len(p) = n + l
      /\ \A i \in 1..n + l : p[i] = IF i =< n THEN q[i] ELSE r[i - n]
  BY LenProperties, ConcatProperties
<1> HIDE DEF n, l, p
<1>2. \A i \in 1..n : i \in 1..n + l /\ p[i] = q[i]
  <2> TAKE i \in 1..n
  <2>1. i \in 1..n + l /\ i =< n
    BY <1>1
  <2> QED BY <1>1, <2>1, Zenon
<1>3. \A i \in 1..n + l : i \notin 1..n => i - n \in 1..l /\ p[i] = r[i - n]
  <2> TAKE i \in 1..n + l
  <2> HAVE i \notin 1..n
  <2>1. i - n \in 1..l /\ ~ (i =< n)
    BY <1>1
  <2> QED BY <1>1, <2>1, Zenon
<1>4. \A i \in 1..l : n + i \in 1..n + l /\ p[n + i] = r[i]
  <2> TAKE i \in 1..l
  <2>1. n + i \in 1..n + l /\ n + i \notin 1..n /\ (n + i) - n = i
    BY <1>1
  <2>2. p[n + i] = r[(n + i) - n]
    BY <1>3, <2>1
  <2> QED BY <2>1, <2>2
<1>5. ASSUME NEW x
      PROVE  x \in All(kind, p) <=> x \in All(kind, q) \/ x \in All(kind, r)
  <2>1. ASSUME NEW i \in 1..n, x \in Of(kind, q[i])
        PROVE  x \in All(kind, p)
    BY <1>1, <1>2, <2>1, InAll
  <2>2. ASSUME NEW i \in 1..l, x \in Of(kind, r[i])
        PROVE  x \in All(kind, p)
    BY <1>1, <1>4, <2>2, InAll
  <2>3. ASSUME NEW i \in 1..n + l, x \in Of(kind, p[i])
        PROVE  x \in All(kind, q) \/ x \in All(kind, r)
    <3>1. CASE i \in 1..n
      <4>1. x \in Of(kind, q[i])
        BY <1>2, <2>3, <3>1
      <4> QED BY <3>1, <4>1, InAll DEF n
    <3>2. CASE i \notin 1..n
      <4>1. i - n \in 1..l /\ x \in Of(kind, r[i - n])
        BY <1>3, <2>3, <3>2
      <4> QED BY <4>1, InAll DEF l
    <3> QED BY <3>1, <3>2
  <2> QED BY <1>1, <2>1, <2>2, <2>3, InAll DEF n, l
<1>6. ASSUME Apart(kind, q), Apart(kind, r), All(kind, q) \cap All(kind, r) = {}
      PROVE  Apart(kind, p)
  <2> SUFFICES ASSUME NEW i \in 1..n + l, NEW j \in 1..n + l, i # j, NEW x,
                      x \in Of(kind, p[i]), x \in Of(kind, p[j])
               PROVE  FALSE
    BY <1>1 DEF Apart
  <2>1. CASE i \in 1..n /\ j \in 1..n
    BY <1>2, <1>6, <2>1 DEF Apart, n
  <2>2. CASE i \notin 1..n /\ j \notin 1..n
    <3>1. i - n \in 1..l /\ j - n \in 1..l /\ i - n # j - n
      BY <1>1, <1>3, <2>2
    <3>2. x \in Of(kind, r[i - n]) /\ x \in Of(kind, r[j - n])
      BY <1>3, <2>2
    <3> QED BY <1>6, <3>1, <3>2 DEF Apart, l
  <2>3. ASSUME NEW a \in 1..n + l, NEW b \in 1..n + l, a \in 1..n, b \notin 1..n,
               x \in Of(kind, p[a]), x \in Of(kind, p[b])
        PROVE  FALSE
    <3>1. x \in Of(kind, q[a]) /\ b - n \in 1..l /\ x \in Of(kind, r[b - n])
      BY <1>2, <1>3, <2>3
    <3>2. x \in All(kind, q) /\ x \in All(kind, r)
      BY <2>3, <3>1, InAll DEF n, l
    <3> QED BY <1>6, <3>2
  <2> QED BY <2>1, <2>2, <2>3
<1> QED BY <1>5, <1>6 DEF p

LEMMA AllOfOne ==
  ASSUME NEW kind, NEW m
  PROVE  All(kind, <<m>>) = Of(kind, m) /\ Apart(kind, <<m>>)
<1>1. Len(<<m>>) = 1 /\ <<m>>[1] = m /\ 1..1 = {1}
  OBVIOUS
<1> QED BY <1>1 DEF All, Apart

LEMMA AllOfNone ==
  ASSUME NEW kind
  PROVE  All(kind, <<>>) = {} /\ Apart(kind, <<>>)
<1>1. Len(<<>>) = 0 /\ 1..0 = {}
  OBVIOUS
<1> QED BY <1>1 DEF All, Apart

LEMMA AllAppended ==
  ASSUME NEW kind, NEW S, NEW q \in Seq(S), NEW m \in S
  PROVE  /\ All(kind, Append(q, m)) = All(kind, q) \cup Of(kind, m)
         /\ Apart(kind, q) /\ All(kind, q) \cap Of(kind, m) = {} => Apart(kind, Append(q, m))
<1>1. Append(q, m) = q \o <<m>> /\ <<m>> \in Seq(S)
  OBVIOUS
<1>2. /\ All(kind, q \o <<m>>) = All(kind, q) \cup All(kind, <<m>>)
      /\ Apart(kind, q) /\ Apart(kind, <<m>>) /\ All(kind, q) \cap All(kind, <<m>>) = {}
            => Apart(kind, q \o <<m>>)
  BY <1>1, AllJoined, Zenon
<1>3. All(kind, <<m>>) = Of(kind, m) /\ Apart(kind, <<m>>)
  BY AllOfOne
<1> QED BY <1>1, <1>2, <1>3, Zenon

LEMMA AllTaken ==
  ASSUME NEW kind, NEW S, NEW q \in Seq(S), q # <<>>
  PROVE  /\ All(kind, q) = All(kind, Tail(q)) \cup Of(kind, Head(q))
         /\ Apart(kind, q) => /\ Apart(kind, Tail(q))
                              /\ All(kind, Tail(q)) \cap Of(kind, Head(q)) = {}
<1> DEFINE n == Len(q)
           p == Tail(q)
<1>1. n \in Nat \ {0} /\ Len(p) = n - 1 /\ Head(q) = q[1]
      /\ \A i \in 1..n - 1 : p[i] = q[i + 1]
  <2>1. Head(q) = q[1] /\ n \in Nat \ {0}
    BY EmptySeq
  <2> QED BY <2>1, HeadTailProperties
<1> HIDE DEF n, p
<1>2. ASSUME NEW x
      PROVE  x \in All(kind, q) <=> x \in All(kind, p) \/ x \in Of(kind, q[1])
  <2>1. ASSUME NEW i \in 1..n, x \in Of(kind, q[i]), i # 1
        PROVE  x \in All(kind, p)
    <3>1. i - 1 \in 1..n - 1 /\ (i - 1) + 1 = i
      BY <1>1, <2>1
    <3>2. x \in Of(kind, p[i - 1])
      BY <1>1, <2>1, <3>1
    <3> QED BY <1>1, <3>1, <3>2, InAll
  <2>2. ASSUME NEW i \in 1..n - 1, x \in Of(kind, p[i])
        PROVE  x \in All(kind, q)
    <3>1. i + 1 \in 1..n /\ x \in Of(kind, q[i + 1])
      BY <1>1, <2>2
    <3> QED BY <3>1, InAll DEF n
  <2>3. 1 \in 1..n
    BY <1>1
  <2> QED BY <1>1, <2>1, <2>2, <2>3, InAll DEF n
<1>3. ASSUME Apart(kind, q)
      PROVE  Apart(kind, p) /\ All(kind, p) \cap Of(kind, q[1]) = {}
  <2>0. \A i \in 1..n - 1 : i + 1 \in 1..n /\ i + 1 # 1
    BY <1>1
  <2>1. \A i \in 1..n - 1 : i + 1 \in 1..n /\ i + 1 # 1 /\ p[i] = q[i + 1]
    BY <1>1, <2>0, Zenon
  <2>2. \A i, j \in 1..n - 1 : i # j => i + 1 # j + 1
    BY <1>1
  <2>3. Apart(kind, p)
    <3>1. \A i, j \in 1..n : i # j => Of(kind, q[i]) \cap Of(kind, q[j]) = {}
      BY <1>3 DEF Apart, n
    <3>2. Len(p) = n - 1
      BY <1>1
    <3> SUFFICES ASSUME NEW i \in 1..n - 1, NEW j \in 1..n - 1, i # j
                 PROVE  Of(kind, p[i]) \cap Of(kind, p[j]) = {}
      BY <3>2 DEF Apart
    <3>3. /\ i + 1 \in 1..n /\ p[i] = q[i + 1]
          /\ j + 1 \in 1..n /\ p[j] = q[j + 1]
      BY <2>1, Zenon
    <3>4. i + 1 # j + 1
      BY <2>2, Zenon
    <3>5. Of(kind, q[i + 1]) \cap Of(kind, q[j + 1]) = {}
      BY <3>1, <3>3, <3>4, Zenon
    <3> QED BY <3>3, <3>5
  <2>4. ASSUME NEW i \in 1..n - 1
        PROVE  Of(kind, p[i]) \cap Of(kind, q[1]) = {}
    <3>1. 1 \in 1..n
      BY <1>1
    <3> QED BY <1>3, <2>1, <3>1 DEF Apart, n
  <2> QED BY <1>1, <2>3, <2>4, InAll
<1> QED BY <1>1, <1>2, <1>3 DEF p

-----------------------------------------------------------------------------
(* The order of the messages for the client.                               *)
(*                                                                         *)
(* Capabilities and answers that a HAL_READY follows come from a daemon    *)
(* that is gone.                                                           *)

Has(q, type) == \E i \in 1..Len(q) : q[i].type = type

IsRenewed(q, k) == \E j \in 1..Len(q) : j > k /\ q[j].type = "HAL_READY"

HasOldCapabilities(q, up) ==
    \E k \in 1..Len(q) : q[k].type = "CAPABILITIES" /\ (up => IsRenewed(q, k))

AnswersAreOld(q) ==
    \A k \in 1..Len(q) : q[k].type \in {"RESPONSE", "BREACH"} => IsRenewed(q, k)

ReadyOnce(q) ==
    \A i, j \in 1..Len(q) : q[i].type = "HAL_READY" /\ q[j].type = "HAL_READY" => i = j

\* A geofence that goes with an answer is not named afterwards.
ErasedLast(q) ==
    \A i, j \in 1..Len(q) : i < j => Of("erased", q[i]) \cap Of("told", q[j]) = {}

-----------------------------------------------------------------------------
(* The invariant of the maps, for behaviours without troubles.             *)

Map == gfHandler.mGfIdsMap

Sent(kind) == All(kind, gfToDaemon)
Due(kind) == All(kind, gfInbox)
Open(kind) == All(kind, gfCalls)

\* The client is registered with the daemon that is up.
Live == gfUp /\ gfRegistered /\ ~Has(gfInbox, "HAL_READY")

MessagesAreKnown ==
    /\ ~gfAborted
    /\ Due("told") \subseteq Known
    /\ ErasedLast(gfInbox)
    /\ Apart("about", gfInbox)

\* Nothing that is sent about geofences reaches a handler.
Unheard ==
    \A i \in 1..Len(gfToDaemon) : gfToDaemon[i].type \in GfTypes =>
        /\ ~gfHandler.registered
        /\ \A j \in 1..Len(gfToDaemon) : j < i => gfToDaemon[j].type # "REGISTER"

Idle == Map = <<>> /\ engineFences = <<>> /\ gfCalls = <<>> /\ Unheard

\* The client takes a daemon that is gone for the one it is registered with.
Stale ==
    /\ ~gfUp \/ Has(gfInbox, "HAL_READY")
    /\ gfRegistered \/ HasOldCapabilities(gfInbox, gfUp)

\* Then it is not about to register, and the daemon that is up has not seen it.
StaleIsUnheard ==
    Stale =>
        /\ ~Has(gfInbox, "REGISTER")
        /\ ~gfUp => ~Has(gfInbox, "HAL_READY")
        /\ gfUp => /\ ~gfHandler.registered /\ ~Has(gfToDaemon, "REGISTER")
                   /\ ReadyOnce(gfInbox)

Down == ~gfUp => gfHandler = NoGfHandler /\ gfToDaemon = <<>>

Calm ==
    /\ Live \/ Idle
    /\ StaleIsUnheard
    /\ gfUp /\ ~Live => AnswersAreOld(gfInbox)
    /\ Down

\* The geofences a call is about, the ids without a session, and the calls without one.
InCall == {g \in DOMAIN Map : Map[g] = 0 \/ Map[g] \in Open("sessions")}
Zeros == {g \in DOMAIN Map : Map[g] = 0}
ZeroCalls == {i \in 1..Len(gfCalls) : gfCalls[i].session = 0}

\* Every geofence awaited is the subject of one message or call at most.
Separate ==
    /\ Apart("about", gfToDaemon) /\ Apart("sessions", gfCalls)
    /\ Sent("about") \cap InCall = {} /\ Sent("about") \cap Due("about") = {}
    /\ InCall \cap Due("about") = {}
    /\ Sent("about") \cup InCall \cup Due("about") \subseteq awaited \cap Known
    /\ Cardinality(Zeros) = Cardinality(ZeroCalls)

\* The geofences of the client are those of the handler's map, or on their way from the one
\* to the other; and the map leads to the sessions of the engine.
Placed ==
    /\ Known \ refused \subseteq DOMAIN Map \cup Sent("added") \cup Due("erased")
    /\ DOMAIN Map \subseteq Known
    /\ DOMAIN Map \cap Sent("added") = {}
    /\ DOMAIN Map \cap Due("erased") = {}
    /\ Sent("added") \cap refused = {}
    /\ \A g, h \in DOMAIN Map : Map[g] = Map[h] /\ Map[g] # 0 => g = h
    /\ \A g \in DOMAIN Map : Map[g] # 0 =>
          g \notin refused /\ Map[g] \in DOMAIN engineFences \cup Open("begun")
    /\ \A s \in DOMAIN engineFences \cup Open("sessions") : \E g \in DOMAIN Map : Map[g] = s
    /\ DOMAIN engineFences \cap Open("begun") = {}
    /\ Open("changed") \subseteq DOMAIN engineFences

\* The options in the messages and calls are the client's, and so are the engine's unless
\* a modification is on its way.
Current ==
    /\ Sent("twice") = {}
    /\ \A e \in Sent("entries") : e.id = e.of /\ e.opt = mGeofenceMap[e.id]
    /\ \A o \in Open("opened") :
          /\ o.id \in DOMAIN Map /\ Map[o.id] = o.session
          /\ o.of = o.id /\ o.opt = mGeofenceMap[o.id]
    /\ \A u \in Open("updates") : \A g \in DOMAIN Map :
          Map[g] = u.session /\ u.session # 0 => u.opt = mGeofenceMap[g]
    /\ \A g \in DOMAIN Map : Map[g] \in DOMAIN engineFences =>
          /\ engineFences[Map[g]].of = g
          /\ \/ engineFences[Map[g]].opt = mGeofenceMap[g]
             \/ g \in Sent("modified")
             \/ \E u \in Open("updates") : u.session = Map[g]

Matched == Separate /\ Placed /\ Current

\* The geofences have the numbers of those made so far.
GfNumbers ==
    /\ Known \subseteq 1..made /\ refused \subseteq 1..made
    /\ \A i \in 1..Len(mLastAddedClientIds) : mLastAddedClientIds[i] \in 1..made \ refused

GInv ==
    /\ GfNumbers
    /\ troubles = {} => MessagesAreKnown /\ Calm /\ (Live => Matched)

-----------------------------------------------------------------------------
(* Messages that are taken from the client's inbox *)

MsgKinds == {"about", "told", "erased", "added", "twice", "modified", "entries"}

LEMMA SilentMsgs ==
  ASSUME NEW m, m.type \in {"REGISTER", "UPDATE_CALLBACKS", "HAL_READY", "CAPABILITIES"}
  PROVE  \A kind \in MsgKinds : Of(kind, m) = {}
<1>1. m.type \notin {"ADD", "REMOVE", "MODIFY", "PAUSE", "RESPONSE", "BREACH"}
  OBVIOUS
<1>2. About(m) = {} /\ Erased(m) = {} /\ Added(m) = {} /\ Twice(m) = {} /\ Modified(m) = {}
      /\ Entries(m) = {}
  BY <1>1 DEF About, Erased, Added, Twice, Modified, Entries
<1>3. Told(m) = {}
  BY <1>1, <1>2 DEF Told
<1> QED BY <1>2, <1>3, Kinds DEF MsgKinds

\* p has the messages of q but the first, in the order e, and the registration besides.
Remains(p, q, e) ==
    /\ \A i \in 1..Len(p) :
          \/ e[i] = 0 /\ p[i] = [type |-> "REGISTER"]
          \/ e[i] \in 2..Len(q) /\ p[i] = q[e[i]]
    /\ \A i, j \in 1..Len(p) : i < j /\ e[i] # 0 /\ e[j] # 0 => e[i] < e[j]
    /\ \A k \in 2..Len(q) : \E i \in 1..Len(p) : e[i] = k

LEMMA TailRemains ==
  ASSUME NEW q \in Seq(ClientMsgs), q # <<>>
  PROVE  Tail(q) \in Seq(ClientMsgs) /\ \E e : Remains(Tail(q), q, e)
<1> DEFINE p == Tail(q)
           n == Len(q)
           e == [i \in 1..n - 1 |-> i + 1]
<1>1. n \in Nat \ {0} /\ p \in Seq(ClientMsgs) /\ Len(p) = n - 1
      /\ \A i \in 1..n - 1 : p[i] = q[i + 1]
  <2>1. n \in Nat \ {0}
    BY EmptySeq
  <2> QED BY <2>1, HeadTailProperties
<1> HIDE DEF p, n
<1>2. \A i \in 1..n - 1 : e[i] = i + 1 /\ i + 1 \in 2..n
  BY <1>1
<1>3. \A i \in 1..n - 1 : p[i] = q[e[i]]
  BY <1>1, <1>2, Zenon
<1>4. \A i, j \in 1..n - 1 : i < j => e[i] < e[j]
  BY <1>1, <1>2
<1>5. ASSUME NEW k \in 2..n
      PROVE  \E i \in 1..n - 1 : e[i] = k
  <2>1. k - 1 \in 1..n - 1 /\ (k - 1) + 1 = k
    BY <1>1
  <2> QED BY <1>2, <2>1
<1> HIDE DEF e
<1>6. /\ \A i \in 1..Len(p) : e[i] \in 2..Len(q) /\ p[i] = q[e[i]]
      /\ \A i, j \in 1..Len(p) : i < j => e[i] < e[j]
      /\ \A k \in 2..Len(q) : \E i \in 1..Len(p) : e[i] = k
  <2>1. Len(p) = n - 1 /\ Len(q) = n
    BY <1>1 DEF n
  <2>2. \A i \in 1..Len(p) : e[i] \in 2..Len(q) /\ p[i] = q[e[i]]
    <3>1. \A i \in 1..n - 1 : e[i] \in 2..n
      BY <1>2
    <3> QED BY <1>3, <2>1, <3>1
  <2>3. \A i, j \in 1..Len(p) : i < j => e[i] < e[j]
    BY <1>4, <2>1
  <2>4. \A k \in 2..Len(q) : \E i \in 1..Len(p) : e[i] = k
    BY <1>5, <2>1
  <2> QED BY <2>2, <2>3, <2>4
<1>7. Remains(p, q, e)
  BY <1>6 DEF Remains
<1> QED BY <1>1, <1>7 DEF p

LEMMA InsertedRemains ==
  ASSUME NEW q \in Seq(ClientMsgs), q # <<>>, NEW k \in 1..Len(q)
  PROVE  /\ InsertAt(Tail(q), k, [type |-> "REGISTER"]) \in Seq(ClientMsgs)
         /\ \E e : Remains(InsertAt(Tail(q), k, [type |-> "REGISTER"]), q, e)
<1> DEFINE r == Tail(q)
           n == Len(q)
           m == [type |-> "REGISTER"]
           p == InsertAt(r, k, m)
           e == [i \in 1..n |-> IF i < k THEN i + 1 ELSE IF i = k THEN 0 ELSE i]
<1>1. n \in Nat \ {0} /\ r \in Seq(ClientMsgs) /\ Len(r) = n - 1
      /\ \A i \in 1..n - 1 : r[i] = q[i + 1]
  <2>1. n \in Nat \ {0}
    BY EmptySeq
  <2> QED BY <2>1, HeadTailProperties
<1>2. m \in ClientMsgs
  BY Signals
<1> HIDE DEF r, n, m, p
<1>3. p \in Seq(ClientMsgs) /\ Len(p) = n
      /\ \A i \in 1..n : p[i] = IF i < k THEN r[i] ELSE IF i = k THEN m ELSE r[i - 1]
  <2>0. k \in 1..n
    BY DEF n
  <2>1. k \in 1..Len(r) + 1 /\ Len(r) + 1 = n
    BY <1>1, <2>0
  <2>2. /\ p \in Seq(ClientMsgs) /\ Len(p) = Len(r) + 1
        /\ \A i \in 1..Len(r) + 1 : p[i] = IF i < k THEN r[i] ELSE IF i = k THEN m ELSE r[i - 1]
    BY <1>1, <1>2, <2>1, InsertedIsTyped DEF p
  <2> QED BY <2>1, <2>2, Zenon
<1>4. k \in 1..n
  BY DEF n
<1>5. ASSUME NEW i \in 1..n
      PROVE  \/ e[i] = 0 /\ p[i] = m /\ i = k
             \/ e[i] \in 2..n /\ p[i] = q[e[i]] /\ i # k
  <2>1. CASE i < k
    <3>1. i \in 1..n - 1 /\ i + 1 \in 2..n /\ i # k
      BY <1>1, <1>4, <2>1
    <3>2. e[i] = i + 1 /\ p[i] = r[i] /\ r[i] = q[i + 1]
      BY <1>1, <1>3, <2>1, <3>1, Zenon
    <3> QED BY <3>1, <3>2
  <2>2. CASE i = k
    <3>1. ~ (i < k)
      BY <1>1, <1>4, <2>2
    <3> QED BY <1>3, <2>2, <3>1
  <2>3. CASE ~ (i < k) /\ i # k
    <3>1. i - 1 \in 1..n - 1 /\ (i - 1) + 1 = i /\ i \in 2..n
      BY <1>1, <1>4, <2>3
    <3>2. e[i] = i /\ p[i] = r[i - 1]
      BY <1>3, <2>3, Zenon
    <3> QED BY <1>1, <2>3, <3>1, <3>2
  <2> QED BY <2>1, <2>2, <2>3
<1>6. \A i, j \in 1..n : i < j /\ e[i] # 0 /\ e[j] # 0 => e[i] < e[j]
  BY <1>1, <1>4
<1>7. ASSUME NEW l \in 2..n
      PROVE  \E i \in 1..n : e[i] = l
  <2>1. l \in 1..n /\ l - 1 \in 1..n
    BY <1>1
  <2>2. CASE l > k
    BY <1>1, <1>4, <2>1, <2>2
  <2>3. CASE ~ (l > k)
    <3>1. l - 1 < k /\ (l - 1) + 1 = l
      BY <1>1, <1>4, <2>3
    <3>2. e[l - 1] = l
      BY <2>1, <3>1
    <3> QED BY <2>1, <3>2
  <2> QED BY <2>2, <2>3
<1> HIDE DEF e
<1>8. Remains(p, q, e)
  BY <1>3, <1>5, <1>6, <1>7 DEF Remains, n, m
<1> QED BY <1>3, <1>8 DEF p, m, r

LEMMA RemainsInOrder ==
  ASSUME NEW q \in Seq(ClientMsgs), NEW p \in Seq(ClientMsgs), NEW e, q # <<>>, Remains(p, q, e)
  PROVE  /\ \A up \in BOOLEAN : HasOldCapabilities(p, up) => HasOldCapabilities(q, up)
         /\ AnswersAreOld(q) => AnswersAreOld(p)
         /\ ReadyOnce(q) => ReadyOnce(p) /\ (q[1].type = "HAL_READY" => ~Has(p, "HAL_READY"))
         /\ \A type : type # "REGISTER" =>
               /\ Has(p, type) => Has(q, type)
               /\ Has(q, type) /\ q[1].type # type => Has(p, type)
<1>1. /\ Len(p) \in Nat /\ Len(q) \in Nat \ {0}
      /\ \A i \in 1..Len(p) :
            \/ e[i] = 0 /\ p[i] = [type |-> "REGISTER"]
            \/ e[i] \in 2..Len(q) /\ p[i] = q[e[i]]
  BY EmptySeq, LenProperties DEF Remains
<1>2. \A i, j \in 1..Len(p) : i < j /\ e[i] # 0 /\ e[j] # 0 => e[i] < e[j]
  BY DEF Remains
<1>3. \A k \in 2..Len(q) : \E i \in 1..Len(p) : e[i] = k
  BY DEF Remains
<1>4. \A i \in 1..Len(p) : p[i].type # "REGISTER" =>
         e[i] # 0 /\ e[i] \in 1..Len(q) /\ e[i] # 1 /\ p[i] = q[e[i]]
  BY <1>1
<1>5. ASSUME NEW i \in 1..Len(p), e[i] # 0
      PROVE  IsRenewed(q, e[i]) <=> IsRenewed(p, i)
  <2>1. e[i] \in 2..Len(q)
    BY <1>1, <1>5
  <2>2. ASSUME NEW j \in 1..Len(q), j > e[i], q[j].type = "HAL_READY"
        PROVE  IsRenewed(p, i)
    <3>1. j \in 2..Len(q)
      BY <1>1, <2>1, <2>2
    <3>2. PICK l \in 1..Len(p) : e[l] = j
      BY <1>3, <3>1
    <3>3. e[l] # 0 /\ p[l] = q[j]
      BY <1>1, <3>1, <3>2
    <3>4. l > i
      BY <1>1, <1>2, <1>5, <2>1, <2>2, <3>1, <3>2, <3>3
    <3> QED BY <2>2, <3>3, <3>4 DEF IsRenewed
  <2>3. ASSUME NEW j \in 1..Len(p), j > i, p[j].type = "HAL_READY"
        PROVE  IsRenewed(q, e[i])
    <3>1. e[j] # 0 /\ e[j] \in 1..Len(q) /\ p[j] = q[e[j]]
      BY <1>4, <2>3
    <3>2. e[j] > e[i]
      BY <1>1, <1>2, <1>5, <2>1, <2>3, <3>1
    <3> QED BY <2>3, <3>1, <3>2 DEF IsRenewed
  <2> QED BY <2>2, <2>3 DEF IsRenewed
<1>6. ASSUME NEW up \in BOOLEAN, HasOldCapabilities(p, up)
      PROVE  HasOldCapabilities(q, up)
  <2>1. PICK k \in 1..Len(p) : p[k].type = "CAPABILITIES" /\ (up => IsRenewed(p, k))
    BY <1>6 DEF HasOldCapabilities
  <2>2. e[k] # 0 /\ e[k] \in 1..Len(q) /\ p[k] = q[e[k]]
    BY <1>4, <2>1
  <2> QED BY <1>5, <2>1, <2>2 DEF HasOldCapabilities
<1>7. ASSUME AnswersAreOld(q)
      PROVE  AnswersAreOld(p)
  <2> SUFFICES ASSUME NEW k \in 1..Len(p), p[k].type \in {"RESPONSE", "BREACH"}
               PROVE  IsRenewed(p, k)
    BY DEF AnswersAreOld
  <2>1. e[k] # 0 /\ e[k] \in 1..Len(q) /\ p[k] = q[e[k]]
    BY <1>4
  <2> QED BY <1>5, <1>7, <2>1 DEF AnswersAreOld
<1>8. ASSUME ReadyOnce(q)
      PROVE  ReadyOnce(p) /\ (q[1].type = "HAL_READY" => ~Has(p, "HAL_READY"))
  <2>1. ASSUME NEW i \in 1..Len(p), p[i].type = "HAL_READY", q[1].type = "HAL_READY"
        PROVE  FALSE
    <3>1. e[i] \in 1..Len(q) /\ e[i] # 1 /\ p[i] = q[e[i]] /\ 1 \in 1..Len(q)
      BY <1>1, <1>4, <2>1
    <3> QED BY <1>8, <2>1, <3>1 DEF ReadyOnce
  <2>2. ASSUME NEW i \in 1..Len(p), NEW j \in 1..Len(p),
               p[i].type = "HAL_READY", p[j].type = "HAL_READY"
        PROVE  i = j
    <3>1. /\ e[i] # 0 /\ e[i] \in 1..Len(q) /\ p[i] = q[e[i]]
          /\ e[j] # 0 /\ e[j] \in 1..Len(q) /\ p[j] = q[e[j]]
      BY <1>4, <2>2
    <3>2. e[i] = e[j]
      BY <1>8, <2>2, <3>1 DEF ReadyOnce
    <3> QED BY <1>1, <1>2, <3>1, <3>2
  <2> QED BY <2>1, <2>2 DEF ReadyOnce, Has
<1>9. ASSUME NEW type, type # "REGISTER"
      PROVE  /\ Has(p, type) => Has(q, type)
             /\ Has(q, type) /\ q[1].type # type => Has(p, type)
  <2>1. ASSUME NEW i \in 1..Len(p), p[i].type = type
        PROVE  Has(q, type)
    BY <1>4, <1>9, <2>1 DEF Has
  <2>2. ASSUME NEW j \in 1..Len(q), q[j].type = type, q[1].type # type
        PROVE  Has(p, type)
    <3>1. j \in 2..Len(q)
      BY <1>1, <2>2
    <3>2. PICK l \in 1..Len(p) : e[l] = j
      BY <1>3, <3>1
    <3>3. p[l] = q[j]
      BY <1>1, <3>1, <3>2
    <3> QED BY <2>2, <3>3 DEF Has
  <2> QED BY <2>1, <2>2 DEF Has
<1> QED BY <1>6, <1>7, <1>8, <1>9

LEMMA RemainsAbout ==
  ASSUME NEW q \in Seq(ClientMsgs), NEW p \in Seq(ClientMsgs), NEW e, q # <<>>, Remains(p, q, e)
  PROVE  /\ \A kind \in MsgKinds : All(kind, q) = All(kind, p) \cup Of(kind, q[1])
         /\ Apart("about", q) => /\ Apart("about", p)
                                 /\ All("about", p) \cap Of("about", q[1]) = {}
         /\ ErasedLast(q) => /\ ErasedLast(p)
                             /\ All("told", p) \cap Of("erased", q[1]) = {}
<1>1. /\ Len(p) \in Nat /\ Len(q) \in Nat \ {0} /\ 1 \in 1..Len(q)
      /\ \A i \in 1..Len(p) :
            \/ e[i] = 0 /\ p[i] = [type |-> "REGISTER"]
            \/ e[i] \in 2..Len(q) /\ p[i] = q[e[i]]
  BY EmptySeq, LenProperties DEF Remains
<1>2. \A i, j \in 1..Len(p) : i < j /\ e[i] # 0 /\ e[j] # 0 => e[i] < e[j]
  BY DEF Remains
<1>3. \A k \in 2..Len(q) : \E i \in 1..Len(p) : e[i] = k
  BY DEF Remains
<1>4. ASSUME NEW kind \in MsgKinds, NEW i \in 1..Len(p), NEW x \in Of(kind, p[i])
      PROVE  e[i] # 0 /\ e[i] \in 1..Len(q) /\ e[i] > 1 /\ x \in Of(kind, q[e[i]])
  <2>1. CASE e[i] = 0 /\ p[i] = [type |-> "REGISTER"]
    <3>1. p[i].type = "REGISTER"
      BY <2>1
    <3> QED BY <1>4, <3>1, SilentMsgs
  <2>2. CASE e[i] \in 2..Len(q) /\ p[i] = q[e[i]]
    BY <1>1, <1>4, <2>2
  <2> QED BY <1>1, <2>1, <2>2
<1>5. ASSUME NEW kind \in MsgKinds
      PROVE  All(kind, q) = All(kind, p) \cup Of(kind, q[1])
  <2>1. ASSUME NEW x \in All(kind, p)
        PROVE  x \in All(kind, q)
    BY <1>4, <2>1, InAll
  <2>2. ASSUME NEW j \in 1..Len(q), NEW x \in Of(kind, q[j]), j # 1
        PROVE  x \in All(kind, p)
    <3>1. j \in 2..Len(q)
      BY <1>1, <2>2
    <3>2. PICK l \in 1..Len(p) : e[l] = j
      BY <1>3, <3>1
    <3>3. p[l] = q[j]
      BY <1>1, <3>1, <3>2
    <3> QED BY <2>2, <3>3, InAll
  <2>3. \A x \in Of(kind, q[1]) : x \in All(kind, q)
    BY <1>1, InAll
  <2>4. \A x \in All(kind, q) : x \in All(kind, p) \/ x \in Of(kind, q[1])
    BY <2>2, InAll
  <2> QED BY <2>1, <2>3, <2>4
<1>6. ASSUME Apart("about", q)
      PROVE  Apart("about", p) /\ All("about", p) \cap Of("about", q[1]) = {}
  <2>1. "about" \in MsgKinds
    BY DEF MsgKinds
  <2>2. ASSUME NEW i \in 1..Len(p), NEW j \in 1..Len(p), i # j,
               NEW x \in Of("about", p[i]), x \in Of("about", p[j])
        PROVE  FALSE
    <3>1. /\ e[i] # 0 /\ e[i] \in 1..Len(q) /\ x \in Of("about", q[e[i]])
          /\ e[j] # 0 /\ e[j] \in 1..Len(q) /\ x \in Of("about", q[e[j]])
      BY <1>4, <2>1, <2>2
    <3>2. e[i] # e[j]
      BY <1>1, <1>2, <2>2, <3>1
    <3> QED BY <1>6, <3>1, <3>2 DEF Apart
  <2>3. ASSUME NEW i \in 1..Len(p), NEW x \in Of("about", p[i]), x \in Of("about", q[1])
        PROVE  FALSE
    <3>1. e[i] \in 1..Len(q) /\ e[i] > 1 /\ x \in Of("about", q[e[i]])
      BY <1>4, <2>1, <2>3
    <3>2. 1 \in 1..Len(q) /\ e[i] # 1
      BY <1>1, <3>1
    <3>3. Of("about", q[e[i]]) \cap Of("about", q[1]) = {}
      BY <1>6, <3>1, <3>2 DEF Apart
    <3> QED BY <2>3, <3>1, <3>3
  <2>4. Apart("about", p)
    BY <2>2 DEF Apart
  <2>5. All("about", p) \cap Of("about", q[1]) = {}
    BY <2>3, InAll
  <2> QED BY <2>4, <2>5
<1>7. ASSUME ErasedLast(q)
      PROVE  ErasedLast(p) /\ All("told", p) \cap Of("erased", q[1]) = {}
  <2>1. "told" \in MsgKinds /\ "erased" \in MsgKinds
    BY DEF MsgKinds
  <2>2. ASSUME NEW i \in 1..Len(p), NEW j \in 1..Len(p), i < j,
               NEW x \in Of("erased", p[i]), x \in Of("told", p[j])
        PROVE  FALSE
    <3>1. /\ e[i] # 0 /\ e[i] \in 1..Len(q) /\ x \in Of("erased", q[e[i]])
          /\ e[j] # 0 /\ e[j] \in 1..Len(q) /\ x \in Of("told", q[e[j]])
      BY <1>4, <2>1, <2>2
    <3>2. e[i] < e[j]
      BY <1>2, <2>2, <3>1
    <3> QED BY <1>7, <3>1, <3>2 DEF ErasedLast
  <2>3. ASSUME NEW i \in 1..Len(p), NEW x \in Of("told", p[i]), x \in Of("erased", q[1])
        PROVE  FALSE
    <3>1. e[i] \in 1..Len(q) /\ 1 < e[i] /\ x \in Of("told", q[e[i]])
      BY <1>1, <1>4, <2>1, <2>3
    <3> QED BY <1>1, <1>7, <2>3, <3>1 DEF ErasedLast
  <2>4. ErasedLast(p)
    BY <2>2 DEF ErasedLast
  <2>5. All("told", p) \cap Of("erased", q[1]) = {}
    BY <2>3, InAll
  <2> QED BY <2>4, <2>5
<1> QED BY <1>5, <1>6, <1>7

-----------------------------------------------------------------------------
(* Messages that are added to a queue *)

LEMMA HasAppended ==
  ASSUME NEW S, NEW q \in Seq(S), NEW m \in S, NEW type
  PROVE  Has(Append(q, m), type) <=> Has(q, type) \/ m.type = type
<1> DEFINE p == Append(q, m)
           n == Len(q)
<1>1. n \in Nat /\ Len(p) = n + 1 /\ p[n + 1] = m /\ \A i \in 1..n : p[i] = q[i]
  BY AppendProperties, LenProperties
<1> HIDE DEF p
<1>2. \A i \in 1..n + 1 : i \in 1..n \/ i = n + 1
  BY <1>1
<1>3. n + 1 \in 1..n + 1 /\ \A i \in 1..n : i \in 1..n + 1
  BY <1>1
<1> QED BY <1>1, <1>2, <1>3 DEF Has, p

LEMMA HasJoined ==
  ASSUME NEW S, NEW q \in Seq(S), NEW r \in Seq(S), NEW type, Has(q \o r, type)
  PROVE  Has(q, type) \/ Has(r, type)
<1> DEFINE p == q \o r
           n == Len(q)
<1>1. n \in Nat /\ Len(r) \in Nat /\ Len(p) = n + Len(r)
      /\ \A i \in 1..n + Len(r) : p[i] = IF i =< n THEN q[i] ELSE r[i - n]
  BY LenProperties, ConcatProperties
<1> HIDE DEF p
<1>2. PICK i \in 1..n + Len(r) : p[i].type = type
  BY <1>1 DEF Has, p
<1>3. CASE i =< n
  <2>1. i \in 1..n
    BY <1>1, <1>3
  <2>2. p[i] = q[i]
    BY <1>1, <1>3, Zenon
  <2> QED BY <1>2, <2>1, <2>2 DEF Has
<1>4. CASE ~ (i =< n)
  <2>1. i - n \in 1..Len(r)
    BY <1>1, <1>4
  <2>2. p[i] = r[i - n]
    BY <1>1, <1>4, Zenon
  <2> QED BY <1>2, <2>1, <2>2 DEF Has
<1> QED BY <1>3, <1>4

LEMMA AppendedInOrder ==
  ASSUME NEW q \in Seq(ClientMsgs), NEW m \in ClientMsgs, NEW p, p = Append(q, m)
  PROVE  /\ m.type # "HAL_READY" =>
               (HasOldCapabilities(p, TRUE) => HasOldCapabilities(q, TRUE))
         /\ m.type # "CAPABILITIES" =>
               (HasOldCapabilities(p, TRUE) => HasOldCapabilities(q, FALSE))
         /\ AnswersAreOld(q) /\ m.type \notin {"RESPONSE", "BREACH"} =>
               AnswersAreOld(p)
         /\ m.type = "HAL_READY" => AnswersAreOld(p)
         /\ ReadyOnce(q) /\ m.type # "HAL_READY" => ReadyOnce(p)
         /\ ~Has(q, "HAL_READY") => ReadyOnce(p)
         /\ ErasedLast(q) /\ All("erased", q) \cap Of("told", m) = {} =>
               ErasedLast(p)
<1> DEFINE n == Len(q)
<1>1. n \in Nat /\ Len(p) = n + 1 /\ p[n + 1] = m /\ \A i \in 1..n : p[i] = q[i]
  BY AppendProperties, LenProperties
<1> HIDE DEF n
<1>2. \A i \in 1..n + 1 : (i \in 1..n /\ p[i] = q[i]) \/ (i = n + 1 /\ p[i] = m)
  BY <1>1
<1>3. n + 1 \in 1..n + 1 /\ \A i \in 1..n : i \in 1..n + 1
  BY <1>1
<1>4. \A j \in 1..n : ~ (j > n + 1)
  BY <1>1
<1>5. ASSUME NEW k \in 1..n + 1, m.type # "HAL_READY", IsRenewed(p, k)
      PROVE  k \in 1..n /\ IsRenewed(q, k)
  <2>1. PICK j \in 1..n + 1 : j > k /\ p[j].type = "HAL_READY"
    BY <1>1, <1>5 DEF IsRenewed
  <2>2. j \in 1..n /\ q[j].type = "HAL_READY"
    BY <1>2, <1>5, <2>1
  <2>3. k \in 1..n
    BY <1>2, <1>4, <2>1, <2>2
  <2> QED BY <2>1, <2>2, <2>3 DEF IsRenewed, n
<1>6. ASSUME NEW k \in 1..n, IsRenewed(q, k)
      PROVE  IsRenewed(p, k)
  BY <1>1, <1>3, <1>6 DEF IsRenewed, n
<1>7. ASSUME m.type # "HAL_READY", HasOldCapabilities(p, TRUE)
      PROVE  HasOldCapabilities(q, TRUE)
  <2>1. PICK k \in 1..n + 1 : p[k].type = "CAPABILITIES" /\ IsRenewed(p, k)
    BY <1>1, <1>7 DEF HasOldCapabilities
  <2>2. k \in 1..n /\ IsRenewed(q, k)
    BY <1>2, <1>5, <1>7, <2>1
  <2>3. q[k].type = "CAPABILITIES"
    BY <1>1, <2>1, <2>2
  <2> QED BY <2>2, <2>3 DEF HasOldCapabilities, n
<1>8. ASSUME m.type # "CAPABILITIES", HasOldCapabilities(p, TRUE)
      PROVE  HasOldCapabilities(q, FALSE)
  <2>1. PICK k \in 1..n + 1 : p[k].type = "CAPABILITIES"
    BY <1>1, <1>8 DEF HasOldCapabilities
  <2>2. k \in 1..n /\ q[k].type = "CAPABILITIES"
    BY <1>2, <1>8, <2>1
  <2> QED BY <2>2 DEF HasOldCapabilities, n
<1>9. ASSUME AnswersAreOld(q), m.type \notin {"RESPONSE", "BREACH"}
      PROVE  AnswersAreOld(p)
  <2> SUFFICES ASSUME NEW k \in 1..n + 1, p[k].type \in {"RESPONSE", "BREACH"}
               PROVE  IsRenewed(p, k)
    BY <1>1 DEF AnswersAreOld
  <2>1. k \in 1..n /\ p[k] = q[k]
    BY <1>2, <1>9
  <2>2. IsRenewed(q, k)
    BY <1>9, <2>1 DEF AnswersAreOld, n
  <2> QED BY <1>6, <2>1, <2>2
<1>10. ASSUME m.type = "HAL_READY"
       PROVE  AnswersAreOld(p)
  <2> SUFFICES ASSUME NEW k \in 1..n + 1, p[k].type \in {"RESPONSE", "BREACH"}
               PROVE  IsRenewed(p, k)
    BY <1>1 DEF AnswersAreOld
  <2>1. k \in 1..n
    BY <1>2, <1>10
  <2>2. n + 1 > k
    BY <1>1, <2>1
  <2> QED BY <1>1, <1>3, <1>10, <2>2 DEF IsRenewed
<1>11. ASSUME ReadyOnce(q), m.type # "HAL_READY"
       PROVE  ReadyOnce(p)
  BY <1>1, <1>2, <1>11 DEF ReadyOnce, n
<1>12. ASSUME ~Has(q, "HAL_READY")
       PROVE  ReadyOnce(p)
  BY <1>1, <1>2, <1>12 DEF ReadyOnce, Has, n
<1>13. ASSUME ErasedLast(q), All("erased", q) \cap Of("told", m) = {}
       PROVE  ErasedLast(p)
  <2> SUFFICES ASSUME NEW i \in 1..n + 1, NEW j \in 1..n + 1, i < j,
                      NEW x \in Of("erased", p[i]), x \in Of("told", p[j])
               PROVE  FALSE
    BY <1>1 DEF ErasedLast
  <2>1. i \in 1..n /\ p[i] = q[i]
    BY <1>1
  <2>2. CASE j \in 1..n
    BY <1>1, <1>13, <2>1, <2>2 DEF ErasedLast, n
  <2>3. CASE j = n + 1
    <3>1. x \in All("erased", q)
      BY <2>1, InAll DEF n
    <3> QED BY <1>1, <1>13, <2>3, <3>1
  <2> QED BY <1>2, <2>2, <2>3
<1> QED BY <1>7, <1>8, <1>9, <1>10, <1>11, <1>12, <1>13

-----------------------------------------------------------------------------
(* Whom the messages for the daemon reach *)

LEMMA SendingRegisters ==
  ASSUME Typed, NEW msgs \in Seq(DaemonMsgs), GfSend(msgs)
  PROVE  Has(gfToDaemon', "REGISTER") => Has(gfToDaemon, "REGISTER") \/ Has(msgs, "REGISTER")
<1>1. gfToDaemon \in Seq(DaemonMsgs)
  BY DEF Typed, SocketsTyped
<1> QED BY <1>1, HasJoined DEF GfSend

LEMMA SendingIsUnheard ==
  ASSUME Typed, Unheard, NEW msgs \in Seq(DaemonMsgs), GfSend(msgs), UNCHANGED gfHandler,
         \/ ~gfUp
         \/ \A i \in 1..Len(msgs) : msgs[i].type \notin GfTypes
         \/ /\ ~gfHandler.registered
            /\ ~Has(gfToDaemon, "REGISTER") /\ ~Has(msgs, "REGISTER")
  PROVE  Unheard'
<1> DEFINE q == gfToDaemon
           p == gfToDaemon'
           n == Len(q)
           l == Len(msgs)
<1>0. CASE ~gfUp
  BY <1>0 DEF Unheard, GfSend
<1>1. CASE gfUp
  <2>1. n \in Nat /\ l \in Nat /\ Len(p) = n + l
        /\ \A i \in 1..n + l : p[i] = IF i =< n THEN q[i] ELSE msgs[i - n]
    <3>1. q \in Seq(DaemonMsgs) /\ p = q \o msgs
      BY <1>1 DEF Typed, SocketsTyped, GfSend
    <3> QED BY <3>1, LenProperties, ConcatProperties
  <2> HIDE DEF q, p, n, l
  <2>2. \A i \in 1..n + l : i =< n => i \in 1..n /\ p[i] = q[i]
    <3> TAKE i \in 1..n + l
    <3> HAVE i =< n
    <3>1. i \in 1..n
      BY <2>1
    <3> QED BY <2>1, <3>1, Zenon
  <2>3. \A i \in 1..n + l : ~ (i =< n) => i - n \in 1..l /\ p[i] = msgs[i - n]
    <3> TAKE i \in 1..n + l
    <3> HAVE ~ (i =< n)
    <3>1. i - n \in 1..l
      BY <2>1
    <3> QED BY <2>1, <3>1, Zenon
  <2>4. ASSUME NEW i \in 1..n + l, p[i].type \in GfTypes
        PROVE  /\ ~gfHandler.registered
               /\ \A j \in 1..n + l : j < i => p[j].type # "REGISTER"
    <3>1. CASE i =< n
      <4>1. i \in 1..n /\ q[i].type \in GfTypes
        BY <2>2, <2>4, <3>1
      <4>2. ~gfHandler.registered /\ \A j \in 1..n : j < i => q[j].type # "REGISTER"
        BY <4>1 DEF Unheard, q, n
      <4>3. \A j \in 1..n + l : j < i => j =< n
        BY <2>1, <4>1
      <4> QED BY <2>2, <4>2, <4>3
    <3>2. CASE ~ (i =< n)
      <4>1. i - n \in 1..l /\ msgs[i - n].type \in GfTypes
        BY <2>3, <2>4, <3>2
      <4>2. ~gfHandler.registered /\ ~Has(q, "REGISTER") /\ ~Has(msgs, "REGISTER")
        BY <1>1, <4>1 DEF l, q
      <4>3. ASSUME NEW j \in 1..n + l
            PROVE  p[j].type # "REGISTER"
        <5>1. CASE j =< n
          BY <2>2, <4>2, <5>1 DEF Has, n
        <5>2. CASE ~ (j =< n)
          BY <2>3, <4>2, <5>2 DEF Has, l
        <5> QED BY <5>1, <5>2
      <4> QED BY <4>2, <4>3
    <3> QED BY <3>1, <3>2
  <2>5. ~gfHandler'.registered <=> ~gfHandler.registered
    OBVIOUS
  <2> QED BY <2>1, <2>4, <2>5 DEF Unheard, p
<1>2. gfUp \in BOOLEAN
  BY DEF Typed, HistoryTyped
<1> QED BY <1>0, <1>1, <1>2

LEMMA ReceivingIsUnheard ==
  ASSUME Typed, NEW type, GfReceive(type)
  PROVE  /\ \A other : Has(gfToDaemon', other) => Has(gfToDaemon, other)
         /\ Has(gfToDaemon, type)
         /\ Unheard /\ gfHandler'.registered = gfHandler.registered => Unheard'
         /\ Unheard /\ gfHandler.registered =>
               \A i \in 1..Len(gfToDaemon) : gfToDaemon[i].type \notin GfTypes
         /\ Unheard /\ type = "REGISTER" => Unheard' /\ \A i \in 1..Len(gfToDaemon') :
               gfToDaemon'[i].type \notin GfTypes
<1> DEFINE q == gfToDaemon
           p == gfToDaemon'
           n == Len(q)
<1>1. /\ n \in Nat \ {0} /\ Len(p) = n - 1 /\ \A i \in 1..Len(p) : p[i] = q[i + 1]
      /\ q[1].type = type
  BY ReceivedTyped
<1> HIDE DEF q, p, n
<1>2. \A i \in 1..n - 1 : i + 1 \in 1..n
  BY <1>1
<1>3. 1 \in 1..n
  BY <1>1
<1>4. ASSUME NEW other, Has(p, other)
      PROVE  Has(q, other)
  <2>1. PICK i \in 1..n - 1 : p[i].type = other
    BY <1>1, <1>4 DEF Has
  <2>2. i + 1 \in 1..n /\ q[i + 1].type = other
    BY <1>1, <1>2, <2>1
  <2> QED BY <2>2 DEF Has, n
<1>5. Has(q, type)
  BY <1>1, <1>3 DEF Has, n
<1>6. ASSUME Unheard, gfHandler'.registered = gfHandler.registered
      PROVE  Unheard'
  <2> SUFFICES ASSUME NEW i \in 1..n - 1, p[i].type \in GfTypes
               PROVE  /\ ~gfHandler.registered
                      /\ \A j \in 1..n - 1 : j < i => p[j].type # "REGISTER"
    BY <1>1, <1>6 DEF Unheard, p
  <2>1. i + 1 \in 1..n /\ q[i + 1].type \in GfTypes
    BY <1>1, <1>2
  <2>2. ~gfHandler.registered /\ \A j \in 1..n : j < i + 1 => q[j].type # "REGISTER"
    BY <1>6, <2>1 DEF Unheard, q, n
  <2>3. ASSUME NEW j \in 1..n - 1, j < i
        PROVE  p[j].type # "REGISTER"
    <3>1. j + 1 \in 1..n /\ j + 1 < i + 1
      BY <1>1, <2>3
    <3>2. p[j] = q[j + 1]
      BY <1>1
    <3> QED BY <2>2, <3>1, <3>2
  <2> QED BY <2>2, <2>3
<1>7. ASSUME Unheard, gfHandler.registered
      PROVE  \A i \in 1..n : q[i].type \notin GfTypes
  BY <1>7 DEF Unheard, q, n
<1>8. ASSUME Unheard, type = "REGISTER"
      PROVE  \A i \in 1..Len(p) : p[i].type \notin GfTypes
  <2> SUFFICES ASSUME NEW i \in 1..n - 1, p[i].type \in GfTypes
               PROVE  FALSE
    BY <1>1
  <2>1. i + 1 \in 1..n /\ q[i + 1].type \in GfTypes /\ 1 < i + 1
    BY <1>1, <1>2
  <2>2. q[1].type # "REGISTER"
    BY <1>3, <1>8, <2>1 DEF Unheard, q, n
  <2> QED BY <1>1, <1>8, <2>2
<1>9. ASSUME \A i \in 1..Len(p) : p[i].type \notin GfTypes
      PROVE  Unheard'
  BY <1>9 DEF Unheard, p
<1> QED BY <1>4, <1>5, <1>6, <1>7, <1>8, <1>9 DEF q, p, n

-----------------------------------------------------------------------------
(* The registration, in every action *)

LEMMA LiveIsRegistered == Typed /\ BInv /\ Live => gfHandler.registered
<1> SUFFICES ASSUME Typed, BInv, Live PROVE gfHandler.registered
  OBVIOUS
<1>1. gfUp /\ gfRegistered /\ NoReady
  BY DEF Live, Has, NoReady
<1> QED BY <1>1 DEF BInv, RegistrationIsCurrent

LEMMA StaleMeans ==
  ASSUME Typed, Calm, gfUp, gfRegistered, ~Live
  PROVE  ~gfHandler.registered /\ ~Has(gfToDaemon, "REGISTER")
<1>1. Stale
  BY DEF Live, Stale
<1> QED BY <1>1 DEF Calm, StaleIsUnheard

\* The client sends something about geofences, as it does only when it is registered.
LEMMA RequestCalm ==
  ASSUME Typed, Calm, NEW msgs \in Seq(DaemonMsgs), GfSend(msgs), ~Has(msgs, "REGISTER"),
         gfRegistered \/ msgs = <<>>,
         UNCHANGED <<gfRegistered, gfInbox, gfUp, gfHandler, engineFences, gfCalls>>
  PROVE  Calm' /\ (Live' <=> Live)
<1>1. Live' <=> Live
  BY DEF Live
<1>2. Stale' <=> Stale
  BY DEF Stale
<1>3. gfUp \in BOOLEAN
  BY DEF Typed, HistoryTyped
<1>4. Live' \/ Idle'
  <2> SUFFICES ASSUME ~Live PROVE Idle'
    BY <1>1
  <2>1. Idle
    BY DEF Calm
  <2>2. CASE msgs = <<>>
    <3>1. \A i \in 1..Len(msgs) : msgs[i].type \notin GfTypes
      BY <2>2
    <3>2. Unheard'
      BY <2>1, <3>1, SendingIsUnheard DEF Idle
    <3> QED BY <2>1, <3>2 DEF Idle, Map
  <2>3. CASE msgs # <<>>
    <3>1. gfUp => ~gfHandler.registered /\ ~Has(gfToDaemon, "REGISTER")
      BY <2>3, StaleMeans
    <3>2. Unheard'
      BY <2>1, <3>1, SendingIsUnheard DEF Idle
    <3> QED BY <2>1, <3>2 DEF Idle, Map
  <2> QED BY <2>2, <2>3
<1>5. StaleIsUnheard'
  <2>1. Has(gfToDaemon', "REGISTER") => Has(gfToDaemon, "REGISTER")
    BY SendingRegisters
  <2> QED BY <1>2, <2>1 DEF Calm, StaleIsUnheard
<1>6. gfUp' /\ ~Live' => AnswersAreOld(gfInbox')
  BY <1>1 DEF Calm
<1>7. Down'
  BY <1>3 DEF Calm, Down, GfSend
<1> QED BY <1>1, <1>4, <1>5, <1>6, <1>7 DEF Calm

\* The client takes something that tells it nothing about the daemon.
LEMMA TakingCalm ==
  ASSUME Typed, Calm, NEW type \in {"REGISTER", "RESPONSE", "BREACH"}, GfTake(type),
         gfInbox' = Tail(gfInbox),
         UNCHANGED <<gfRegistered, gfUp, gfHandler, engineFences, gfCalls>>,
         \/ UNCHANGED gfToDaemon
         \/ type = "REGISTER" /\ GfSend(<<[type |-> "REGISTER"]>>)
  PROVE  Calm' /\ (Live' <=> Live)
<1> DEFINE q == gfInbox
           p == gfInbox'
<1>0. q \in Seq(ClientMsgs) /\ q # <<>> /\ q[1].type = type
  BY TakenTyped DEF Typed, SocketsTyped
<1>1. p \in Seq(ClientMsgs) /\ \E e : Remains(p, q, e)
  BY <1>0, TailRemains
<1>2. PICK e : Remains(p, q, e)
  BY <1>1
<1> HIDE DEF q, p
<1>3. /\ \A up \in BOOLEAN : HasOldCapabilities(p, up) => HasOldCapabilities(q, up)
      /\ AnswersAreOld(q) => AnswersAreOld(p)
      /\ ReadyOnce(q) => ReadyOnce(p)
      /\ Has(p, "HAL_READY") <=> Has(q, "HAL_READY")
  BY <1>0, <1>1, <1>2, RemainsInOrder
<1>4. Has(p, "REGISTER") => Has(q, "REGISTER")
  <2>1. q # <<>> /\ p = Tail(q)
    BY <1>0 DEF p, q
  <2>2. Len(q) \in Nat \ {0} /\ Len(p) = Len(q) - 1 /\ \A i \in 1..Len(p) : p[i] = q[i + 1]
    <3>1. Len(q) \in Nat \ {0}
      BY <1>0, EmptySeq
    <3> QED BY <1>0, <2>1, <3>1, HeadTailProperties
  <2>3. \A i \in 1..Len(p) : i + 1 \in 1..Len(q)
    BY <2>2
  <2> QED BY <2>2, <2>3 DEF Has
<1>5. Live' <=> Live
  BY <1>3 DEF Live, p, q
<1>6. gfUp \in BOOLEAN
  BY DEF Typed, HistoryTyped
<1>7. Stale' => Stale
  BY <1>3, <1>6 DEF Stale, p, q
<1>8. type = "REGISTER" => Has(q, "REGISTER")
  <2>1. 1 \in 1..Len(q)
    <3>1. Len(q) \in Nat \ {0}
      BY <1>0, EmptySeq
    <3> QED BY <3>1
  <2> QED BY <1>0, <2>1 DEF Has
<1>9. StaleIsUnheard'
  <2> SUFFICES ASSUME Stale
               PROVE  /\ ~Has(p, "REGISTER")
                      /\ ~gfUp => ~Has(p, "HAL_READY")
                      /\ gfUp => /\ ~gfHandler.registered /\ ~Has(gfToDaemon', "REGISTER")
                                 /\ ReadyOnce(p)
    BY <1>7 DEF StaleIsUnheard, p
  <2>1. /\ ~Has(q, "REGISTER")
        /\ ~gfUp => ~Has(q, "HAL_READY")
        /\ gfUp => /\ ~gfHandler.registered /\ ~Has(gfToDaemon, "REGISTER")
                   /\ ReadyOnce(q)
    BY DEF Calm, StaleIsUnheard, q
  <2>2. UNCHANGED gfToDaemon
    BY <1>8, <2>1
  <2> QED BY <1>3, <1>4, <2>1, <2>2
<1>10. Live' \/ Idle'
  <2> SUFFICES ASSUME ~Live PROVE Idle'
    BY <1>5
  <2>1. Idle
    BY DEF Calm
  <2>2. Unheard'
    <3>1. CASE UNCHANGED gfToDaemon
      BY <2>1, <3>1 DEF Idle, Unheard
    <3>2. CASE GfSend(<<[type |-> "REGISTER"]>>)
      <4> DEFINE msgs == <<[type |-> "REGISTER"]>>
      <4>1. msgs \in Seq(DaemonMsgs)
        BY SimpleMsgs
      <4>2. \A i \in 1..Len(msgs) : msgs[i].type \notin GfTypes
        BY DEF GfTypes
      <4> HIDE DEF msgs
      <4> QED BY <2>1, <3>2, <4>1, <4>2, SendingIsUnheard DEF Idle, msgs
    <3> QED BY <3>1, <3>2
  <2> QED BY <2>1, <2>2 DEF Idle, Map
<1>11. gfUp' /\ ~Live' => AnswersAreOld(p)
  BY <1>3, <1>5 DEF Calm, q
<1>12. Down'
  BY <1>6 DEF Calm, Down, GfSend
<1> QED BY <1>5, <1>9, <1>10, <1>11, <1>12 DEF Calm, p

LEMMA HalReadyCalm ==
  ASSUME Typed, Calm, GfHalReady
  PROVE  /\ Calm' /\ ~Live'
         /\ \E e : Remains(gfInbox', gfInbox, e)
         /\ gfInbox' \in Seq(ClientMsgs) /\ gfInbox[1].type = "HAL_READY"
<1> DEFINE q == gfInbox
           p == gfInbox'
<1>0. q \in Seq(ClientMsgs) /\ q # <<>> /\ q[1].type = "HAL_READY"
  BY TakenTyped DEF Typed, SocketsTyped, GfHalReady
<1>1. p \in Seq(ClientMsgs) /\ \E e : Remains(p, q, e)
  <2>1. PICK k \in 1..Len(q) : p = InsertAt(Tail(q), k, [type |-> "REGISTER"])
    BY DEF GfHalReady
  <2> QED BY <1>0, <2>1, InsertedRemains
<1>2. PICK e : Remains(p, q, e)
  BY <1>1
<1> HIDE DEF q, p
<1>3. /\ \A up \in BOOLEAN : HasOldCapabilities(p, up) => HasOldCapabilities(q, up)
      /\ AnswersAreOld(q) => AnswersAreOld(p)
      /\ ReadyOnce(q) => ~Has(p, "HAL_READY")
  BY <1>0, <1>1, <1>2, RemainsInOrder
<1>4. Has(q, "HAL_READY")
  <2>1. 1 \in 1..Len(q)
    <3>1. Len(q) \in Nat \ {0}
      BY <1>0, EmptySeq
    <3> QED BY <3>1
  <2> QED BY <1>0, <2>1 DEF Has
<1>5. /\ gfRegistered' = FALSE
      /\ UNCHANGED <<gfUp, gfHandler, engineFences, gfCalls, gfToDaemon>>
  BY DEF GfHalReady, gfProcess, gfDaemon
<1>6. ~Live' /\ ~Live
  BY <1>4, <1>5 DEF Live, q
<1>7. gfUp \in BOOLEAN
  BY DEF Typed, HistoryTyped
<1>8. ~Stale'
  <2> SUFFICES ASSUME Stale' PROVE FALSE
    OBVIOUS
  <2>1. HasOldCapabilities(p, gfUp) /\ (~gfUp \/ Has(p, "HAL_READY"))
    BY <1>5 DEF Stale, p
  <2>2. Stale
    BY <1>3, <1>4, <1>7, <2>1 DEF Stale, q
  <2>3. ~gfUp => ~Has(q, "HAL_READY")
    BY <2>2 DEF Calm, StaleIsUnheard, q
  <2>4. gfUp => ReadyOnce(q)
    BY <2>2 DEF Calm, StaleIsUnheard, q
  <2> QED BY <1>3, <1>4, <1>7, <2>1, <2>3, <2>4
<1>9. Idle'
  <2>1. Idle
    BY <1>6 DEF Calm
  <2>2. Unheard'
    BY <1>5, <2>1 DEF Idle, Unheard
  <2> QED BY <1>5, <2>1, <2>2 DEF Idle, Map
<1>10. gfUp' => AnswersAreOld(p)
  BY <1>3, <1>5, <1>6 DEF Calm, q
<1>11. Down'
  BY <1>5 DEF Calm, Down
<1>12. StaleIsUnheard'
  BY <1>8 DEF StaleIsUnheard
<1>13. Calm'
  BY <1>9, <1>10, <1>11, <1>12 DEF Calm, p
<1> QED BY <1>0, <1>1, <1>6, <1>13 DEF p, q

LEMMA HeardOfCapabilities ==
  ASSUME Typed, Calm, GfTake("CAPABILITIES"), gfInbox' = Tail(gfInbox), gfRegistered',
         UNCHANGED <<gfUp, gfHandler, engineFences, gfCalls>>,
         NEW msgs \in Seq(DaemonMsgs), GfSend(msgs), ~Has(msgs, "REGISTER")
  PROVE  /\ Calm'
         /\ Live => Live'
         /\ Live' /\ ~Live => /\ Idle
                              /\ gfUp => AnswersAreOld(gfInbox) /\ ~Has(gfInbox, "HAL_READY")
<1> DEFINE q == gfInbox
           p == gfInbox'
<1>0. q \in Seq(ClientMsgs) /\ q # <<>> /\ q[1].type = "CAPABILITIES"
  BY TakenTyped DEF Typed, SocketsTyped
<1>1. p \in Seq(ClientMsgs) /\ \E e : Remains(p, q, e)
  BY <1>0, TailRemains
<1>2. PICK e : Remains(p, q, e)
  BY <1>1
<1> HIDE DEF q, p
<1>3. /\ \A up \in BOOLEAN : HasOldCapabilities(p, up) => HasOldCapabilities(q, up)
      /\ AnswersAreOld(q) => AnswersAreOld(p)
      /\ ReadyOnce(q) => ReadyOnce(p)
      /\ Has(p, "HAL_READY") <=> Has(q, "HAL_READY")
  BY <1>0, <1>1, <1>2, RemainsInOrder
<1>4. Len(q) \in Nat \ {0} /\ Len(p) = Len(q) - 1 /\ \A i \in 1..Len(p) : p[i] = q[i + 1]
  <2>1. Len(q) \in Nat \ {0} /\ p = Tail(q)
    BY <1>0, EmptySeq DEF p, q
  <2> QED BY <1>0, <2>1, HeadTailProperties
<1>5. Has(p, "REGISTER") => Has(q, "REGISTER")
  <2>1. \A i \in 1..Len(p) : i + 1 \in 1..Len(q)
    BY <1>4
  <2> QED BY <1>4, <2>1 DEF Has
<1>6. gfUp \in BOOLEAN
  BY DEF Typed, HistoryTyped
<1>7. ~gfUp \/ Has(q, "HAL_READY") => Stale
  <2> SUFFICES ASSUME ~gfUp \/ Has(q, "HAL_READY")
               PROVE  HasOldCapabilities(q, gfUp)
    BY DEF Stale, q
  <2>1. 1 \in 1..Len(q)
    BY <1>4
  <2>2. CASE ~gfUp
    BY <1>0, <2>1, <2>2 DEF HasOldCapabilities
  <2>3. CASE Has(q, "HAL_READY")
    <3>1. PICK j \in 1..Len(q) : q[j].type = "HAL_READY"
      BY <2>3 DEF Has
    <3>2. j > 1
      BY <1>0, <1>4, <3>1
    <3>3. IsRenewed(q, 1)
      BY <3>1, <3>2 DEF IsRenewed
    <3> QED BY <1>0, <2>1, <3>3 DEF HasOldCapabilities
  <2> QED BY <2>2, <2>3
<1>8. Live' <=> gfUp /\ ~Has(q, "HAL_READY")
  BY <1>3 DEF Live, p
<1>9. Stale => /\ ~Has(q, "REGISTER")
               /\ ~gfUp => ~Has(q, "HAL_READY")
               /\ gfUp => /\ ~gfHandler.registered /\ ~Has(gfToDaemon, "REGISTER")
                          /\ ReadyOnce(q)
  BY DEF Calm, StaleIsUnheard, q
<1>10. StaleIsUnheard'
  <2> SUFFICES ASSUME Stale'
               PROVE  /\ ~Has(p, "REGISTER")
                      /\ ~gfUp => ~Has(p, "HAL_READY")
                      /\ gfUp => /\ ~gfHandler.registered /\ ~Has(gfToDaemon', "REGISTER")
                                 /\ ReadyOnce(p)
    BY DEF StaleIsUnheard, p
  <2>1. Stale
    BY <1>3, <1>7 DEF Stale, p
  <2>2. Has(gfToDaemon', "REGISTER") => Has(gfToDaemon, "REGISTER")
    BY SendingRegisters
  <2> QED BY <1>3, <1>5, <1>9, <2>1, <2>2
<1>11. Live' \/ Idle'
  <2> SUFFICES ASSUME ~gfUp \/ Has(q, "HAL_READY") PROVE Idle'
    BY <1>8
  <2>1. Idle
    BY DEF Calm, Live, q
  <2>2. gfUp => ~gfHandler.registered /\ ~Has(gfToDaemon, "REGISTER")
    BY <1>7, <1>9
  <2>3. Unheard'
    BY <2>1, <2>2, SendingIsUnheard DEF Idle
  <2> QED BY <2>1, <2>3 DEF Idle, Map
<1>12. gfUp' /\ ~Live' => AnswersAreOld(p)
  BY <1>3, <1>8 DEF Calm, Live, q
<1>13. Down'
  BY <1>6 DEF Calm, Down, GfSend
<1>14. Calm'
  BY <1>10, <1>11, <1>12, <1>13 DEF Calm, p
<1>15. Live => Live'
  BY <1>8 DEF Live, q
<1>16. Live' /\ ~Live => Idle /\ (gfUp => AnswersAreOld(q) /\ ~Has(q, "HAL_READY"))
  BY <1>8 DEF Calm, q
<1> QED BY <1>14, <1>15, <1>16 DEF q

LEMMA HeardIsLive ==
  ASSUME Typed, Calm, NEW type \in GfTypes, GfReceive(type), gfHandler.registered
  PROVE  Live
<1>1. Has(gfToDaemon, type)
  BY ReceivingIsUnheard
<1>2. ~Unheard
  BY <1>1 DEF Unheard, Has
<1> QED BY <1>2 DEF Calm, Idle

LEMMA ReceiptCalm ==
  ASSUME Typed, Calm, NEW type, GfReceive(type), UNCHANGED gfInbox,
         gfHandler'.registered = gfHandler.registered,
         Live \/ UNCHANGED <<Map, engineFences, gfCalls>>
  PROVE  Calm' /\ (Live' <=> Live)
<1>1. gfUp /\ UNCHANGED <<gfUp, gfRegistered, gfInbox>>
  BY DEF GfReceive, GfTakes, gfClient, gfProcess
<1>2. Live' <=> Live
  BY <1>1 DEF Live
<1>3. /\ Has(gfToDaemon', "REGISTER") => Has(gfToDaemon, "REGISTER")
      /\ Unheard => Unheard'
  BY ReceivingIsUnheard
<1>4. Stale' <=> Stale
  BY <1>1 DEF Stale
<1>5. StaleIsUnheard'
  BY <1>1, <1>3, <1>4 DEF Calm, StaleIsUnheard
<1>6. Live' \/ Idle'
  BY <1>2, <1>3 DEF Calm, Idle
<1>7. gfUp' /\ ~Live' => AnswersAreOld(gfInbox')
  BY <1>1, <1>2 DEF Calm
<1>8. Down'
  BY <1>1 DEF Down
<1> QED BY <1>2, <1>5, <1>6, <1>7, <1>8 DEF Calm

LEMMA InOrder ==
  ASSUME Typed, NEW m \in ClientMsgs, gfInbox' = Append(gfInbox, m)
  PROVE  /\ m.type # "HAL_READY" =>
               (HasOldCapabilities(gfInbox', TRUE) => HasOldCapabilities(gfInbox, TRUE))
         /\ m.type # "CAPABILITIES" =>
               (HasOldCapabilities(gfInbox', TRUE) => HasOldCapabilities(gfInbox, FALSE))
         /\ AnswersAreOld(gfInbox) /\ m.type \notin {"RESPONSE", "BREACH"} =>
               AnswersAreOld(gfInbox')
         /\ m.type = "HAL_READY" => AnswersAreOld(gfInbox')
         /\ ReadyOnce(gfInbox) /\ m.type # "HAL_READY" => ReadyOnce(gfInbox')
         /\ ~Has(gfInbox, "HAL_READY") => ReadyOnce(gfInbox')
         /\ ErasedLast(gfInbox) /\ Due("erased") \cap Of("told", m) = {} => ErasedLast(gfInbox')
         /\ \A type : Has(gfInbox', type) <=> Has(gfInbox, type) \/ m.type = type
<1>1. gfInbox \in Seq(ClientMsgs)
  BY DEF Typed, SocketsTyped
<1>2. \A type : Has(gfInbox', type) <=> Has(gfInbox, type) \/ m.type = type
  BY <1>1, HasAppended
<1> QED BY <1>1, <1>2, AppendedInOrder DEF Due

LEMMA NewClientCalm ==
  ASSUME Typed, Calm, GfNewClient
  PROVE  Calm' /\ (Live' <=> Live)
<1> DEFINE m == [type |-> "CAPABILITIES"]
<1>1. gfUp /\ UNCHANGED <<gfUp, gfRegistered, engineFences, gfCalls>>
  BY DEF GfNewClient, GfReceive, GfTakes, gfClient, gfProcess
<1>2. Map' = Map
  BY DEF GfNewClient, Map, Typed, DaemonTyped, Handlers
<1>3. Has(gfToDaemon, "REGISTER") /\ (Unheard => Unheard')
  <2>1. GfReceive("REGISTER")
    BY DEF GfNewClient
  <2> QED BY <2>1, ReceivingIsUnheard
<1>4. /\ Has(gfInbox', "HAL_READY") <=> Has(gfInbox, "HAL_READY")
      /\ HasOldCapabilities(gfInbox', TRUE) => HasOldCapabilities(gfInbox, TRUE)
      /\ AnswersAreOld(gfInbox) => AnswersAreOld(gfInbox')
  <2>1. CASE UNCHANGED gfInbox
    BY <2>1
  <2>2. CASE gfInbox' = Append(gfInbox, m)
    <3>1. m \in ClientMsgs /\ m.type = "CAPABILITIES"
      BY Signals
    <3> HIDE DEF m
    <3> QED BY <2>2, <3>1, InOrder
  <2> QED BY <2>1, <2>2 DEF GfNewClient
<1>5. Live' <=> Live
  BY <1>1, <1>4 DEF Live
<1>6. ~Stale'
  <2>1. ~Stale
    BY <1>1, <1>3 DEF Calm, StaleIsUnheard
  <2>2. gfUp = TRUE /\ gfUp' = TRUE
    BY <1>1 DEF Typed, HistoryTyped
  <2> QED BY <1>1, <1>4, <2>1, <2>2 DEF Stale
<1>7. StaleIsUnheard'
  BY <1>6 DEF StaleIsUnheard
<1>8. Live' \/ Idle'
  BY <1>1, <1>2, <1>3, <1>5 DEF Calm, Idle
<1>9. gfUp' /\ ~Live' => AnswersAreOld(gfInbox')
  BY <1>1, <1>4, <1>5 DEF Calm
<1>10. Down'
  BY <1>1 DEF Down
<1> QED BY <1>5, <1>7, <1>8, <1>9, <1>10 DEF Calm

\* The daemon reports something to the client, an answer or a breach only when the client
\* is registered with it.
LEMMA ReportCalm ==
  ASSUME Typed, Calm, NEW m \in ClientMsgs, m.type # "HAL_READY",
         gfInbox' = Append(gfInbox, m), UNCHANGED <<gfUp, gfRegistered, gfToDaemon>>,
         gfHandler'.registered = gfHandler.registered,
         \/ Live
         \/ /\ m.type = "CAPABILITIES" /\ gfHandler.registered
            /\ UNCHANGED <<Map, engineFences, gfCalls>>
  PROVE  Calm' /\ (Live' <=> Live)
<1>1. gfUp
  <2>1. ~NoGfHandler.registered
    BY DEF NoGfHandler
  <2> QED BY <2>1 DEF Calm, Down, Live
<1>2. gfUp = TRUE /\ gfUp' = TRUE
  BY <1>1 DEF Typed, HistoryTyped
<1>3. /\ Has(gfInbox', "HAL_READY") <=> Has(gfInbox, "HAL_READY")
      /\ HasOldCapabilities(gfInbox', TRUE) => HasOldCapabilities(gfInbox, TRUE)
      /\ AnswersAreOld(gfInbox) /\ m.type = "CAPABILITIES" => AnswersAreOld(gfInbox')
  BY InOrder
<1>4. Live' <=> Live
  BY <1>3 DEF Live
<1>5. ~Stale'
  <2>1. ~Stale
    BY <1>1 DEF Calm, StaleIsUnheard, Stale, Live
  <2> QED BY <1>2, <1>3, <2>1 DEF Stale
<1>6. StaleIsUnheard'
  BY <1>5 DEF StaleIsUnheard
<1>7. Live' \/ Idle'
  BY <1>4 DEF Calm, Idle, Unheard
<1>8. gfUp' /\ ~Live' => AnswersAreOld(gfInbox')
  BY <1>1, <1>3, <1>4 DEF Calm
<1>9. Down'
  BY <1>2 DEF Down
<1> QED BY <1>4, <1>6, <1>7, <1>8, <1>9 DEF Calm

LEMMA ListenerReadyCalm ==
  ASSUME Typed, Calm, GfListenerReady
  PROVE  Calm' /\ ~Live'
<1> DEFINE m == [type |-> "HAL_READY"]
<1>1. /\ ~gfUp /\ gfUp' = TRUE /\ gfUp = FALSE /\ gfInbox' = Append(gfInbox, m)
      /\ UNCHANGED <<gfRegistered, gfToDaemon, gfHandler, engineFences, gfCalls>>
  BY DEF GfListenerReady, gfClient, gfDaemon, Typed, HistoryTyped
<1>2. m \in ClientMsgs /\ m.type = "HAL_READY"
  BY Signals
<1> HIDE DEF m
<1>3. /\ Has(gfInbox', "HAL_READY")
      /\ Has(gfInbox', "REGISTER") => Has(gfInbox, "REGISTER")
      /\ HasOldCapabilities(gfInbox', TRUE) => HasOldCapabilities(gfInbox, FALSE)
      /\ AnswersAreOld(gfInbox')
      /\ ~Has(gfInbox, "HAL_READY") => ReadyOnce(gfInbox')
  BY <1>1, <1>2, InOrder
<1>4. ~Live' /\ ~Live
  BY <1>1, <1>3 DEF Live
<1>5. gfHandler = NoGfHandler /\ gfToDaemon = <<>>
  BY <1>1 DEF Calm, Down
<1>6. StaleIsUnheard'
  <2> SUFFICES ASSUME Stale'
               PROVE  /\ ~Has(gfInbox', "REGISTER") /\ ~gfHandler.registered
                      /\ ~Has(gfToDaemon, "REGISTER") /\ ReadyOnce(gfInbox')
    BY <1>1 DEF StaleIsUnheard
  <2>1. Stale
    BY <1>1, <1>3 DEF Stale
  <2>2. ~Has(gfInbox, "REGISTER") /\ ~Has(gfInbox, "HAL_READY")
    BY <1>1, <2>1 DEF Calm, StaleIsUnheard
  <2>3. ~gfHandler.registered
    BY <1>5 DEF NoGfHandler
  <2>4. ~Has(gfToDaemon, "REGISTER")
    <3>1. Len(<<>>) = 0 /\ 1..0 = {}
      OBVIOUS
    <3> QED BY <1>5, <3>1 DEF Has
  <2> QED BY <1>3, <2>2, <2>3, <2>4
<1>7. Idle'
  BY <1>1, <1>4 DEF Calm, Idle, Unheard, Map
<1>8. Down'
  BY <1>1 DEF Down
<1> QED BY <1>3, <1>4, <1>6, <1>7, <1>8 DEF Calm

LEMMA CrashCalm ==
  ASSUME Typed, Calm, GfCrash, troubles' = {}
  PROVE  Calm' /\ ~Live'
<1>1. /\ gfUp' = FALSE /\ gfToDaemon' = <<>> /\ gfHandler' = NoGfHandler
      /\ engineFences' = <<>> /\ gfCalls' = <<>>
      /\ UNCHANGED <<gfRegistered, gfInbox>>
  BY DEF GfCrash, gfClient
<1>2. ~RegistrationIsDelayed
  BY DEF GfCrash
<1>3. StaleIsUnheard'
  <2> SUFFICES ASSUME Stale'
               PROVE  ~Has(gfInbox, "REGISTER") /\ ~Has(gfInbox, "HAL_READY")
    BY <1>1 DEF StaleIsUnheard
  <2>1. gfRegistered \/ \E k \in 1..Len(gfInbox) : gfInbox[k].type = "CAPABILITIES"
    BY <1>1 DEF Stale, HasOldCapabilities
  <2>2. gfInbox \in Seq(ClientMsgs)
    BY DEF Typed, SocketsTyped
  <2>3. \A k \in 1..Len(gfInbox) : gfInbox[k] \in Range(gfInbox) /\ gfInbox[k] \in ClientMsgs
    BY <2>2 DEF Range
  <2>4. \A m \in ClientMsgs : m.type = "CAPABILITIES" => m = [type |-> "CAPABILITIES"]
    BY DEF ClientMsgs
  <2>5. gfRegistered \/ [type |-> "CAPABILITIES"] \in Range(gfInbox)
    BY <2>1, <2>3, <2>4
  <2>6. \A m \in Range(gfInbox) : m.type \notin {"HAL_READY", "REGISTER"}
    BY <1>2, <2>5 DEF RegistrationIsDelayed
  <2> QED BY <2>3, <2>6 DEF Has
<1>4. Idle'
  <2>1. Map' = <<>>
    BY <1>1 DEF Map, NoGfHandler
  <2>2. Unheard'
    <3>1. Len(<<>>) = 0 /\ 1..0 = {}
      OBVIOUS
    <3> QED BY <1>1, <3>1 DEF Unheard
  <2> QED BY <1>1, <2>1, <2>2 DEF Idle
<1>5. ~Live'
  BY <1>1 DEF Live
<1>6. Down'
  BY <1>1 DEF Down
<1> QED BY <1>1, <1>3, <1>4, <1>5, <1>6 DEF Calm

-----------------------------------------------------------------------------
(* The sets the queues are looked at through, in a step *)

LEMMA AboutKinds ==
  ASSUME NEW q \in Seq(DaemonMsgs)
  PROVE  /\ All("added", q) \subseteq All("about", q)
         /\ All("modified", q) \subseteq All("about", q)
         /\ \A e \in All("entries", q) : e.id \in All("about", q)
<1>1. ASSUME NEW m \in DaemonMsgs
      PROVE  /\ Added(m) \subseteq About(m) /\ Modified(m) \subseteq About(m)
             /\ \A e \in Entries(m) : e.id \in About(m)
  <2>1. CASE m.type = "ADD"
    <3>1. \A e \in Entries(m) : e.id \in IdsOf(m.fences)
      BY <2>1 DEF Entries, IdsOf
    <3> QED BY <2>1, <3>1 DEF Added, About, Modified
  <2>2. CASE m.type = "MODIFY"
    <3>1. About(m) = {m.id}
      BY <2>2 DEF About
    <3>2. Added(m) = {} /\ Modified(m) = {m.id}
      BY <2>2 DEF Added, Modified
    <3>3. \A e \in Entries(m) : e.id = m.id
      BY <2>2 DEF Entries
    <3> QED BY <3>1, <3>2, <3>3
  <2>3. CASE m.type \notin {"ADD", "MODIFY"}
    BY <2>3 DEF Added, Modified, Entries
  <2> QED BY <2>1, <2>2, <2>3
<1>2. \A i \in 1..Len(q) : q[i] \in DaemonMsgs
  OBVIOUS
<1>3. ASSUME NEW x \in All("added", q)
      PROVE  x \in All("about", q)
  <2>1. PICK i \in 1..Len(q) : x \in Added(q[i])
    BY InAll, Kinds
  <2>2. x \in About(q[i])
    BY <1>1, <1>2, <2>1
  <2> QED BY <2>2, InAll, Kinds
<1>4. ASSUME NEW x \in All("modified", q)
      PROVE  x \in All("about", q)
  <2>1. PICK i \in 1..Len(q) : x \in Modified(q[i])
    BY InAll, Kinds
  <2>2. x \in About(q[i])
    BY <1>1, <1>2, <2>1
  <2> QED BY <2>2, InAll, Kinds
<1>5. ASSUME NEW e \in All("entries", q)
      PROVE  e.id \in All("about", q)
  <2>1. PICK i \in 1..Len(q) : e \in Entries(q[i])
    BY InAll, Kinds
  <2>2. e.id \in About(q[i])
    BY <1>1, <1>2, <2>1
  <2> QED BY <2>2, InAll, Kinds
<1> QED BY <1>3, <1>4, <1>5

LEMMA SentKinds ==
  ASSUME Typed
  PROVE  /\ Sent("added") \subseteq Sent("about")
         /\ Sent("modified") \subseteq Sent("about")
         /\ \A e \in Sent("entries") : e.id \in Sent("about")
BY AboutKinds DEF Sent, Typed, SocketsTyped

LEMMA DueKinds ==
  /\ Due("erased") \subseteq Due("about")
  /\ Due("about") \subseteq Due("told")
<1>1. ASSUME NEW m
      PROVE  Erased(m) \subseteq About(m) /\ About(m) \subseteq Told(m)
  <2>1. CASE m.type = "RESPONSE"
    <3>1. About(m) = IdsOf(m.resp) /\ Told(m) = About(m)
      BY <2>1 DEF About, Told
    <3> QED BY <2>1, <3>1 DEF Erased, IdsOf
  <2>2. CASE m.type = "BREACH"
    BY <2>2 DEF About, Erased
  <2>3. CASE m.type \notin {"RESPONSE", "BREACH"}
    BY <2>3 DEF Erased, Told
  <2> QED BY <2>1, <2>2, <2>3
<1>2. ASSUME NEW x \in Due("erased")
      PROVE  x \in Due("about")
  <2>1. PICK i \in 1..Len(gfInbox) : x \in Erased(gfInbox[i])
    BY InAll, Kinds DEF Due
  <2>2. x \in About(gfInbox[i])
    BY <1>1, <2>1
  <2> QED BY <2>2, InAll, Kinds DEF Due
<1>3. ASSUME NEW x \in Due("about")
      PROVE  x \in Due("told")
  <2>1. PICK i \in 1..Len(gfInbox) : x \in About(gfInbox[i])
    BY InAll, Kinds DEF Due
  <2>2. x \in Told(gfInbox[i])
    BY <1>1, <2>1
  <2> QED BY <2>2, InAll, Kinds DEF Due
<1> QED BY <1>2, <1>3

LEMMA CallKinds ==
  ASSUME NEW c \in AddCalls \cup ChangeCalls
  PROVE  /\ 0 \notin Begun(c) \cup Changed(c)
         /\ \A s \in Begun(c) \cup Changed(c) : s \in Nat
         /\ \A o \in Opened(c) : o.session \in Begun(c)
         /\ \A u \in Updates(c) : u.session # 0 => u.session \in Changed(c)
<1>1. CASE c \in AddCalls
  <2>1. c.type = "ADD" /\ c.session \in Nat \ {0} /\ Len(c.fences) \in Nat
    BY <1>1, LenProperties DEF AddCalls
  <2>2. Changed(c) = {} /\ Updates(c) = {}
    BY <2>1 DEF Changed, Updates
  <2>3. Begun(c) = c.session..c.session + Len(c.fences) - 1
    BY <2>1 DEF Begun
  <2>4. ASSUME NEW o \in Opened(c)
        PROVE  o.session \in Begun(c)
    <3>1. PICK k \in 1..Len(c.fences) : o.session = c.session + k - 1
      BY <2>1 DEF Opened
    <3> QED BY <2>1, <2>3, <3>1
  <2>5. 0 \notin Begun(c) /\ \A s \in Begun(c) : s \in Nat
    BY <2>1, <2>3
  <2> QED BY <2>2, <2>4, <2>5
<1>2. CASE c \in ChangeCalls
  <2>1. c.type # "ADD" /\ c.session \in Nat
    BY <1>2 DEF ChangeCalls
  <2>2. Begun(c) = {} /\ Opened(c) = {}
    BY <2>1 DEF Begun, Opened
  <2>3. \A u \in Updates(c) : u.session = c.session
    BY DEF Updates
  <2>4. Changed(c) = {c.session} \ {0}
    BY <2>1 DEF Changed
  <2> QED BY <2>1, <2>2, <2>3, <2>4
<1> QED BY <1>1, <1>2

LEMMA CallsKinds ==
  ASSUME NEW q \in Seq(AddCalls \cup ChangeCalls)
  PROVE  /\ All("begun", q) \cup All("changed", q) = All("sessions", q)
         /\ 0 \notin All("sessions", q) /\ All("sessions", q) \subseteq Nat
         /\ \A o \in All("opened", q) : o.session \in All("begun", q)
         /\ \A u \in All("updates", q) : u.session # 0 => u.session \in All("changed", q)
<1>1. \A i \in 1..Len(q) : q[i] \in AddCalls \cup ChangeCalls
  OBVIOUS
<1>2. \A x : x \in All("sessions", q) <=>
         \E i \in 1..Len(q) : x \in Begun(q[i]) \cup Changed(q[i])
  BY InAll, Kinds
<1>3. \A x : x \in All("begun", q) <=> \E i \in 1..Len(q) : x \in Begun(q[i])
  BY InAll, Kinds
<1>4. \A x : x \in All("changed", q) <=> \E i \in 1..Len(q) : x \in Changed(q[i])
  BY InAll, Kinds
<1>5. All("begun", q) \cup All("changed", q) = All("sessions", q)
  BY <1>2, <1>3, <1>4
<1>6. 0 \notin All("sessions", q) /\ All("sessions", q) \subseteq Nat
  <2>1. ASSUME NEW x \in All("sessions", q)
        PROVE  x # 0 /\ x \in Nat
    <3>1. PICK i \in 1..Len(q) : x \in Begun(q[i]) \cup Changed(q[i])
      BY <1>2
    <3> QED BY <1>1, <3>1, CallKinds
  <2> QED BY <2>1
<1>7. ASSUME NEW o \in All("opened", q)
      PROVE  o.session \in All("begun", q)
  <2>1. PICK i \in 1..Len(q) : o \in Opened(q[i])
    BY InAll, Kinds
  <2>2. o.session \in Begun(q[i])
    BY <1>1, <2>1, CallKinds
  <2> QED BY <1>3, <2>2
<1>8. ASSUME NEW u \in All("updates", q), u.session # 0
      PROVE  u.session \in All("changed", q)
  <2>1. PICK i \in 1..Len(q) : u \in Updates(q[i])
    BY InAll, Kinds
  <2>2. u.session \in Changed(q[i])
    BY <1>1, <1>8, <2>1, CallKinds
  <2> QED BY <1>4, <2>2
<1> QED BY <1>5, <1>6, <1>7, <1>8

LEMMA OpenKinds ==
  ASSUME Typed
  PROVE  /\ Open("begun") \cup Open("changed") = Open("sessions")
         /\ 0 \notin Open("sessions") /\ Open("sessions") \subseteq Nat
         /\ \A o \in Open("opened") : o.session \in Open("begun")
         /\ \A u \in Open("updates") : u.session # 0 => u.session \in Open("changed")
BY CallsKinds DEF Open, Typed, DaemonTyped

LEMMA SentMore ==
  ASSUME Typed, gfUp, NEW msgs \in Seq(DaemonMsgs), GfSend(msgs)
  PROVE  /\ \A kind : Sent(kind)' = Sent(kind) \cup All(kind, msgs)
         /\ Apart("about", gfToDaemon) /\ Apart("about", msgs)
            /\ Sent("about") \cap All("about", msgs) = {} => Apart("about", gfToDaemon)'
<1>1. gfToDaemon \in Seq(DaemonMsgs) /\ gfToDaemon' = gfToDaemon \o msgs
  BY DEF Typed, SocketsTyped, GfSend
<1>2. ASSUME NEW kind
      PROVE  /\ All(kind, gfToDaemon \o msgs) = All(kind, gfToDaemon) \cup All(kind, msgs)
             /\ Apart(kind, gfToDaemon) /\ Apart(kind, msgs)
                /\ All(kind, gfToDaemon) \cap All(kind, msgs) = {}
                   => Apart(kind, gfToDaemon \o msgs)
  BY <1>1, AllJoined
<1> QED BY <1>1, <1>2 DEF Sent

LEMMA SentLess ==
  ASSUME Typed, NEW type, GfReceive(type)
  PROVE  /\ \A kind : Sent(kind) = Sent(kind)' \cup Of(kind, Head(gfToDaemon))
         /\ Apart("about", gfToDaemon) => /\ Apart("about", gfToDaemon)'
                                          /\ Sent("about")' \cap Of("about", Head(gfToDaemon)) = {}
<1>1. gfToDaemon \in Seq(DaemonMsgs) /\ gfToDaemon # <<>> /\ gfToDaemon' = Tail(gfToDaemon)
  BY ReceivedTyped DEF Typed, SocketsTyped
<1>2. \A kind : All(kind, gfToDaemon) = All(kind, gfToDaemon') \cup Of(kind, Head(gfToDaemon))
  BY <1>1, AllTaken
<1>3. Apart("about", gfToDaemon) =>
         /\ Apart("about", gfToDaemon')
         /\ All("about", gfToDaemon') \cap Of("about", Head(gfToDaemon)) = {}
  BY <1>1, AllTaken
<1> QED BY <1>2, <1>3 DEF Sent

LEMMA DueMore ==
  ASSUME Typed, NEW m \in ClientMsgs, gfInbox' = Append(gfInbox, m)
  PROVE  /\ \A kind : Due(kind)' = Due(kind) \cup Of(kind, m)
         /\ Apart("about", gfInbox) /\ Due("about") \cap Of("about", m) = {} =>
               Apart("about", gfInbox)'
<1>1. gfInbox \in Seq(ClientMsgs)
  BY DEF Typed, SocketsTyped
<1>2. \A kind : All(kind, gfInbox') = All(kind, gfInbox) \cup Of(kind, m)
  BY <1>1, AllAppended
<1>3. Apart("about", gfInbox) /\ All("about", gfInbox) \cap Of("about", m) = {} =>
         Apart("about", gfInbox')
  BY <1>1, AllAppended
<1> QED BY <1>2, <1>3 DEF Due

LEMMA OpenMore ==
  ASSUME Typed, NEW c \in AddCalls \cup ChangeCalls, gfCalls' = Append(gfCalls, c)
  PROVE  /\ \A kind : Open(kind)' = Open(kind) \cup Of(kind, c)
         /\ Apart("sessions", gfCalls) /\ Open("sessions") \cap Of("sessions", c) = {} =>
               Apart("sessions", gfCalls)'
<1>1. PICK S : gfCalls \in Seq(S) /\ c \in S
  BY DEF Typed, DaemonTyped
<1>2. \A kind : All(kind, gfCalls') = All(kind, gfCalls) \cup Of(kind, c)
  BY <1>1, AllAppended
<1>3. Apart("sessions", gfCalls) /\ All("sessions", gfCalls) \cap Of("sessions", c) = {} =>
         Apart("sessions", gfCalls')
  BY <1>1, AllAppended
<1> QED BY <1>2, <1>3 DEF Open

LEMMA OpenLess ==
  ASSUME Typed, gfCalls # <<>>, gfCalls' = Tail(gfCalls)
  PROVE  /\ \A kind : Open(kind) = Open(kind)' \cup Of(kind, Head(gfCalls))
         /\ Apart("sessions", gfCalls) =>
               /\ Apart("sessions", gfCalls)'
               /\ Open("sessions")' \cap Of("sessions", Head(gfCalls)) = {}
<1>1. gfCalls \in Seq(AddCalls \cup ChangeCalls)
  BY DEF Typed, DaemonTyped
<1> QED BY <1>1, AllTaken DEF Open

\* The calls about no session, counted.
Noughts(calls) == {i \in 1..Len(calls) : calls[i].session = 0}

LEMMA NoughtsAreFinite ==
  ASSUME NEW S, NEW calls \in Seq(S)
  PROVE  IsFiniteSet(Noughts(calls)) /\ Cardinality(Noughts(calls)) \in Nat
<1>1. Len(calls) \in Nat
  BY LenProperties
<1>2. IsFiniteSet(1..Len(calls)) /\ Noughts(calls) \in SUBSET (1..Len(calls))
  BY <1>1, FS_Interval DEF Noughts
<1> QED BY <1>2, FS_Subset, FS_CardinalityType

LEMMA NoughtsAppended ==
  ASSUME NEW S, NEW calls \in Seq(S), NEW c \in S
  PROVE  Cardinality(Noughts(Append(calls, c))) =
            IF c.session = 0 THEN Cardinality(Noughts(calls)) + 1 ELSE Cardinality(Noughts(calls))
<1> DEFINE n == Len(calls)
           p == Append(calls, c)
           N == Noughts(calls)
<1>1. n \in Nat /\ Len(p) = n + 1 /\ p[n + 1] = c /\ \A i \in 1..n : p[i] = calls[i]
  BY AppendProperties, LenProperties
<1>2. IsFiniteSet(N)
  BY NoughtsAreFinite
<1> HIDE DEF p
<1>3. \A i \in 1..n + 1 : i \in 1..n \/ i = n + 1
  BY <1>1
<1>4. n + 1 \in 1..n + 1 /\ n + 1 \notin 1..n /\ \A i \in 1..n : i \in 1..n + 1
  BY <1>1
<1>5. n + 1 \notin N
  BY <1>4 DEF Noughts
<1>6. CASE c.session = 0
  <2>1. Noughts(p) = N \cup {n + 1}
    BY <1>1, <1>3, <1>4, <1>6 DEF Noughts
  <2>2. Cardinality(N \cup {n + 1}) = Cardinality(N) + 1
    BY <1>2, <1>5, FS_AddElement
  <2> QED BY <1>6, <2>1, <2>2 DEF p
<1>7. CASE c.session # 0
  <2>1. Noughts(p) = N
    BY <1>1, <1>3, <1>4, <1>7 DEF Noughts
  <2> QED BY <1>7, <2>1 DEF p
<1> QED BY <1>6, <1>7

LEMMA NoughtsTaken ==
  ASSUME NEW S, NEW calls \in Seq(S), calls # <<>>
  PROVE  Cardinality(Noughts(calls)) =
            IF Head(calls).session = 0 THEN Cardinality(Noughts(Tail(calls))) + 1
            ELSE Cardinality(Noughts(Tail(calls)))
<1> DEFINE n == Len(calls)
           p == Tail(calls)
           M == Noughts(p)
           N == Noughts(calls)
           f == [i \in M |-> i + 1]
<1>1. n \in Nat \ {0} /\ p \in Seq(S) /\ Len(p) = n - 1 /\ \A i \in 1..n - 1 : p[i] = calls[i + 1]
  <2>1. n \in Nat \ {0}
    BY EmptySeq
  <2> QED BY <2>1, HeadTailProperties
<1>2. Head(calls) = calls[1]
  OBVIOUS
<1>3. IsFiniteSet(N) /\ Cardinality(N) \in Nat
  BY NoughtsAreFinite
<1>4. IsFiniteSet(M) /\ Cardinality(M) \in Nat
  BY <1>1, NoughtsAreFinite
<1> HIDE DEF p
<1>5. \A i \in M : i \in 1..n - 1 /\ calls[i + 1].session = 0
  BY <1>1 DEF Noughts
<1>6. \A i \in 1..n - 1 : calls[i + 1].session = 0 => i \in M
  BY <1>1 DEF Noughts
<1>7. \A i \in N : i \in 1..n /\ calls[i].session = 0
  BY DEF Noughts
<1>8. \A i \in 1..n : calls[i].session = 0 => i \in N
  BY DEF Noughts
<1> HIDE DEF M, N, n
<1>9. ASSUME NEW i \in M
      PROVE  i + 1 \in N \ {1}
  <2>1. i \in 1..n - 1 /\ calls[i + 1].session = 0
    BY <1>5
  <2>2. i + 1 \in 1..n /\ i + 1 # 1
    BY ONLY <1>1, <2>1
  <2> QED BY <1>8, <2>1, <2>2
<1>10. ASSUME NEW j \in N \ {1}
       PROVE  j - 1 \in M /\ (j - 1) + 1 = j
  <2>1. j - 1 \in 1..n - 1 /\ (j - 1) + 1 = j
    BY <1>1, <1>7
  <2> QED BY <1>6, <1>7, <2>1
<1>11. f \in [M -> N \ {1}] /\ \A a, b \in M : f[a] = f[b] => a = b
  BY <1>1, <1>5, <1>9
<1>12. \A j \in N \ {1} : \E i \in M : f[i] = j
  BY <1>10
<1> HIDE DEF f
<1>13. ExistsBijection(M, N \ {1})
  BY <1>11, <1>12 DEF ExistsBijection, Bijection, Injection, Surjection, IsInjective
<1>14. Cardinality(N \ {1}) = Cardinality(M)
  BY <1>4, <1>13, FS_Bijection
<1>15. Cardinality(N \ {1}) = IF 1 \in N THEN Cardinality(N) - 1 ELSE Cardinality(N)
  BY <1>3, FS_RemoveElement
<1>16. 1 \in N <=> Head(calls).session = 0
  BY <1>1, <1>2, <1>7, <1>8
<1> QED BY <1>3, <1>4, <1>14, <1>15, <1>16 DEF M, N, p

-----------------------------------------------------------------------------
(* The maps, in the actions that leave them alone *)

\* The client hears of nothing, but may come to know more geofences.
LEMMA NothingHeard ==
  MessagesAreKnown /\ UNCHANGED <<gfAborted, gfInbox>> /\ Known \subseteq Known' => MessagesAreKnown'
BY DEF MessagesAreKnown, Due

\* It takes a message, and forgets no more than that message erases.
LEMMA HeardIsKnown ==
  ASSUME Typed, MessagesAreKnown, NEW type, GfTake(type),
         NEW e, gfInbox' \in Seq(ClientMsgs), Remains(gfInbox', gfInbox, e), ~gfAborted',
         Known \ Of("erased", Head(gfInbox)) \subseteq Known'
  PROVE  /\ MessagesAreKnown'
         /\ \A kind \in MsgKinds : Due(kind) = Due(kind)' \cup Of(kind, Head(gfInbox))
         /\ Due("about")' \cap Of("about", Head(gfInbox)) = {}
<1> DEFINE p == gfInbox'
<1>1. gfInbox \in Seq(ClientMsgs) /\ gfInbox # <<>> /\ Head(gfInbox) = gfInbox[1]
  BY TakenTyped DEF Typed, SocketsTyped
<1>2. p \in Seq(ClientMsgs) /\ Remains(p, gfInbox, e)
  OBVIOUS
<1> HIDE DEF p
<1>3. /\ \A kind \in MsgKinds : All(kind, gfInbox) = All(kind, p) \cup Of(kind, Head(gfInbox))
      /\ Apart("about", gfInbox) => /\ Apart("about", p)
                                    /\ All("about", p) \cap Of("about", Head(gfInbox)) = {}
      /\ ErasedLast(gfInbox) => /\ ErasedLast(p)
                                /\ All("told", p) \cap Of("erased", Head(gfInbox)) = {}
  BY <1>1, <1>2, RemainsAbout
<1>4. \A kind : Due(kind)' = All(kind, p)
  BY DEF Due, p
<1>5. \A kind : Due(kind) = All(kind, gfInbox)
  BY DEF Due
<1>6. "told" \in MsgKinds
  BY DEF MsgKinds
<1>7. ErasedLast(gfInbox)' /\ Apart("about", gfInbox)'
  BY <1>3 DEF MessagesAreKnown, p
<1>8. Due("told")' \subseteq Known'
  BY <1>3, <1>4, <1>5, <1>6 DEF MessagesAreKnown
<1> QED BY <1>3, <1>4, <1>5, <1>7, <1>8 DEF MessagesAreKnown

LEMMA TakenIsKnown ==
  ASSUME Typed, MessagesAreKnown, NEW type, GfTake(type), gfInbox' = Tail(gfInbox), ~gfAborted',
         Known \ Of("erased", Head(gfInbox)) \subseteq Known'
  PROVE  /\ MessagesAreKnown'
         /\ \A kind \in MsgKinds : Due(kind) = Due(kind)' \cup Of(kind, Head(gfInbox))
         /\ Due("about")' \cap Of("about", Head(gfInbox)) = {}
<1>1. gfInbox \in Seq(ClientMsgs) /\ gfInbox # <<>>
  BY TakenTyped DEF Typed, SocketsTyped
<1>2. PICK e : Remains(Tail(gfInbox), gfInbox, e) /\ Tail(gfInbox) \in Seq(ClientMsgs)
  BY <1>1, TailRemains
<1> QED BY <1>2, HeardIsKnown

\* It is sent a message about geofences it knows.
LEMMA ToldIsKnown ==
  ASSUME Typed, MessagesAreKnown, NEW m \in ClientMsgs, gfInbox' = Append(gfInbox, m),
         UNCHANGED <<gfAborted, mGeofenceMap>>,
         Of("told", m) \subseteq Known, Of("told", m) \cap Due("erased") = {},
         Of("about", m) \cap Due("about") = {}
  PROVE  MessagesAreKnown'
<1>1. /\ \A kind : Due(kind)' = Due(kind) \cup Of(kind, m)
      /\ Apart("about", gfInbox) /\ Due("about") \cap Of("about", m) = {} =>
            Apart("about", gfInbox)'
  BY DueMore
<1>2. ErasedLast(gfInbox) /\ Due("erased") \cap Of("told", m) = {} => ErasedLast(gfInbox')
  BY InOrder
<1>3. ErasedLast(gfInbox)' /\ Apart("about", gfInbox)'
  BY <1>1, <1>2 DEF MessagesAreKnown
<1>4. Due("told")' \subseteq Known'
  BY <1>1 DEF MessagesAreKnown, Known
<1> QED BY <1>3, <1>4 DEF MessagesAreKnown

\* The sets of the queues stay.
LEMMA SameSets ==
  ASSUME Matched, Apart("about", gfToDaemon)',
         \A kind \in MsgKinds : Sent(kind)' = Sent(kind),
         Due("about")' = Due("about"), Due("erased")' = Due("erased"),
         UNCHANGED <<Map, engineFences, gfCalls, mGeofenceMap, refused>>, awaited \subseteq awaited'
  PROVE  Matched'
<1>1. /\ Sent("about")' = Sent("about") /\ Sent("added")' = Sent("added")
      /\ Sent("twice")' = Sent("twice") /\ Sent("entries")' = Sent("entries")
      /\ Sent("modified")' = Sent("modified")
  BY DEF MsgKinds
<1>2. \A kind : Open(kind)' = Open(kind)
  BY DEF Open
<1>3. InCall' = InCall /\ Zeros' = Zeros /\ ZeroCalls' = ZeroCalls /\ Known' = Known
  <2>1. Open("sessions")' = Open("sessions") /\ Map' = Map
    BY <1>2
  <2>2. InCall' = InCall
    BY <2>1 DEF InCall
  <2>3. Zeros' = Zeros
    BY <2>1 DEF Zeros
  <2> QED BY <2>2, <2>3 DEF ZeroCalls, Known
<1>4. Separate'
  BY <1>1, <1>3 DEF Matched, Separate
<1>5. Placed'
  BY <1>1, <1>2, <1>3 DEF Matched, Placed
<1>6. Current'
  BY <1>1, <1>2, <1>3 DEF Matched, Current
<1> QED BY <1>4, <1>5, <1>6 DEF Matched

\* Nothing about geofences is sent to the daemon.
LEMMA SilentlySent ==
  ASSUME Typed, Matched, NEW msgs \in Seq(DaemonMsgs), GfSend(msgs),
         \A i \in 1..Len(msgs) : msgs[i].type \in {"REGISTER", "UPDATE_CALLBACKS"}
  PROVE  Apart("about", gfToDaemon)' /\ \A kind \in MsgKinds : Sent(kind)' = Sent(kind)
<1>1. \A i \in 1..Len(msgs) : \A kind \in MsgKinds : Of(kind, msgs[i]) = {}
  BY SilentMsgs
<1>2. \A kind \in MsgKinds : All(kind, msgs) = {}
  BY <1>1, InAll
<1>3. Apart("about", msgs)
  BY <1>1 DEF Apart, MsgKinds
<1>4. CASE gfUp
  <2>1. /\ \A kind : Sent(kind)' = Sent(kind) \cup All(kind, msgs)
        /\ Apart("about", gfToDaemon) /\ Apart("about", msgs)
           /\ Sent("about") \cap All("about", msgs) = {} => Apart("about", gfToDaemon)'
    BY <1>4, SentMore
  <2>2. All("about", msgs) = {}
    BY <1>2 DEF MsgKinds
  <2> QED BY <1>2, <1>3, <2>1, <2>2 DEF Matched, Separate
<1>5. CASE ~gfUp
  BY <1>5 DEF GfSend, Sent, Matched, Separate
<1> QED BY <1>4, <1>5

\* Nothing about geofences is taken from the daemon's socket.
LEMMA SilentlyReceived ==
  ASSUME Typed, Matched, NEW type \in {"REGISTER", "UPDATE_CALLBACKS"}, GfReceive(type)
  PROVE  Apart("about", gfToDaemon)' /\ \A kind \in MsgKinds : Sent(kind)' = Sent(kind)
<1>1. Head(gfToDaemon).type = type
  BY DEF GfReceive, GfTakes
<1>2. \A kind \in MsgKinds : Of(kind, Head(gfToDaemon)) = {}
  BY <1>1, SilentMsgs
<1> QED BY <1>2, SentLess DEF Matched, Separate

LEMMA NumbersStay ==
  GfNumbers /\ UNCHANGED <<mGeofenceMap, mLastAddedClientIds, made, refused>> => GfNumbers'
BY DEF GfNumbers, Known

LEMMA RegisterReqKept ==
  ASSUME Typed, BInv, GInv, GfRegisterReq
  PROVE  GInv'
<1>1. /\ GfTake("REGISTER") /\ gfInbox' = Tail(gfInbox) /\ GfSend(<<[type |-> "REGISTER"]>>)
      /\ UNCHANGED <<gfClient, gfAborted, gfProcess, gfDaemon, gfHistory>>
  BY DEF GfRegisterReq
<1>2. /\ UNCHANGED <<gfRegistered, gfUp, gfHandler, engineFences, gfCalls, Map, gfAborted>>
      /\ UNCHANGED <<mGeofenceMap, mLastAddedClientIds, made, refused, awaited, troubles>>
      /\ Known' = Known
  BY <1>1 DEF gfClient, gfProcess, gfDaemon, gfHistory, Map, Known
<1>3. GfNumbers'
  BY <1>2, NumbersStay DEF GInv
<1> SUFFICES ASSUME troubles = {}
             PROVE  MessagesAreKnown' /\ Calm' /\ (Live' => Matched')
  BY <1>2, <1>3 DEF GInv
<1>4. MessagesAreKnown /\ Calm /\ (Live => Matched)
  BY DEF GInv
<1>5. ~gfAborted' /\ Known \ Of("erased", Head(gfInbox)) \subseteq Known'
  BY <1>2, <1>4 DEF MessagesAreKnown
<1>6. /\ MessagesAreKnown'
      /\ \A kind \in MsgKinds : Due(kind) = Due(kind)' \cup Of(kind, Head(gfInbox))
  BY <1>1, <1>4, <1>5, TakenIsKnown
<1>7. Calm' /\ (Live' <=> Live)
  BY <1>1, <1>2, <1>4, TakingCalm
<1>8. ASSUME Live
      PROVE  Matched'
  <2>1. <<[type |-> "REGISTER"]>> \in Seq(DaemonMsgs)
    BY SimpleMsgs
  <2>2. Apart("about", gfToDaemon)' /\ \A kind \in MsgKinds : Sent(kind)' = Sent(kind)
    <3> DEFINE msgs == <<[type |-> "REGISTER"]>>
    <3>1. \A i \in 1..Len(msgs) : msgs[i].type \in {"REGISTER", "UPDATE_CALLBACKS"}
      OBVIOUS
    <3>2. GfSend(msgs) /\ msgs \in Seq(DaemonMsgs)
      BY <1>1, <2>1
    <3> HIDE DEF msgs
    <3> QED BY <1>4, <1>8, <3>1, <3>2, SilentlySent
  <2>3. Head(gfInbox).type = "REGISTER"
    BY <1>1 DEF GfTake
  <2>4. Due("about")' = Due("about") /\ Due("erased")' = Due("erased")
    <3>1. \A kind \in MsgKinds : Of(kind, Head(gfInbox)) = {}
      BY <2>3, SilentMsgs
    <3>2. "about" \in MsgKinds /\ "erased" \in MsgKinds
      BY DEF MsgKinds
    <3> QED BY <1>6, <3>1, <3>2
  <2> QED BY <1>2, <1>4, <1>8, <2>2, <2>4, SameSets
<1> QED BY <1>6, <1>7, <1>8

LEMMA HalReadyKept ==
  ASSUME Typed, BInv, GInv, GfHalReady
  PROVE  GInv'
<1>1. /\ GfTake("HAL_READY")
      /\ UNCHANGED <<mGeofenceMap, mLastAddedClientIds, made, refused, troubles, gfAborted>>
      /\ Known' = Known
  BY DEF GfHalReady, Known
<1>2. GfNumbers'
  BY <1>1, NumbersStay DEF GInv
<1> SUFFICES ASSUME troubles = {}
             PROVE  MessagesAreKnown' /\ Calm' /\ ~Live'
  BY <1>1, <1>2 DEF GInv
<1>3. MessagesAreKnown /\ Calm
  BY DEF GInv
<1>4. ~gfAborted' /\ Known \ Of("erased", Head(gfInbox)) \subseteq Known'
  BY <1>1, <1>3 DEF MessagesAreKnown
<1>5. /\ Calm' /\ ~Live'
      /\ \E e : Remains(gfInbox', gfInbox, e)
      /\ gfInbox' \in Seq(ClientMsgs)
  BY <1>3, HalReadyCalm
<1>6. MessagesAreKnown'
  BY <1>1, <1>3, <1>4, <1>5, HeardIsKnown
<1> QED BY <1>5, <1>6

LEMMA BreachKept ==
  ASSUME Typed, BInv, GInv, GfBreach
  PROVE  GInv'
<1>1. /\ GfTake("BREACH") /\ gfInbox' = Tail(gfInbox)
      /\ gfAborted' = (gfMask /\ Head(gfInbox).id \notin Known)
      /\ UNCHANGED <<gfRegistered, gfUp, gfHandler, engineFences, gfCalls, Map, gfToDaemon>>
      /\ UNCHANGED <<mGeofenceMap, mLastAddedClientIds, made, refused, awaited, troubles>>
      /\ Known' = Known
  BY DEF GfBreach, gfClient, gfProcess, gfDaemon, gfHistory, Map, Known
<1>2. GfNumbers'
  BY <1>1, NumbersStay DEF GInv
<1> SUFFICES ASSUME troubles = {}
             PROVE  MessagesAreKnown' /\ Calm' /\ (Live' => Matched')
  BY <1>1, <1>2 DEF GInv
<1>3. MessagesAreKnown /\ Calm /\ (Live => Matched)
  BY DEF GInv
<1>4. Head(gfInbox).type = "BREACH" /\ Head(gfInbox) = gfInbox[1] /\ 1 \in 1..Len(gfInbox)
  <2>1. Len(gfInbox) \in Nat \ {0} /\ Head(gfInbox) = gfInbox[1]
    BY <1>1, TakenTyped DEF Typed
  <2> QED BY <1>1, <2>1 DEF GfTake
<1>5. /\ Of("about", gfInbox[1]) = {} /\ Of("erased", gfInbox[1]) = {}
      /\ Of("told", gfInbox[1]) = {gfInbox[1].id}
  BY <1>4, Kinds DEF About, Erased, Told
<1>6. gfInbox[1].id \in Due("told")
  BY <1>4, <1>5, InAll DEF Due
<1>7. ~gfAborted'
  <2>1. Head(gfInbox).id \in Known
    BY <1>3, <1>4, <1>6 DEF MessagesAreKnown
  <2> QED BY <1>1, <2>1
<1>8. /\ MessagesAreKnown'
      /\ \A kind \in MsgKinds : Due(kind) = Due(kind)' \cup Of(kind, Head(gfInbox))
  BY <1>1, <1>3, <1>7, TakenIsKnown
<1>9. Calm' /\ (Live' <=> Live)
  BY <1>1, <1>3, TakingCalm
<1>10. ASSUME Live
       PROVE  Matched'
  <2>1. Due("about")' = Due("about") /\ Due("erased")' = Due("erased")
    BY <1>4, <1>5, <1>8 DEF MsgKinds
  <2>2. Apart("about", gfToDaemon)' /\ \A kind \in MsgKinds : Sent(kind)' = Sent(kind)
    BY <1>1, <1>3, <1>10 DEF Sent, Matched, Separate
  <2> QED BY <1>1, <1>3, <1>10, <2>1, <2>2, SameSets
<1> QED BY <1>8, <1>9, <1>10

LEMMA DroppedKept ==
  ASSUME Typed, BInv, GInv, GfDropped
  PROVE  GInv'
<1>1. PICK type \in GfTypes \cup {"UPDATE_CALLBACKS"} : GfReceive(type)
  BY DEF GfDropped
<1>2. /\ ~gfHandler.registered
      /\ UNCHANGED <<gfInbox, gfHandler, engineFences, gfCalls, Map, gfAborted>>
      /\ UNCHANGED <<mGeofenceMap, mLastAddedClientIds, made, refused, awaited, troubles>>
      /\ Known' = Known
  BY <1>1 DEF GfDropped, GfReceive, GfTakes, gfClient, gfDaemon, gfHistory, Map, Known
<1>3. GfNumbers'
  BY <1>2, NumbersStay DEF GInv
<1> SUFFICES ASSUME troubles = {}
             PROVE  MessagesAreKnown' /\ Calm' /\ ~Live'
  BY <1>2, <1>3 DEF GInv
<1>4. MessagesAreKnown /\ Calm
  BY DEF GInv
<1>5. MessagesAreKnown'
  BY <1>2, <1>4, NothingHeard
<1>6. Calm' /\ (Live' <=> Live)
  BY <1>1, <1>2, <1>4, ReceiptCalm
<1> QED BY <1>2, <1>5, <1>6, LiveIsRegistered

LEMMA NewClientKept ==
  ASSUME Typed, BInv, GInv, GfNewClient
  PROVE  GInv'
<1>1. /\ GfReceive("REGISTER")
      /\ gfInbox' = IF gfHandler.capable THEN Append(gfInbox, [type |-> "CAPABILITIES"])
                    ELSE gfInbox
      /\ UNCHANGED <<engineFences, gfCalls, gfAborted>>
      /\ UNCHANGED <<mGeofenceMap, mLastAddedClientIds, made, refused, awaited, troubles>>
      /\ Known' = Known
  BY DEF GfNewClient, GfReceive, GfTakes, gfClient, gfHistory, Known
<1>2. Map' = Map
  BY DEF GfNewClient, Map, Typed, DaemonTyped, Handlers
<1>3. GfNumbers'
  BY <1>1, NumbersStay DEF GInv
<1> SUFFICES ASSUME troubles = {}
             PROVE  MessagesAreKnown' /\ Calm' /\ (Live' => Matched')
  BY <1>1, <1>3 DEF GInv
<1>4. MessagesAreKnown /\ Calm /\ (Live => Matched)
  BY DEF GInv
<1>5. [type |-> "CAPABILITIES"] \in ClientMsgs
  BY Signals
<1>6. \A kind \in MsgKinds : Of(kind, [type |-> "CAPABILITIES"]) = {}
  BY SilentMsgs
<1>7. /\ Of("told", [type |-> "CAPABILITIES"]) = {} /\ Of("about", [type |-> "CAPABILITIES"]) = {}
      /\ Of("erased", [type |-> "CAPABILITIES"]) = {}
  BY <1>6 DEF MsgKinds
<1>8. MessagesAreKnown' /\ Due("about")' = Due("about") /\ Due("erased")' = Due("erased")
  <2>1. CASE gfHandler.capable
    BY <1>1, <1>4, <1>5, <1>7, <2>1, ToldIsKnown, DueMore
  <2>2. CASE ~gfHandler.capable
    BY <1>1, <1>4, <2>2, NothingHeard DEF Due
  <2> QED BY <2>1, <2>2
<1>9. Calm' /\ (Live' <=> Live)
  BY <1>4, NewClientCalm
<1>10. ASSUME Live
       PROVE  Matched'
  BY <1>1, <1>2, <1>4, <1>8, <1>10, SilentlyReceived, SameSets
<1> QED BY <1>8, <1>9, <1>10

LEMMA SubscriptionKept ==
  ASSUME Typed, BInv, GInv, GfUpdateSubscription
  PROVE  GInv'
<1>1. /\ GfReceive("UPDATE_CALLBACKS")
      /\ UNCHANGED <<gfInbox, engineFences, gfCalls, gfAborted>>
      /\ UNCHANGED <<mGeofenceMap, mLastAddedClientIds, made, refused, awaited, troubles>>
      /\ Known' = Known
  BY DEF GfUpdateSubscription, GfReceive, GfTakes, gfClient, gfHistory, Known
<1>2. Map' = Map /\ gfHandler'.registered = gfHandler.registered
  BY DEF GfUpdateSubscription, Map, Typed, DaemonTyped, Handlers
<1>3. GfNumbers'
  BY <1>1, NumbersStay DEF GInv
<1> SUFFICES ASSUME troubles = {}
             PROVE  MessagesAreKnown' /\ Calm' /\ (Live' => Matched')
  BY <1>1, <1>3 DEF GInv
<1>4. MessagesAreKnown /\ Calm /\ (Live => Matched)
  BY DEF GInv
<1>5. MessagesAreKnown' /\ Due("about")' = Due("about") /\ Due("erased")' = Due("erased")
  BY <1>1, <1>4, NothingHeard DEF Due
<1>6. Calm' /\ (Live' <=> Live)
  BY <1>1, <1>2, <1>4, ReceiptCalm
<1>7. ASSUME Live
      PROVE  Matched'
  BY <1>1, <1>2, <1>4, <1>5, <1>7, SilentlyReceived, SameSets
<1> QED BY <1>5, <1>6, <1>7

LEMMA CapabilitiesCbKept ==
  ASSUME Typed, BInv, GInv, GfCapabilitiesCb
  PROVE  GInv'
<1> DEFINE m == [type |-> "CAPABILITIES"]
<1>1. /\ gfInbox' = Append(gfInbox, m) /\ gfHandler.registered
      /\ UNCHANGED <<gfRegistered, gfUp, gfToDaemon, engineFences, gfCalls, gfAborted>>
      /\ UNCHANGED <<mGeofenceMap, mLastAddedClientIds, made, refused, awaited, troubles>>
      /\ Known' = Known
  BY DEF GfCapabilitiesCb, gfClient, gfProcess, gfHistory, Known
<1>2. Map' = Map /\ gfHandler'.registered = gfHandler.registered
  BY DEF GfCapabilitiesCb, Map, Typed, DaemonTyped, Handlers
<1>3. GfNumbers'
  BY <1>1, NumbersStay DEF GInv
<1> SUFFICES ASSUME troubles = {}
             PROVE  MessagesAreKnown' /\ Calm' /\ (Live' => Matched')
  BY <1>1, <1>3 DEF GInv
<1>4. MessagesAreKnown /\ Calm /\ (Live => Matched)
  BY DEF GInv
<1>5. m \in ClientMsgs /\ m.type = "CAPABILITIES"
  BY Signals
<1> HIDE DEF m
<1>6. Of("told", m) = {} /\ Of("about", m) = {} /\ Of("erased", m) = {}
  BY <1>5, SilentMsgs DEF MsgKinds
<1>7. MessagesAreKnown' /\ Due("about")' = Due("about") /\ Due("erased")' = Due("erased")
  BY <1>1, <1>4, <1>5, <1>6, ToldIsKnown, DueMore
<1>8. Calm' /\ (Live' <=> Live)
  BY <1>1, <1>2, <1>4, <1>5, ReportCalm
<1>9. ASSUME Live
      PROVE  Matched'
  <2>1. Apart("about", gfToDaemon)' /\ \A kind \in MsgKinds : Sent(kind)' = Sent(kind)
    BY <1>1, <1>4, <1>9 DEF Sent, Matched, Separate
  <2> QED BY <1>1, <1>2, <1>4, <1>7, <1>9, <2>1, SameSets
<1> QED BY <1>7, <1>8, <1>9

\* The geofences of sessions in the engine are known to their client.
LEMMA BreachCbKept ==
  ASSUME Typed, BInv, GInv, NEW s \in DOMAIN engineFences, onGeofenceBreachCb(s)
  PROVE  GInv'
<1>1. PICK id \in getClientId(s) : gfInbox' = Append(gfInbox, [type |-> "BREACH", id |-> id])
  BY DEF onGeofenceBreachCb
<1> DEFINE m == [type |-> "BREACH", id |-> id]
<1>2. /\ UNCHANGED <<gfRegistered, gfUp, gfToDaemon, gfHandler, engineFences, gfCalls, Map>>
      /\ UNCHANGED <<mGeofenceMap, mLastAddedClientIds, made, refused, awaited, troubles>>
      /\ UNCHANGED gfAborted /\ Known' = Known
  BY DEF onGeofenceBreachCb, gfClient, gfProcess, gfDaemon, Map, Known
<1>3. GfNumbers'
  BY <1>2, NumbersStay DEF GInv
<1> SUFFICES ASSUME troubles = {}
             PROVE  MessagesAreKnown' /\ Calm' /\ (Live' => Matched')
  BY <1>2, <1>3 DEF GInv
<1>4. MessagesAreKnown /\ Calm /\ (Live => Matched)
  BY DEF GInv
<1>5. Live /\ Matched
  BY <1>4 DEF Calm, Idle
<1>6. id \in DOMAIN Map
  <2>1. \E g \in DOMAIN Map : Map[g] = s
    BY <1>5 DEF Matched, Placed
  <2> QED BY <1>1, <2>1 DEF getClientId, Map
<1>7. m \in ClientMsgs /\ m.type = "BREACH"
  <2>1. id \in FenceIds
    BY <1>1, ClientIdTyped DEF Typed
  <2> QED BY <2>1 DEF ClientMsgs
<1>8. Of("told", m) = {id} /\ Of("about", m) = {} /\ Of("erased", m) = {}
  BY Kinds DEF Told, About, Erased
<1>9. gfInbox' = Append(gfInbox, m)
  BY <1>1
<1> HIDE DEF m
<1>10. id \in Known /\ id \notin Due("erased")
  BY <1>5, <1>6 DEF Matched, Placed
<1>11. MessagesAreKnown' /\ Due("about")' = Due("about") /\ Due("erased")' = Due("erased")
  BY <1>2, <1>4, <1>7, <1>8, <1>9, <1>10, ToldIsKnown, DueMore
<1>12. Calm'
  BY <1>2, <1>4, <1>5, <1>7, <1>9, ReportCalm
<1>13. Matched'
  <2>1. Apart("about", gfToDaemon)' /\ \A kind \in MsgKinds : Sent(kind)' = Sent(kind)
    BY <1>2, <1>5 DEF Sent, Matched, Separate
  <2> QED BY <1>2, <1>5, <1>11, <2>1, SameSets
<1> QED BY <1>11, <1>12, <1>13

LEMMA ListenerReadyKept ==
  ASSUME Typed, BInv, GInv, GfListenerReady
  PROVE  GInv'
<1> DEFINE m == [type |-> "HAL_READY"]
<1>1. /\ gfInbox' = Append(gfInbox, m)
      /\ UNCHANGED <<mGeofenceMap, mLastAddedClientIds, made, refused, troubles, gfAborted>>
  BY DEF GfListenerReady, gfClient, gfHistory
<1>2. GfNumbers'
  BY <1>1, NumbersStay DEF GInv
<1> SUFFICES ASSUME troubles = {}
             PROVE  MessagesAreKnown' /\ Calm' /\ ~Live'
  BY <1>1, <1>2 DEF GInv
<1>3. MessagesAreKnown /\ Calm
  BY DEF GInv
<1>4. m \in ClientMsgs /\ m.type = "HAL_READY"
  BY Signals
<1> HIDE DEF m
<1>5. Of("told", m) = {} /\ Of("about", m) = {}
  BY <1>4, SilentMsgs DEF MsgKinds
<1>6. MessagesAreKnown'
  BY <1>1, <1>3, <1>4, <1>5, ToldIsKnown
<1> QED BY <1>3, <1>6, ListenerReadyCalm

LEMMA CrashKept ==
  ASSUME Typed, BInv, GInv, GfCrash
  PROVE  GInv'
<1>1. /\ UNCHANGED <<mGeofenceMap, mLastAddedClientIds, made, refused, gfAborted, gfInbox>>
      /\ troubles \subseteq troubles' /\ Known' = Known
  BY DEF GfCrash, gfClient, Known
<1>2. GfNumbers'
  BY <1>1, NumbersStay DEF GInv
<1> SUFFICES ASSUME troubles' = {}
             PROVE  MessagesAreKnown' /\ Calm' /\ ~Live'
  BY <1>2 DEF GInv
<1>3. MessagesAreKnown /\ Calm
  BY <1>1 DEF GInv
<1>4. MessagesAreKnown'
  BY <1>1, <1>3, NothingHeard
<1> QED BY <1>3, <1>4, CrashCalm

-----------------------------------------------------------------------------
(* The maps, when the application makes a call *)

LEMMA AddMsgAbout ==
  ASSUME NEW n \in Nat, NEW fences \in [1..n -> Fences],
         \A i, j \in 1..n : fences[i] = fences[j] => i = j,
         NEW map, \A i \in 1..n : map[fences[i]] \in GfOptions
  PROVE  \E m \in DaemonMsgs :
            /\ AddMsg(fences, fences, map) = <<m>> /\ m.type = "ADD"
            /\ Of("about", m) = Range(fences) /\ Of("added", m) = Range(fences)
            /\ Of("twice", m) = {} /\ Of("modified", m) = {}
            /\ \A e \in Of("entries", m) :
                  e.id \in Range(fences) /\ e.id = e.of /\ e.opt = map[e.id]
<1> DEFINE entries == [i \in DOMAIN fences |-> [id |-> fences[i], of |-> fences[i],
                                                opt |-> map[fences[i]]]]
           m == [type |-> "ADD", fences |-> entries]
<1>1. DOMAIN fences = 1..n
  OBVIOUS
<1>2. \A i \in 1..n : [id |-> fences[i], of |-> fences[i], opt |-> map[fences[i]]] \in AddEntries
  BY FencesAreIds DEF AddEntries
<1>3. entries \in [1..n -> AddEntries]
  BY <1>1, <1>2
<1>4. entries \in Seq(AddEntries) /\ Len(entries) = n
  <2> HIDE DEF entries
  <2> QED BY <1>3, FunctionIsSeq
<1>5. \A i \in 1..n : /\ entries[i].id = fences[i] /\ entries[i].of = fences[i]
                      /\ entries[i].opt = map[fences[i]]
  BY <1>1
<1>6. AddMsg(fences, fences, map) = <<m>> /\ m.type = "ADD" /\ m.fences = entries
  BY DEF AddMsg
<1>7. m \in DaemonMsgs
  <2> HIDE DEF entries
  <2> QED BY <1>4 DEF DaemonMsgs
<1> HIDE DEF entries, m
<1>8. IdsOf(entries) = Range(fences)
  BY <1>1, <1>4, <1>5 DEF IdsOf, Range
<1>9. Of("about", m) = Range(fences) /\ Of("added", m) = Range(fences)
  BY <1>6, <1>8, Kinds DEF About, Added
<1>10. Of("modified", m) = {}
  BY <1>6, Kinds DEF Modified
<1>11. Of("twice", m) = {}
  <2>1. \A i, j \in 1..n : entries[i].id = entries[j].id => i = j
    BY <1>5
  <2>2. Twice(m) = {}
    BY <1>4, <1>6, <2>1 DEF Twice
  <2> QED BY <2>2, Kinds
<1>12. ASSUME NEW e \in Of("entries", m)
       PROVE  e.id \in Range(fences) /\ e.id = e.of /\ e.opt = map[e.id]
  <2>1. PICK i \in 1..n : e = entries[i]
    BY <1>4, <1>6, Kinds DEF Entries
  <2> QED BY <1>1, <1>5, <2>1 DEF Range
<1> QED BY <1>6, <1>7, <1>9, <1>10, <1>11, <1>12

\* The subscription, if it is sent, goes before a message about geofences.
LEMMA Prefixed ==
  ASSUME NEW first \in {<<>>, UpdateGfCallbacks}, NEW m \in DaemonMsgs, m.type # "REGISTER"
  PROVE  /\ first \o <<m>> \in Seq(DaemonMsgs) /\ ~Has(first \o <<m>>, "REGISTER")
         /\ \A kind \in MsgKinds : All(kind, first \o <<m>>) = Of(kind, m)
         /\ Apart("about", first \o <<m>>)
<1> DEFINE one == <<m>>
           up == [type |-> "UPDATE_CALLBACKS"]
<1>1. one \in Seq(DaemonMsgs) /\ ~Has(one, "REGISTER")
  BY DEF Has
<1>2. \A kind : All(kind, one) = Of(kind, m) /\ Apart(kind, one)
  BY AllOfOne
<1>3. first \in Seq(DaemonMsgs) /\ ~Has(first, "REGISTER")
  <2>1. CASE first = <<>>
    BY <2>1, SimpleMsgs DEF Has
  <2>2. CASE first = UpdateGfCallbacks
    <3>1. \A i \in 1..Len(first) : first[i].type = "UPDATE_CALLBACKS"
      BY <2>2, SimpleMsgs
    <3> QED BY <2>2, <3>1, SimpleMsgs DEF Has
  <2> QED BY <2>1, <2>2
<1>4. /\ \A kind \in MsgKinds : All(kind, first) = {}
      /\ Apart("about", first)
  <2>1. CASE first = <<>>
    BY <2>1, AllOfNone
  <2>2. CASE first = <<up>>
    <3>1. up.type = "UPDATE_CALLBACKS"
      OBVIOUS
    <3> HIDE DEF up
    <3>2. \A kind \in MsgKinds : Of(kind, up) = {}
      BY <3>1, SilentMsgs
    <3> QED BY <2>2, <3>2, AllOfOne
  <2> QED BY <2>1, <2>2 DEF UpdateGfCallbacks
<1> HIDE DEF one
<1>5. first \o one \in Seq(DaemonMsgs)
  BY <1>1, <1>3, ConcatProperties
<1>6. ~Has(first \o one, "REGISTER")
  <2>1. ASSUME Has(first \o one, "REGISTER")
        PROVE  Has(first, "REGISTER") \/ Has(one, "REGISTER")
    BY <1>1, <1>3, <2>1, HasJoined
  <2> QED BY <1>1, <1>3, <2>1
<1>7. /\ \A kind : All(kind, first \o one) = All(kind, first) \cup All(kind, one)
      /\ Apart("about", first) /\ Apart("about", one)
         /\ All("about", first) \cap All("about", one) = {} => Apart("about", first \o one)
  <2>1. ASSUME NEW kind
        PROVE  All(kind, first \o one) = All(kind, first) \cup All(kind, one)
    BY <1>1, <1>3, AllJoined
  <2>2. Apart("about", first) /\ Apart("about", one)
           /\ All("about", first) \cap All("about", one) = {} => Apart("about", first \o one)
    BY <1>1, <1>3, AllJoined
  <2> QED BY <2>1, <2>2
<1>8. \A kind \in MsgKinds : All(kind, first \o one) = Of(kind, m)
  BY <1>2, <1>4, <1>7
<1>9. Apart("about", first \o one)
  <2>1. All("about", first) = {}
    BY <1>4 DEF MsgKinds
  <2> QED BY <1>2, <1>4, <1>7, <2>1
<1> QED BY <1>5, <1>6, <1>8, <1>9 DEF one

\* The new geofences are not among those known, nor among those refused before.
LEMMA FreshFences ==
  ASSUME Typed, GfNumbers, NEW n \in Fences, NEW opt \in GfOptions, AddGeofencesReq(n, opt),
         NEW F, F = Range([i \in 1..n |-> made + i])
  PROVE  /\ F \cap Known = {} /\ F \cap refused = {} /\ Known' = Known \cup F
         /\ \A g \in Known : mGeofenceMap'[g] = mGeofenceMap[g]
         /\ \A g \in F : mGeofenceMap'[g] = opt
         /\ GfNumbers'
<1> DEFINE fences == [i \in 1..n |-> made + i]
<1>1. n \in Nat /\ made \in Nat /\ made' = made + n
  BY GfBounds DEF Typed, HistoryTyped, Fences, AddGeofencesReq
<1>2. Range(fences) = F /\ \A g \in F : \E i \in 1..n : g = made + i
  BY DEF Range
<1>3. \A g \in 1..made : g \notin F
  BY <1>1, <1>2
<1>4. F \cap Known = {} /\ F \cap refused = {}
  BY <1>3 DEF GfNumbers
<1>5. mGeofenceMap' = Over(mGeofenceMap, [g \in F |-> opt])
  <2>1. mGeofenceMap' = Over(mGeofenceMap, [g \in Range(fences) |-> opt])
    BY DEF AddGeofencesReq
  <2> QED BY <1>2, <2>1
<1>6. /\ Known' = Known \cup F
      /\ \A g \in Known : mGeofenceMap'[g] = mGeofenceMap[g]
      /\ \A g \in F : mGeofenceMap'[g] = opt
  BY <1>4, <1>5 DEF Known, Over
<1>7. GfNumbers'
  <2>1. \A g \in 1..made : g \in 1..made'
    BY <1>1
  <2>2. \A g \in F : g \in 1..made'
    BY <1>1, <1>2
  <2>3. Known' \subseteq 1..made'
    BY <1>6, <2>1, <2>2 DEF GfNumbers
  <2>4. refused' = refused \cup F \/ refused' = refused
    <3>1. refused' = refused \cup Range(fences) \/ refused' = refused
      BY DEF AddGeofencesReq
    <3> QED BY <1>2, <3>1
  <2>5. refused' \subseteq 1..made'
    BY <2>1, <2>2, <2>4 DEF GfNumbers
  <2>6. ASSUME NEW i \in 1..Len(mLastAddedClientIds')
        PROVE  mLastAddedClientIds'[i] \in 1..made' \ refused'
    <3>1. CASE gfPending
      <4>1. mLastAddedClientIds' = mLastAddedClientIds
        BY <3>1 DEF AddGeofencesReq
      <4> QED BY <1>3, <2>1, <2>4, <4>1 DEF GfNumbers
    <3>2. CASE ~gfPending
      <4>1. mLastAddedClientIds' = fences /\ refused' = refused
        BY <3>2 DEF AddGeofencesReq
      <4>2. Len(fences) = n /\ \A k \in 1..n : fences[k] \in F
        <5>1. fences \in [1..n -> Nat]
          BY <1>1
        <5>2. \A k \in 1..n : fences[k] \in F
          BY <1>2 DEF Range
        <5> HIDE DEF fences
        <5>3. Len(fences) = n
          BY <1>1, <5>1, FunctionIsSeq
        <5> QED BY <5>2, <5>3
      <4> HIDE DEF fences
      <4> QED BY <1>4, <2>2, <4>1, <4>2
    <3> QED BY <3>1, <3>2
  <2> QED BY <2>3, <2>5, <2>6 DEF GfNumbers
<1> QED BY <1>4, <1>6, <1>7

\* New geofences: those in A are sent to the daemon, those in R refused.
LEMMA ClientAdds ==
  ASSUME Typed, Matched, NEW A, NEW R, (A \cup R) \cap Known = {}, A \cap (refused \cup R) = {},
         Known' = Known \cup A \cup R, \A g \in Known : mGeofenceMap'[g] = mGeofenceMap[g],
         refused' = refused \cup R, awaited \cup A \subseteq awaited',
         UNCHANGED <<Map, engineFences, gfCalls, gfInbox>>, Apart("about", gfToDaemon)',
         Sent("about")' = Sent("about") \cup A, Sent("added")' = Sent("added") \cup A,
         Sent("twice")' = Sent("twice"), Sent("modified")' = Sent("modified"),
         \A e \in Sent("entries")' : \/ e \in Sent("entries")
                                     \/ e.id = e.of /\ e.opt = mGeofenceMap'[e.id]
  PROVE  Matched'
<1>1. \A kind : Open(kind)' = Open(kind) /\ Due(kind)' = Due(kind)
  BY DEF Open, Due
<1>2. InCall' = InCall /\ Zeros' = Zeros /\ ZeroCalls' = ZeroCalls /\ Map' = Map
  <2>1. Open("sessions")' = Open("sessions") /\ Map' = Map
    BY <1>1
  <2>2. InCall' = InCall
    BY <2>1 DEF InCall
  <2>3. Zeros' = Zeros
    BY <2>1 DEF Zeros
  <2> QED BY <2>1, <2>2, <2>3 DEF ZeroCalls
<1>3. Sent("about") \subseteq Known /\ InCall \subseteq Known /\ Due("about") \subseteq Known
  BY DEF Matched, Separate
<1>4. Sent("added") \subseteq Known /\ \A e \in Sent("entries") : e.id \in Known
  BY <1>3, SentKinds
<1>5. Due("erased") \subseteq Known /\ DOMAIN Map \subseteq Known
  BY <1>3, DueKinds DEF Matched, Placed
<1>6. Separate'
  BY <1>1, <1>2, <1>3 DEF Matched, Separate
<1>7. Placed'
  BY <1>1, <1>2, <1>4, <1>5 DEF Matched, Placed
<1>8. Current'
  BY <1>1, <1>2, <1>4, <1>5 DEF Matched, Current
<1> QED BY <1>6, <1>7, <1>8 DEF Matched

LEMMA AddReqKept ==
  ASSUME Typed, BInv, GInv, NEW n \in Fences, NEW opt \in GfOptions, AddGeofencesReq(n, opt)
  PROVE  GInv'
<1> DEFINE fences == [i \in 1..n |-> made + i]
           map == [g \in 1..made + n |-> opt]
           add == AddMsg(fences, fences, map)
           first == IF gfMask THEN <<>> ELSE UpdateGfCallbacks
           F == Range(fences)
<1>1. /\ F \cap Known = {} /\ F \cap refused = {} /\ Known' = Known \cup F
      /\ \A g \in Known : mGeofenceMap'[g] = mGeofenceMap[g]
      /\ \A g \in F : mGeofenceMap'[g] = opt
      /\ GfNumbers'
  <2>1. GfNumbers /\ F = Range([i \in 1..n |-> made + i])
    BY DEF GInv
  <2> HIDE DEF F
  <2> QED BY <2>1, FreshFences
<1>2. /\ UNCHANGED <<gfRegistered, gfInbox, gfUp, gfHandler, Map, engineFences, gfCalls>>
      /\ UNCHANGED <<gfAborted, troubles>>
  BY DEF AddGeofencesReq, gfProcess, gfDaemon, Map
<1> SUFFICES ASSUME troubles = {}
             PROVE  MessagesAreKnown' /\ Calm' /\ (Live' => Matched')
  BY <1>1, <1>2 DEF GInv
<1>3. MessagesAreKnown /\ Calm /\ (Live => Matched)
  BY DEF GInv
<1>4. MessagesAreKnown'
  BY <1>1, <1>2, <1>3, NothingHeard
<1>5. \E m \in DaemonMsgs :
         /\ add = <<m>> /\ m.type = "ADD"
         /\ Of("about", m) = F /\ Of("added", m) = F
         /\ Of("twice", m) = {} /\ Of("modified", m) = {}
         /\ \A e \in Of("entries", m) : e.id \in F /\ e.id = e.of /\ e.opt = map[e.id]
  <2>1. n \in Nat /\ made \in Nat /\ made + n =< MaxGeofences /\ MaxGeofences \in Nat
    BY GfBounds DEF Typed, HistoryTyped, Fences, AddGeofencesReq
  <2>2. fences \in [1..n -> Fences]
    BY <2>1 DEF Fences
  <2>3. \A i, j \in 1..n : fences[i] = fences[j] => i = j
    BY <2>1
  <2>4. \A i \in 1..n : map[fences[i]] \in GfOptions
    BY <2>1
  <2> HIDE DEF fences, map
  <2> QED BY <2>1, <2>2, <2>3, <2>4, AddMsgAbout
<1>6. \A g \in F : map[g] = opt
  <2>1. n \in Nat /\ made \in Nat
    BY GfBounds DEF Typed, HistoryTyped, Fences
  <2>2. \A i \in 1..n : made + i \in 1..made + n
    BY <2>1
  <2> QED BY <2>2 DEF Range
<1>7. CASE gfPending
  <2>1. refused' = refused \cup F /\ UNCHANGED <<gfToDaemon, awaited>>
    BY <1>7 DEF AddGeofencesReq
  <2> HIDE DEF F
  <2>2. Calm' /\ (Live' <=> Live)
    <3>1. <<>> \in Seq(DaemonMsgs) /\ ~Has(<<>>, "REGISTER")
      BY SimpleMsgs DEF Has
    <3>2. GfSend(<<>>)
      <4>1. gfToDaemon \o <<>> = gfToDaemon
        BY ConcatEmptySeq DEF Typed, SocketsTyped
      <4> QED BY <2>1, <4>1 DEF GfSend
    <3> QED BY <1>2, <1>3, <3>1, <3>2, RequestCalm
  <2>3. ASSUME Live
        PROVE  Matched'
    <3>1. /\ Apart("about", gfToDaemon)'
          /\ Sent("about")' = Sent("about") \cup {} /\ Sent("added")' = Sent("added") \cup {}
          /\ Sent("twice")' = Sent("twice") /\ Sent("modified")' = Sent("modified")
          /\ \A e \in Sent("entries")' : e \in Sent("entries")
      BY <1>3, <2>1, <2>3 DEF Sent, Matched, Separate
    <3>2. ({} \cup F) \cap Known = {} /\ {} \cap (refused \cup F) = {}
          /\ Known' = Known \cup {} \cup F /\ awaited \cup {} \subseteq awaited'
      BY <1>1, <2>1
    <3> QED BY <1>1, <1>2, <1>3, <2>1, <2>3, <3>1, <3>2, ClientAdds
  <2> QED BY <1>4, <2>2, <2>3
<1>8. CASE ~gfPending
  <2>1. /\ refused' = refused /\ awaited' = awaited \cup F
        /\ GfSend(IF ~gfRegistered THEN <<>> ELSE first \o add)
    BY <1>8 DEF AddGeofencesReq
  <2>2. PICK m \in DaemonMsgs :
           /\ add = <<m>> /\ m.type = "ADD"
           /\ Of("about", m) = F /\ Of("added", m) = F
           /\ Of("twice", m) = {} /\ Of("modified", m) = {}
           /\ \A e \in Of("entries", m) : e.id \in F /\ e.id = e.of /\ e.opt = map[e.id]
    BY <1>5
  <2>3. first \in {<<>>, UpdateGfCallbacks}
    OBVIOUS
  <2> HIDE DEF add, first, F, map, fences
  <2> DEFINE msgs == IF ~gfRegistered THEN <<>> ELSE first \o <<m>>
  <2>4. /\ first \o <<m>> \in Seq(DaemonMsgs) /\ ~Has(first \o <<m>>, "REGISTER")
        /\ \A kind \in MsgKinds : All(kind, first \o <<m>>) = Of(kind, m)
        /\ Apart("about", first \o <<m>>)
    BY <2>2, <2>3, Prefixed
  <2>5. <<>> \in Seq(DaemonMsgs) /\ ~Has(<<>>, "REGISTER")
    BY SimpleMsgs DEF Has
  <2>6. /\ msgs \in Seq(DaemonMsgs) /\ ~Has(msgs, "REGISTER") /\ GfSend(msgs)
        /\ gfRegistered \/ msgs = <<>>
    BY <2>1, <2>2, <2>4, <2>5
  <2>7. gfRegistered => msgs = first \o <<m>>
    OBVIOUS
  <2> HIDE DEF msgs
  <2>8. Calm' /\ (Live' <=> Live)
    BY <1>2, <1>3, <2>6, RequestCalm
  <2>9. ASSUME Live
        PROVE  Matched'
    <3>1. gfUp /\ gfRegistered /\ Matched
      BY <1>3, <2>9 DEF Live
    <3>2. /\ \A kind : Sent(kind)' = Sent(kind) \cup All(kind, msgs)
          /\ Apart("about", gfToDaemon) /\ Apart("about", msgs)
             /\ Sent("about") \cap All("about", msgs) = {} => Apart("about", gfToDaemon)'
      BY <2>6, <3>1, SentMore
    <3>3. \A kind \in MsgKinds : Sent(kind)' = Sent(kind) \cup Of(kind, m)
      BY <2>4, <2>7, <3>1, <3>2
    <3>4. /\ Sent("about")' = Sent("about") \cup F /\ Sent("added")' = Sent("added") \cup F
          /\ Sent("twice")' = Sent("twice") /\ Sent("modified")' = Sent("modified")
          /\ Sent("entries")' = Sent("entries") \cup Of("entries", m)
      BY <2>2, <3>3 DEF MsgKinds
    <3>5. Apart("about", gfToDaemon)'
      <4>1. All("about", msgs) = F /\ Apart("about", msgs)
        BY <2>2, <2>4, <2>7, <3>1 DEF MsgKinds
      <4>2. Apart("about", gfToDaemon) /\ Sent("about") \cap F = {}
        BY <1>1, <3>1 DEF Matched, Separate
      <4> QED BY <3>2, <4>1, <4>2
    <3>6. \A e \in Sent("entries")' : \/ e \in Sent("entries")
                                      \/ e.id = e.of /\ e.opt = mGeofenceMap'[e.id]
      BY <1>1, <1>6, <2>2, <3>4
    <3>7. (F \cup {}) \cap Known = {} /\ F \cap (refused \cup {}) = {}
          /\ Known' = Known \cup F \cup {} /\ awaited \cup F \subseteq awaited'
          /\ refused' = refused \cup {}
      BY <1>1, <2>1
    <3> QED BY <1>1, <1>2, <3>1, <3>4, <3>5, <3>6, <3>7, ClientAdds
  <2> QED BY <1>4, <2>8, <2>9
<1> QED BY <1>7, <1>8

LEMMA RequestKept ==
  ASSUME Typed, BInv, GInv, NEW g \in Fences, NEW msg \in Changes, msg.id = g,
         GfRequest(g, msg),
         \/ msg.type # "MODIFY" /\ UNCHANGED mGeofenceMap
         \/ msg.type = "MODIFY" /\ mGeofenceMap' = [mGeofenceMap EXCEPT ![g] = msg.opt]
  PROVE  GInv'
<1>1. /\ UNCHANGED <<gfRegistered, gfInbox, gfUp, gfHandler, Map, engineFences, gfCalls>>
      /\ UNCHANGED <<gfAborted, mLastAddedClientIds, made, refused>>
      /\ g \in Known /\ gfRegistered /\ GfSend(<<msg>>) /\ awaited' = awaited \cup {g}
  BY DEF GfRequest, gfProcess, gfDaemon, Map
<1>2. /\ Known' = Known
      /\ \A h \in Known \ {g} : mGeofenceMap'[h] = mGeofenceMap[h]
      /\ msg.type = "MODIFY" => mGeofenceMap'[g] = msg.opt
      /\ msg.type # "MODIFY" => mGeofenceMap' = mGeofenceMap
  BY <1>1 DEF Known
<1>3. GfNumbers'
  BY <1>1, <1>2 DEF GInv, GfNumbers
<1> SUFFICES ASSUME troubles' = {}
             PROVE  MessagesAreKnown' /\ Calm' /\ (Live' => Matched')
  BY <1>3 DEF GInv
<1>4. troubles = {} /\ g \notin awaited
  BY DEF GfRequest
<1>5. MessagesAreKnown /\ Calm /\ (Live => Matched)
  BY <1>4 DEF GInv
<1>6. MessagesAreKnown'
  BY <1>1, <1>2, <1>5, NothingHeard
<1> DEFINE msgs == <<msg>>
<1>7. /\ msg \in DaemonMsgs /\ msg.type \in {"REMOVE", "MODIFY", "PAUSE"}
      /\ msgs \in Seq(DaemonMsgs) /\ Len(msgs) = 1 /\ msgs[1] = msg
  BY DEF DaemonMsgs, Changes
<1>8. ~Has(msgs, "REGISTER")
  BY <1>7 DEF Has
<1>9. \A kind : All(kind, msgs) = Of(kind, msg) /\ Apart(kind, msgs)
  BY AllOfOne
<1> HIDE DEF msgs
<1>10. GfSend(msgs)
  BY <1>1 DEF msgs
<1>11. Calm' /\ (Live' <=> Live)
  BY <1>1, <1>5, <1>7, <1>8, <1>10, RequestCalm
<1>12. ASSUME Live
       PROVE  Matched'
  <2>1. gfUp /\ Matched
    BY <1>5, <1>12 DEF Live
  <2>2. /\ \A kind : Sent(kind)' = Sent(kind) \cup Of(kind, msg)
        /\ Apart("about", gfToDaemon) /\ Sent("about") \cap Of("about", msg) = {} =>
              Apart("about", gfToDaemon)'
    <3>1. /\ \A kind : Sent(kind)' = Sent(kind) \cup All(kind, msgs)
          /\ Apart("about", gfToDaemon) /\ Apart("about", msgs)
             /\ Sent("about") \cap All("about", msgs) = {} => Apart("about", gfToDaemon)'
      BY <1>7, <1>10, <2>1, SentMore
    <3> QED BY <1>9, <3>1
  <2>3. Of("about", msg) = {g} /\ Of("added", msg) = {} /\ Of("twice", msg) = {}
    BY <1>7, Kinds DEF About, Added, Twice
  <2>4. Of("modified", msg) = IF msg.type = "MODIFY" THEN {g} ELSE {}
    BY Kinds DEF Modified
  <2>5. \A e \in Of("entries", msg) :
           e.id = g /\ e.of = g /\ msg.type = "MODIFY" /\ e.opt = msg.opt
    BY <1>7, Kinds DEF Entries
  <2>6. /\ Sent("about")' = Sent("about") \cup {g} /\ Sent("added")' = Sent("added")
        /\ Sent("twice")' = Sent("twice")
        /\ Sent("modified") \subseteq Sent("modified")'
        /\ msg.type = "MODIFY" => g \in Sent("modified")'
        /\ \A e \in Sent("entries")' :
              \/ e \in Sent("entries")
              \/ e.id = g /\ e.of = g /\ e.opt = mGeofenceMap'[g]
    BY <1>2, <2>2, <2>3, <2>4, <2>5
  <2>7. g \notin Sent("about") \cup InCall \cup Due("about")
    BY <1>4, <2>1 DEF Matched, Separate
  <2>8. \A kind : Open(kind)' = Open(kind) /\ Due(kind)' = Due(kind)
    BY <1>1 DEF Open, Due
  <2>9. InCall' = InCall /\ Zeros' = Zeros /\ ZeroCalls' = ZeroCalls /\ Map' = Map
    <3>1. Open("sessions")' = Open("sessions") /\ Map' = Map
      BY <1>1, <2>8
    <3>2. InCall' = InCall
      BY <3>1 DEF InCall
    <3>3. Zeros' = Zeros
      BY <3>1 DEF Zeros
    <3> QED BY <1>1, <3>1, <3>2, <3>3 DEF ZeroCalls
  <2>10. Apart("about", gfToDaemon)'
    BY <2>1, <2>2, <2>3, <2>7 DEF Matched, Separate
  <2>11. Separate'
    BY <1>1, <1>2, <2>1, <2>6, <2>7, <2>8, <2>9, <2>10 DEF Matched, Separate
  <2>12. Placed'
    BY <1>1, <1>2, <2>1, <2>6, <2>8, <2>9 DEF Matched, Placed
  <2>13. \A h \in Known : h # g => mGeofenceMap'[h] = mGeofenceMap[h]
    BY <1>2
  <2>14. DOMAIN Map \subseteq Known /\ Sent("about") \subseteq Known
    BY <2>1 DEF Matched, Placed, Separate
  <2>15. \A e \in Sent("entries")' : e.id = e.of /\ e.opt = mGeofenceMap'[e.id]
    <3>1. \A e \in Sent("entries") : e.id \in Sent("about")
      BY SentKinds
    <3> QED BY <2>1, <2>6, <2>7, <2>13, <2>14, <3>1 DEF Matched, Current
  <2>16. \A o \in Open("opened")' :
            /\ o.id \in DOMAIN Map' /\ Map'[o.id] = o.session
            /\ o.of = o.id /\ o.opt = mGeofenceMap'[o.id]
    <3>1. \A o \in Open("opened") : o.id \in DOMAIN Map /\ o.id \in InCall
      BY <2>1, OpenKinds DEF Matched, Current, InCall
    <3> QED BY <2>1, <2>7, <2>8, <2>9, <2>13, <2>14, <3>1 DEF Matched, Current
  <2>17. \A u \in Open("updates")' : \A h \in DOMAIN Map' :
            Map'[h] = u.session /\ u.session # 0 => u.opt = mGeofenceMap'[h]
    <3>1. \A u \in Open("updates") : \A h \in DOMAIN Map :
             Map[h] = u.session /\ u.session # 0 => h \in InCall
      BY OpenKinds DEF InCall
    <3> QED BY <2>1, <2>7, <2>8, <2>9, <2>13, <2>14, <3>1 DEF Matched, Current
  <2>18. ASSUME NEW h \in DOMAIN Map', Map'[h] \in DOMAIN engineFences'
         PROVE  /\ engineFences'[Map'[h]].of = h
                /\ \/ engineFences'[Map'[h]].opt = mGeofenceMap'[h]
                   \/ h \in Sent("modified")'
                   \/ \E u \in Open("updates")' : u.session = Map'[h]
    <3>1. h \in DOMAIN Map /\ Map[h] \in DOMAIN engineFences /\ h \in Known
      BY <1>1, <2>9, <2>14, <2>18
    <3>2. /\ engineFences[Map[h]].of = h
          /\ \/ engineFences[Map[h]].opt = mGeofenceMap[h]
             \/ h \in Sent("modified")
             \/ \E u \in Open("updates") : u.session = Map[h]
      BY <2>1, <3>1 DEF Matched, Current
    <3>3. mGeofenceMap'[h] = mGeofenceMap[h] \/ h \in Sent("modified")'
      BY <1>2, <2>6, <3>1
    <3> QED BY <1>1, <2>6, <2>8, <2>9, <3>2, <3>3
  <2>19. Sent("twice")' = {}
    BY <2>1, <2>6 DEF Matched, Current
  <2>20. Current'
    BY <2>15, <2>16, <2>17, <2>18, <2>19 DEF Current
  <2> QED BY <2>11, <2>12, <2>20 DEF Matched
<1> QED BY <1>6, <1>11, <1>12

LEMMA CallKept == Typed /\ BInv /\ GInv /\ GfCall => GInv'
<1> SUFFICES ASSUME Typed, BInv, GInv, GfCall PROVE GInv'
  OBVIOUS
<1>1. ASSUME NEW n \in Fences, NEW opt \in GfOptions, AddGeofencesReq(n, opt)
      PROVE  GInv'
  BY <1>1, AddReqKept
<1>2. ASSUME NEW g \in Fences, RemoveGeofencesReq(g)
      PROVE  GInv'
  <2> DEFINE msg == [type |-> "REMOVE", id |-> g]
  <2>1. msg \in Changes /\ msg.id = g /\ msg.type # "MODIFY"
    BY DEF Changes
  <2>2. GfRequest(g, msg) /\ UNCHANGED mGeofenceMap
    BY <1>2 DEF RemoveGeofencesReq
  <2> HIDE DEF msg
  <2> QED BY <2>1, <2>2, RequestKept
<1>3. ASSUME NEW g \in Fences, PauseGeofencesReq(g)
      PROVE  GInv'
  <2> DEFINE msg == [type |-> "PAUSE", id |-> g]
  <2>1. msg \in Changes /\ msg.id = g /\ msg.type # "MODIFY"
    BY DEF Changes
  <2>2. GfRequest(g, msg) /\ UNCHANGED mGeofenceMap
    BY <1>3 DEF PauseGeofencesReq
  <2> HIDE DEF msg
  <2> QED BY <2>1, <2>2, RequestKept
<1>4. ASSUME NEW g \in Fences, NEW opt \in GfOptions, ModifyGeofencesReq(g, opt)
      PROVE  GInv'
  <2> DEFINE msg == [type |-> "MODIFY", id |-> g, opt |-> opt]
  <2>1. msg \in Changes /\ msg.id = g /\ msg.type = "MODIFY" /\ msg.opt = opt
    BY DEF Changes
  <2>2. GfRequest(g, msg) /\ mGeofenceMap' = [mGeofenceMap EXCEPT ![g] = opt]
    BY <1>4 DEF ModifyGeofencesReq
  <2> HIDE DEF msg
  <2> QED BY <2>1, <2>2, RequestKept
<1> QED BY <1>1, <1>2, <1>3, <1>4 DEF GfCall

-----------------------------------------------------------------------------
(* The maps, when the client hears of the capabilities *)

\* Sets of a queue whose messages are not about geofences.
LEMMA AboutNothing ==
  ASSUME NEW q, \A i \in 1..Len(q) : Of("about", q[i]) = {} /\ Of("erased", q[i]) = {}
  PROVE  All("about", q) = {} /\ All("erased", q) = {} /\ Apart("about", q)
<1>1. \A x : x \notin All("about", q) /\ x \notin All("erased", q)
  BY InAll
<1> QED BY <1>1 DEF Apart

\* A daemon that has registered the client and heard of no geofence yet.
LEMMA NothingIsSent ==
  ASSUME Typed, Idle, gfHandler.registered
  PROVE  /\ \A kind \in MsgKinds : Sent(kind) = {}
         /\ Apart("about", gfToDaemon)
<1>1. \A i \in 1..Len(gfToDaemon) : gfToDaemon[i] \in DaemonMsgs /\ gfToDaemon[i].type \notin GfTypes
  BY DEF Typed, SocketsTyped, Idle, Unheard
<1>2. \A i \in 1..Len(gfToDaemon) : gfToDaemon[i].type \in {"REGISTER", "UPDATE_CALLBACKS"}
  BY <1>1, RequestsTyped DEF GfTypes
<1>3. \A i \in 1..Len(gfToDaemon) : \A kind \in MsgKinds : Of(kind, gfToDaemon[i]) = {}
  BY <1>2, SilentMsgs
<1>4. \A kind \in MsgKinds : Sent(kind) = {}
  BY <1>3, InAll DEF Sent
<1>5. Apart("about", gfToDaemon)
  BY <1>3 DEF Apart, MsgKinds
<1> QED BY <1>4, <1>5

LEMMA NothingIsDue ==
  ASSUME Typed, AnswersAreOld(gfInbox), ~Has(gfInbox, "HAL_READY")
  PROVE  Due("about") = {} /\ Due("erased") = {}
<1>1. \A i \in 1..Len(gfInbox) :
         gfInbox[i] \in ClientMsgs /\ gfInbox[i].type \notin {"RESPONSE", "BREACH"}
  BY DEF Typed, SocketsTyped, AnswersAreOld, IsRenewed, Has
<1>2. \A i \in 1..Len(gfInbox) : gfInbox[i].type \in {"REGISTER", "HAL_READY", "CAPABILITIES"}
  BY <1>1 DEF ClientMsgs
<1>3. \A i \in 1..Len(gfInbox) : Of("about", gfInbox[i]) = {} /\ Of("erased", gfInbox[i]) = {}
  BY <1>2, SilentMsgs DEF MsgKinds
<1> QED BY <1>3, AboutNothing DEF Due

\* All geofences of the client are on their way to a daemon that has none.
LEMMA StartMatched ==
  ASSUME Map' = <<>>, engineFences' = <<>>, gfCalls' = <<>>,
         Due("about")' = {}, Due("erased")' = {}, Apart("about", gfToDaemon)',
         Sent("about")' = Known', Sent("added")' = Known', Sent("twice")' = {},
         \A e \in Sent("entries")' : e.id = e.of /\ e.opt = mGeofenceMap'[e.id],
         Known' \subseteq awaited', Known' \cap refused' = {}
  PROVE  Matched'
<1>1. /\ \A kind : Open(kind)' = {}
      /\ Apart("sessions", gfCalls)'
  BY AllOfNone DEF Open
<1>2. DOMAIN Map' = {} /\ DOMAIN engineFences' = {}
  BY NoMap
<1>3. InCall' = {} /\ Zeros' = {} /\ ZeroCalls' = {}
  <2>1. InCall' = {}
    BY <1>2 DEF InCall
  <2>2. Zeros' = {}
    BY <1>2 DEF Zeros
  <2>3. ZeroCalls' = {}
    BY DEF ZeroCalls
  <2> QED BY <2>1, <2>2, <2>3
<1>4. Separate'
  BY <1>1, <1>3 DEF Separate
<1>5. Placed'
  BY <1>1, <1>2 DEF Placed
<1>6. Current'
  BY <1>1, <1>2 DEF Current
<1> QED BY <1>4, <1>5, <1>6 DEF Matched

\* The ids sent again are those of the geofences, when the order of the map is that of the
\* last call that added some; and that call added them all.
LEMMA SentAgain ==
  ASSUME Typed, GfNumbers, NEW fences \in SetToSeqs(Known), NEW ids \in LastAdded(Cardinality(Known)),
         mLastAddedClientIds = fences
  PROVE  /\ ids = fences /\ Range(fences) = Known /\ Known \cap refused = {}
         /\ Cardinality(Known) \in Nat
         /\ fences \in [1..Cardinality(Known) -> Fences]
         /\ \A i, j \in 1..Cardinality(Known) : fences[i] = fences[j] => i = j
         /\ \A i \in 1..Cardinality(Known) : mGeofenceMap[fences[i]] \in GfOptions
<1> DEFINE n == Cardinality(Known)
<1>1. IsFiniteSet(Known) /\ n \in Nat
  BY FencesAreFinite DEF Typed, ClientTyped
<1>2. fences \in [1..n -> Known] /\ \A i, j \in 1..n : i # j => fences[i] # fences[j]
  BY DEF SetToSeqs
<1>3. /\ fences \in [1..n -> Fences]
      /\ \A i \in 1..n : mGeofenceMap[fences[i]] \in GfOptions
  BY <1>2 DEF Typed, ClientTyped
<1>4. fences \in Surjection(1..n, Known)
  <2>1. IsFiniteSet(1..n) /\ Cardinality(1..n) = n
    BY <1>1, FS_Interval
  <2>2. fences \in Injection(1..n, Known)
    BY <1>2 DEF Injection, IsInjective
  <2>3. Cardinality(1..n) = Cardinality(Known)
    BY <2>1
  <2> HIDE DEF n
  <2> QED BY <1>1, <2>2, <2>3, FS_Injection
<1> HIDE DEF n
<1>5. Range(fences) = Known
  BY <1>2, <1>4 DEF Surjection, Range
<1>6. Len(fences) = n
  BY <1>1, <1>3, FunctionIsSeq
<1>7. ids \in [1..n -> FenceIds] /\ \A i \in 1..n : ids[i] = fences[i]
  <2>1. /\ ids \in [1..n -> FenceIds]
        /\ \A i \in 1..n : i =< Len(mLastAddedClientIds) => ids[i] = mLastAddedClientIds[i]
    BY DEF LastAdded, n
  <2> QED BY <1>1, <1>6, <2>1
<1>8. ids = fences
  <2>1. ids = [i \in 1..n |-> ids[i]]
    BY <1>7
  <2>2. fences = [i \in 1..n |-> fences[i]]
    BY <1>3
  <2>3. [i \in 1..n |-> ids[i]] = [i \in 1..n |-> fences[i]]
    BY <1>7
  <2> QED BY <2>1, <2>2, <2>3, Zenon
<1>9. Known \cap refused = {}
  <2>1. \A i \in 1..n : fences[i] \notin refused
    BY <1>6 DEF GfNumbers
  <2> QED BY <1>2, <1>5, <2>1 DEF Range
<1> QED BY <1>1, <1>2, <1>3, <1>5, <1>8, <1>9 DEF n

LEMMA CapabilitiesKept ==
  ASSUME Typed, BInv, GInv, GfCapabilities
  PROVE  GInv'
<1> DEFINE subscribe == IF gfMask THEN UpdateGfCallbacks ELSE <<>>
<1>1. /\ GfTake("CAPABILITIES") /\ gfInbox' = Tail(gfInbox) /\ gfRegistered'
      /\ UNCHANGED <<gfUp, gfHandler, engineFences, gfCalls, Map, gfAborted>>
      /\ UNCHANGED <<mGeofenceMap, mLastAddedClientIds, made, refused>>
      /\ Known' = Known /\ troubles \subseteq troubles'
  BY DEF GfCapabilities, gfProcess, gfDaemon, Map, Known
<1>2. GfNumbers' /\ GfNumbers
  BY <1>1, NumbersStay DEF GInv
<1> SUFFICES ASSUME troubles' = {}
             PROVE  MessagesAreKnown' /\ Calm' /\ (Live' => Matched')
  BY <1>2 DEF GInv
<1>3. troubles = {} /\ MessagesAreKnown /\ Calm /\ (Live => Matched)
  BY <1>1 DEF GInv
<1>4. Head(gfInbox).type = "CAPABILITIES" /\ Head(gfInbox) = gfInbox[1] /\ 1 \in 1..Len(gfInbox)
  <2>1. Len(gfInbox) \in Nat \ {0} /\ Head(gfInbox) = gfInbox[1]
    BY <1>1, TakenTyped DEF Typed
  <2> QED BY <1>1, <2>1 DEF GfTake
<1>5. /\ MessagesAreKnown'
      /\ \A kind \in MsgKinds : Due(kind)' = Due(kind)
  <2>1. \A kind \in MsgKinds : Of(kind, Head(gfInbox)) = {}
    BY <1>4, SilentMsgs
  <2>2. ~gfAborted' /\ Known \ Of("erased", Head(gfInbox)) \subseteq Known'
    BY <1>1, <1>3 DEF MessagesAreKnown
  <2>3. /\ MessagesAreKnown'
        /\ \A kind \in MsgKinds : Due(kind) = Due(kind)' \cup Of(kind, Head(gfInbox))
    BY <1>1, <1>3, <2>2, TakenIsKnown
  <2> QED BY <2>1, <2>3
<1>6. Due("about")' = Due("about") /\ Due("erased")' = Due("erased")
  BY <1>5 DEF MsgKinds
<1>7. subscribe \in {<<>>, UpdateGfCallbacks}
  OBVIOUS
\* a daemon that has heard of no geofence
<1>8. ASSUME gfUp, Idle, AnswersAreOld(gfInbox), ~Has(gfInbox, "HAL_READY")
      PROVE  /\ \A kind \in MsgKinds : Sent(kind) = {}
             /\ Apart("about", gfToDaemon)
             /\ Due("about") = {} /\ Due("erased") = {}
             /\ Map' = <<>> /\ engineFences' = <<>> /\ gfCalls' = <<>>
  <2>1. gfHandler.registered
    <3>1. \A j \in 1..Len(gfInbox) : gfInbox[j].type # "HAL_READY"
      BY <1>8 DEF Has
    <3>2. gfInbox[1].type = "CAPABILITIES" /\ 1 \in 1..Len(gfInbox)
      BY <1>4
    <3> QED BY <1>8, <3>1, <3>2 DEF BInv, CapabilitiesAreCurrent
  <2> QED BY <1>1, <1>8, <2>1, NothingIsSent, NothingIsDue DEF Idle
<1>9. CASE gfRegistered \/ Known = {}
  <2>1. GfSend(subscribe) /\ UNCHANGED awaited
    BY <1>9 DEF GfCapabilities
  <2> HIDE DEF subscribe
  <2>2. /\ subscribe \in Seq(DaemonMsgs)
        /\ \A i \in 1..Len(subscribe) : subscribe[i].type \in {"REGISTER", "UPDATE_CALLBACKS"}
        /\ ~Has(subscribe, "REGISTER")
    <3>1. CASE subscribe = <<>>
      BY <3>1, SimpleMsgs DEF Has
    <3>2. CASE subscribe = UpdateGfCallbacks
      <4>1. \A i \in 1..Len(subscribe) : subscribe[i].type = "UPDATE_CALLBACKS"
        BY <3>2, SimpleMsgs
      <4> QED BY <3>2, <4>1, SimpleMsgs DEF Has
    <3> QED BY <1>7, <3>1, <3>2
  <2>3. /\ Calm'
        /\ Live' /\ ~Live => /\ Idle
                             /\ gfUp => AnswersAreOld(gfInbox) /\ ~Has(gfInbox, "HAL_READY")
    BY <1>1, <1>3, <2>1, <2>2, HeardOfCapabilities
  <2>4. ASSUME Live
        PROVE  Matched'
    <3>1. Apart("about", gfToDaemon)' /\ \A kind \in MsgKinds : Sent(kind)' = Sent(kind)
      BY <1>3, <2>1, <2>2, <2>4, SilentlySent
    <3> QED BY <1>1, <1>3, <1>6, <2>1, <2>4, <3>1, SameSets
  <2>5. ASSUME Live', ~Live
        PROVE  Matched'
    <3>1. gfUp /\ Idle /\ AnswersAreOld(gfInbox) /\ ~Has(gfInbox, "HAL_READY")
      BY <1>1, <2>3, <2>5 DEF Live
    <3>2. Known = {}
      BY <1>9, <2>5, <3>1 DEF Live
    <3>3. /\ \A kind \in MsgKinds : Sent(kind) = {}
          /\ Apart("about", gfToDaemon)
          /\ Due("about") = {} /\ Due("erased") = {}
          /\ Map' = <<>> /\ engineFences' = <<>> /\ gfCalls' = <<>>
      BY <1>8, <3>1
    <3>4. \A i \in 1..Len(subscribe) : \A kind \in MsgKinds : Of(kind, subscribe[i]) = {}
      BY <2>2, SilentMsgs
    <3>5. \A kind \in MsgKinds : All(kind, subscribe) = {}
      BY <3>4, InAll
    <3>6. Apart("about", subscribe)
      BY <3>4 DEF Apart, MsgKinds
    <3>7. /\ \A kind : Sent(kind)' = Sent(kind) \cup All(kind, subscribe)
          /\ Apart("about", gfToDaemon) /\ Apart("about", subscribe)
             /\ Sent("about") \cap All("about", subscribe) = {} => Apart("about", gfToDaemon)'
      BY <2>1, <2>2, <3>1, SentMore
    <3>8. \A kind \in MsgKinds : Sent(kind)' = {}
      BY <3>3, <3>5, <3>7
    <3>9. /\ Sent("about")' = {} /\ Sent("added")' = {} /\ Sent("twice")' = {}
          /\ Sent("entries")' = {} /\ Sent("about") = {}
      BY <3>3, <3>8 DEF MsgKinds
    <3>10. Apart("about", gfToDaemon)'
      BY <3>3, <3>6, <3>7, <3>9
    <3> QED BY <1>1, <1>6, <3>2, <3>3, <3>9, <3>10, StartMatched
  <2> QED BY <1>5, <2>3, <2>4, <2>5
<1>10. CASE ~gfRegistered /\ Known # {}
  <2>1. PICK fences \in SetToSeqs(Known), ids \in LastAdded(Cardinality(Known)) :
           /\ GfSend(subscribe \o AddMsg(fences, ids, mGeofenceMap))
           /\ troubles' = IF mLastAddedClientIds = fences THEN troubles
                          ELSE troubles \cup {"restart"}
    BY <1>10 DEF GfCapabilities
  <2>2. awaited' = Known
    BY <1>10 DEF GfCapabilities
  <2>3. mLastAddedClientIds = fences
    BY <2>1
  <2>4. /\ ids = fences /\ Range(fences) = Known /\ Known \cap refused = {}
        /\ Cardinality(Known) \in Nat
        /\ fences \in [1..Cardinality(Known) -> Fences]
        /\ \A i, j \in 1..Cardinality(Known) : fences[i] = fences[j] => i = j
        /\ \A i \in 1..Cardinality(Known) : mGeofenceMap[fences[i]] \in GfOptions
    BY <1>2, <2>3, SentAgain
  <2>5. PICK m \in DaemonMsgs :
           /\ AddMsg(fences, fences, mGeofenceMap) = <<m>> /\ m.type = "ADD"
           /\ Of("about", m) = Range(fences) /\ Of("added", m) = Range(fences)
           /\ Of("twice", m) = {} /\ Of("modified", m) = {}
           /\ \A e \in Of("entries", m) :
                 e.id \in Range(fences) /\ e.id = e.of /\ e.opt = mGeofenceMap[e.id]
    BY <2>4, AddMsgAbout
  <2> DEFINE msgs == subscribe \o <<m>>
  <2> HIDE DEF subscribe
  <2>6. /\ msgs \in Seq(DaemonMsgs) /\ ~Has(msgs, "REGISTER")
        /\ \A kind \in MsgKinds : All(kind, msgs) = Of(kind, m)
        /\ Apart("about", msgs)
    BY <1>7, <2>5, Prefixed
  <2>7. GfSend(msgs)
    BY <2>1, <2>4, <2>5
  <2> HIDE DEF msgs
  <2>8. /\ Calm'
        /\ Live' /\ ~Live => /\ Idle
                             /\ gfUp => AnswersAreOld(gfInbox) /\ ~Has(gfInbox, "HAL_READY")
    BY <1>1, <1>3, <2>6, <2>7, HeardOfCapabilities
  <2>9. ASSUME Live'
        PROVE  Matched'
    <3>1. gfUp /\ Idle /\ AnswersAreOld(gfInbox) /\ ~Has(gfInbox, "HAL_READY")
      BY <1>1, <1>10, <2>8, <2>9 DEF Live
    <3>2. /\ \A kind \in MsgKinds : Sent(kind) = {}
          /\ Apart("about", gfToDaemon)
          /\ Due("about") = {} /\ Due("erased") = {}
          /\ Map' = <<>> /\ engineFences' = <<>> /\ gfCalls' = <<>>
      BY <1>8, <3>1
    <3>3. /\ \A kind : Sent(kind)' = Sent(kind) \cup All(kind, msgs)
          /\ Apart("about", gfToDaemon) /\ Apart("about", msgs)
             /\ Sent("about") \cap All("about", msgs) = {} => Apart("about", gfToDaemon)'
      BY <2>6, <2>7, <3>1, SentMore
    <3>4. \A kind \in MsgKinds : Sent(kind)' = Of(kind, m)
      BY <2>6, <3>2, <3>3
    <3>5. /\ Sent("about")' = Known' /\ Sent("added")' = Known' /\ Sent("twice")' = {}
          /\ Sent("entries")' = Of("entries", m) /\ Sent("about") = {}
      BY <1>1, <2>4, <2>5, <3>2, <3>4 DEF MsgKinds
    <3>6. Apart("about", gfToDaemon)'
      BY <2>6, <3>2, <3>3, <3>5
    <3>7. \A e \in Sent("entries")' : e.id = e.of /\ e.opt = mGeofenceMap'[e.id]
      BY <1>1, <2>5, <3>5
    <3>8. Known' \subseteq awaited' /\ Known' \cap refused' = {}
      BY <1>1, <2>2, <2>4
    <3> QED BY <1>6, <3>2, <3>5, <3>6, <3>7, <3>8, StartMatched
  <2> QED BY <1>5, <2>8, <2>9
<1> QED BY <1>9, <1>10

-----------------------------------------------------------------------------
(* The maps, when the client is answered *)

\* The geofences a response is about, and those that go with it.
LEMMA ResponseAbout ==
  ASSUME NEW m \in ClientMsgs, m.type = "RESPONSE"
  PROVE  /\ {r.id : r \in Range(m.resp)} = Of("about", m)
         /\ {r.id : r \in {x \in Range(m.resp) : m.to = "REMOVE" \/ ~x.ok}} = Of("erased", m)
         /\ Of("told", m) = Of("about", m) /\ Of("erased", m) \subseteq Of("about", m)
<1>1. m.resp \in Seq(Results) /\ DOMAIN m.resp = 1..Len(m.resp)
  BY ResponsesTyped
<1>2. Of("about", m) = IdsOf(m.resp) /\ Of("told", m) = IdsOf(m.resp)
  BY Kinds DEF About, Told
<1>3. Of("erased", m) =
         {m.resp[i].id : i \in {j \in 1..Len(m.resp) : m.to = "REMOVE" \/ ~m.resp[j].ok}}
  BY Kinds DEF Erased
<1>4. {r.id : r \in Range(m.resp)} = IdsOf(m.resp)
  BY <1>1 DEF Range, IdsOf
<1>5. {r.id : r \in {x \in Range(m.resp) : m.to = "REMOVE" \/ ~x.ok}} = Of("erased", m)
  BY <1>1, <1>3 DEF Range
<1>6. Of("erased", m) \subseteq IdsOf(m.resp)
  BY <1>3 DEF IdsOf
<1> QED BY <1>2, <1>4, <1>5, <1>6

\* What a response erases is in the client only.
LEMMA ResponseMatched ==
  ASSUME Typed, Matched, NEW ids, NEW gone, gone \subseteq ids,
         Due("about") = Due("about")' \cup ids, Due("about")' \cap ids = {},
         Due("erased") = Due("erased")' \cup gone,
         Known' = Known \ gone, \A g \in Known' : mGeofenceMap'[g] = mGeofenceMap[g],
         awaited' = awaited \ ids,
         UNCHANGED <<Map, engineFences, gfCalls, gfToDaemon, refused>>
  PROVE  Matched'
<1>1. \A kind : Open(kind)' = Open(kind) /\ Sent(kind)' = Sent(kind)
  BY DEF Open, Sent
<1>2. InCall' = InCall /\ Zeros' = Zeros /\ ZeroCalls' = ZeroCalls /\ Map' = Map
  <2>1. Open("sessions")' = Open("sessions") /\ Map' = Map
    BY <1>1
  <2>2. InCall' = InCall
    BY <2>1 DEF InCall
  <2>3. Zeros' = Zeros
    BY <2>1 DEF Zeros
  <2> QED BY <2>1, <2>2, <2>3 DEF ZeroCalls
<1>3. Sent("about") \cap ids = {} /\ InCall \cap ids = {} /\ Sent("about") \subseteq Known
  BY DEF Matched, Separate
<1>4. DOMAIN Map \subseteq Known'
  BY DEF Matched, Placed
<1>5. \A e \in Sent("entries") : e.id \in Known'
  BY <1>3, SentKinds
<1>6. Separate'
  BY <1>1, <1>2, <1>3 DEF Matched, Separate
<1>7. Placed'
  BY <1>1, <1>2, <1>4 DEF Matched, Placed
<1>8. Current'
  BY <1>1, <1>2, <1>4, <1>5 DEF Matched, Current
<1> QED BY <1>6, <1>7, <1>8 DEF Matched

LEMMA ResponseKept ==
  ASSUME Typed, BInv, GInv, GfResponse
  PROVE  GInv'
<1> DEFINE m == Head(gfInbox)
           ids == {r.id : r \in Range(m.resp)}
           gone == {r.id : r \in {x \in Range(m.resp) : m.to = "REMOVE" \/ ~x.ok}}
<1>1. /\ GfTake("RESPONSE") /\ gfInbox' = Tail(gfInbox)
      /\ UNCHANGED <<gfRegistered, gfUp, gfHandler, engineFences, gfCalls, Map, gfToDaemon>>
      /\ UNCHANGED <<mLastAddedClientIds, made, refused, troubles>>
  BY DEF GfResponse, gfProcess, gfDaemon, Map
<1>2. \/ /\ ids \subseteq Known
         /\ mGeofenceMap' = Restrict(mGeofenceMap, Known \ gone)
         /\ awaited' = awaited \ ids
         /\ UNCHANGED gfAborted
      \/ ~(ids \subseteq Known) /\ UNCHANGED mGeofenceMap
  BY DEF GfResponse
<1>3. m \in ClientMsgs /\ m.type = "RESPONSE" /\ m = gfInbox[1] /\ 1 \in 1..Len(gfInbox)
  <2>1. /\ Len(gfInbox) \in Nat \ {0} /\ Head(gfInbox) = gfInbox[1]
        /\ Head(gfInbox) \in ClientMsgs
    BY <1>1, TakenTyped DEF Typed
  <2> QED BY <1>1, <2>1 DEF GfTake
<1> HIDE DEF m
<1>4. /\ ids = Of("about", m) /\ gone = Of("erased", m)
      /\ Of("told", m) = Of("about", m) /\ Of("erased", m) \subseteq Of("about", m)
  BY <1>3, ResponseAbout
<1> HIDE DEF ids, gone
<1>5. Known' \subseteq Known
  BY <1>2 DEF Known, Restrict
<1>6. GfNumbers'
  BY <1>1, <1>5 DEF GInv, GfNumbers
<1> SUFFICES ASSUME troubles = {}
             PROVE  MessagesAreKnown' /\ Calm' /\ (Live' => Matched')
  BY <1>1, <1>6 DEF GInv
<1>7. MessagesAreKnown /\ Calm /\ (Live => Matched)
  BY DEF GInv
<1>8. ids \subseteq Known
  <2>1. Of("told", m) \subseteq Due("told")
    BY <1>3, InAll DEF Due
  <2> QED BY <1>4, <1>7, <2>1 DEF MessagesAreKnown
<1>9. /\ Known' = Known \ gone /\ awaited' = awaited \ ids /\ ~gfAborted'
      /\ \A g \in Known' : mGeofenceMap'[g] = mGeofenceMap[g]
  <2>1. /\ mGeofenceMap' = Restrict(mGeofenceMap, Known \ gone)
        /\ awaited' = awaited \ ids /\ gfAborted' = gfAborted
    BY <1>2, <1>8
  <2> QED BY <1>7, <2>1 DEF Known, Restrict, MessagesAreKnown
<1>10. /\ MessagesAreKnown'
       /\ \A kind \in MsgKinds : Due(kind) = Due(kind)' \cup Of(kind, m)
       /\ Due("about")' \cap Of("about", m) = {}
  <2>1. Known \ Of("erased", Head(gfInbox)) \subseteq Known'
    BY <1>4, <1>9 DEF m
  <2> QED BY <1>1, <1>7, <1>9, <2>1, TakenIsKnown DEF m
<1>11. Calm' /\ (Live' <=> Live)
  BY <1>1, <1>7, TakingCalm
<1>12. ASSUME Live
       PROVE  Matched'
  <2>1. Due("about") = Due("about")' \cup ids /\ Due("erased") = Due("erased")' \cup gone
    BY <1>4, <1>10 DEF MsgKinds
  <2> QED BY <1>1, <1>4, <1>7, <1>9, <1>10, <1>12, <2>1, ResponseMatched
<1> QED BY <1>10, <1>11, <1>12

LEMMA TaskKept == Typed /\ BInv /\ GInv /\ GfTask => GInv'
BY RegisterReqKept, HalReadyKept, CapabilitiesKept, ResponseKept, BreachKept DEF GfTask

-----------------------------------------------------------------------------
(* The maps, when the daemon hears of geofences *)

\* The entries of a message that adds geofences; their sessions begin after f.
LEMMA CallAbout ==
  ASSUME NEW fences \in Seq(AddEntries), NEW f \in Nat, NEW c,
         c = [type |-> "ADD", session |-> f + 1, fences |-> fences]
  PROVE  /\ c \in AddCalls
         /\ Of("sessions", c) = f + 1..f + Len(fences) /\ Of("begun", c) = f + 1..f + Len(fences)
         /\ Of("changed", c) = {} /\ Of("updates", c) = {}
         /\ \A o \in Of("opened", c) : \E k \in 1..Len(fences) :
               /\ o.id = fences[k].id /\ o.session = f + k
               /\ o.of = fences[k].of /\ o.opt = fences[k].opt
<1>1. Len(fences) \in Nat
  BY LenProperties
<1>2. c \in AddCalls
  BY DEF AddCalls
<1>3. c.type = "ADD" /\ c.session = f + 1 /\ c.fences = fences
  OBVIOUS
<1>4. Begun(c) = f + 1..f + Len(fences)
  <2>1. f + 1 + Len(fences) - 1 = f + Len(fences)
    BY <1>1
  <2> QED BY <1>3, <2>1 DEF Begun
<1>5. Changed(c) = {} /\ Updates(c) = {}
  BY <1>3 DEF Changed, Updates
<1>6. ASSUME NEW o \in Opened(c)
      PROVE  \E k \in 1..Len(fences) : /\ o.id = fences[k].id /\ o.session = f + k
                                       /\ o.of = fences[k].of /\ o.opt = fences[k].opt
  <2>1. PICK k \in 1..Len(fences) :
           o = [id |-> fences[k].id, session |-> f + 1 + k - 1,
                of |-> fences[k].of, opt |-> fences[k].opt]
    BY <1>3 DEF Opened
  <2>2. f + 1 + k - 1 = f + k
    BY <1>1
  <2> QED BY <2>1, <2>2
<1> QED BY <1>2, <1>4, <1>5, <1>6, Kinds

\* The geofences in ids leave the socket and get the sessions in B, which are new.
LEMMA CallAdds ==
  ASSUME Typed, Matched, NEW ids, NEW B, NEW c \in AddCalls, gfCalls' = Append(gfCalls, c),
         \A kind : Open(kind)' = Open(kind) \cup Of(kind, c),
         \A kind \in MsgKinds : Sent(kind)' \subseteq Sent(kind),
         Sent("added") = Sent("added")' \cup ids, ids \subseteq Sent("about"),
         Sent("about")' \cap ids = {}, Sent("added")' \subseteq Sent("about")',
         Sent("modified")' = Sent("modified"), Apart("about", gfToDaemon)',
         Of("sessions", c) = B, Of("begun", c) = B, Of("changed", c) = {},
         Of("updates", c) = {},
         DOMAIN Map' = DOMAIN Map \cup ids, \A g \in DOMAIN Map : Map'[g] = Map[g],
         \A g \in ids : Map'[g] \in B, \A s \in B : \E g \in ids : Map'[g] = s,
         \A g, h \in ids : Map'[g] = Map'[h] => g = h,
         \A s \in B : /\ s # 0 /\ s \notin DOMAIN engineFences
                      /\ \A g \in DOMAIN Map : Map[g] # s,
         \A o \in Of("opened", c) : /\ o.id \in ids /\ Map'[o.id] = o.session
                                    /\ o.of = o.id /\ o.opt = mGeofenceMap[o.id],
         UNCHANGED <<gfInbox, mGeofenceMap, refused, awaited, engineFences>>
  PROVE  Matched'
<1>1. \A kind : Due(kind)' = Due(kind)
  BY DEF Due
<1>2. Known' = Known
  BY DEF Known
<1>3. "about" \in MsgKinds /\ "added" \in MsgKinds /\ "twice" \in MsgKinds /\ "entries" \in MsgKinds
  BY DEF MsgKinds
<1>4. /\ Sent("about")' \subseteq Sent("about") /\ Sent("added")' \subseteq Sent("added")
      /\ Sent("twice")' \subseteq Sent("twice") /\ Sent("entries")' \subseteq Sent("entries")
  BY <1>3
<1>5. ids \cap DOMAIN Map = {} /\ ids \subseteq Known /\ ids \cap refused = {}
      /\ ids \cap Due("about") = {} /\ ids \cap Due("erased") = {} /\ ids \subseteq awaited
  <2>1. ids \subseteq Sent("added")
    OBVIOUS
  <2>2. ids \cap DOMAIN Map = {} /\ ids \cap refused = {}
    BY <2>1 DEF Matched, Placed
  <2>3. ids \subseteq Known /\ ids \cap Due("about") = {} /\ ids \subseteq awaited
    BY DEF Matched, Separate
  <2> QED BY <2>2, <2>3, DueKinds
<1>6. Open("sessions") \cap B = {}
  BY DEF Matched, Placed
<1>7. /\ Open("sessions")' = Open("sessions") \cup B /\ Open("begun")' = Open("begun") \cup B
      /\ Open("changed")' = Open("changed") /\ Open("updates")' = Open("updates")
      /\ Open("opened")' = Open("opened") \cup Of("opened", c)
  OBVIOUS
<1>8. InCall' = InCall \cup ids
  <2>1. \A g \in InCall' : g \in InCall \cup ids
    BY <1>7 DEF InCall
  <2>2. \A g \in InCall \cup ids : g \in InCall'
    BY <1>7 DEF InCall
  <2> QED BY <2>1, <2>2
<1>9. Cardinality(Zeros') = Cardinality(ZeroCalls')
  <2>1. Zeros' = Zeros
    BY <1>5 DEF Zeros
  <2>2. PICK S : gfCalls \in Seq(S) /\ c \in S
    BY DEF Typed, DaemonTyped
  <2>3. c.session # 0
    BY DEF AddCalls
  <2>4. Cardinality(Noughts(gfCalls')) = Cardinality(Noughts(gfCalls))
    BY <2>2, <2>3, NoughtsAppended
  <2> QED BY <2>1, <2>4 DEF Matched, Separate, ZeroCalls, Noughts
<1>10. Apart("sessions", gfCalls)'
  BY <1>6, OpenMore DEF Matched, Separate
<1>11. Separate'
  <2>1. /\ Sent("about")' \cap InCall' = {} /\ Sent("about")' \cap Due("about")' = {}
        /\ InCall' \cap Due("about")' = {}
        /\ Sent("about")' \cup InCall' \cup Due("about")' \subseteq awaited' \cap Known'
    BY <1>1, <1>2, <1>4, <1>5, <1>8 DEF Matched, Separate
  <2> QED BY <1>9, <1>10, <2>1 DEF Separate
<1>12. Placed'
  <2>1. /\ Known' \ refused' \subseteq DOMAIN Map' \cup Sent("added")' \cup Due("erased")'
        /\ DOMAIN Map' \subseteq Known'
        /\ DOMAIN Map' \cap Sent("added")' = {}
        /\ DOMAIN Map' \cap Due("erased")' = {}
        /\ Sent("added")' \cap refused' = {}
    BY <1>1, <1>2, <1>4, <1>5 DEF Matched, Placed
  <2>2. \A g, h \in DOMAIN Map' : Map'[g] = Map'[h] /\ Map'[g] # 0 => g = h
    BY DEF Matched, Placed
  <2>3. \A g \in DOMAIN Map' : Map'[g] # 0 =>
           g \notin refused' /\ Map'[g] \in DOMAIN engineFences' \cup Open("begun")'
    BY <1>5, <1>7 DEF Matched, Placed
  <2>4. \A s \in DOMAIN engineFences' \cup Open("sessions")' : \E g \in DOMAIN Map' : Map'[g] = s
    BY <1>7 DEF Matched, Placed
  <2>5. /\ DOMAIN engineFences' \cap Open("begun")' = {}
        /\ Open("changed")' \subseteq DOMAIN engineFences'
    BY <1>7 DEF Matched, Placed
  <2> QED BY <2>1, <2>2, <2>3, <2>4, <2>5 DEF Placed
<1>13. Current'
  <2>1. /\ Sent("twice")' = {}
        /\ \A e \in Sent("entries")' : e.id = e.of /\ e.opt = mGeofenceMap'[e.id]
    BY <1>4 DEF Matched, Current
  <2>2. \A o \in Open("opened")' :
           /\ o.id \in DOMAIN Map' /\ Map'[o.id] = o.session
           /\ o.of = o.id /\ o.opt = mGeofenceMap'[o.id]
    BY <1>7 DEF Matched, Current
  <2>3. \A u \in Open("updates")' : \A g \in DOMAIN Map' :
           Map'[g] = u.session /\ u.session # 0 => u.opt = mGeofenceMap'[g]
    <3>1. \A u \in Open("updates") : u.session # 0 => u.session \notin B
      BY <1>6, OpenKinds
    <3> QED BY <1>7, <3>1 DEF Matched, Current
  <2>4. \A g \in DOMAIN Map' : Map'[g] \in DOMAIN engineFences' =>
           /\ engineFences'[Map'[g]].of = g
           /\ \/ engineFences'[Map'[g]].opt = mGeofenceMap'[g]
              \/ g \in Sent("modified")'
              \/ \E u \in Open("updates")' : u.session = Map'[g]
    BY <1>7 DEF Matched, Current
  <2> QED BY <2>1, <2>2, <2>3, <2>4 DEF Current
<1> QED BY <1>11, <1>12, <1>13 DEF Matched

LEMMA AddGeofencesKept ==
  ASSUME Typed, BInv, GInv, addGeofences
  PROVE  GInv'
<1> DEFINE m == Head(gfToDaemon)
           fences == m.fences
           ids == {f.id : f \in Range(fences)}
           new == [id \in ids |-> gfSessions + LastOf(fences, id)]
           map == Over(new, gfHandler.mGfIdsMap)
           c == [type |-> "ADD", session |-> gfSessions + 1, fences |-> fences]
           B == gfSessions + 1..gfSessions + Len(fences)
<1>1. /\ GfReceive("ADD") /\ gfHandler.registered
      /\ UNCHANGED <<gfInbox, engineFences, gfAborted>>
      /\ UNCHANGED <<mGeofenceMap, mLastAddedClientIds, made, refused, awaited, troubles>>
      /\ Known' = Known
  BY DEF addGeofences, GfReceive, GfTakes, gfClient, gfHistory, Known
<1>2. /\ gfHandler' = [gfHandler EXCEPT !.mGfIdsMap = map,
                                        !.mGfPendingMessages = Append(@, "ADD")]
      /\ gfCalls' = Append(gfCalls, c)
  BY DEF addGeofences, LastOf
<1>3. GfNumbers'
  BY <1>1, NumbersStay DEF GInv
<1> SUFFICES ASSUME troubles = {}
             PROVE  MessagesAreKnown' /\ Calm' /\ Matched'
  BY <1>1, <1>3 DEF GInv
<1>4. MessagesAreKnown /\ Calm /\ (Live => Matched)
  BY DEF GInv
<1>5. Live /\ Matched
  BY <1>1, <1>4, HeardIsLive DEF GfTypes
<1>6. MessagesAreKnown'
  BY <1>1, <1>4, NothingHeard
<1>7. Calm'
  <2>1. gfHandler'.registered = gfHandler.registered
    BY <1>2 DEF Typed, DaemonTyped, Handlers
  <2> QED BY <1>1, <1>4, <1>5, <2>1, ReceiptCalm
<1>8. /\ m \in DaemonMsgs /\ m.type = "ADD" /\ fences \in Seq(AddEntries)
      /\ gfSessions \in Nat /\ Len(fences) \in Nat
  BY <1>1, ReceivedTyped, RequestsTyped, LenProperties DEF Typed, DaemonTyped
<1>9. /\ \A kind : Sent(kind) = Sent(kind)' \cup Of(kind, m)
      /\ Apart("about", gfToDaemon)'
      /\ Sent("about")' \cap Of("about", m) = {}
  BY <1>1, <1>5, SentLess DEF Matched, Separate
<1>10. Map' = map
  BY <1>2 DEF Map, Typed, DaemonTyped, Handlers
<1>11. c \in AddCalls /\ gfCalls' = Append(gfCalls, c)
       /\ Of("sessions", c) = B /\ Of("begun", c) = B
       /\ Of("changed", c) = {} /\ Of("updates", c) = {}
       /\ \A o \in Of("opened", c) : \E k \in 1..Len(fences) :
             /\ o.id = fences[k].id /\ o.session = gfSessions + k
             /\ o.of = fences[k].of /\ o.opt = fences[k].opt
  <2> HIDE DEF fences
  <2>1. c = [type |-> "ADD", session |-> gfSessions + 1, fences |-> fences]
    OBVIOUS
  <2> HIDE DEF c
  <2> QED BY <1>2, <1>8, <2>1, CallAbout
<1>12. ids = Of("about", m) /\ ids = Of("added", m)
  <2>1. DOMAIN fences = 1..Len(fences)
    BY <1>8, LenProperties
  <2>2. ids = IdsOf(fences)
    BY <2>1 DEF Range, IdsOf
  <2> QED BY <1>8, <2>2, Kinds DEF About, Added
<1>13. Of("modified", m) = {} /\ Of("twice", m) = {}
  <2>1. Of("modified", m) = {}
    BY <1>8, Kinds DEF Modified
  <2>2. Sent("twice") = {}
    BY <1>5 DEF Matched, Current
  <2> QED BY <1>9, <2>1, <2>2
<1>14. \A i, j \in 1..Len(fences) : fences[i].id = fences[j].id => i = j
  <2> SUFFICES ASSUME NEW i \in 1..Len(fences), NEW j \in 1..Len(fences),
                      fences[i].id = fences[j].id, i # j
               PROVE  fences[i].id \in Twice(m)
    BY <1>13, Kinds
  <2> QED BY <1>8 DEF Twice
<1>15. \A i \in 1..Len(fences) :
          fences[i].id = fences[i].of /\ fences[i].opt = mGeofenceMap[fences[i].id]
  <2>1. \A i \in 1..Len(fences) : fences[i] \in Of("entries", m)
    BY <1>8, Kinds DEF Entries
  <2> QED BY <1>5, <1>9, <2>1 DEF Matched, Current
<1> HIDE DEF m, fences, new, map, c, B
<1>16. ids = {fences[i].id : i \in 1..Len(fences)}
  <2>1. DOMAIN fences = 1..Len(fences)
    BY <1>8, LenProperties
  <2>2. Range(fences) = {fences[i] : i \in 1..Len(fences)}
    BY <2>1 DEF Range
  <2> QED BY <2>2
<1> HIDE DEF ids
<1>17. /\ \A i \in 1..Len(fences) : fences[i].id \in ids
       /\ \A id \in ids : \E i \in 1..Len(fences) : fences[i].id = id
  BY <1>16
<1> USE DEF new, map, B
<1>18. \A i \in 1..Len(fences) : LastOf(fences, fences[i].id) = i
  <2> TAKE i \in 1..Len(fences)
  <2>1. /\ LastOf(fences, fences[i].id) \in 1..Len(fences)
        /\ fences[LastOf(fences, fences[i].id)].id = fences[i].id
    BY <1>8, LastOfExists
  <2> QED BY <1>14, <2>1
<1>19. ids \cap DOMAIN Map = {}
  BY <1>5, <1>9, <1>12 DEF Matched, Placed
<1>20. /\ DOMAIN Map' = DOMAIN Map \cup ids
       /\ \A g \in DOMAIN Map : Map'[g] = Map[g]
       /\ \A i \in 1..Len(fences) : Map'[fences[i].id] = gfSessions + i
  <2>1. /\ DOMAIN map = DOMAIN Map \cup ids
        /\ \A g \in DOMAIN Map : map[g] = Map[g]
        /\ \A g \in ids : map[g] = gfSessions + LastOf(fences, g)
    BY <1>19 DEF Over, Map
  <2> HIDE DEF map
  <2> QED BY <1>10, <1>17, <1>18, <2>1
<1>21. /\ \A g \in ids : Map'[g] \in B
       /\ \A s \in B : \E g \in ids : Map'[g] = s
       /\ \A g, h \in ids : Map'[g] = Map'[h] => g = h
  <2>1. \A i \in 1..Len(fences) : gfSessions + i \in B
    BY <1>8
  <2>2. \A s \in B : \E i \in 1..Len(fences) : s = gfSessions + i
    <3> TAKE s \in B
    <3>1. s - gfSessions \in 1..Len(fences) /\ s = gfSessions + (s - gfSessions)
      BY <1>8
    <3> QED BY <3>1
  <2>3. \A i, j \in 1..Len(fences) : gfSessions + i = gfSessions + j => i = j
    BY <1>8
  <2> HIDE DEF B
  <2>4. \A g \in ids : Map'[g] \in B
    BY <1>17, <1>20, <2>1
  <2>5. \A s \in B : \E g \in ids : Map'[g] = s
    BY <1>17, <1>20, <2>2
  <2>6. ASSUME NEW g \in ids, NEW h \in ids, Map'[g] = Map'[h]
        PROVE  g = h
    <3>1. PICK i \in 1..Len(fences) : fences[i].id = g
      BY <1>17
    <3>2. PICK j \in 1..Len(fences) : fences[j].id = h
      BY <1>17
    <3> QED BY <1>20, <2>3, <2>6, <3>1, <3>2
  <2> QED BY <2>4, <2>5, <2>6
<1>22. \A s \in B : /\ s # 0 /\ s \notin DOMAIN engineFences
                    /\ \A g \in DOMAIN Map : Map[g] # s
  <2> TAKE s \in B
  <2>1. s \in Nat /\ s > gfSessions
    BY <1>8
  <2>2. s # 0 /\ s \notin 1..gfSessions
    BY <1>8, <2>1
  <2>3. s \notin DOMAIN engineFences
    BY <2>2 DEF Typed, DaemonTyped
  <2>4. ASSUME NEW g \in DOMAIN Map
        PROVE  Map[g] # s
    <3>1. Map[g] \in Nat /\ Map[g] =< gfSessions
      BY IdMapTyped DEF Map, Typed, DaemonTyped, Handlers, MapIsBounded
    <3> QED BY <1>8, <2>1, <3>1
  <2> QED BY <2>2, <2>3, <2>4
<1>23. \A o \in Of("opened", c) : /\ o.id \in ids /\ Map'[o.id] = o.session
                                  /\ o.of = o.id /\ o.opt = mGeofenceMap[o.id]
  BY <1>11, <1>15, <1>17, <1>20
<1>24. /\ \A kind \in MsgKinds : Sent(kind)' \subseteq Sent(kind)
       /\ Sent("added") = Sent("added")' \cup ids /\ ids \subseteq Sent("about")
       /\ Sent("about")' \cap ids = {} /\ Sent("modified")' = Sent("modified")
  BY <1>9, <1>12, <1>13
<1>25. Sent("added")' \subseteq Sent("about")'
  <2>1. gfToDaemon' \in Seq(DaemonMsgs)
    BY <1>1, ReceivedTyped
  <2> QED BY <2>1, AboutKinds DEF Sent
<1>26. \A kind : Open(kind)' = Open(kind) \cup Of(kind, c)
  BY <1>11, OpenMore
<1> HIDE DEF B
<1>27. Matched'
  BY <1>1, <1>5, <1>9, <1>11, <1>20, <1>21, <1>22, <1>23, <1>24, <1>25, <1>26, CallAdds
<1> QED BY <1>6, <1>7, <1>27

LEMMA ChangeAbout ==
  ASSUME NEW c \in ChangeCalls
  PROVE  /\ Of("begun", c) = {} /\ Of("opened", c) = {}
         /\ Of("sessions", c) = Of("changed", c)
         /\ Of("changed", c) = IF c.session = 0 THEN {} ELSE {c.session}
         /\ Of("updates", c) = IF c.type = "MODIFY"
                               THEN {[session |-> c.session, opt |-> c.opt]} ELSE {}
<1>1. c.type # "ADD"
  BY DEF ChangeCalls
<1>2. Begun(c) = {} /\ Opened(c) = {}
  BY <1>1 DEF Begun, Opened
<1>3. Changed(c) = IF c.session = 0 THEN {} ELSE {c.session}
  BY <1>1 DEF Changed
<1> QED BY <1>2, <1>3, Kinds DEF Updates

\* A request about geofence g leaves the socket, for the call of the session of g.
LEMMA CallChanges ==
  ASSUME Typed, Matched, NEW g \in DOMAIN Map, NEW c \in ChangeCalls,
         gfCalls' = Append(gfCalls, c), c.session = Map[g],
         c.type = "MODIFY" => c.opt = mGeofenceMap[g],
         Sent("about") = Sent("about")' \cup {g}, g \notin Sent("about")',
         Sent("added")' = Sent("added"), Sent("twice")' \subseteq Sent("twice"),
         Sent("entries")' \subseteq Sent("entries"),
         Sent("modified") \subseteq Sent("modified")' \cup {g},
         c.type # "MODIFY" => Sent("modified")' = Sent("modified"),
         Apart("about", gfToDaemon)',
         UNCHANGED <<Map, gfInbox, mGeofenceMap, refused, awaited, engineFences>>
  PROVE  Matched'
<1> DEFINE s == c.session
           u == [session |-> s, opt |-> c.opt]
<1>1. \A kind : Due(kind)' = Due(kind)
  BY DEF Due
<1>2. Known' = Known
  BY DEF Known
<1>3. g \notin InCall /\ g \notin Due("about")
  BY DEF Matched, Separate
<1>4. s # 0 /\ s \notin Open("sessions") /\ s \in DOMAIN engineFences
  <2>1. s # 0 /\ s \notin Open("sessions")
    BY <1>3 DEF InCall
  <2>2. s \in DOMAIN engineFences \cup Open("begun")
    BY <2>1 DEF Matched, Placed
  <2> QED BY <2>1, <2>2, OpenKinds
<1>5. /\ Of("begun", c) = {} /\ Of("opened", c) = {}
      /\ Of("sessions", c) = {s} /\ Of("changed", c) = {s}
      /\ Of("updates", c) = IF c.type = "MODIFY" THEN {u} ELSE {}
  BY <1>4, ChangeAbout
<1>6. \A kind : Open(kind)' = Open(kind) \cup Of(kind, c)
  BY OpenMore
<1>7. /\ Open("sessions")' = Open("sessions") \cup {s} /\ Open("begun")' = Open("begun")
      /\ Open("changed")' = Open("changed") \cup {s} /\ Open("opened")' = Open("opened")
      /\ Open("updates")' = Open("updates") \cup (IF c.type = "MODIFY" THEN {u} ELSE {})
  BY <1>5, <1>6
<1>8. u.session = s /\ u.opt = c.opt /\ s = Map[g]
  OBVIOUS
<1> HIDE DEF s, u
<1>9. \A h \in DOMAIN Map : Map[h] = s => h = g
  BY <1>4, <1>8 DEF Matched, Placed
<1>10. InCall' = InCall \cup {g}
  <2>1. \A h \in InCall' : h \in InCall \cup {g}
    BY <1>7, <1>9 DEF InCall
  <2>2. \A h \in InCall \cup {g} : h \in InCall'
    BY <1>7, <1>8 DEF InCall
  <2> QED BY <2>1, <2>2
<1>11. Cardinality(Zeros') = Cardinality(ZeroCalls')
  <2>1. Zeros' = Zeros
    BY DEF Zeros
  <2>2. PICK S : gfCalls \in Seq(S) /\ c \in S
    BY DEF Typed, DaemonTyped
  <2>3. Cardinality(Noughts(gfCalls')) = Cardinality(Noughts(gfCalls))
    BY <1>4, <2>2, NoughtsAppended DEF s
  <2> QED BY <2>1, <2>3 DEF Matched, Separate, ZeroCalls, Noughts
<1>12. Apart("sessions", gfCalls)'
  BY <1>4, <1>5, OpenMore DEF Matched, Separate
<1>13. Separate'
  <2>1. /\ Sent("about")' \cap InCall' = {} /\ Sent("about")' \cap Due("about")' = {}
        /\ InCall' \cap Due("about")' = {}
        /\ Sent("about")' \cup InCall' \cup Due("about")' \subseteq awaited' \cap Known'
    BY <1>1, <1>2, <1>3, <1>10 DEF Matched, Separate
  <2> QED BY <1>11, <1>12, <2>1 DEF Separate
<1>14. Placed'
  <2>1. \A t \in DOMAIN engineFences' \cup Open("sessions")' : \E h \in DOMAIN Map' : Map'[h] = t
    BY <1>7, <1>8 DEF Matched, Placed
  <2> QED BY <1>1, <1>2, <1>4, <1>7, <2>1 DEF Matched, Placed
<1>15. Current'
  <2>1. /\ Sent("twice")' = {}
        /\ \A e \in Sent("entries")' : e.id = e.of /\ e.opt = mGeofenceMap'[e.id]
    BY DEF Matched, Current
  <2>2. \A o \in Open("opened")' :
           /\ o.id \in DOMAIN Map' /\ Map'[o.id] = o.session
           /\ o.of = o.id /\ o.opt = mGeofenceMap'[o.id]
    BY <1>7 DEF Matched, Current
  <2>3. ASSUME NEW w \in Open("updates")', NEW h \in DOMAIN Map'
        PROVE  Map'[h] = w.session /\ w.session # 0 => w.opt = mGeofenceMap'[h]
    <3>1. w \in Open("updates") \/ (c.type = "MODIFY" /\ w = u)
      BY <1>7
    <3>2. CASE w \in Open("updates")
      BY <3>2 DEF Matched, Current
    <3>3. CASE c.type = "MODIFY" /\ w = u
      BY <1>8, <1>9, <3>3
    <3> QED BY <3>1, <3>2, <3>3
  <2>4. ASSUME NEW h \in DOMAIN Map', Map'[h] \in DOMAIN engineFences'
        PROVE  /\ engineFences'[Map'[h]].of = h
               /\ \/ engineFences'[Map'[h]].opt = mGeofenceMap'[h]
                  \/ h \in Sent("modified")'
                  \/ \E w \in Open("updates")' : w.session = Map'[h]
    <3>1. /\ engineFences[Map[h]].of = h
          /\ \/ engineFences[Map[h]].opt = mGeofenceMap[h]
             \/ h \in Sent("modified")
             \/ \E w \in Open("updates") : w.session = Map[h]
      BY <2>4 DEF Matched, Current
    <3>2. h \in Sent("modified") =>
             h \in Sent("modified")' \/ \E w \in Open("updates")' : w.session = Map[h]
      <4>1. CASE c.type = "MODIFY"
        <5>1. u \in Open("updates")' /\ u.session = Map[g]
          BY <1>7, <1>8, <4>1
        <5> QED BY <5>1
      <4>2. CASE c.type # "MODIFY"
        BY <4>2
      <4> QED BY <4>1, <4>2
    <3>3. Open("updates") \subseteq Open("updates")'
      BY <1>7
    <3> QED BY <3>1, <3>2, <3>3
  <2> QED BY <2>1, <2>2, <2>3, <2>4 DEF Current
<1> QED BY <1>13, <1>14, <1>15 DEF Matched

\* A request about geofence g, which the handler has no session of.
LEMMA CallOfNone ==
  ASSUME Typed, Matched, NEW g, g \notin DOMAIN Map, NEW c \in ChangeCalls,
         gfCalls' = Append(gfCalls, c), c.session = 0,
         DOMAIN Map' = DOMAIN Map \cup {g}, Map'[g] = 0, \A h \in DOMAIN Map : Map'[h] = Map[h],
         Sent("about") = Sent("about")' \cup {g}, g \notin Sent("about")',
         Sent("added")' = Sent("added"), Sent("twice")' \subseteq Sent("twice"),
         Sent("entries")' \subseteq Sent("entries"),
         Sent("modified") \subseteq Sent("modified")' \cup {g},
         Sent("added")' \subseteq Sent("about")', Apart("about", gfToDaemon)',
         UNCHANGED <<gfInbox, mGeofenceMap, refused, awaited, engineFences>>
  PROVE  Matched'
<1>1. \A kind : Due(kind)' = Due(kind)
  BY DEF Due
<1>2. Known' = Known
  BY DEF Known
<1>3. g \in Known /\ g \in awaited /\ g \notin Due("about") /\ g \notin Due("erased")
  BY DueKinds DEF Matched, Separate
<1>4. /\ Of("begun", c) = {} /\ Of("opened", c) = {}
      /\ Of("sessions", c) = {} /\ Of("changed", c) = {}
      /\ \A u \in Of("updates", c) : u.session = 0
  BY ChangeAbout
<1>5. \A kind : Open(kind)' = Open(kind) \cup Of(kind, c)
  BY OpenMore
<1>6. /\ Open("sessions")' = Open("sessions") /\ Open("begun")' = Open("begun")
      /\ Open("changed")' = Open("changed") /\ Open("opened")' = Open("opened")
      /\ Open("updates") \subseteq Open("updates")'
      /\ \A u \in Open("updates")' : u \in Open("updates") \/ u.session = 0
  BY <1>4, <1>5
<1>7. InCall' = InCall \cup {g}
  <2>1. \A h \in InCall' : h \in InCall \cup {g}
    BY <1>6 DEF InCall
  <2>2. \A h \in InCall \cup {g} : h \in InCall'
    BY <1>6 DEF InCall
  <2> QED BY <2>1, <2>2
<1>8. Cardinality(Zeros') = Cardinality(ZeroCalls')
  <2>1. Zeros' = Zeros \cup {g} /\ g \notin Zeros
    BY DEF Zeros
  <2>2. IsFiniteSet(Zeros)
    <3>1. Zeros \subseteq Fences
      BY DEF Zeros, Matched, Placed, Typed, ClientTyped
    <3> QED BY <3>1, FencesAreFinite
  <2>3. Cardinality(Zeros \cup {g}) = Cardinality(Zeros) + 1
    BY <2>1, <2>2, FS_AddElement
  <2>4. PICK S : gfCalls \in Seq(S) /\ c \in S
    BY DEF Typed, DaemonTyped
  <2>5. Cardinality(Noughts(gfCalls')) = Cardinality(Noughts(gfCalls)) + 1
    BY <2>4, NoughtsAppended
  <2> QED BY <2>1, <2>3, <2>5 DEF Matched, Separate, ZeroCalls, Noughts
<1>9. Apart("sessions", gfCalls)'
  BY <1>4, OpenMore DEF Matched, Separate
<1>10. Separate'
  <2>1. /\ Sent("about")' \cap InCall' = {} /\ Sent("about")' \cap Due("about")' = {}
        /\ InCall' \cap Due("about")' = {}
        /\ Sent("about")' \cup InCall' \cup Due("about")' \subseteq awaited' \cap Known'
    BY <1>1, <1>2, <1>3, <1>7 DEF Matched, Separate
  <2> QED BY <1>8, <1>9, <2>1 DEF Separate
<1>11. Placed'
  <2>1. /\ Known' \ refused' \subseteq DOMAIN Map' \cup Sent("added")' \cup Due("erased")'
        /\ DOMAIN Map' \subseteq Known'
        /\ DOMAIN Map' \cap Sent("added")' = {}
        /\ DOMAIN Map' \cap Due("erased")' = {}
        /\ Sent("added")' \cap refused' = {}
    BY <1>1, <1>2, <1>3 DEF Matched, Placed
  <2>2. \A h, k \in DOMAIN Map' : Map'[h] = Map'[k] /\ Map'[h] # 0 => h = k
    BY DEF Matched, Placed
  <2>3. \A h \in DOMAIN Map' : Map'[h] # 0 =>
           h \notin refused' /\ Map'[h] \in DOMAIN engineFences' \cup Open("begun")'
    BY <1>6 DEF Matched, Placed
  <2>4. \A s \in DOMAIN engineFences' \cup Open("sessions")' : \E h \in DOMAIN Map' : Map'[h] = s
    BY <1>6 DEF Matched, Placed
  <2>5. /\ DOMAIN engineFences' \cap Open("begun")' = {}
        /\ Open("changed")' \subseteq DOMAIN engineFences'
    BY <1>6 DEF Matched, Placed
  <2> QED BY <2>1, <2>2, <2>3, <2>4, <2>5 DEF Placed
<1>12. Current'
  <2>1. /\ Sent("twice")' = {}
        /\ \A e \in Sent("entries")' : e.id = e.of /\ e.opt = mGeofenceMap'[e.id]
    BY DEF Matched, Current
  <2>2. \A o \in Open("opened")' :
           /\ o.id \in DOMAIN Map' /\ Map'[o.id] = o.session
           /\ o.of = o.id /\ o.opt = mGeofenceMap'[o.id]
    BY <1>6 DEF Matched, Current
  <2>3. \A u \in Open("updates")' : \A h \in DOMAIN Map' :
           Map'[h] = u.session /\ u.session # 0 => u.opt = mGeofenceMap'[h]
    BY <1>6 DEF Matched, Current
  <2>4. ASSUME NEW h \in DOMAIN Map', Map'[h] \in DOMAIN engineFences'
        PROVE  /\ engineFences'[Map'[h]].of = h
               /\ \/ engineFences'[Map'[h]].opt = mGeofenceMap'[h]
                  \/ h \in Sent("modified")'
                  \/ \E u \in Open("updates")' : u.session = Map'[h]
    <3>1. 0 \notin DOMAIN engineFences
      BY DEF Typed, DaemonTyped
    <3>2. h # g /\ h \in DOMAIN Map /\ Map'[h] = Map[h]
      BY <2>4, <3>1
    <3>3. /\ engineFences[Map[h]].of = h
          /\ \/ engineFences[Map[h]].opt = mGeofenceMap[h]
             \/ h \in Sent("modified")
             \/ \E u \in Open("updates") : u.session = Map[h]
      BY <2>4, <3>2 DEF Matched, Current
    <3> QED BY <1>6, <3>2, <3>3
  <2> QED BY <2>1, <2>2, <2>3, <2>4 DEF Current
<1> QED BY <1>10, <1>11, <1>12 DEF Matched

LEMMA SessionRequestKept ==
  ASSUME Typed, BInv, GInv, NEW type \in GfTypes \ {"ADD"}, gfSessionRequest(type)
  PROVE  GInv'
<1> DEFINE m == Head(gfToDaemon)
           g == m.id
           map == Over(gfHandler.mGfIdsMap, [id \in {g} |-> 0])
           c == IF type = "MODIFY" THEN [type |-> type, session |-> map[g], opt |-> m.opt]
                ELSE [type |-> type, session |-> map[g]]
<1>1. /\ GfReceive(type) /\ gfHandler.registered
      /\ UNCHANGED <<gfInbox, engineFences, gfAborted>>
      /\ UNCHANGED <<mGeofenceMap, mLastAddedClientIds, made, refused, awaited, troubles>>
      /\ Known' = Known
  BY DEF gfSessionRequest, GfReceive, GfTakes, gfClient, gfHistory, Known
<1>2. /\ gfHandler' = [gfHandler EXCEPT !.mGfIdsMap = map,
                                        !.mGfPendingMessages = Append(@, type)]
      /\ gfCalls' = Append(gfCalls, c)
  BY DEF gfSessionRequest
<1>3. GfNumbers'
  BY <1>1, NumbersStay DEF GInv
<1> SUFFICES ASSUME troubles = {}
             PROVE  MessagesAreKnown' /\ Calm' /\ Matched'
  BY <1>1, <1>3 DEF GInv
<1>4. MessagesAreKnown /\ Calm /\ (Live => Matched)
  BY DEF GInv
<1>5. Live /\ Matched
  BY <1>1, <1>4, HeardIsLive
<1>6. MessagesAreKnown'
  BY <1>1, <1>4, NothingHeard
<1>7. Calm'
  <2>1. gfHandler'.registered = gfHandler.registered
    BY <1>2 DEF Typed, DaemonTyped, Handlers
  <2> QED BY <1>1, <1>4, <1>5, <2>1, ReceiptCalm
<1>8. /\ m \in DaemonMsgs /\ m.type = type /\ type \in {"REMOVE", "MODIFY", "PAUSE"}
      /\ g \in Fences /\ (type = "MODIFY" => m.opt \in GfOptions)
  BY <1>1, ReceivedTyped, RequestsTyped DEF GfTypes
<1>9. Map' = map
  BY <1>2 DEF Map, Typed, DaemonTyped, Handlers
<1> HIDE DEF m
<1>10. /\ DOMAIN map = DOMAIN Map \cup {g}
       /\ \A id \in DOMAIN Map : map[id] = Map[id]
       /\ g \notin DOMAIN Map => map[g] = 0
       /\ g \in DOMAIN Map => map = Map
  <2>1. /\ DOMAIN map = DOMAIN Map \cup {g}
        /\ \A id \in DOMAIN map : map[id] = IF id \in DOMAIN Map THEN Map[id] ELSE 0
        /\ map = [id \in DOMAIN map |-> map[id]]
    BY DEF Over, Map
  <2>2. Map = [id \in DOMAIN Map |-> Map[id]]
    BY IdMapTyped DEF Map, Typed, DaemonTyped, Handlers
  <2> HIDE DEF map
  <2>3. ASSUME g \in DOMAIN Map
        PROVE  map = Map
    <3>1. DOMAIN map = DOMAIN Map /\ \A id \in DOMAIN Map : map[id] = Map[id]
      BY <2>1, <2>3
    <3> QED BY <2>1, <2>2, <3>1
  <2> QED BY <2>1, <2>3
<1>11. /\ \A kind : Sent(kind) = Sent(kind)' \cup Of(kind, m)
       /\ Apart("about", gfToDaemon)'
       /\ Sent("about")' \cap Of("about", m) = {}
  BY <1>1, <1>5, SentLess DEF Matched, Separate, m
<1>12. Of("about", m) = {g} /\ Of("added", m) = {} /\ Of("twice", m) = {}
  BY <1>8, Kinds DEF About, Added, Twice
<1>13. Of("modified", m) = IF type = "MODIFY" THEN {g} ELSE {}
  BY <1>8, Kinds DEF Modified
<1>14. type = "MODIFY" => m.opt = mGeofenceMap[g]
  <2> SUFFICES ASSUME type = "MODIFY" PROVE m.opt = mGeofenceMap[g]
    OBVIOUS
  <2>1. Of("entries", m) = {[id |-> g, of |-> g, opt |-> m.opt]}
    BY <1>8, Kinds DEF Entries
  <2>2. [id |-> g, of |-> g, opt |-> m.opt] \in Sent("entries")
    BY <1>11, <2>1
  <2> QED BY <1>5, <2>2 DEF Matched, Current
<1>15. map[g] \in Nat
  <2>1. \A id \in DOMAIN Map : Map[id] \in Nat
    BY IdMapTyped DEF Map, Typed, DaemonTyped, Handlers
  <2> QED BY <1>10, <2>1
<1>16. /\ c \in ChangeCalls /\ c.type = type /\ c.session = map[g]
       /\ type = "MODIFY" => c.opt = m.opt
  <2> HIDE DEF map, g
  <2>1. CASE type = "MODIFY"
    BY <1>8, <1>15, <2>1 DEF ChangeCalls
  <2>2. CASE type # "MODIFY"
    BY <1>8, <1>15, <2>2 DEF ChangeCalls
  <2> QED BY <2>1, <2>2
<1> HIDE DEF map, c, g
<1>17. /\ Sent("about") = Sent("about")' \cup {g} /\ g \notin Sent("about")'
       /\ Sent("added")' = Sent("added") /\ Sent("twice")' \subseteq Sent("twice")
       /\ Sent("entries")' \subseteq Sent("entries")
  BY <1>11, <1>12
<1>18. /\ Sent("modified") \subseteq Sent("modified")' \cup {g}
       /\ c.type # "MODIFY" => Sent("modified")' = Sent("modified")
  BY <1>11, <1>13, <1>16
<1>19. Matched'
  <2>1. CASE g \in DOMAIN Map
    <3>1. Map' = Map /\ c.session = Map[g]
      BY <1>9, <1>10, <1>16, <2>1
    <3> QED BY <1>1, <1>2, <1>5, <1>11, <1>14, <1>16, <1>17, <1>18, <2>1, <3>1, CallChanges
  <2>2. CASE g \notin DOMAIN Map
    <3>1. /\ c.session = 0 /\ DOMAIN Map' = DOMAIN Map \cup {g} /\ Map'[g] = 0
          /\ \A h \in DOMAIN Map : Map'[h] = Map[h]
      BY <1>9, <1>10, <1>16, <2>2
    <3>2. Sent("added")' \subseteq Sent("about")'
      <4>1. gfToDaemon' \in Seq(DaemonMsgs)
        BY <1>1, ReceivedTyped
      <4> QED BY <4>1, AboutKinds DEF Sent
    <3> QED BY <1>1, <1>2, <1>5, <1>11, <1>16, <1>17, <1>18, <2>2, <3>1, <3>2, CallOfNone
  <2> QED BY <2>1, <2>2
<1> QED BY <1>6, <1>7, <1>19

LEMMA GivenUpKept ==
  ASSUME Typed, BInv, GInv, GfGivenUp
  PROVE  GInv'
<1>1. PICK type : GfTakes(type)
  BY DEF GfGivenUp
<1>2. troubles' # {}
  BY DEF GfGivenUp
<1>3. GfNumbers'
  BY <1>1, NumbersStay DEF GInv, GfTakes, gfClient, Known
<1> QED BY <1>2, <1>3 DEF GInv

LEMMA ServiceKept == Typed /\ BInv /\ GInv /\ GfService => GInv'
BY DroppedKept, GivenUpKept, NewClientKept, SubscriptionKept, AddGeofencesKept, SessionRequestKept,
   ListenerReadyKept DEF GfService

-----------------------------------------------------------------------------
(* The maps, when LocationAPI answers *)

\* The calls that are left.
LEMMA LeftKinds ==
  ASSUME Typed, gfCalls # <<>>, gfCalls' = Tail(gfCalls)
  PROVE  /\ \A kind : Open(kind)' \subseteq Open(kind)
         /\ Open("begun")' \cup Open("changed")' = Open("sessions")'
         /\ 0 \notin Open("sessions")'
         /\ \A o \in Open("opened")' : o.session \in Open("begun")'
         /\ \A u \in Open("updates")' : u.session # 0 => u.session \in Open("changed")'
<1>1. gfCalls' \in Seq(AddCalls \cup ChangeCalls)
  BY FirstCallTyped DEF Typed
<1>2. \A kind : Open(kind)' \subseteq Open(kind)
  BY OpenLess
<1>3. /\ All("begun", gfCalls') \cup All("changed", gfCalls') = All("sessions", gfCalls')
      /\ 0 \notin All("sessions", gfCalls')
      /\ \A o \in All("opened", gfCalls') : o.session \in All("begun", gfCalls')
      /\ \A u \in All("updates", gfCalls') : u.session # 0 => u.session \in All("changed", gfCalls')
  <2> DEFINE q == gfCalls'
  <2>1. q \in Seq(AddCalls \cup ChangeCalls)
    BY <1>1
  <2> HIDE DEF q
  <2>2. /\ All("begun", q) \cup All("changed", q) = All("sessions", q)
        /\ 0 \notin All("sessions", q)
        /\ \A o \in All("opened", q) : o.session \in All("begun", q)
        /\ \A u \in All("updates", q) : u.session # 0 => u.session \in All("changed", q)
    BY <2>1, CallsKinds
  <2> QED BY <2>2 DEF q
<1> QED BY <1>2, <1>3 DEF Open

\* The geofences of an answer, and those removed or refused.
Answered(ids, n) == {ids[i] : i \in 1..n}
Lost(type, ids, oks, n) == {ids[i] : i \in {j \in 1..n : type = "REMOVE" \/ ~oks[j]}}

\* The client is sent an answer about the geofences in A; those in gone go from the map.
Responds(A, gone) ==
    /\ gfCalls' = Tail(gfCalls)
    /\ gfHandler'.registered = gfHandler.registered
    /\ DOMAIN Map' = DOMAIN Map \ gone /\ \A g \in DOMAIN Map' : Map'[g] = Map[g]
    /\ \E m \in ClientMsgs :
          /\ gfInbox' = Append(gfInbox, m) /\ m.type = "RESPONSE"
          /\ Of("about", m) = A /\ Of("told", m) = A /\ Of("erased", m) = gone

LEMMA RespondAbout ==
  ASSUME Typed, gfCalls # <<>>, NEW c, NEW n \in Nat,
         NEW ids \in [1..n -> FenceIds], NEW oks \in [1..n -> BOOLEAN],
         GfRespond(c, ids, oks)
  PROVE  Responds(Answered(ids, n), Lost(Head(gfCalls).type, ids, oks, n))
<1> DEFINE to == Head(gfHandler.mGfPendingMessages)
           lost == {ids[i] : i \in {j \in DOMAIN ids : to = "REMOVE" \/ ~oks[j]}}
           map == Restrict(gfHandler.mGfIdsMap, DOMAIN gfHandler.mGfIdsMap \ lost)
           resp == [i \in DOMAIN ids |-> [id |-> ids[i], ok |-> oks[i]]]
           m == [type |-> "RESPONSE", to |-> to, resp |-> resp]
           gone == Lost(Head(gfCalls).type, ids, oks, n)
<1>1. /\ gfCalls' = Tail(gfCalls)
      /\ gfHandler' = [gfHandler EXCEPT !.mGfPendingMessages = Tail(@), !.mGfIdsMap = map]
      /\ gfInbox' = Append(gfInbox, m)
  BY DEF GfRespond
<1>2. to = Head(gfCalls).type /\ to \in GfTypes
  BY FirstCallTyped DEF Typed
<1>3. lost = gone
  BY <1>2 DEF Lost
<1>4. resp \in Seq(Results) /\ Len(resp) = n /\ \A i \in 1..n : resp[i] = [id |-> ids[i], ok |-> oks[i]]
  <2>1. \A i \in 1..n : [id |-> ids[i], ok |-> oks[i]] \in Results
    BY DEF Results
  <2>2. resp \in [1..n -> Results] /\ \A i \in 1..n : resp[i] = [id |-> ids[i], ok |-> oks[i]]
    BY <2>1
  <2> HIDE DEF resp
  <2> QED BY <2>2, FunctionIsSeq
<1> HIDE DEF resp
<1>5. m \in ClientMsgs
  BY <1>2, <1>4 DEF ClientMsgs
<1>6. m.type = "RESPONSE" /\ m.resp = resp /\ m.to = to
  OBVIOUS
<1>7. Map' = map /\ gfHandler'.registered = gfHandler.registered
  BY <1>1 DEF Map, Typed, DaemonTyped, Handlers
<1> HIDE DEF m, gone
<1>8. About(m) = Answered(ids, n) /\ Told(m) = About(m)
  BY <1>4, <1>6 DEF About, Told, IdsOf, Answered
<1>9. Erased(m) = gone
  <2>1. Erased(m) = {m.resp[i].id : i \in {j \in 1..n : m.to = "REMOVE" \/ ~m.resp[j].ok}}
    BY <1>4, <1>6 DEF Erased
  <2>2. \A i \in 1..n : m.resp[i].id = ids[i] /\ m.resp[i].ok = oks[i]
    BY <1>4, <1>6
  <2>3. gone = {ids[i] : i \in {j \in 1..n : m.to = "REMOVE" \/ ~oks[j]}}
    BY <1>2, <1>6 DEF Lost, gone
  <2>4. {j \in 1..n : m.to = "REMOVE" \/ ~m.resp[j].ok} = {j \in 1..n : m.to = "REMOVE" \/ ~oks[j]}
    BY <2>2
  <2> QED BY <2>1, <2>2, <2>3, <2>4
<1>10. DOMAIN Map' = DOMAIN Map \ gone /\ \A g \in DOMAIN Map' : Map'[g] = Map[g]
  <2>1. DOMAIN map = DOMAIN Map \ gone /\ \A g \in DOMAIN map : map[g] = Map[g]
    BY <1>3 DEF Restrict, Map
  <2> QED BY <1>7, <2>1
<1>11. Responds(Answered(ids, n), gone)
  BY <1>1, <1>5, <1>6, <1>7, <1>8, <1>9, <1>10, Kinds DEF Responds
<1> QED BY <1>11 DEF gone

\* The first call is answered to the geofences in A, and those in gone leave the handler's
\* map.
AnswerStep(A, gone) ==
    /\ gfCalls' = Tail(gfCalls)
    /\ gone \subseteq A
    /\ Due("about")' = Due("about") \cup A
    /\ Due("erased")' = Due("erased") \cup gone
    /\ DOMAIN Map' = DOMAIN Map \ gone
    /\ \A g \in DOMAIN Map' : Map'[g] = Map[g]
    /\ UNCHANGED <<gfToDaemon, mGeofenceMap, mLastAddedClientIds, made, refused, awaited>>

\* The geofences left in the map are those of the engine and of the calls left.
EngineFits ==
    /\ \A s \in DOMAIN engineFences' \cup Open("sessions")' : \E g \in DOMAIN Map' : Map[g] = s
    /\ \A g \in DOMAIN Map' : Map[g] # 0 => Map[g] \in DOMAIN engineFences' \cup Open("begun")'
    /\ DOMAIN engineFences' \cap Open("begun")' = {}
    /\ Open("changed")' \subseteq DOMAIN engineFences'
    /\ \A g \in DOMAIN Map' : Map[g] \in DOMAIN engineFences' =>
          /\ engineFences'[Map[g]].of = g
          /\ \/ engineFences'[Map[g]].opt = mGeofenceMap[g]
             \/ g \in Sent("modified")
             \/ \E u \in Open("updates")' : u.session = Map[g]

LEMMA AnswerMatched ==
  ASSUME Typed, Matched, gfCalls # <<>>, NEW A, NEW gone, AnswerStep(A, gone), A \subseteq InCall,
         \A g \in A : Map[g] \notin Open("sessions")' /\ (Map[g] = 0 => g \in gone),
         Cardinality(Zeros') = Cardinality(ZeroCalls'), EngineFits
  PROVE  Matched'
<1>a. /\ gfCalls' = Tail(gfCalls) /\ gone \subseteq A
      /\ Due("about")' = Due("about") \cup A /\ Due("erased")' = Due("erased") \cup gone
      /\ DOMAIN Map' = DOMAIN Map \ gone /\ \A g \in DOMAIN Map' : Map'[g] = Map[g]
      /\ UNCHANGED <<gfToDaemon, mGeofenceMap, refused, awaited>>
  BY DEF AnswerStep
<1>1. \A kind : Sent(kind)' = Sent(kind)
  BY <1>a DEF Sent
<1>2. Known' = Known
  BY <1>a DEF Known
<1>3. \A kind : Open(kind)' \subseteq Open(kind)
  BY <1>a, LeftKinds
<1>4. InCall' \subseteq InCall \ A
  <2>1. ASSUME NEW g \in InCall'
        PROVE  g \in InCall \ A
    <3>1. g \in DOMAIN Map /\ g \notin gone /\ (Map[g] = 0 \/ Map[g] \in Open("sessions")')
      BY <1>a DEF InCall
    <3>2. Map[g] = 0 \/ Map[g] \in Open("sessions")
      BY <1>3, <3>1
    <3> QED BY <3>1, <3>2 DEF InCall
  <2> QED BY <2>1
<1>5. Apart("sessions", gfCalls)' /\ Apart("about", gfToDaemon)'
  <2>1. Apart("sessions", gfCalls)'
    BY <1>a, OpenLess DEF Matched, Separate
  <2> QED BY <1>a, <2>1 DEF Matched, Separate
<1>6. Separate'
  <2>1. /\ Sent("about")' \cap InCall' = {} /\ Sent("about")' \cap Due("about")' = {}
        /\ InCall' \cap Due("about")' = {}
        /\ Sent("about")' \cup InCall' \cup Due("about")' \subseteq awaited' \cap Known'
    BY <1>1, <1>2, <1>4, <1>a DEF Matched, Separate
  <2> QED BY <1>5, <2>1 DEF Separate
<1>7. Placed'
  <2>1. /\ Known' \ refused' \subseteq DOMAIN Map' \cup Sent("added")' \cup Due("erased")'
        /\ DOMAIN Map' \subseteq Known'
        /\ DOMAIN Map' \cap Sent("added")' = {}
        /\ DOMAIN Map' \cap Due("erased")' = {}
        /\ Sent("added")' \cap refused' = {}
    BY <1>1, <1>2, <1>a DEF Matched, Placed
  <2>2. \A g, h \in DOMAIN Map : Map[g] = Map[h] /\ Map[g] # 0 => g = h
    BY DEF Matched, Placed
  <2>3. ASSUME NEW g \in DOMAIN Map', NEW h \in DOMAIN Map', Map'[g] = Map'[h], Map'[g] # 0
        PROVE  g = h
    BY <1>a, <2>2, <2>3
  <2>4. ASSUME NEW g \in DOMAIN Map', Map'[g] # 0
        PROVE  g \notin refused' /\ Map'[g] \in DOMAIN engineFences' \cup Open("begun")'
    <3>1. g \in DOMAIN Map /\ Map'[g] = Map[g]
      BY <1>a
    <3>2. g \notin refused
      BY <1>a, <2>4, <3>1 DEF Matched, Placed
    <3>3. \A h \in DOMAIN Map' : Map[h] # 0 => Map[h] \in DOMAIN engineFences' \cup Open("begun")'
      BY DEF EngineFits
    <3>4. Map[g] # 0 /\ g \in DOMAIN Map'
      BY <2>4, <3>1
    <3>5. Map[g] \in DOMAIN engineFences' \cup Open("begun")'
      BY <3>3, <3>4
    <3> QED BY <1>a, <3>1, <3>2, <3>5
  <2>5. \A s \in DOMAIN engineFences' \cup Open("sessions")' : \E g \in DOMAIN Map' : Map'[g] = s
    BY <1>a DEF EngineFits
  <2>6. /\ DOMAIN engineFences' \cap Open("begun")' = {}
        /\ Open("changed")' \subseteq DOMAIN engineFences'
    BY DEF EngineFits
  <2> QED BY <2>1, <2>3, <2>4, <2>5, <2>6 DEF Placed
<1>8. Current'
  <2>1. /\ Sent("twice")' = {}
        /\ \A e \in Sent("entries")' : e.id = e.of /\ e.opt = mGeofenceMap'[e.id]
    BY <1>1, <1>a DEF Matched, Current
  <2>2. ASSUME NEW o \in Open("opened")'
        PROVE  /\ o.id \in DOMAIN Map' /\ Map'[o.id] = o.session
               /\ o.of = o.id /\ o.opt = mGeofenceMap'[o.id]
    <3>1. o \in Open("opened")
      BY <1>3
    <3>2. o.id \in DOMAIN Map /\ Map[o.id] = o.session /\ o.of = o.id /\ o.opt = mGeofenceMap[o.id]
      BY <3>1 DEF Matched, Current
    <3>3. o.session \in Open("sessions")'
      BY <1>a, LeftKinds
    <3>4. o.id \notin gone
      BY <1>a, <3>2, <3>3
    <3> QED BY <1>a, <3>2, <3>4
  <2>3. ASSUME NEW u \in Open("updates")', NEW g \in DOMAIN Map', Map'[g] = u.session, u.session # 0
        PROVE  u.opt = mGeofenceMap'[g]
    <3>1. u \in Open("updates") /\ g \in DOMAIN Map /\ Map[g] = u.session
      BY <1>3, <1>a, <2>3
    <3> QED BY <1>a, <2>3, <3>1 DEF Matched, Current
  <2>4. ASSUME NEW g \in DOMAIN Map', Map'[g] \in DOMAIN engineFences'
        PROVE  /\ engineFences'[Map'[g]].of = g
               /\ \/ engineFences'[Map'[g]].opt = mGeofenceMap'[g]
                  \/ g \in Sent("modified")'
                  \/ \E u \in Open("updates")' : u.session = Map'[g]
    BY <1>1, <1>a, <2>4 DEF EngineFits
  <2> QED BY <2>1, <2>2, <2>3, <2>4 DEF Current
<1> QED BY <1>6, <1>7, <1>8 DEF Matched

\* What every answer does, whatever it says of the engine.
LEMMA RespondKnown ==
  ASSUME Typed, MessagesAreKnown, Calm, Live, Matched, gfCalls # <<>>, NEW c, NEW n \in Nat,
         NEW ids \in [1..n -> FenceIds], NEW oks \in [1..n -> BOOLEAN], GfRespond(c, ids, oks),
         Answered(ids, n) \subseteq InCall
  PROVE  /\ MessagesAreKnown' /\ Calm'
         /\ AnswerStep(Answered(ids, n), Lost(Head(gfCalls).type, ids, oks, n))
<1> DEFINE A == Answered(ids, n)
           gone == Lost(Head(gfCalls).type, ids, oks, n)
<1>0. A = Answered(ids, n) /\ gone = Lost(Head(gfCalls).type, ids, oks, n)
  OBVIOUS
<1>r. Responds(A, gone)
  BY RespondAbout
<1> HIDE DEF A, gone
<1>1. /\ UNCHANGED <<gfToDaemon, mGeofenceMap, mLastAddedClientIds, made, refused, awaited>>
      /\ UNCHANGED <<gfAborted, gfUp, gfRegistered>>
  BY DEF GfRespond, gfClient, gfProcess
<1>2. /\ gfCalls' = Tail(gfCalls) /\ gfHandler'.registered = gfHandler.registered
      /\ DOMAIN Map' = DOMAIN Map \ gone /\ \A g \in DOMAIN Map' : Map'[g] = Map[g]
  BY <1>r DEF Responds
<1>3. PICK m \in ClientMsgs :
         /\ gfInbox' = Append(gfInbox, m) /\ m.type = "RESPONSE"
         /\ Of("about", m) = A /\ Of("told", m) = A /\ Of("erased", m) = gone
  BY <1>r DEF Responds
<1>4. gone \subseteq A
  BY <1>0 DEF Answered, Lost
<1>5. A \subseteq Known /\ A \cap Due("about") = {} /\ A \cap Due("erased") = {}
  <2>1. A \subseteq Known /\ A \cap Due("about") = {}
    BY <1>0 DEF Matched, Separate
  <2> QED BY <2>1, DueKinds
<1>6. MessagesAreKnown'
  BY <1>1, <1>3, <1>5, ToldIsKnown
<1>7. Calm'
  BY <1>1, <1>2, <1>3, ReportCalm
<1>8. Due("about")' = Due("about") \cup A /\ Due("erased")' = Due("erased") \cup gone
  BY <1>3, DueMore
<1>9. AnswerStep(A, gone)
  BY <1>1, <1>2, <1>4, <1>8 DEF AnswerStep
<1> QED BY <1>6, <1>7, <1>9, <1>0

\* Call c is the first and adds the n geofences in ids.
AddsFirst(c, ids, n) ==
    /\ n \in Nat /\ c.session \in Nat \ {0}
    /\ c = Head(gfCalls) /\ \A kind : Of(kind, c) \subseteq Open(kind)
    /\ Of("begun", c) = c.session..c.session + n - 1
    /\ Of("sessions", c) = c.session..c.session + n - 1
    /\ Of("changed", c) = {} /\ Of("updates", c) = {}
    /\ \A i \in 1..n : /\ ids[i] \in DOMAIN Map /\ Map[ids[i]] = c.session + i - 1
                       /\ c.fences[i].of = ids[i]
                       /\ c.fences[i].opt = mGeofenceMap[ids[i]]

\* Those accepted get into the engine.
EngineAdds(c, oks, n) ==
    LET D == {c.session + i - 1 : i \in {j \in 1..n : oks[j]}} IN
    /\ DOMAIN engineFences' = D \cup DOMAIN engineFences
    /\ \A s \in D : engineFences'[s] = [of |-> c.fences[s - c.session + 1].of,
                                        opt |-> c.fences[s - c.session + 1].opt]
    /\ \A s \in DOMAIN engineFences \ D : engineFences'[s] = engineFences[s]

\* The ids found for the sessions of a call are those of its geofences.
LEMMA FirstAdded ==
  ASSUME Typed, Matched, gfCalls # <<>>, NEW c, c = Head(gfCalls), c.type = "ADD",
         NEW n, n = Len(c.fences), NEW ids \in [1..n -> FenceIds],
         \A i \in 1..n : ids[i] \in getClientId(c.session + i - 1)
  PROVE  AddsFirst(c, ids, n)
<1>1. c = gfCalls[1] /\ 1 \in 1..Len(gfCalls) /\ c \in AddCalls \cup ChangeCalls
  BY FirstCallTyped DEF Typed
<1>2. c \in AddCalls
  BY <1>1 DEF ChangeCalls
<1>3. c.session \in Nat \ {0} /\ c.fences \in Seq(AddEntries) /\ n \in Nat
  BY <1>2, LenProperties DEF AddCalls
<1>4. \A kind : Of(kind, c) \subseteq Open(kind)
  BY <1>1, InAll DEF Open
<1>5. Begun(c) = c.session..c.session + n - 1 /\ Changed(c) = {} /\ Updates(c) = {}
  BY DEF Begun, Changed, Updates
<1>6. ASSUME NEW i \in 1..n
      PROVE  /\ ids[i] \in DOMAIN Map /\ Map[ids[i]] = c.session + i - 1
             /\ c.fences[i].of = ids[i] /\ c.fences[i].opt = mGeofenceMap[ids[i]]
  <2> DEFINE f == c.fences[i]
             s == c.session + i - 1
             o == [id |-> f.id, session |-> s, of |-> f.of, opt |-> f.opt]
  <2>1. o \in Opened(c)
    BY DEF Opened
  <2>2. o \in Open("opened")
    BY <1>4, <2>1, Kinds
  <2>3. o.id \in DOMAIN Map /\ Map[o.id] = o.session /\ o.of = o.id /\ o.opt = mGeofenceMap[o.id]
    BY <2>2 DEF Matched, Current
  <2>4. f.id \in DOMAIN Map /\ Map[f.id] = s /\ f.of = f.id /\ f.opt = mGeofenceMap[f.id]
    BY <2>3
  <2>5. s # 0 /\ ids[i] \in getClientId(s)
    BY <1>3
  <2> HIDE DEF f, s, o
  <2>6. ids[i] \in DOMAIN Map /\ Map[ids[i]] = s
    BY <2>4, <2>5 DEF getClientId, Map
  <2>7. ids[i] = f.id
    BY <2>4, <2>5, <2>6 DEF Matched, Placed
  <2> QED BY <2>4, <2>6, <2>7 DEF f, s
<1> QED BY <1>3, <1>4, <1>5, <1>6, Kinds DEF AddsFirst

\* The geofences that could be added are in the engine, the others in no map.
LEMMA AddedMatched ==
  ASSUME Typed, Matched, gfCalls # <<>>, NEW c, NEW n, NEW ids, NEW oks, AddsFirst(c, ids, n),
         EngineAdds(c, oks, n), AnswerStep(Answered(ids, n), Lost("ADD", ids, oks, n))
  PROVE  Matched'
<1> DEFINE A == Answered(ids, n)
           gone == Lost("ADD", ids, oks, n)
           D == {c.session + i - 1 : i \in {j \in 1..n : oks[j]}}
<1>d. /\ n \in Nat /\ c.session \in Nat \ {0} /\ c = Head(gfCalls)
      /\ \A kind : Of(kind, c) \subseteq Open(kind)
      /\ Of("changed", c) = {} /\ Of("updates", c) = {}
  BY DEF AddsFirst
<1>e. \A i \in 1..n : /\ ids[i] \in DOMAIN Map /\ Map[ids[i]] = c.session + i - 1
                      /\ c.fences[i].of = ids[i]
                      /\ c.fences[i].opt = mGeofenceMap[ids[i]]
  BY DEF AddsFirst
<1>a. /\ DOMAIN engineFences' = D \cup DOMAIN engineFences
      /\ \A s \in D : engineFences'[s] = [of |-> c.fences[s - c.session + 1].of,
                                          opt |-> c.fences[s - c.session + 1].opt]
      /\ \A s \in DOMAIN engineFences \ D : engineFences'[s] = engineFences[s]
  BY DEF EngineAdds
<1>b. /\ A = {ids[i] : i \in 1..n} /\ gone = {ids[i] : i \in {j \in 1..n : ~oks[j]}}
  BY DEF Answered, Lost
<1>c. /\ AnswerStep(A, gone) /\ gfCalls' = Tail(gfCalls)
      /\ DOMAIN Map' = DOMAIN Map \ gone /\ \A g \in DOMAIN Map' : Map'[g] = Map[g]
  BY DEF AnswerStep
<1> HIDE DEF A, gone
<1> DEFINE B == c.session..c.session + n - 1
<1>f. Of("begun", c) = B /\ Of("sessions", c) = B
  BY DEF AddsFirst
<1>1. \A i \in 1..n : c.session + i - 1 \in B /\ c.session + i - 1 # 0
  BY <1>d
<1>2. \A s \in B : s - c.session + 1 \in 1..n /\ s = c.session + (s - c.session + 1) - 1
  BY <1>d
<1>3. \A i, j \in 1..n : c.session + i - 1 = c.session + j - 1 => i = j
  BY <1>d
<1>g. D \subseteq B /\ \A s : s \in D <=> \E i \in 1..n : oks[i] /\ s = c.session + i - 1
  BY <1>1
<1> HIDE DEF B, D
<1>4. /\ B \subseteq Open("begun") /\ B \subseteq Open("sessions")
      /\ B \cap Open("sessions")' = {} /\ B \cap DOMAIN engineFences = {}
  <2>1. B \subseteq Open("begun") /\ B \subseteq Open("sessions")
    <3>1. Of("begun", c) \subseteq Open("begun") /\ Of("sessions", c) \subseteq Open("sessions")
      BY <1>d
    <3> QED BY <1>f, <3>1
  <2>2. B \cap Open("sessions")' = {}
    BY <1>c, <1>d, <1>f, OpenLess DEF Matched, Separate
  <2>3. DOMAIN engineFences \cap Open("begun") = {}
    BY DEF Matched, Placed
  <2> QED BY <2>1, <2>2, <2>3
<1>5. /\ \A i \in 1..n : ids[i] \in A /\ ids[i] \in DOMAIN Map /\ Map[ids[i]] \in B /\ Map[ids[i]] # 0
      /\ \A g \in A : \E i \in 1..n : g = ids[i]
  BY <1>1, <1>b, <1>e
<1>6. \A g \in A : g \in DOMAIN Map /\ Map[g] \in B /\ Map[g] # 0
  BY <1>5
<1>7. gone \subseteq A /\ D \subseteq B
  BY <1>b, <1>g
<1>8. \A g, h \in DOMAIN Map : Map[g] = Map[h] /\ Map[g] # 0 => g = h
  BY DEF Matched, Placed
\* a geofence with one of the new sessions
<1>9. ASSUME NEW g \in DOMAIN Map, Map[g] \in B
      PROVE  \E i \in 1..n : g = ids[i] /\ Map[g] = c.session + i - 1
  <2>1. PICK i \in 1..n : Map[g] = c.session + i - 1
    BY <1>2, <1>9
  <2>2. Map[ids[i]] = Map[g] /\ ids[i] \in DOMAIN Map /\ Map[g] # 0
    BY <1>1, <1>e, <2>1
  <2>3. g = ids[i]
    BY <1>8, <2>2
  <2> QED BY <2>1, <2>3
<1>10. \A i \in 1..n : oks[i] => ids[i] \in DOMAIN Map' /\ c.session + i - 1 \in D
  <2> SUFFICES ASSUME NEW i \in 1..n, oks[i]
               PROVE  ids[i] \in DOMAIN Map' /\ c.session + i - 1 \in D
    OBVIOUS
  <2>1. \A j \in 1..n : ids[j] = ids[i] => j = i
    BY <1>3, <1>e
  <2>2. ids[i] \notin gone
    BY <1>b, <2>1
  <2>3. c.session + i - 1 \in D
    BY <1>g
  <2> QED BY <1>c, <1>e, <2>2, <2>3
<1>11. \A i \in 1..n : ids[i] \in DOMAIN Map' => oks[i]
  BY <1>b, <1>c
<1>12. /\ \A kind : Open(kind) = Open(kind)' \cup Of(kind, c)
       /\ \A kind : Open(kind)' \subseteq Open(kind)
       /\ Open("begun")' \subseteq Open("sessions")'
  BY <1>c, <1>d, OpenLess, LeftKinds
<1>13. Open("begun") = Open("begun")' \cup B /\ Open("updates") = Open("updates")'
  BY <1>12, <1>d, <1>f
<1>14. Cardinality(Zeros') = Cardinality(ZeroCalls')
  <2>1. Zeros' = Zeros
    BY <1>6, <1>7, <1>c DEF Zeros
  <2>2. PICK S : gfCalls \in Seq(S)
    BY DEF Typed, DaemonTyped
  <2>3. Cardinality(Noughts(gfCalls)) = Cardinality(Noughts(gfCalls'))
    BY <1>c, <1>d, <2>2, NoughtsTaken
  <2> QED BY <2>1, <2>3 DEF Matched, Separate, ZeroCalls, Noughts
<1>15. A \subseteq InCall
  BY <1>4, <1>6 DEF InCall
<1>16. \A g \in A : Map[g] \notin Open("sessions")' /\ (Map[g] = 0 => g \in gone)
  BY <1>4, <1>6
<1>17. ASSUME NEW s \in DOMAIN engineFences' \cup Open("sessions")'
       PROVE  \E g \in DOMAIN Map' : Map[g] = s
  <2>1. CASE s \in D
    <3>1. PICK i \in 1..n : oks[i] /\ s = c.session + i - 1
      BY <1>g, <2>1
    <3> QED BY <1>10, <1>c, <1>e, <3>1
  <2>2. CASE s \in DOMAIN engineFences \cup Open("sessions")'
    <3>1. s \notin B /\ s \in DOMAIN engineFences \cup Open("sessions")
      BY <1>4, <1>12, <2>2
    <3>2. PICK g \in DOMAIN Map : Map[g] = s
      BY <3>1 DEF Matched, Placed
    <3>3. g \notin gone
      BY <1>6, <1>7, <3>1, <3>2
    <3> QED BY <1>c, <3>2, <3>3
  <2> QED BY <1>a, <2>1, <2>2
<1>18. ASSUME NEW g \in DOMAIN Map', Map[g] # 0
       PROVE  Map[g] \in DOMAIN engineFences' \cup Open("begun")'
  <2>1. Map[g] \in DOMAIN engineFences \cup Open("begun")' \cup B
    BY <1>13, <1>18, <1>c DEF Matched, Placed
  <2>2. Map[g] \in B => Map[g] \in D
    <3> SUFFICES ASSUME Map[g] \in B PROVE Map[g] \in D
      OBVIOUS
    <3>1. PICK i \in 1..n : g = ids[i] /\ Map[g] = c.session + i - 1
      BY <1>9, <1>c
    <3> QED BY <1>10, <1>11, <3>1
  <2> QED BY <1>a, <2>1, <2>2
<1>19. /\ DOMAIN engineFences' \cap Open("begun")' = {}
       /\ Open("changed")' \subseteq DOMAIN engineFences'
  <2>1. D \cap Open("begun")' = {}
    BY <1>4, <1>7, <1>12
  <2>2. Open("changed")' \subseteq DOMAIN engineFences
    BY <1>12 DEF Matched, Placed
  <2>3. DOMAIN engineFences \cap Open("begun")' = {}
    BY <1>12 DEF Matched, Placed
  <2> QED BY <1>a, <2>1, <2>2, <2>3
<1>20. ASSUME NEW g \in DOMAIN Map', Map[g] \in DOMAIN engineFences'
       PROVE  /\ engineFences'[Map[g]].of = g
              /\ \/ engineFences'[Map[g]].opt = mGeofenceMap[g]
                 \/ g \in Sent("modified")
                 \/ \E u \in Open("updates")' : u.session = Map[g]
  <2>1. CASE Map[g] \in D
    <3>1. PICK i \in 1..n : g = ids[i] /\ Map[g] = c.session + i - 1
      BY <1>7, <1>9, <1>c, <2>1
    <3>2. Map[g] - c.session + 1 = i
      BY <1>d, <3>1
    <3>3. engineFences'[Map[g]] = [of |-> c.fences[i].of, opt |-> c.fences[i].opt]
      BY <1>a, <2>1, <3>2
    <3> QED BY <1>e, <3>1, <3>3
  <2>2. CASE Map[g] \notin D
    <3>1. Map[g] \in DOMAIN engineFences \ D /\ g \in DOMAIN Map
      BY <1>20, <1>a, <1>c, <2>2
    <3>2. engineFences'[Map[g]] = engineFences[Map[g]]
      BY <1>a, <3>1
    <3> QED BY <1>13, <3>1, <3>2 DEF Matched, Current
  <2> QED BY <2>1, <2>2
<1>21. EngineFits
  BY <1>17, <1>18, <1>19, <1>20 DEF EngineFits
<1> QED BY <1>c, <1>14, <1>15, <1>16, <1>21, AnswerMatched

LEMMA AddedKept ==
  ASSUME Typed, BInv, GInv, onAddedGeofences
  PROVE  GInv'
<1> DEFINE c == Head(gfCalls)
           n == Len(c.fences)
<1>1. PICK oks \in [1..n -> GfResults], ids \in [1..n -> FenceIds] :
         /\ \A i \in 1..n : ids[i] \in getClientId(c.session + i - 1)
         /\ GfRespond(c, ids, oks)
         /\ engineFences' =
               Over([s \in {c.session + i - 1 : i \in {j \in 1..n : oks[j]}} |->
                        [of |-> c.fences[s - c.session + 1].of,
                         opt |-> c.fences[s - c.session + 1].opt]],
                    engineFences)
  BY DEF onAddedGeofences
<1>2. gfCalls # <<>> /\ c.type = "ADD" /\ UNCHANGED troubles
  BY DEF onAddedGeofences
<1>3. UNCHANGED <<mGeofenceMap, mLastAddedClientIds, made, refused>>
  BY <1>1 DEF GfRespond, gfClient
<1>4. GfNumbers'
  BY <1>3, NumbersStay DEF GInv
<1> SUFFICES ASSUME troubles = {}
             PROVE  MessagesAreKnown' /\ Calm' /\ Matched'
  BY <1>2, <1>4 DEF GInv
<1>5. MessagesAreKnown /\ Calm /\ Live /\ Matched
  BY <1>2 DEF GInv, Calm, Idle
<1> DEFINE D == {c.session + i - 1 : i \in {j \in 1..n : oks[j]}}
           new == [s \in D |-> [of |-> c.fences[s - c.session + 1].of,
                                opt |-> c.fences[s - c.session + 1].opt]]
<1> HIDE DEF c, n
<1>6. c = Head(gfCalls) /\ n = Len(c.fences)
  BY DEF c, n
<1>7. AddsFirst(c, ids, n)
  BY <1>1, <1>2, <1>5, <1>6, FirstAdded
<1>8. EngineAdds(c, oks, n)
  <2>1. engineFences' = Over(new, engineFences)
    BY <1>1
  <2>2. DOMAIN new = D
    OBVIOUS
  <2>3. EngineAdds(c, oks, n) <=>
           /\ DOMAIN engineFences' = D \cup DOMAIN engineFences
           /\ \A s \in D : engineFences'[s] = [of |-> c.fences[s - c.session + 1].of,
                                               opt |-> c.fences[s - c.session + 1].opt]
           /\ \A s \in DOMAIN engineFences \ D : engineFences'[s] = engineFences[s]
    BY DEF EngineAdds
  <2> HIDE DEF D
  <2>4. \A s \in D : new[s] = [of |-> c.fences[s - c.session + 1].of,
                               opt |-> c.fences[s - c.session + 1].opt]
    OBVIOUS
  <2> HIDE DEF new
  <2> QED BY <2>1, <2>2, <2>3, <2>4 DEF Over
<1>9. Answered(ids, n) \subseteq InCall
  <2>1. \A i \in 1..n : ids[i] \in DOMAIN Map /\ Map[ids[i]] \in Open("sessions")
    <3>1. \A i \in 1..n : c.session + i - 1 \in c.session..c.session + n - 1
      BY <1>7 DEF AddsFirst
    <3>2. c.session..c.session + n - 1 \subseteq Open("sessions")
      BY <1>7 DEF AddsFirst
    <3> QED BY <1>7, <3>1, <3>2 DEF AddsFirst
  <2> QED BY <2>1 DEF InCall, Answered
<1>10. oks \in [1..n -> BOOLEAN] /\ n \in Nat
  BY <1>7, GfResultsAssumption DEF AddsFirst
<1>11. MessagesAreKnown' /\ Calm' /\ AnswerStep(Answered(ids, n), Lost("ADD", ids, oks, n))
  <2>1. GfRespond(c, ids, oks) /\ Head(gfCalls).type = "ADD"
    BY <1>1, <1>2, <1>6
  <2>2. MessagesAreKnown' /\ Calm' /\ AnswerStep(Answered(ids, n), Lost(Head(gfCalls).type, ids, oks, n))
    BY <1>2, <1>5, <1>9, <1>10, <2>1, RespondKnown
  <2> QED BY <2>1, <2>2
<1>12. Matched'
  BY <1>2, <1>5, <1>7, <1>8, <1>11, AddedMatched
<1> QED BY <1>11, <1>12

\* Call c is the first and about the session of geofence g.
ChangesFirst(c, g) ==
    /\ c \in ChangeCalls /\ c = Head(gfCalls)
    /\ \A kind : Of(kind, c) \subseteq Open(kind)
    /\ g \in DOMAIN Map /\ Map[g] = c.session

\* The handler finds the id of the session, also if that is 0: it has an id without a session
\* for every call about none.
LEMMA FirstChanged ==
  ASSUME Typed, Matched, gfCalls # <<>>, NEW c, c = Head(gfCalls), c.type # "ADD",
         NEW g \in getClientId(c.session)
  PROVE  ChangesFirst(c, g)
<1>1. c = gfCalls[1] /\ 1 \in 1..Len(gfCalls) /\ c \in AddCalls \cup ChangeCalls
  BY FirstCallTyped DEF Typed
<1>2. c \in ChangeCalls
  BY <1>1 DEF AddCalls
<1>3. \A kind : Of(kind, c) \subseteq Open(kind)
  BY <1>1, InAll DEF Open
<1>4. \E h \in DOMAIN Map : Map[h] = c.session
  <2>1. CASE c.session # 0
    <3>1. c.session \in Of("sessions", c)
      BY <1>2, <2>1, ChangeAbout
    <3>2. c.session \in Open("sessions")
      BY <1>3, <3>1
    <3> QED BY <3>2 DEF Matched, Placed
  <2>2. CASE c.session = 0
    <3>1. PICK S : gfCalls \in Seq(S)
      BY DEF Typed, DaemonTyped
    <3>2. Cardinality(Noughts(gfCalls)) = Cardinality(Noughts(Tail(gfCalls))) + 1
      BY <2>2, <3>1, NoughtsTaken
    <3>3. Tail(gfCalls) \in Seq(S)
      BY <3>1, HeadTailProperties
    <3>4. Cardinality(Noughts(Tail(gfCalls))) \in Nat
      BY <3>3, NoughtsAreFinite
    <3>5. Cardinality(Zeros) # 0
      <4>1. Cardinality(Zeros) = Cardinality(Noughts(gfCalls))
        BY DEF Matched, Separate, ZeroCalls, Noughts
      <4> QED BY <3>2, <3>4, <4>1
    <3>6. Zeros # {}
      BY <3>5, FS_EmptySet
    <3> QED BY <2>2, <3>6 DEF Zeros
  <2> QED BY <2>1, <2>2
<1>5. g \in DOMAIN Map /\ Map[g] = c.session
  BY <1>4 DEF getClientId, Map
<1> QED BY <1>2, <1>3, <1>5 DEF ChangesFirst

\* A request about a geofence without a session fails, and the id goes.
LEMMA RefusedMatched ==
  ASSUME Typed, Matched, gfCalls # <<>>, NEW c, NEW g, ChangesFirst(c, g), c.session = 0,
         AnswerStep({g}, {g}), engineFences' = engineFences
  PROVE  Matched'
<1>a. /\ c \in ChangeCalls /\ c = Head(gfCalls) /\ g \in DOMAIN Map /\ Map[g] = 0
  BY DEF ChangesFirst
<1>b. /\ gfCalls' = Tail(gfCalls)
      /\ DOMAIN Map' = DOMAIN Map \ {g} /\ \A h \in DOMAIN Map' : Map'[h] = Map[h]
  BY DEF AnswerStep
<1>1. /\ Of("begun", c) = {} /\ Of("sessions", c) = {} /\ Of("changed", c) = {}
      /\ \A u \in Of("updates", c) : u.session = 0
  BY <1>a, ChangeAbout
<1>2. /\ \A kind : Open(kind) = Open(kind)' \cup Of(kind, c)
      /\ 0 \notin Open("sessions")'
  BY <1>a, <1>b, OpenLess, LeftKinds
<1>3. /\ Open("begun")' = Open("begun") /\ Open("sessions")' = Open("sessions")
      /\ Open("changed")' = Open("changed")
      /\ \A u \in Open("updates") : u \in Open("updates")' \/ u.session = 0
  BY <1>1, <1>2
<1>4. 0 \notin DOMAIN engineFences
  BY DEF Typed, DaemonTyped
<1>5. {g} \subseteq InCall
  BY <1>a DEF InCall
<1>6. \A h \in {g} : Map[h] \notin Open("sessions")' /\ (Map[h] = 0 => h \in {g})
  BY <1>2, <1>a
<1>7. Cardinality(Zeros') = Cardinality(ZeroCalls')
  <2>1. g \in Zeros /\ Zeros' = Zeros \ {g}
    BY <1>a, <1>b DEF Zeros
  <2>2. IsFiniteSet(Zeros)
    <3>1. Zeros \subseteq Known
      BY DEF Matched, Placed, Zeros
    <3>2. Zeros \subseteq Fences
      BY <3>1 DEF Typed, ClientTyped
    <3> QED BY <3>2, FencesAreFinite, FS_Subset
  <2>3. Cardinality(Zeros') = Cardinality(Zeros) - 1
    BY <2>1, <2>2, FS_RemoveElement
  <2>4. PICK S : gfCalls \in Seq(S)
    BY DEF Typed, DaemonTyped
  <2>5. Cardinality(Noughts(gfCalls)) = Cardinality(Noughts(gfCalls')) + 1
    BY <1>a, <1>b, <2>4, NoughtsTaken
  <2>6. gfCalls' \in Seq(S)
    BY <1>b, <2>4, HeadTailProperties
  <2>7. Cardinality(Noughts(gfCalls')) \in Nat
    BY <2>6, NoughtsAreFinite
  <2>8. Cardinality(Zeros) = Cardinality(Noughts(gfCalls))
    BY DEF Matched, Separate, ZeroCalls, Noughts
  <2>9. Cardinality(Zeros') = Cardinality(Noughts(gfCalls'))
    BY <2>3, <2>5, <2>7, <2>8
  <2> QED BY <2>9 DEF ZeroCalls, Noughts
<1>8. ASSUME NEW s \in DOMAIN engineFences' \cup Open("sessions")'
      PROVE  \E h \in DOMAIN Map' : Map[h] = s
  <2>1. s # 0 /\ s \in DOMAIN engineFences \cup Open("sessions")
    BY <1>2, <1>3, <1>4
  <2>2. PICK h \in DOMAIN Map : Map[h] = s
    BY <2>1 DEF Matched, Placed
  <2> QED BY <1>a, <1>b, <2>1, <2>2
<1>9. ASSUME NEW h \in DOMAIN Map', Map[h] # 0
      PROVE  Map[h] \in DOMAIN engineFences' \cup Open("begun")'
  BY <1>3, <1>9, <1>b DEF Matched, Placed
<1>10. /\ DOMAIN engineFences' \cap Open("begun")' = {}
       /\ Open("changed")' \subseteq DOMAIN engineFences'
  BY <1>3 DEF Matched, Placed
<1>11. ASSUME NEW h \in DOMAIN Map', Map[h] \in DOMAIN engineFences'
       PROVE  /\ engineFences'[Map[h]].of = h
              /\ \/ engineFences'[Map[h]].opt = mGeofenceMap[h]
                 \/ h \in Sent("modified")
                 \/ \E u \in Open("updates")' : u.session = Map[h]
  <2>1. Map[h] # 0 /\ h \in DOMAIN Map
    BY <1>4, <1>11, <1>b
  <2>2. /\ engineFences[Map[h]].of = h
        /\ \/ engineFences[Map[h]].opt = mGeofenceMap[h]
           \/ h \in Sent("modified")
           \/ \E u \in Open("updates") : u.session = Map[h]
    BY <1>11, <2>1 DEF Matched, Current
  <2> QED BY <1>3, <2>1, <2>2
<1>12. EngineFits
  BY <1>8, <1>9, <1>10, <1>11 DEF EngineFits
<1> QED BY <1>5, <1>6, <1>7, <1>12, AnswerMatched

\* LocationAPI does what is requested of the session of a geofence.
EngineChanges(c) ==
    LET s == c.session IN
    /\ DOMAIN engineFences' = IF c.type = "REMOVE" THEN DOMAIN engineFences \ {s}
                              ELSE DOMAIN engineFences
    /\ \A t \in DOMAIN engineFences' : t # s => engineFences'[t] = engineFences[t]
    /\ s \in DOMAIN engineFences' =>
          /\ engineFences'[s].of = engineFences[s].of
          /\ engineFences'[s].opt = IF c.type = "MODIFY" THEN c.opt ELSE engineFences[s].opt

LEMMA ChangedMatched ==
  ASSUME Typed, Matched, gfCalls # <<>>, NEW c, NEW g, ChangesFirst(c, g), c.session # 0,
         AnswerStep({g}, IF c.type = "REMOVE" THEN {g} ELSE {}), EngineChanges(c)
  PROVE  Matched'
<1> DEFINE s == c.session
           gone == IF c.type = "REMOVE" THEN {g} ELSE {}
<1>a. /\ c \in ChangeCalls /\ c = Head(gfCalls) /\ g \in DOMAIN Map /\ Map[g] = s /\ s # 0
      /\ \A kind : Of(kind, c) \subseteq Open(kind)
  BY DEF ChangesFirst
<1>b. /\ gfCalls' = Tail(gfCalls) /\ gone \subseteq {g}
      /\ c.type = "REMOVE" => g \in gone
      /\ c.type # "REMOVE" => gone = {}
  BY DEF AnswerStep
<1>c. DOMAIN Map' = DOMAIN Map \ gone /\ \A h \in DOMAIN Map' : Map'[h] = Map[h]
  BY DEF AnswerStep
<1>d. /\ c.type = "REMOVE" => DOMAIN engineFences' = DOMAIN engineFences \ {s}
      /\ c.type # "REMOVE" => DOMAIN engineFences' = DOMAIN engineFences
  BY DEF EngineChanges
<1>e. /\ \A t \in DOMAIN engineFences' : t # s => engineFences'[t] = engineFences[t]
      /\ s \in DOMAIN engineFences' =>
            /\ engineFences'[s].of = engineFences[s].of
            /\ c.type # "MODIFY" => engineFences'[s].opt = engineFences[s].opt
            /\ c.type = "MODIFY" => engineFences'[s].opt = c.opt
  BY DEF EngineChanges
<1>1. /\ Of("begun", c) = {} /\ Of("sessions", c) = {s} /\ Of("changed", c) = {s}
      /\ Of("updates", c) = IF c.type = "MODIFY" THEN {[session |-> s, opt |-> c.opt]} ELSE {}
  BY <1>a, ChangeAbout
<1>2. /\ \A kind : Open(kind) = Open(kind)' \cup Of(kind, c)
      /\ s \notin Open("sessions")'
      /\ Open("begun")' \cup Open("changed")' = Open("sessions")'
  BY <1>a, <1>b, <1>1, OpenLess, LeftKinds DEF Matched, Separate
<1> HIDE DEF s, gone
<1>3. /\ Open("begun")' = Open("begun") /\ Open("sessions") = Open("sessions")' \cup {s}
      /\ Open("changed") = Open("changed")' \cup {s} /\ s \notin Open("changed")'
  BY <1>1, <1>2
<1>4. \A u \in Open("updates") : u \in Open("updates")' \/ u.session = s
  <2>1. \A u \in Of("updates", c) : u.session = s
    BY <1>1
  <2> QED BY <1>2, <2>1
<1>5. s \in DOMAIN engineFences
  BY <1>3 DEF Matched, Placed
<1>6. \A h \in DOMAIN Map : Map[h] = s => h = g
  BY <1>a DEF Matched, Placed
<1>7. {g} \subseteq InCall
  BY <1>3, <1>a DEF InCall
<1>8. \A h \in {g} : Map[h] \notin Open("sessions")' /\ (Map[h] = 0 => h \in gone)
  BY <1>2, <1>a
<1>9. Cardinality(Zeros') = Cardinality(ZeroCalls')
  <2>1. Zeros' = Zeros
    BY <1>a, <1>b, <1>c DEF Zeros
  <2>2. PICK S : gfCalls \in Seq(S)
    BY DEF Typed, DaemonTyped
  <2>3. Cardinality(Noughts(gfCalls)) = Cardinality(Noughts(gfCalls'))
    BY <1>a, <1>b, <2>2, NoughtsTaken DEF s
  <2> QED BY <2>1, <2>3 DEF Matched, Separate, ZeroCalls, Noughts
<1>10. ASSUME NEW t \in DOMAIN engineFences' \cup Open("sessions")'
       PROVE  \E h \in DOMAIN Map' : Map[h] = t
  <2>1. t \in DOMAIN engineFences \cup Open("sessions")
    BY <1>3, <1>d
  <2>2. PICK h \in DOMAIN Map : Map[h] = t
    BY <2>1 DEF Matched, Placed
  <2>3. t = s => c.type # "REMOVE"
    BY <1>2, <1>d
  <2>4. h \notin gone
    BY <1>a, <1>b, <2>2, <2>3
  <2> QED BY <1>c, <2>2, <2>4
<1>11. ASSUME NEW h \in DOMAIN Map', Map[h] # 0
       PROVE  Map[h] \in DOMAIN engineFences' \cup Open("begun")'
  <2>1. h \in DOMAIN Map /\ (c.type = "REMOVE" => Map[h] # s)
    BY <1>6, <1>b, <1>c
  <2>2. Map[h] \in DOMAIN engineFences \cup Open("begun")
    BY <1>11, <2>1 DEF Matched, Placed
  <2> QED BY <1>3, <1>d, <2>1, <2>2
<1>12. /\ DOMAIN engineFences' \cap Open("begun")' = {}
       /\ Open("changed")' \subseteq DOMAIN engineFences'
  <2>1. DOMAIN engineFences \cap Open("begun") = {} /\ Open("changed") \subseteq DOMAIN engineFences
    BY DEF Matched, Placed
  <2> QED BY <1>3, <1>d, <2>1
<1>13. ASSUME NEW h \in DOMAIN Map', Map[h] \in DOMAIN engineFences'
       PROVE  /\ engineFences'[Map[h]].of = h
              /\ \/ engineFences'[Map[h]].opt = mGeofenceMap[h]
                 \/ h \in Sent("modified")
                 \/ \E u \in Open("updates")' : u.session = Map[h]
  <2>1. h \in DOMAIN Map /\ Map[h] \in DOMAIN engineFences
    BY <1>13, <1>c, <1>d
  <2>2. /\ engineFences[Map[h]].of = h
        /\ \/ engineFences[Map[h]].opt = mGeofenceMap[h]
           \/ h \in Sent("modified")
           \/ \E u \in Open("updates") : u.session = Map[h]
    BY <2>1 DEF Matched, Current
  <2>3. CASE Map[h] # s
    <3>1. engineFences'[Map[h]] = engineFences[Map[h]]
      BY <1>13, <1>e, <2>3
    <3> QED BY <1>4, <2>2, <2>3, <3>1
  <2>4. CASE Map[h] = s /\ c.type = "MODIFY"
    <3>1. [session |-> s, opt |-> c.opt] \in Open("updates")
      BY <1>1, <1>2, <2>4
    <3>2. c.opt = mGeofenceMap[h]
      <4> DEFINE u == [session |-> s, opt |-> c.opt]
      <4>1. u.session = s /\ u.opt = c.opt /\ u \in Open("updates")
        BY <3>1
      <4> HIDE DEF u
      <4> QED BY <1>a, <2>1, <2>4, <4>1 DEF Matched, Current
    <3> QED BY <1>13, <1>e, <2>2, <2>4, <3>2
  <2>5. CASE Map[h] = s /\ c.type # "MODIFY"
    <3>1. engineFences'[Map[h]].of = h /\ engineFences'[Map[h]].opt = engineFences[Map[h]].opt
      BY <1>13, <1>e, <2>2, <2>5
    <3>2. Open("updates")' = Open("updates")
      BY <1>1, <1>2, <2>5
    <3> QED BY <2>2, <3>1, <3>2
  <2> QED BY <2>3, <2>4, <2>5
<1>14. EngineFits
  BY <1>10, <1>11, <1>12, <1>13 DEF EngineFits
<1>15. AnswerStep({g}, gone)
  BY DEF gone
<1> QED BY <1>7, <1>8, <1>9, <1>14, <1>15, AnswerMatched

LEMMA ChangedKept ==
  ASSUME Typed, BInv, GInv, onChangedGeofence
  PROVE  GInv'
<1> DEFINE c == Head(gfCalls)
           there == c.session \in DOMAIN engineFences
<1>1. PICK ok \in (IF there THEN GfResults ELSE {FALSE}), id \in getClientId(c.session) :
         /\ GfRespond(c, <<id>>, <<ok>>)
         /\ engineFences' =
               IF ~ok \/ c.type = "PAUSE" THEN engineFences
               ELSE IF c.type = "REMOVE"
               THEN Restrict(engineFences, DOMAIN engineFences \ {c.session})
               ELSE [engineFences EXCEPT ![c.session].opt = c.opt]
         /\ troubles' = IF there /\ ~ok THEN troubles \cup {"failure"} ELSE troubles
  BY DEF onChangedGeofence
<1>2. gfCalls # <<>> /\ c.type # "ADD"
  BY DEF onChangedGeofence
<1>3. UNCHANGED <<mGeofenceMap, mLastAddedClientIds, made, refused>>
  BY <1>1 DEF GfRespond, gfClient
<1>4. GfNumbers'
  BY <1>3, NumbersStay DEF GInv
<1> SUFFICES ASSUME troubles' = {}
             PROVE  MessagesAreKnown' /\ Calm' /\ Matched'
  BY <1>4 DEF GInv
<1>5. troubles = {} /\ (there => ok) /\ (~there => ~ok)
  BY <1>1
<1>6. MessagesAreKnown /\ Calm /\ Live /\ Matched
  BY <1>2, <1>5 DEF GInv, Calm, Idle
<1>7. ok \in BOOLEAN /\ id \in FenceIds
  BY GfResultsAssumption, ClientIdTyped DEF Typed
<1> HIDE DEF c
<1>8. ChangesFirst(c, id)
  BY <1>1, <1>2, <1>6, FirstChanged DEF c
<1>9. /\ c \in ChangeCalls /\ c = Head(gfCalls) /\ id \in DOMAIN Map /\ Map[id] = c.session
      /\ \A kind : Of(kind, c) \subseteq Open(kind)
  BY <1>8 DEF ChangesFirst
<1>10. c.session # 0 <=> there
  <2>1. 0 \notin DOMAIN engineFences
    BY DEF Typed, DaemonTyped
  <2>2. c.session # 0 => c.session \in Open("changed")
    BY <1>9, ChangeAbout
  <2> QED BY <1>6, <2>1, <2>2 DEF Matched, Placed
<1>11. {id} \subseteq InCall
  <2>1. Map[id] # 0 => Map[id] \in Open("sessions")
    BY <1>9, ChangeAbout
  <2> QED BY <1>9, <2>1 DEF InCall
<1>12. Answered(<<id>>, 1) = {id}
  BY DEF Answered
<1>13. Lost(c.type, <<id>>, <<ok>>, 1) = IF c.type = "REMOVE" \/ ~ok THEN {id} ELSE {}
  <2>1. <<id>>[1] = id /\ (<<ok>>[1] <=> ok) /\ 1..1 = {1}
    BY <1>7
  <2> DEFINE ids == <<id>>
             oks == <<ok>>
  <2>2. ids[1] = id /\ (oks[1] <=> ok) /\ 1..1 = {1}
    BY <2>1
  <2> HIDE DEF ids, oks
  <2>3. Lost(c.type, ids, oks, 1) = IF c.type = "REMOVE" \/ ~ok THEN {id} ELSE {}
    <3>1. CASE c.type = "REMOVE" \/ ~ok
      BY <2>2, <3>1 DEF Lost
    <3>2. CASE ~(c.type = "REMOVE" \/ ~ok)
      BY <2>2, <3>2 DEF Lost
    <3> QED BY <3>1, <3>2
  <2> QED BY <2>3 DEF ids, oks
<1>14. /\ MessagesAreKnown' /\ Calm'
       /\ AnswerStep({id}, Lost(c.type, <<id>>, <<ok>>, 1))
  <2>1. <<id>> \in [1..1 -> FenceIds] /\ <<ok>> \in [1..1 -> BOOLEAN] /\ 1 \in Nat
    BY <1>7
  <2>2. GfRespond(c, <<id>>, <<ok>>) /\ Answered(<<id>>, 1) \subseteq InCall
    BY <1>1, <1>11, <1>12
  <2>3. /\ MessagesAreKnown' /\ Calm'
        /\ AnswerStep(Answered(<<id>>, 1), Lost(Head(gfCalls).type, <<id>>, <<ok>>, 1))
    BY <1>2, <1>6, <2>1, <2>2, RespondKnown
  <2> QED BY <1>9, <1>12, <2>3
<1>15. Matched'
  <2>1. CASE c.session = 0
    <3>1. ~ok /\ engineFences' = engineFences
      BY <1>1, <1>5, <1>10, <2>1
    <3>2. AnswerStep({id}, {id})
      BY <1>13, <1>14, <3>1
    <3> QED BY <1>2, <1>6, <1>8, <2>1, <3>1, <3>2, RefusedMatched
  <2>2. CASE c.session # 0
    <3>1. ok /\ there
      BY <1>5, <1>10, <2>2
    <3>2. AnswerStep({id}, IF c.type = "REMOVE" THEN {id} ELSE {})
      BY <1>13, <1>14, <3>1
    <3>3. EngineChanges(c)
      <4>1. CASE c.type = "PAUSE"
        <5>1. engineFences' = engineFences
          BY <1>1, <4>1
        <5> QED BY <4>1, <5>1 DEF EngineChanges
      <4>2. CASE c.type = "REMOVE"
        <5>1. engineFences' = Restrict(engineFences, DOMAIN engineFences \ {c.session})
          BY <1>1, <3>1, <4>2
        <5> QED BY <4>2, <5>1 DEF EngineChanges, Restrict
      <4>3. CASE c.type = "MODIFY"
        <5>1. engineFences' = [engineFences EXCEPT ![c.session].opt = c.opt]
          BY <1>1, <3>1, <4>3
        <5>2. engineFences[c.session] \in [of : Fences, opt : GfOptions]
          BY <3>1 DEF Typed, DaemonTyped
        <5> QED BY <3>1, <4>3, <5>1, <5>2 DEF EngineChanges
      <4> QED BY <1>9, <4>1, <4>2, <4>3 DEF ChangeCalls
    <3> QED BY <1>2, <1>6, <1>8, <2>2, <3>2, <3>3, ChangedMatched
  <2> QED BY <2>1, <2>2
<1> QED BY <1>14, <1>15

LEMMA AnswerKept == Typed /\ BInv /\ GInv /\ GfAnswer => GInv'
BY AddedKept, ChangedKept, CapabilitiesCbKept DEF GfAnswer

-----------------------------------------------------------------------------
(* The theorems about the maps *)

LEMMA InitKept ==
  ASSUME GfInit, Typed
  PROVE  GInv
<1>1. /\ gfRegistered = FALSE /\ gfAborted = FALSE /\ gfToDaemon = <<>>
      /\ gfHandler = NoGfHandler /\ engineFences = <<>> /\ gfCalls = <<>>
      /\ made = 0 /\ refused = {} /\ mLastAddedClientIds = <<>> /\ mGeofenceMap = <<>>
  BY DEF GfInit
<1>2. Len(gfInbox) = 1 /\ gfInbox[1] = [type |-> "REGISTER"]
  BY DEF GfInit
<1>3. \A i \in 1..Len(gfInbox) : i = 1 /\ gfInbox[i].type = "REGISTER"
  BY <1>2
<1>4. \A kind \in MsgKinds : \A i \in 1..Len(gfInbox) : Of(kind, gfInbox[i]) = {}
  BY <1>3, SilentMsgs
<1>5. \A kind \in MsgKinds : Due(kind) = {}
  <2> SUFFICES ASSUME NEW kind \in MsgKinds, NEW x \in Due(kind)
               PROVE  FALSE
    OBVIOUS
  <2> QED BY <1>4, InAll DEF Due
<1>6. GfNumbers
  BY <1>1 DEF GfNumbers, Known
<1>7. MessagesAreKnown
  <2>1. Due("told") = {}
    BY <1>5 DEF MsgKinds
  <2>2. ErasedLast(gfInbox) /\ Apart("about", gfInbox)
    BY <1>3 DEF ErasedLast, Apart
  <2> QED BY <1>1, <2>1, <2>2 DEF MessagesAreKnown
<1>8. ~Live /\ AnswersAreOld(gfInbox)
  BY <1>1, <1>3 DEF Live, AnswersAreOld
<1>9. Idle
  BY <1>1 DEF Idle, Unheard, Map, NoGfHandler
<1>10. ~Stale
  BY <1>1, <1>3 DEF Stale, HasOldCapabilities
<1>11. Calm
  BY <1>1, <1>8, <1>9, <1>10 DEF Calm, StaleIsUnheard, Down
<1> QED BY <1>6, <1>7, <1>8, <1>11 DEF GInv

LEMMA NextKept == Typed /\ BInv /\ GInv /\ [GfNext]_gfVars => GInv'
<1> SUFFICES ASSUME Typed, BInv, GInv, [GfNext]_gfVars PROVE GInv'
  OBVIOUS
<1>1. CASE GfNext /\ ~SessionMovesFlag
  BY <1>1, CallKept, TaskKept, ServiceKept, AnswerKept, BreachCbKept, CrashKept DEF GfNext
<1>2. CASE SessionMovesFlag \/ UNCHANGED gfVars
  <2>1. /\ UNCHANGED <<gfRegistered, mGeofenceMap, mLastAddedClientIds, gfAborted, gfToDaemon>>
        /\ UNCHANGED <<gfInbox, gfUp, gfHandler, engineFences, gfCalls>>
        /\ UNCHANGED <<made, refused, awaited, troubles>>
    BY <1>2 DEF SessionMovesFlag, gfVars, gfClient, gfProcess, gfDaemon, gfHistory
  <2>2. GfNumbers'
    BY <2>1, NumbersStay DEF GInv
  <2>3. MessagesAreKnown => MessagesAreKnown'
    BY <2>1 DEF MessagesAreKnown, Due, Known
  <2>4. (Live' <=> Live) /\ Map' = Map
    BY <2>1 DEF Live, Map
  <2>5. Calm => Calm'
    BY <2>1, <2>4 DEF Calm, Idle, Unheard, StaleIsUnheard, Stale, Down
  <2>6. Matched => Matched'
    <3> SUFFICES ASSUME Matched PROVE Matched'
      OBVIOUS
    <3>1. \A kind : Sent(kind)' = Sent(kind) /\ Due(kind)' = Due(kind)
      BY <2>1 DEF Sent, Due
    <3>2. Apart("about", gfToDaemon)'
      BY <2>1 DEF Matched, Separate
    <3> QED BY <2>1, <2>4, <3>1, <3>2, SameSets
  <2> QED BY <2>1, <2>2, <2>3, <2>4, <2>5, <2>6 DEF GInv
<1> QED BY <1>1, <1>2

\* With all queues empty the map holds what the client knows and the daemon has seen, and
\* leads to the sessions of the engine.
LEMMA SettledAgrees == Typed /\ GInv => GeofencesAgree
<1> SUFFICES ASSUME Typed, GInv, GfSettled, troubles = {}
             PROVE  /\ DOMAIN Map = Known \ refused
                    /\ Range(Map) = DOMAIN engineFences
                    /\ \A g \in DOMAIN Map :
                          engineFences[Map[g]] = [of |-> g, opt |-> mGeofenceMap[g]]
  BY DEF GeofencesAgree, Map
<1>1. /\ gfUp /\ gfRegistered
      /\ gfToDaemon = <<>> /\ gfInbox = <<>> /\ gfCalls = <<>>
  BY DEF GfSettled
<1>2. \A kind : Sent(kind) = {} /\ Due(kind) = {} /\ Open(kind) = {}
  BY <1>1, AllOfNone DEF Sent, Due, Open
<1>3. Live
  BY <1>1 DEF Live, Has
<1>4. Matched
  BY <1>3 DEF GInv
<1>5. Zeros = {}
  <2>1. ZeroCalls = {}
    BY <1>1 DEF ZeroCalls
  <2>2. Cardinality(Zeros) = 0
    BY <1>4, <2>1, FS_EmptySet DEF Matched, Separate
  <2>3. Zeros \subseteq Fences
    BY <1>4 DEF Matched, Placed, Zeros, Typed, ClientTyped
  <2>4. IsFiniteSet(Zeros)
    BY <2>3, FencesAreFinite
  <2> QED BY <2>2, <2>4, FS_EmptySet
<1>6. \A g \in DOMAIN Map : g \notin refused /\ Map[g] \in DOMAIN engineFences
  <2>1. \A g \in DOMAIN Map : Map[g] # 0
    BY <1>5 DEF Zeros
  <2> QED BY <1>2, <1>4, <2>1 DEF Matched, Placed
<1>7. DOMAIN Map = Known \ refused
  BY <1>2, <1>4, <1>6 DEF Matched, Placed
<1>8. Range(Map) = DOMAIN engineFences
  <2>1. \A s \in DOMAIN engineFences : \E g \in DOMAIN Map : Map[g] = s
    BY <1>4 DEF Matched, Placed
  <2> QED BY <1>6, <2>1 DEF Range
<1>9. ASSUME NEW g \in DOMAIN Map
      PROVE  engineFences[Map[g]] = [of |-> g, opt |-> mGeofenceMap[g]]
  <2>1. Map[g] \in DOMAIN engineFences
    BY <1>6
  <2>2. engineFences[Map[g]].of = g /\ engineFences[Map[g]].opt = mGeofenceMap[g]
    BY <1>2, <1>4, <2>1 DEF Matched, Current
  <2>3. engineFences[Map[g]] \in [of : Fences, opt : GfOptions]
    BY <2>1 DEF Typed, DaemonTyped
  <2> QED BY <2>2, <2>3
<1> QED BY <1>7, <1>8, <1>9

LEMMA MapsInvariant == GfSpec => [](Typed /\ GInv)
<1>1. GfInit => Typed /\ BInv /\ GInv
  BY InitTyped, InitSubscribed, InitKept
<1>2. Typed /\ BInv /\ GInv /\ [GfNext]_gfVars => (Typed /\ BInv /\ GInv)'
  BY NextTyped, NextSubscribed, NextKept
<1> QED BY <1>1, <1>2, PTL DEF GfSpec

\* Without overlapping requests, failures of the engine and restarts that send other ids or
\* overtake a registration, no look-up of the client in mGeofenceMap throws: every answer and
\* every breach on its way is about geofences the client still knows, whichever answers
\* erase some before they arrive (LocationClientApiImpl.cpp:3537-3585, 3666-3703,
\* LocHalDaemonClientHandler.cpp:552-641).
THEOREM OnlyKnownGeofencesAreTold == GfSpec => []KnownGeofencesOnly
<1>1. GInv => KnownGeofencesOnly
  BY DEF GInv, MessagesAreKnown, KnownGeofencesOnly
<1> QED BY <1>1, MapsInvariant, PTL

\* Then client, daemon and engine have the same geofences with the same options whenever all
\* queues are empty, also after a crash of the daemon and the geofences' being sent again
\* (LocationClientApiImpl.cpp:2667-2735, 2779-2832, 3354-3384,
\* LocHalDaemonClientHandler.cpp:356-399).
THEOREM GeofencesMatch == GfSpec => []GeofencesAgree
BY MapsInvariant, SettledAgrees, PTL
=============================================================================
