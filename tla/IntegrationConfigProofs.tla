------------------------ MODULE IntegrationConfigProofs ------------------------
(***************************************************************************)
(* Proofs about IntegrationConfig for any set of types, any number of      *)
(* requests and any number of crashes of the daemon.                       *)
(***************************************************************************)
EXTENDS IntegrationConfig, SequenceTheorems, FiniteSetTheorems, TLAPS

QueuedMsg == [type : Types, number : Numbers, on : BOOLEAN, again : {FALSE}]

CountsAreTyped ==
    /\ mConfigReqCntMap \in [Types -> Nat]
    /\ asked \in [Types -> Nat]
    /\ answered \in [Types -> Nat]
    /\ number \in Nat

QueueIsTyped == mQueuedMsg \in Seq(QueuedMsg)

AccountsInv == CountsAreTyped /\ QueueIsTyped /\ EveryConfigIsAccounted

-----------------------------------------------------------------------------
(* Counting the messages of a type *)

\* The places of the messages of type k in a part of a queue.
Places(q, k, first, last) == {i \in first..last : q[i].type = k}

LEMMA PlacesAreFinite ==
  ASSUME NEW q, NEW k, NEW first \in Int, NEW last \in Int
  PROVE  /\ IsFiniteSet(Places(q, k, first, last))
         /\ Cardinality(Places(q, k, first, last)) \in Nat
<1>1. IsFiniteSet(first..last)
  BY FS_Interval
<1>2. Places(q, k, first, last) \subseteq first..last
  BY DEF Places
<1> QED BY <1>1, <1>2, FS_Subset, FS_CardinalityType

LEMMA PlacesSplit ==
  ASSUME NEW q, NEW k, NEW n \in Nat, NEW mid \in 0..n
  PROVE  Cardinality(Places(q, k, 1, n))
           = Cardinality(Places(q, k, 1, mid)) + Cardinality(Places(q, k, mid + 1, n))
<1> DEFINE A == Places(q, k, 1, mid)
           B == Places(q, k, mid + 1, n)
<1>1. IsFiniteSet(A) /\ IsFiniteSet(B)
  BY PlacesAreFinite
<1>2. A \cup B = Places(q, k, 1, n) /\ A \cap B = {}
  BY DEF Places
<1>3. Cardinality(A) \in Nat /\ Cardinality(B) \in Nat
  BY PlacesAreFinite
<1> HIDE DEF A, B
<1>4. Cardinality(A \cup B) = Cardinality(A) + Cardinality(B) - Cardinality(A \cap B)
  BY <1>1, FS_Union
<1>5. Cardinality(A \cup B) = Cardinality(A) + Cardinality(B)
  <2>1. Cardinality(A \cap B) = 0
    BY <1>2, FS_EmptySet, Zenon
  <2> QED BY <1>3, <1>4, <2>1
<1> QED BY <1>2, <1>5 DEF A, B

LEMMA PlacesAppend ==
  ASSUME NEW S, NEW q \in Seq(S), NEW m \in S, NEW k
  PROVE  Cardinality(Places(Append(q, m), k, 1, Len(Append(q, m))))
           = Cardinality(Places(q, k, 1, Len(q))) + (IF m.type = k THEN 1 ELSE 0)
<1> DEFINE r == Append(q, m)
           A == Places(q, k, 1, Len(q))
<1>1. Len(q) \in Nat /\ Len(r) = Len(q) + 1 /\ r[Len(q) + 1] = m
      /\ \A i \in 1..Len(q) : r[i] = q[i]
  BY LenProperties, AppendProperties
<1>2. IsFiniteSet(A) /\ Cardinality(A) \in Nat
  BY <1>1, PlacesAreFinite
<1>3. Len(q) + 1 \notin A
  BY <1>1 DEF Places
<1> HIDE DEF r
<1>4. Places(r, k, 1, Len(r)) = IF m.type = k THEN A \cup {Len(q) + 1} ELSE A
  BY <1>1 DEF Places
<1>5. Cardinality(A \cup {Len(q) + 1}) = Cardinality(A) + 1
  BY <1>2, <1>3, FS_AddElement
<1> QED BY <1>2, <1>4, <1>5 DEF r

\* The messages of a type that wait in the queue.
Waiting(k) == Cardinality(Places(mQueuedMsg, k, 1, Len(mQueuedMsg)))

LEMMA WaitingIsCounted ==
  ASSUME QueueIsTyped, NEW k
  PROVE  /\ Waiting(k) \in Nat
         /\ OfType(k, 1, Len(mQueuedMsg)) = Waiting(k)
         /\ \A sent \in 0..Len(mQueuedMsg) :
               /\ OfType(k, 1, sent) \in Nat
               /\ OfType(k, sent + 1, Len(mQueuedMsg)) \in Nat
               /\ Waiting(k) = OfType(k, 1, sent) + OfType(k, sent + 1, Len(mQueuedMsg))
<1>1. Len(mQueuedMsg) \in Nat
  BY LenProperties DEF QueueIsTyped
<1>2. \A first, last : OfType(k, first, last) = Cardinality(Places(mQueuedMsg, k, first, last))
  BY DEF OfType, Places
<1>3. Waiting(k) \in Nat
  BY <1>1, PlacesAreFinite DEF Waiting
<1>4. ASSUME NEW sent \in 0..Len(mQueuedMsg)
      PROVE  /\ OfType(k, 1, sent) \in Nat
             /\ OfType(k, sent + 1, Len(mQueuedMsg)) \in Nat
             /\ Waiting(k) = OfType(k, 1, sent) + OfType(k, sent + 1, Len(mQueuedMsg))
  <2>1. Cardinality(Places(mQueuedMsg, k, 1, sent)) \in Nat
    BY <1>1, PlacesAreFinite
  <2>2. Cardinality(Places(mQueuedMsg, k, sent + 1, Len(mQueuedMsg))) \in Nat
    BY <1>1, PlacesAreFinite
  <2>3. Waiting(k) = Cardinality(Places(mQueuedMsg, k, 1, sent))
                     + Cardinality(Places(mQueuedMsg, k, sent + 1, Len(mQueuedMsg)))
    BY <1>1, PlacesSplit DEF Waiting
  <2> QED BY <1>2, <2>1, <2>2, <2>3
<1> QED BY <1>2, <1>3, <1>4 DEF Waiting

LEMMA WaitingPrime ==
  ASSUME QueueIsTyped'
  PROVE  \A k : OfType(k, 1, Len(mQueuedMsg))' = Waiting(k)'
  BY DEF OfType, Places, Waiting

Accounted ==
    \A k \in Types : asked[k] = answered[k] + mConfigReqCntMap[k] + Waiting(k)

LEMMA Parts == AccountsInv => Accounted
  BY WaitingIsCounted DEF AccountsInv, Accounted, EveryConfigIsAccounted

LEMMA PartsPrime ==
  ASSUME CountsAreTyped', QueueIsTyped', Accounted'
  PROVE  AccountsInv'
  BY WaitingPrime DEF AccountsInv, Accounted, EveryConfigIsAccounted

LEMMA EmptyQueue ==
  ASSUME mQueuedMsg' = <<>>
  PROVE  QueueIsTyped' /\ \A k : Waiting(k)' = 0
<1>1. \A k : Places(<<>>, k, 1, Len(<<>>)) = {}
  BY DEF Places
<1>2. \A k : Waiting(k)' = Cardinality({})
  BY <1>1 DEF Waiting
<1> QED BY <1>2, FS_EmptySet DEF QueueIsTyped

LEMMA SameIsKept ==
  ASSUME AccountsInv, UNCHANGED <<mQueuedMsg, mConfigReqCntMap, asked, answered, number>>
  PROVE  AccountsInv'
<1>1. CountsAreTyped' /\ QueueIsTyped'
  BY DEF AccountsInv, CountsAreTyped, QueueIsTyped
<1>2. \A k : Waiting(k)' = Waiting(k)
  BY DEF Waiting
<1>3. Accounted'
  BY <1>2, Parts DEF Accounted
<1> QED BY <1>1, <1>3, PartsPrime

-----------------------------------------------------------------------------
(* The steps that count *)

LEMMA RequestKeeps ==
  ASSUME AccountsInv, NEW k \in Types, NEW on \in BOOLEAN, configRequest(k, on)
  PROVE  AccountsInv'
<1> DEFINE m == Msg(k, number + 1, on, FALSE)
<1> USE DEF CountsAreTyped
<1>1. /\ CountsAreTyped /\ QueueIsTyped /\ Accounted
      /\ number < MaxConfigs /\ number' = number + 1
      /\ asked' = [asked EXCEPT ![k] = asked[k] + 1]
      /\ sendConfigMsgToHalDaemon(m)
  BY Parts DEF configRequest, AccountsInv
<1>2. m \in QueuedMsg /\ m.type = k
  BY <1>1, ConfigBounds DEF QueuedMsg, Numbers, Msg
<1>3. \A j \in Types : Waiting(j) \in Nat
  BY <1>1, WaitingIsCounted
<1> HIDE DEF m
<1>4. CASE /\ mQueuedMsg' = Append(mQueuedMsg, m)
           /\ UNCHANGED <<mConfigReqCntMap, answered>>
  <2>1. QueueIsTyped'
    BY <1>1, <1>2, <1>4, AppendProperties DEF QueueIsTyped
  <2>2. \A j \in Types : Waiting(j)' = Waiting(j) + (IF j = k THEN 1 ELSE 0)
    BY <1>1, <1>2, <1>4, PlacesAppend DEF QueueIsTyped, Waiting
  <2>3. CountsAreTyped' /\ Accounted'
    BY <1>1, <1>3, <1>4, <2>2, SMTT(20) DEF Accounted
  <2> QED BY <2>1, <2>3, PartsPrime
<1>5. CASE /\ mConfigReqCntMap' = [mConfigReqCntMap EXCEPT ![k] = mConfigReqCntMap[k] + 1]
           /\ UNCHANGED <<mQueuedMsg, answered>>
  <2>1. QueueIsTyped' /\ \A j \in Types : Waiting(j)' = Waiting(j)
    BY <1>1, <1>5 DEF QueueIsTyped, Waiting
  <2>2. CountsAreTyped' /\ Accounted'
    BY <1>1, <1>3, <1>5, <2>1 DEF Accounted
  <2> QED BY <2>1, <2>2, PartsPrime
<1>6. CASE /\ answered' = [answered EXCEPT ![k] = answered[k] + 1]
           /\ UNCHANGED <<mQueuedMsg, mConfigReqCntMap>>
  <2>1. QueueIsTyped' /\ \A j \in Types : Waiting(j)' = Waiting(j)
    BY <1>1, <1>6 DEF QueueIsTyped, Waiting
  <2>2. CountsAreTyped' /\ Accounted'
    BY <1>1, <1>3, <1>6, <2>1 DEF Accounted
  <2> QED BY <2>1, <2>2, PartsPrime
<1> QED BY <1>1, <1>2, <1>4, <1>5, <1>6 DEF sendConfigMsgToHalDaemon

LEMMA QueuedReqsKeep ==
  ASSUME AccountsInv, NEW sent \in 0..Len(mQueuedMsg), processQueuedReqs(sent)
  PROVE  AccountsInv'
<1> USE DEF CountsAreTyped
<1>1. /\ CountsAreTyped /\ QueueIsTyped /\ Accounted
      /\ mQueuedMsg' = <<>>
      /\ mConfigReqCntMap' = [k \in Types |-> mConfigReqCntMap[k] + OfType(k, 1, sent)]
      /\ answered' = [k \in Types |-> answered[k] + OfType(k, sent + 1, Len(mQueuedMsg))]
      /\ UNCHANGED <<number, asked>>
  BY Parts DEF processQueuedReqs, AccountsInv
<1>2. \A k \in Types :
         /\ OfType(k, 1, sent) \in Nat
         /\ OfType(k, sent + 1, Len(mQueuedMsg)) \in Nat
         /\ Waiting(k) = OfType(k, 1, sent) + OfType(k, sent + 1, Len(mQueuedMsg))
  <2> TAKE k \in Types
  <2>1. QueueIsTyped
    BY <1>1
  <2> QED BY <2>1, WaitingIsCounted
<1>3. QueueIsTyped' /\ \A k : Waiting(k)' = 0
  BY <1>1, EmptyQueue
<1>4. CountsAreTyped'
  BY <1>1, <1>2
<1>5. Accounted'
  BY <1>1, <1>2, <1>3 DEF Accounted
<1> QED BY <1>3, <1>4, <1>5, PartsPrime

LEMMA FlushKeeps ==
  ASSUME AccountsInv, flushConfigReqs, UNCHANGED <<mQueuedMsg, asked, number>>
  PROVE  AccountsInv'
<1> USE DEF CountsAreTyped
<1>1. CountsAreTyped /\ QueueIsTyped /\ Accounted
  BY Parts DEF AccountsInv
<1>2. QueueIsTyped' /\ \A k \in Types : Waiting(k)' = Waiting(k) /\ Waiting(k) \in Nat
  BY <1>1, WaitingIsCounted DEF QueueIsTyped, Waiting
<1>3. CountsAreTyped'
  BY <1>1 DEF flushConfigReqs, Zero
<1>4. Accounted'
  BY <1>1, <1>2 DEF flushConfigReqs, Zero, Accounted
<1> QED BY <1>2, <1>3, <1>4, PartsPrime

LEMMA AnswerKeeps ==
  ASSUME AccountsInv, NEW k \in Types, processConfigRespCb(k)
  PROVE  AccountsInv'
<1> USE DEF CountsAreTyped
<1>1. /\ CountsAreTyped /\ QueueIsTyped /\ Accounted
      /\ UNCHANGED <<mQueuedMsg, asked, number>>
  BY Parts DEF AccountsInv, processConfigRespCb
<1>2. QueueIsTyped' /\ \A j \in Types : Waiting(j)' = Waiting(j) /\ Waiting(j) \in Nat
  BY <1>1, WaitingIsCounted DEF QueueIsTyped, Waiting
<1>3. CASE UNCHANGED <<answered, mConfigReqCntMap>>
  BY <1>1, <1>3, SameIsKept
<1>4. ASSUME NEW c \in Types, mConfigReqCntMap[c] > 0,
             answered' = [answered EXCEPT ![c] = answered[c] + 1],
             mConfigReqCntMap' = [mConfigReqCntMap EXCEPT ![c] = mConfigReqCntMap[c] - 1]
      PROVE  AccountsInv'
  <2>1. CountsAreTyped' /\ Accounted'
    BY <1>1, <1>2, <1>4 DEF Accounted
  <2> QED BY <1>2, <2>1, PartsPrime
<1> QED BY <1>3, <1>4 DEF processConfigRespCb

-----------------------------------------------------------------------------
LEMMA InitAccounts == ConfigInit => AccountsInv
<1> SUFFICES ASSUME ConfigInit PROVE AccountsInv
  OBVIOUS
<1>1. CountsAreTyped /\ QueueIsTyped
  BY DEF ConfigInit, CountsAreTyped, QueueIsTyped, Zero
<1>2. \A k : {i \in 1..Len(mQueuedMsg) : mQueuedMsg[i].type = k} = {}
  BY DEF ConfigInit
<1>3. \A k : OfType(k, 1, Len(mQueuedMsg)) = 0
  BY <1>2, FS_EmptySet DEF OfType
<1>4. EveryConfigIsAccounted
  BY <1>3 DEF EveryConfigIsAccounted, ConfigInit, Zero
<1> QED BY <1>1, <1>4 DEF AccountsInv

LEMMA NextIInv == AccountsInv /\ [ConfigNext]_configVars => AccountsInv'
<1> SUFFICES ASSUME AccountsInv, [ConfigNext]_configVars PROVE AccountsInv'
  OBVIOUS
<1> USE DEF configClient, configHistory
<1>1. ASSUME NEW k \in Types, NEW on \in BOOLEAN, configRequest(k, on) PROVE AccountsInv'
  BY <1>1, RequestKeeps
<1>2. ASSUME ConfigRegisterReq PROVE AccountsInv'
  BY <1>2, QueuedReqsKeep, SameIsKept DEF ConfigRegisterReq
<1>3. ASSUME processHalReadyMsg PROVE AccountsInv'
  BY <1>3, QueuedReqsKeep, FlushKeeps, SameIsKept DEF processHalReadyMsg
<1>4. ASSUME NEW k \in Types, processConfigRespCb(k) PROVE AccountsInv'
  BY <1>4, AnswerKeeps
<1>5. ASSUME destroy \/ processGetXtraStatusRespCb \/ UNCHANGED configVars PROVE AccountsInv'
  BY <1>5, SameIsKept DEF destroy, processGetXtraStatusRespCb, configVars
<1>6. ASSUME ServiceTask \/ ServiceCrash \/ \E m \in mConfigReqs : EndConfigReq(m) PROVE AccountsInv'
  BY <1>6, SameIsKept
  DEF ServiceTask, processClientMsg, ServiceBinds, ServiceReady, ServiceCrash, EndConfigReq
<1> QED BY <1>1, <1>2, <1>3, <1>4, <1>5, <1>6 DEF ConfigNext, ApiTask

\* Every request is queued, counted as waiting, or reported once, whatever the daemon does
\* and however often it dies (LocationIntegrationApiImpl.cpp:1442-1475, 1648-1715).
THEOREM ConfigsAreAccounted == ConfigSpec => []EveryConfigIsAccounted
<1>1. AccountsInv => EveryConfigIsAccounted
  BY DEF AccountsInv
<1> QED BY <1>1, InitAccounts, NextIInv, PTL DEF ConfigSpec

-----------------------------------------------------------------------------
(* The report upon registration *)

XInv ==
    /\ xtraTold \in Nat /\ registrations \in Nat
    /\ mXtraUpdateUponRegisterPending \in BOOLEAN
    /\ XtraToldOncePerRegistration

LEMMA NothingPending ==
  ASSUME NEW told \in Nat, NEW asks \in Nat, told =< asks, NEW pending, pending = FALSE
  PROVE  told + (IF pending THEN 1 ELSE 0) =< asks
  OBVIOUS

LEMMA XtraIsKept ==
  ASSUME XInv, UNCHANGED <<mXtraUpdateUponRegisterPending, registrations, xtraTold>>
  PROVE  XInv'
  BY DEF XInv, XtraToldOncePerRegistration

LEMMA NextXInv == XInv /\ [ConfigNext]_configVars => XInv'
<1> SUFFICES ASSUME XInv, [ConfigNext]_configVars PROVE XInv'
  OBVIOUS
<1> USE DEF configClient, configHistory
<1>1. ASSUME NEW k \in Types, NEW on \in BOOLEAN, configRequest(k, on) PROVE XInv'
  <2>1. /\ xtraTold' = xtraTold
        /\ registrations' = IF k = XtraUpdate /\ on THEN registrations + 1 ELSE registrations
        /\ sendConfigMsgToHalDaemon(Msg(k, number + 1, on, FALSE))
    BY <1>1 DEF configRequest
  <2>2. \/ UNCHANGED mXtraUpdateUponRegisterPending
        \/ mXtraUpdateUponRegisterPending' =
              IF k = XtraUpdate THEN on ELSE mXtraUpdateUponRegisterPending
    BY <2>1 DEF sendConfigMsgToHalDaemon, Accept, Msg
  <2> QED BY <2>1, <2>2 DEF XInv, XtraToldOncePerRegistration
<1>2. ASSUME processGetXtraStatusRespCb PROVE XInv'
  <2>1. CASE UNCHANGED <<xtraTold, mXtraUpdateUponRegisterPending>>
    BY <1>2, <2>1, XtraIsKept DEF processGetXtraStatusRespCb
  <2>2. CASE /\ mXtraUpdateUponRegisterPending
             /\ xtraTold' = xtraTold + 1 /\ mXtraUpdateUponRegisterPending' = FALSE
    <3>1. registrations' = registrations /\ xtraTold + 1 =< registrations
      BY <1>2, <2>2 DEF processGetXtraStatusRespCb, XInv, XtraToldOncePerRegistration
    <3>2. xtraTold' =< registrations'
      BY <2>2, <3>1
    <3>3. xtraTold' \in Nat /\ registrations' \in Nat
      BY <2>2, <3>1 DEF XInv
    <3>4. mXtraUpdateUponRegisterPending' = FALSE
      BY <2>2
    <3>5. XtraToldOncePerRegistration'
      BY <3>2, <3>3, <3>4, NothingPending DEF XtraToldOncePerRegistration
    <3> QED BY <3>3, <3>4, <3>5 DEF XInv
  <2> QED BY <1>2, <2>1, <2>2 DEF processGetXtraStatusRespCb
<1>3. ASSUME \/ ConfigRegisterReq \/ processHalReadyMsg \/ destroy
             \/ \E k \in Types : processConfigRespCb(k)
             \/ UNCHANGED configVars
      PROVE  XInv'
  BY <1>3, XtraIsKept
  DEF ConfigRegisterReq, processHalReadyMsg, processQueuedReqs, destroy, processConfigRespCb,
      configVars
<1>4. ASSUME ServiceTask \/ ServiceCrash \/ \E m \in mConfigReqs : EndConfigReq(m) PROVE XInv'
  BY <1>4, XtraIsKept
  DEF ServiceTask, processClientMsg, ServiceBinds, ServiceReady, ServiceCrash, EndConfigReq
<1> QED BY <1>1, <1>2, <1>3, <1>4 DEF ConfigNext, ApiTask

\* The application is given one report upon registration for each registration at most,
\* though a daemon that restarts is registered with again
\* (LocationIntegrationApiImpl.cpp:1829-1836).
THEOREM XtraIsToldOnce == ConfigSpec => []XtraToldOncePerRegistration
<1>1. ConfigInit => XInv
  <2> SUFFICES ASSUME ConfigInit PROVE XInv
    OBVIOUS
  <2>1. ~mXtraUpdateUponRegisterPending /\ mXtraUpdateUponRegisterPending \in BOOLEAN
    BY DEF ConfigInit
  <2>2. xtraTold = 0 /\ registrations = 0
    BY DEF ConfigInit
  <2> QED BY <2>1, <2>2 DEF XInv, XtraToldOncePerRegistration
<1>2. XInv => XtraToldOncePerRegistration
  BY DEF XInv
<1> QED BY <1>1, <1>2, NextXInv, PTL DEF ConfigSpec

-----------------------------------------------------------------------------
(* Sequences of messages: the last one of a type *)

LEMMA SeqOfFunction ==
  ASSUME NEW S, NEW n \in Nat, NEW f \in [1..n -> S]
  PROVE  f \in Seq(S) /\ Len(f) = n
  OBVIOUS

\* SetToSeq has every element of the set once.
LEMMA SetToSeqLists ==
  ASSUME NEW S, IsFiniteSet(S)
  PROVE  /\ SetToSeq(S) \in Seq(S)
         /\ \A x \in S : \E i \in 1..Len(SetToSeq(S)) : SetToSeq(S)[i] = x
         /\ \A i, j \in 1..Len(SetToSeq(S)) : SetToSeq(S)[i] = SetToSeq(S)[j] => i = j
<1> DEFINE n == Cardinality(S)
           f == SetToSeq(S)
<1>1. n \in Nat /\ ExistsBijection(1..n, S)
  BY FS_CardinalityType
<1>2. \E g \in [1..n -> S] : IsInjective(g)
  BY <1>1 DEF ExistsBijection, Bijection, Injection
<1>3. f \in [1..n -> S] /\ IsInjective(f)
  BY <1>2 DEF SetToSeq
<1> HIDE DEF f
<1>4. f \in Seq(S) /\ Len(f) = n
  BY <1>1, <1>3, SeqOfFunction
<1>5. f \in Surjection(1..n, S)
  <2>1. f \in Injection(1..n, S)
    BY <1>3 DEF Injection
  <2>2. Cardinality(1..n) = n
    BY <1>1, FS_Interval
  <2> QED BY <2>1, <2>2, FS_Injection
<1>6. \A x \in S : \E i \in 1..n : f[i] = x
  BY <1>5 DEF Surjection
<1> HIDE DEF n
<1> QED BY <1>3, <1>4, <1>6 DEF IsInjective, f

Lacks(q, k) == \A i \in 1..Len(q) : q[i].type # k

\* The last message of type k in q is in S.
LastIn(q, k, S) ==
    \E i \in 1..Len(q) :
        /\ q[i].type = k /\ q[i] \in S
        /\ \A j \in (i + 1)..Len(q) : q[j].type # k

LEMMA LastAppend ==
  ASSUME NEW T, NEW q \in Seq(T), NEW m \in T, NEW k, NEW S
  PROVE  /\ m.type = k /\ m \in S => LastIn(Append(q, m), k, S)
         /\ m.type # k /\ LastIn(q, k, S) => LastIn(Append(q, m), k, S)
         /\ m.type # k /\ Lacks(q, k) => Lacks(Append(q, m), k)
<1> DEFINE n == Len(q)
           p == Append(q, m)
<1>1. /\ n \in Nat /\ Len(p) = n + 1 /\ p[n + 1] = m
      /\ \A i \in 1..n : p[i] = q[i]
  BY AppendProperties, LenProperties
<1> HIDE DEF n, p
<1>2. CASE m.type = k /\ m \in S
  <2>1. n + 1 \in 1..Len(p) /\ \A j \in ((n + 1) + 1)..Len(p) : FALSE
    BY <1>1
  <2> QED BY <1>1, <1>2, <2>1 DEF LastIn, p
<1>3. ASSUME m.type # k, LastIn(q, k, S)
      PROVE  LastIn(p, k, S)
  <2>1. PICK i \in 1..n : /\ q[i].type = k /\ q[i] \in S
                          /\ \A j \in (i + 1)..n : q[j].type # k
    BY <1>3 DEF LastIn, n
  <2>2. \A j \in (i + 1)..Len(p) : j \in (i + 1)..n \/ j = n + 1
    BY <1>1
  <2>3. \A j \in (i + 1)..Len(p) : p[j].type # k
    BY <1>1, <1>3, <2>1, <2>2
  <2> QED BY <1>1, <2>1, <2>3 DEF LastIn
<1>4. ASSUME m.type # k, Lacks(q, k)
      PROVE  Lacks(p, k)
  <2>1. \A j \in 1..Len(p) : j \in 1..n \/ j = n + 1
    BY <1>1
  <2> QED BY <1>1, <1>4, <2>1 DEF Lacks, n
<1> QED BY <1>2, <1>3, <1>4 DEF p

LEMMA LastConcat ==
  ASSUME NEW T, NEW q \in Seq(T), NEW r \in Seq(T), NEW k, NEW S
  PROVE  /\ LastIn(r, k, S) => LastIn(q \o r, k, S)
         /\ Lacks(r, k) /\ LastIn(q, k, S) => LastIn(q \o r, k, S)
         /\ Lacks(r, k) /\ Lacks(q, k) => Lacks(q \o r, k)
<1> DEFINE n == Len(q)
           l == Len(r)
           p == q \o r
<1>1. /\ n \in Nat /\ l \in Nat /\ Len(p) = n + l
      /\ \A i \in 1..(n + l) : p[i] = IF i <= n THEN q[i] ELSE r[i - n]
  BY ConcatProperties, LenProperties
<1> HIDE DEF n, l, p
<1>2. ASSUME Lacks(r, k)
      PROVE  \A j \in (n + 1)..(n + l) : p[j].type # k
  <2> TAKE j \in (n + 1)..(n + l)
  <2>1. j - n \in 1..l /\ ~(j <= n) /\ j \in 1..(n + l)
    BY <1>1
  <2> QED BY <1>1, <1>2, <2>1 DEF Lacks, l
<1>3. ASSUME LastIn(r, k, S)
      PROVE  LastIn(p, k, S)
  <2>1. PICK i \in 1..l : /\ r[i].type = k /\ r[i] \in S
                          /\ \A j \in (i + 1)..l : r[j].type # k
    BY <1>3 DEF LastIn, l
  <2>2. n + i \in 1..(n + l) /\ p[n + i] = r[i]
    <3>1. n + i \in 1..(n + l) /\ ~(n + i <= n) /\ (n + i) - n = i
      BY <1>1
    <3> QED BY <1>1, <3>1
  <2>3. ASSUME NEW j \in ((n + i) + 1)..(n + l)
        PROVE  p[j].type # k
    <3>1. j - n \in (i + 1)..l /\ ~(j <= n) /\ j \in 1..(n + l)
      BY <1>1
    <3> QED BY <1>1, <2>1, <3>1
  <2> QED BY <1>1, <2>1, <2>2, <2>3 DEF LastIn
<1>4. ASSUME Lacks(r, k), LastIn(q, k, S)
      PROVE  LastIn(p, k, S)
  <2>1. PICK i \in 1..n : /\ q[i].type = k /\ q[i] \in S
                          /\ \A j \in (i + 1)..n : q[j].type # k
    BY <1>4 DEF LastIn, n
  <2>2. i \in 1..(n + l) /\ p[i] = q[i]
    BY <1>1
  <2>3. ASSUME NEW j \in (i + 1)..(n + l)
        PROVE  p[j].type # k
    <3>1. CASE j <= n
      <4>1. j \in 1..(n + l) /\ j \in (i + 1)..n
        BY <1>1, <3>1
      <4> QED BY <1>1, <2>1, <3>1, <4>1
    <3>2. CASE ~(j <= n)
      BY <1>1, <1>2, <1>4, <3>2
    <3> QED BY <3>1, <3>2
  <2> QED BY <1>1, <2>1, <2>2, <2>3 DEF LastIn
<1>5. ASSUME Lacks(r, k), Lacks(q, k)
      PROVE  Lacks(p, k)
  <2> SUFFICES ASSUME NEW j \in 1..(n + l)
               PROVE  p[j].type # k
    BY <1>1 DEF Lacks
  <2>1. CASE j <= n
    <3>1. j \in 1..n
      BY <1>1, <2>1
    <3> QED BY <1>1, <1>5, <2>1, <3>1 DEF Lacks, n
  <2>2. CASE ~(j <= n)
    BY <1>1, <1>2, <1>5, <2>2
  <2> QED BY <2>1, <2>2
<1> QED BY <1>3, <1>4, <1>5 DEF p

LEMMA LastTail ==
  ASSUME NEW T, NEW q \in Seq(T), q # <<>>, NEW k, NEW S
  PROVE  /\ LastIn(q, k, S) =>
               \/ LastIn(Tail(q), k, S)
               \/ Head(q).type = k /\ Head(q) \in S /\ Lacks(Tail(q), k)
         /\ Lacks(q, k) => Lacks(Tail(q), k) /\ Head(q).type # k
<1> DEFINE n == Len(q)
           p == Tail(q)
<1>1. /\ n \in Nat /\ n >= 1 /\ Len(p) = n - 1 /\ Head(q) = q[1]
      /\ \A i \in 1..Len(p) : p[i] = q[i + 1]
  BY HeadTailProperties, LenProperties, EmptySeq
<1> HIDE DEF n, p
<1>2. \A i \in 1..Len(p) : i + 1 \in 1..n
  BY <1>1
<1>3. ASSUME LastIn(q, k, S)
      PROVE  LastIn(p, k, S) \/ (Head(q).type = k /\ Head(q) \in S /\ Lacks(p, k))
  <2>1. PICK i \in 1..n : /\ q[i].type = k /\ q[i] \in S
                          /\ \A j \in (i + 1)..n : q[j].type # k
    BY <1>3 DEF LastIn, n
  <2>2. CASE i = 1
    <3>1. \A j \in 1..Len(p) : j + 1 \in (i + 1)..n
      BY <1>1, <2>2
    <3> QED BY <1>1, <2>1, <2>2, <3>1 DEF Lacks
  <2>3. CASE i # 1
    <3> DEFINE h == i - 1
    <3>1. h \in 1..Len(p) /\ h + 1 = i
      BY <1>1, <2>3
    <3>2. \A j \in (h + 1)..Len(p) : j + 1 \in (i + 1)..n /\ j \in 1..Len(p)
      BY <1>1, <3>1
    <3> HIDE DEF h
    <3>3. p[h] = q[i] /\ \A j \in (h + 1)..Len(p) : p[j].type # k
      BY <1>1, <2>1, <3>1, <3>2
    <3> QED BY <2>1, <3>1, <3>3 DEF LastIn
  <2> QED BY <2>2, <2>3
<1>4. ASSUME Lacks(q, k)
      PROVE  Lacks(p, k) /\ Head(q).type # k
  BY <1>1, <1>2, <1>4 DEF Lacks, n
<1> QED BY <1>3, <1>4 DEF p

-----------------------------------------------------------------------------
(* Types *)

LEMMA TypesAreFinite == IsFiniteSet(Types)
<1> DEFINE A1 == {"CONSTELLATIONS", "CONSTELLATION_SECONDARY_BAND",
                  "CONSTRAINED_TIME_UNCERTAINTY", "POSITION_ASSISTED_CLOCK_ESTIMATOR"}
           A2 == {"LEVER_ARM", "ROBUST_LOCATION", "DEAD_RECKONING_ENGINE", "ENGINE_RUN_STATE"}
           A3 == {"OUTPUT_NMEA_TYPES", "USER_CONSENT_TERRESTRIAL_POSITIONING",
                  "ENGINE_INTEGRITY_RISK"}
           B1 == {"AIDING_DATA_DELETION", "MIN_GPS_WEEK", "MIN_SV_ELEVATION", "XTRA_PARAMS"}
           B2 == {"MERKLE_TREE", "OSNMA_ENABLEMENT", "MAP_MATCHED_FEEDBACK", "odcpi"}
           C1 == {"GET_ROBUST_LOCATION_CONFIG", "GET_MIN_GPS_WEEK", "GET_MIN_SV_ELEVATION",
                  "GET_CONSTELLATION_SECONDARY_BAND_CONFIG"}
           C2 == {"GET_XTRA_STATUS", "REGISTER_SIGNAL_TYPES_UPDATE", "XTRA_USER_CONSENT",
                  XtraUpdate}
<1>1. \A a, b, c, d : IsFiniteSet({a, b, c, d})
  <2> TAKE a, b, c, d
  <2>1. IsFiniteSet((({a} \cup {b}) \cup {c}) \cup {d})
    <3>1. IsFiniteSet({a})
      BY FS_Singleton
    <3>2. IsFiniteSet({a} \cup {b})
      BY <3>1, FS_AddElement
    <3>3. IsFiniteSet(({a} \cup {b}) \cup {c})
      BY <3>2, FS_AddElement
    <3> QED BY <3>3, FS_AddElement
  <2>2. (({a} \cup {b}) \cup {c}) \cup {d} = {a, b, c, d}
    OBVIOUS
  <2> QED BY <2>1, <2>2
<1>2. IsFiniteSet(A1) /\ IsFiniteSet(A2) /\ IsFiniteSet(B1) /\ IsFiniteSet(B2)
      /\ IsFiniteSet(C1) /\ IsFiniteSet(C2)
  BY <1>1
<1>3. IsFiniteSet(A3)
  <2>1. IsFiniteSet(A3 \cup {"ENGINE_INTEGRITY_RISK"})
    <3>1. A3 = {"OUTPUT_NMEA_TYPES", "USER_CONSENT_TERRESTRIAL_POSITIONING",
                "ENGINE_INTEGRITY_RISK", "ENGINE_INTEGRITY_RISK"}
      OBVIOUS
    <3> QED BY <1>1, <3>1, FS_AddElement
  <2>2. A3 \cup {"ENGINE_INTEGRITY_RISK"} = A3
    OBVIOUS
  <2> QED BY <2>1, <2>2
<1> DEFINE All == (((A1 \cup A2) \cup A3) \cup (B1 \cup B2)) \cup (C1 \cup C2)
<1>4. Types \subseteq All
  BY ConfigTypes DEF CachedTypes, UncachedConfigs, AboveMax
<1> HIDE DEF A1, A2, A3, B1, B2, C1, C2
<1>5. IsFiniteSet(All)
  BY <1>2, <1>3, FS_Union
<1> QED BY <1>4, <1>5, FS_Subset

LEMMA KindsOfMessages ==
  ASSUME NEW k \in Types
  PROVE  /\ k \notin {"REGISTER", "DEREGISTER_CLIENT", "HAL_READY", "UPON_REGISTRATION"}
         /\ k \in CachedTypes => k # XtraUpdate /\ k \notin AboveMax \cup {"odcpi"}
  BY ConfigTypes DEF CachedTypes, UncachedConfigs, AboveMax, XtraUpdate

LEMMA MsgTyped ==
  ASSUME NEW k \in Types, NEW n \in Numbers, NEW on \in BOOLEAN, NEW again \in BOOLEAN
  PROVE  /\ Msg(k, n, on, again) \in ServiceMsgs
         /\ Msg(k, n, on, again).type = k
         /\ Msg(k, n, on, again).number = n
         /\ Msg(k, n, on, again).on = on
<1>1. k \in Types \cup {"REGISTER", "DEREGISTER_CLIENT"}
  OBVIOUS
<1>2. Msg(k, n, on, again) \in ServiceMsgs
  BY <1>1 DEF Msg, ServiceMsgs
<1> QED BY <1>2 DEF Msg

LEMMA RegistrationTyped ==
  /\ Registration \in ServiceMsgs /\ Registration.type = "REGISTER"
  /\ Deregistration \in ServiceMsgs /\ Deregistration.type = "DEREGISTER_CLIENT"
<1>1. 0 \in Numbers /\ FALSE \in BOOLEAN
  BY ConfigBounds DEF Numbers
<1> QED BY <1>1 DEF Registration, Deregistration, Msg, ServiceMsgs

LEMMA QueuedMsgTyped == QueuedMsg \subseteq ServiceMsgs
  BY DEF QueuedMsg, ServiceMsgs

\* The messages of the cache: one of each type.
LEMMA CachedMsgsTyped ==
  ASSUME ConfigTypeOK
  PROVE  /\ CachedMsgs \subseteq ServiceMsgs
         /\ \A m \in CachedMsgs : m.type \in Types
         /\ \A m \in CachedMsgs : m.type \in CachedTypes => m.number = cached[m.type]
         /\ \A m \in CachedMsgs : m.type = XtraUpdate => mRegisterXtraUpdate /\ m.on = TRUE
         /\ \A m, o \in CachedMsgs : m.type = o.type => m = o
         /\ \A k \in Types \cap CachedTypes :
               cached[k] # 0 => \E m \in CachedMsgs : m.type = k
         /\ XtraUpdate \in Types /\ mRegisterXtraUpdate =>
               \E m \in CachedMsgs : m.type = XtraUpdate
<1> DEFINE D == {t \in Types \cap CachedTypes :
                    cached[t] # 0 \/ (t = "CONSTELLATIONS" /\ svConfigValid)}
           E == {t \in Types \cap {XtraUpdate} : mRegisterXtraUpdate}
<1>1. CachedMsgs = {Msg(k, cached[k], TRUE, TRUE) : k \in D}
                   \cup {Msg(k, 0, TRUE, TRUE) : k \in E}
  BY DEF CachedMsgs
<1>2. /\ \A k \in D : k \in Types /\ k \in CachedTypes /\ k # XtraUpdate /\ cached[k] \in Numbers
      /\ \A k \in E : k \in Types /\ k = XtraUpdate /\ k \notin CachedTypes /\ mRegisterXtraUpdate
      /\ 0 \in Numbers
  BY KindsOfMessages, ConfigBounds DEF ConfigTypeOK, Numbers
<1>3. /\ \A k \in Types \cap CachedTypes : cached[k] # 0 => k \in D
      /\ XtraUpdate \in Types /\ mRegisterXtraUpdate => XtraUpdate \in E
  OBVIOUS
<1> HIDE DEF D, E
<1>4. ASSUME NEW k \in D
      PROVE  LET m == Msg(k, cached[k], TRUE, TRUE)
             IN  m \in CachedMsgs /\ m \in ServiceMsgs /\ m.type = k /\ m.number = cached[k]
  <2>1. k \in Types /\ cached[k] \in Numbers
    BY <1>2
  <2>2. Msg(k, cached[k], TRUE, TRUE) \in CachedMsgs
    BY <1>1
  <2> QED BY <2>1, <2>2, MsgTyped
<1>5. ASSUME NEW k \in E
      PROVE  LET m == Msg(k, 0, TRUE, TRUE)
             IN  m \in CachedMsgs /\ m \in ServiceMsgs /\ m.type = k /\ m.on = TRUE
  <2>1. k \in Types /\ 0 \in Numbers
    BY <1>2
  <2>2. Msg(k, 0, TRUE, TRUE) \in CachedMsgs
    BY <1>1
  <2> QED BY <2>1, <2>2, MsgTyped
<1>6. ASSUME NEW m \in CachedMsgs
      PROVE  \/ \E k \in D : m = Msg(k, cached[k], TRUE, TRUE)
             \/ \E k \in E : m = Msg(k, 0, TRUE, TRUE)
  BY <1>1
<1>7. ASSUME NEW m \in CachedMsgs
      PROVE  /\ m \in ServiceMsgs /\ m.type \in Types
             /\ m.type \in CachedTypes => m.number = cached[m.type]
             /\ m.type = XtraUpdate => mRegisterXtraUpdate /\ m.on = TRUE
             /\ m.type \in D => m = Msg(m.type, cached[m.type], TRUE, TRUE)
             /\ m.type \in E => m = Msg(m.type, 0, TRUE, TRUE)
             /\ m.type \in D \cup E
  <2>1. CASE \E k \in D : m = Msg(k, cached[k], TRUE, TRUE)
    <3>1. PICK k \in D : m = Msg(k, cached[k], TRUE, TRUE)
      BY <2>1
    <3>2. m \in ServiceMsgs /\ m.type = k /\ m.number = cached[k]
      BY <1>4, <3>1
    <3> QED BY <1>2, <3>1, <3>2
  <2>2. CASE \E k \in E : m = Msg(k, 0, TRUE, TRUE)
    <3>1. PICK k \in E : m = Msg(k, 0, TRUE, TRUE)
      BY <2>2
    <3>2. m \in ServiceMsgs /\ m.type = k /\ m.on = TRUE
      BY <1>5, <3>1
    <3> QED BY <1>2, <3>1, <3>2
  <2> QED BY <1>6, <2>1, <2>2
<1>8. ASSUME NEW m \in CachedMsgs, NEW o \in CachedMsgs, m.type = o.type
      PROVE  m = o
  <2> DEFINE k == m.type
  <2>1. /\ k \in D \cup E
        /\ k \in D => m = Msg(k, cached[k], TRUE, TRUE)
        /\ k \in E => m = Msg(k, 0, TRUE, TRUE)
    BY <1>7
  <2>2. /\ o.type = k
        /\ o.type \in D => o = Msg(o.type, cached[o.type], TRUE, TRUE)
        /\ o.type \in E => o = Msg(o.type, 0, TRUE, TRUE)
    BY <1>7, <1>8
  <2> HIDE DEF k
  <2> QED BY <2>1, <2>2, Zenon
<1>9. /\ \A k \in D : \E m \in CachedMsgs : m.type = k
      /\ \A k \in E : \E m \in CachedMsgs : m.type = k
  BY <1>4, <1>5
<1> QED BY <1>3, <1>7, <1>8, <1>9

Numbered(n) == {m \in ServiceMsgs : m.number = n}
Switched(on) == {m \in ServiceMsgs : m.on = on}

LEMMA CachedMsgsListed ==
  ASSUME ConfigTypeOK
  PROVE  LET q == SetToSeq(CachedMsgs)
         IN  /\ q \in Seq(ServiceMsgs)
             /\ \A k \in Types \cap CachedTypes :
                   cached[k] # 0 => LastIn(q, k, Numbered(cached[k]))
             /\ XtraUpdate \in Types /\ mRegisterXtraUpdate =>
                   LastIn(q, XtraUpdate, Switched(TRUE))
             /\ ~mRegisterXtraUpdate => Lacks(q, XtraUpdate)
             /\ Lacks(q, "REGISTER") /\ Lacks(q, "DEREGISTER_CLIENT")
<1> DEFINE f == [m \in CachedMsgs |-> m.type]
           q == SetToSeq(CachedMsgs)
<1>1. f \in Injection(CachedMsgs, Types)
  BY CachedMsgsTyped DEF Injection, IsInjective
<1>2. IsFiniteSet(CachedMsgs)
  BY <1>1, TypesAreFinite, FS_Injection
<1>3. /\ q \in Seq(CachedMsgs)
      /\ \A m \in CachedMsgs : \E i \in 1..Len(q) : q[i] = m
      /\ \A i, j \in 1..Len(q) : q[i] = q[j] => i = j
  BY <1>2, SetToSeqLists
<1> HIDE DEF q
<1>4. q \in Seq(ServiceMsgs) /\ Len(q) \in Nat /\ \A i \in 1..Len(q) : q[i] \in CachedMsgs
  BY <1>3, CachedMsgsTyped, SeqMonotonic, ElementOfSeq, LenProperties
<1>5. ASSUME NEW m \in CachedMsgs, NEW S, m \in S
      PROVE  LastIn(q, m.type, S)
  <2>1. PICK i \in 1..Len(q) : q[i] = m
    BY <1>3
  <2>2. ASSUME NEW j \in (i + 1)..Len(q), q[j].type = m.type
        PROVE  FALSE
    <3>1. j \in 1..Len(q) /\ j # i
      BY <1>4
    <3>2. q[j] = m
      BY <1>4, <2>2, <3>1, CachedMsgsTyped
    <3> QED BY <1>3, <2>1, <3>1, <3>2
  <2> QED BY <1>5, <2>1, <2>2 DEF LastIn
<1>6. ASSUME NEW k \in Types \cap CachedTypes, cached[k] # 0
      PROVE  LastIn(q, k, Numbered(cached[k]))
  <2>1. PICK m \in CachedMsgs : m.type = k
    BY <1>6, CachedMsgsTyped
  <2>2. m \in Numbered(cached[k])
    BY <2>1, CachedMsgsTyped DEF Numbered
  <2> QED BY <1>5, <2>1, <2>2
<1>7. ASSUME XtraUpdate \in Types, mRegisterXtraUpdate
      PROVE  LastIn(q, XtraUpdate, Switched(TRUE))
  <2>1. PICK m \in CachedMsgs : m.type = XtraUpdate
    BY <1>7, CachedMsgsTyped
  <2>2. m \in Switched(TRUE)
    BY <2>1, CachedMsgsTyped DEF Switched
  <2> QED BY <1>5, <2>1, <2>2
<1>8. ~mRegisterXtraUpdate => Lacks(q, XtraUpdate)
  BY <1>4, CachedMsgsTyped DEF Lacks
<1>9. Lacks(q, "REGISTER") /\ Lacks(q, "DEREGISTER_CLIENT")
  BY <1>4, CachedMsgsTyped, KindsOfMessages DEF Lacks
<1> QED BY <1>4, <1>6, <1>7, <1>8, <1>9 DEF q

\* The types that do not follow from AccountsInv and XInv.
RestIsTyped ==
    /\ listener \in {"starting", "ready", "destroyed"}
    /\ configRegistered \in BOOLEAN
    /\ cached \in [Types -> Numbers]
    /\ svConfigValid \in BOOLEAN
    /\ mRegisterXtraUpdate \in BOOLEAN
    /\ toService \in Seq(ServiceMsgs)
    /\ toApi \in Seq(ApiMsgs)
    /\ service \in {"down", "bound", "ready"}
    /\ restarts \in 0..MaxRestarts
    /\ apiRegistered \in BOOLEAN
    /\ xtraRegistered \in BOOLEAN
    /\ engineConfig \in [Types -> Numbers]
    /\ mConfigReqs \subseteq ServiceMsgs
    /\ flushed \subseteq Types

\* Only requests are under way.
RequestsOnly == \A m \in mConfigReqs : m.type \in Types

LEMMA TypesFromParts ==
  ASSUME AccountsInv, XInv, RestIsTyped
  PROVE  ConfigTypeOK
  BY DEF AccountsInv, XInv, RestIsTyped, CountsAreTyped, QueueIsTyped, QueuedMsg, ConfigTypeOK, Counters

LEMMA RestFromTypes ==
  ASSUME ConfigTypeOK
  PROVE  RestIsTyped /\ QueueIsTyped
  BY DEF RestIsTyped, QueueIsTyped, QueuedMsg, ConfigTypeOK

LEMMA TypesFromPartsPrime ==
  ASSUME AccountsInv', XInv', RestIsTyped'
  PROVE  ConfigTypeOK'
  BY DEF AccountsInv, XInv, RestIsTyped, CountsAreTyped, QueueIsTyped, QueuedMsg, ConfigTypeOK, Counters

LEMMA DyingKeepsTypes ==
  ASSUME RestIsTyped, ServiceDies
  PROVE  /\ service' = "down" /\ restarts' \in 0..MaxRestarts
         /\ toService' = <<>> /\ toService' \in Seq(ServiceMsgs)
         /\ apiRegistered' \in BOOLEAN /\ xtraRegistered' \in BOOLEAN
         /\ engineConfig' \in [Types -> Numbers] /\ mConfigReqs' \subseteq ServiceMsgs
<1>1. restarts' \in 0..MaxRestarts
  BY ConfigBounds DEF ServiceDies, RestIsTyped
<1>2. engineConfig' \in [Types -> Numbers]
  <2>1. 0 \in Numbers
    BY ConfigBounds DEF Numbers
  <2> QED BY <2>1 DEF ServiceDies, Zero
<1> QED BY <1>1, <1>2, EmptySeq DEF ServiceDies

LEMMA QueuedReqsKeepTypes ==
  ASSUME RestIsTyped, QueueIsTyped, NEW sent \in 0..Len(mQueuedMsg), processQueuedReqs(sent),
         listener' \in {"starting", "ready", "destroyed"}, toApi' \in Seq(ApiMsgs)
  PROVE  RestIsTyped'
<1>1. /\ configRegistered' = TRUE
      /\ UNCHANGED <<cached, svConfigValid, mRegisterXtraUpdate, flushed>>
  BY DEF processQueuedReqs
<1>2. CASE /\ toService' = Append(toService, Registration) \o mQueuedMsg
           /\ UNCHANGED <<service, restarts, configDaemon>>
  <2>1. mQueuedMsg \in Seq(ServiceMsgs)
    BY QueuedMsgTyped, SeqMonotonic DEF QueueIsTyped
  <2>2. Append(toService, Registration) \in Seq(ServiceMsgs)
    BY RegistrationTyped, AppendProperties DEF RestIsTyped
  <2>3. toService' \in Seq(ServiceMsgs)
    BY <1>2, <2>1, <2>2, ConcatProperties
  <2> QED BY <1>1, <1>2, <2>3 DEF RestIsTyped, configDaemon
<1>3. CASE ServiceDies
  BY <1>1, <1>3, DyingKeepsTypes DEF RestIsTyped
<1> QED BY <1>2, <1>3 DEF processQueuedReqs

LEMMA ApiTaken ==
  ASSUME toApi \in Seq(ApiMsgs), NEW type, ConfigReceive(type)
  PROVE  toApi' \in Seq(ApiMsgs) /\ listener = "ready"
  BY HeadTailProperties DEF ConfigReceive

LEMMA AnswerTyped ==
  ASSUME toApi \in Seq(ApiMsgs), NEW k \in Types,
         Answer(<<k>>) \/ Answer(<<k, "UPON_REGISTRATION">>) \/ UNCHANGED toApi
  PROVE  /\ toApi' \in Seq(ApiMsgs)
         /\ [type |-> "HAL_READY"] \notin Range(toApi') =>
               [type |-> "HAL_READY"] \notin Range(toApi)
<1> DEFINE All == Types \cup {"HAL_READY", "UPON_REGISTRATION"}
           Answers(types) == [i \in DOMAIN types |-> [type |-> types[i]]]
<1>1. ASSUME NEW types \in Seq(All), Answer(types)
      PROVE  \E r \in Seq(ApiMsgs) : toApi' = toApi \o r
  <2>1. Len(types) \in Nat /\ DOMAIN types = 1..Len(types)
        /\ \A i \in 1..Len(types) : types[i] \in All
    BY LenProperties, ElementOfSeq
  <2>2. \A t \in All : [type |-> t] \in ApiMsgs
    BY DEF ApiMsgs
  <2>3. Answers(types) \in [1..Len(types) -> ApiMsgs]
    BY <2>1, <2>2
  <2>4. Answers(types) \in Seq(ApiMsgs)
    BY <2>1, <2>3, SeqOfFunction
  <2>5. <<>> \in Seq(ApiMsgs) /\ toApi = toApi \o <<>>
    BY ConcatEmptySeq, EmptySeq
  <2> QED BY <1>1, <2>4, <2>5 DEF Answer
<1>2. <<k>> \in Seq(All) /\ <<k, "UPON_REGISTRATION">> \in Seq(All)
  OBVIOUS
<1>3. \E r \in Seq(ApiMsgs) : toApi' = toApi \o r
  <2>1. <<>> \in Seq(ApiMsgs) /\ toApi = toApi \o <<>>
    BY ConcatEmptySeq, EmptySeq
  <2> HIDE DEF All
  <2> QED BY <1>1, <1>2, <2>1
<1>4. PICK r \in Seq(ApiMsgs) : toApi' = toApi \o r
  BY <1>3
<1>5. /\ toApi' \in Seq(ApiMsgs) /\ Len(toApi') = Len(toApi) + Len(r)
      /\ \A i \in 1..(Len(toApi) + Len(r)) :
            toApi'[i] = IF i <= Len(toApi) THEN toApi[i] ELSE r[i - Len(toApi)]
  BY <1>4, ConcatProperties
<1>6. /\ Len(toApi) \in Nat /\ Len(r) \in Nat
      /\ DOMAIN toApi = 1..Len(toApi) /\ DOMAIN toApi' = 1..Len(toApi')
  BY <1>5, LenProperties
<1>7. \A i \in DOMAIN toApi : i \in DOMAIN toApi' /\ toApi'[i] = toApi[i]
  BY <1>5, <1>6
<1>8. Range(toApi) \subseteq Range(toApi')
  BY <1>7 DEF Range
<1> QED BY <1>5, <1>8

LEMMA ConfigRequestKeepsTypes ==
  ASSUME RestIsTyped, number \in Nat, NEW k \in Types, NEW on \in BOOLEAN, configRequest(k, on)
  PROVE  RestIsTyped'
<1> DEFINE m == Msg(k, number + 1, on, FALSE)
<1>1. number + 1 \in Numbers
  BY ConfigBounds DEF configRequest, Numbers
<1>2. m \in ServiceMsgs /\ m.type = k /\ m.number \in Numbers /\ m.on \in BOOLEAN
  <2>1. FALSE \in BOOLEAN
    OBVIOUS
  <2>2. m.on = on /\ m.number = number + 1
    BY DEF Msg
  <2>3. m \in ServiceMsgs /\ m.type = k
    BY <1>1, <2>1, MsgTyped, ZenonT(30)
  <2> QED BY <1>1, <2>2, <2>3
<1>3. /\ sendConfigMsgToHalDaemon(m)
      /\ UNCHANGED <<listener, configRegistered, toApi, service, restarts, configDaemon, flushed>>
  BY DEF configRequest
<1> HIDE DEF m
<1>4. cached' \in [Types -> Numbers]
  BY <1>2, <1>3 DEF sendConfigMsgToHalDaemon, Accept, RestIsTyped
<1>5. svConfigValid' \in BOOLEAN /\ mRegisterXtraUpdate' \in BOOLEAN
  BY <1>2, <1>3 DEF sendConfigMsgToHalDaemon, Accept, RestIsTyped
<1>6. toService' \in Seq(ServiceMsgs)
  <2>1. toService \in Seq(ServiceMsgs)
    BY DEF RestIsTyped
  <2>2. Append(toService, m) \in Seq(ServiceMsgs)
    BY <1>2, <2>1, AppendProperties
  <2>3. toService' = toService \/ toService' = Append(toService, m)
    BY <1>3 DEF sendConfigMsgToHalDaemon
  <2> QED BY <2>1, <2>2, <2>3
<1> QED BY <1>3, <1>4, <1>5, <1>6 DEF RestIsTyped, configDaemon

LEMMA HalReadyKeepsTypes ==
  ASSUME ConfigTypeOK, processHalReadyMsg
  PROVE  RestIsTyped'
<1>1. RestIsTyped /\ QueueIsTyped
  BY RestFromTypes
<1>2. toApi' \in Seq(ApiMsgs) /\ listener' = listener
  BY <1>1, ApiTaken DEF processHalReadyMsg, RestIsTyped
<1>3. CASE UNCHANGED <<configRegistered, cached, svConfigValid, mRegisterXtraUpdate, toService,
                       service, restarts, configDaemon, flushed>>
  BY <1>1, <1>2, <1>3 DEF RestIsTyped, configDaemon
<1>4. CASE \E sent \in 0..Len(mQueuedMsg) : processQueuedReqs(sent)
  BY <1>1, <1>2, <1>4, QueuedReqsKeepTypes DEF RestIsTyped
<1>5. CASE /\ configRegistered' = TRUE
           /\ flushConfigReqs
           /\ toService' = Append(toService, Registration) \o SetToSeq(CachedMsgs)
           /\ UNCHANGED <<cached, svConfigValid, mRegisterXtraUpdate, service, restarts,
                          configDaemon>>
  <2>1. toService' \in Seq(ServiceMsgs)
    <3>1. Append(toService, Registration) \in Seq(ServiceMsgs)
      BY <1>1, RegistrationTyped, AppendProperties DEF RestIsTyped
    <3>2. SetToSeq(CachedMsgs) \in Seq(ServiceMsgs)
      BY CachedMsgsListed
    <3> QED BY <1>5, <3>1, <3>2, ConcatProperties
  <2>2. flushed' \subseteq Types
    BY <1>1, <1>5 DEF flushConfigReqs, RestIsTyped
  <2> QED BY <1>1, <1>2, <1>5, <2>1, <2>2 DEF RestIsTyped, configDaemon
<1>6. \/ UNCHANGED <<configRegistered, cached, svConfigValid, mRegisterXtraUpdate, toService,
                     service, restarts, configDaemon, flushed>>
      \/ \E sent \in 0..Len(mQueuedMsg) : processQueuedReqs(sent)
      \/ /\ configRegistered' = TRUE
         /\ flushConfigReqs
         /\ toService' = Append(toService, Registration) \o SetToSeq(CachedMsgs)
         /\ UNCHANGED <<cached, svConfigValid, mRegisterXtraUpdate, service, restarts,
                        configDaemon>>
  BY DEF processHalReadyMsg, configHistory
<1> QED BY <1>3, <1>4, <1>5, <1>6

LEMMA ClientMsgKeepsTypes ==
  ASSUME RestIsTyped, processClientMsg
  PROVE  RestIsTyped'
<1> DEFINE m == Head(toService)
<1>1. m \in ServiceMsgs /\ toService' \in Seq(ServiceMsgs)
  BY HeadTailProperties DEF RestIsTyped, processClientMsg
<1>2. UNCHANGED <<listener, configRegistered, cached, svConfigValid, mRegisterXtraUpdate,
                  service, restarts, flushed>>
  BY DEF processClientMsg, configClient, configHistory
<1>3. CASE m = Registration \/ m = Deregistration
  <2>1. m.type \notin Types
    BY <1>3, RegistrationTyped, KindsOfMessages
  <2> QED BY <1>1, <1>2, <2>1 DEF processClientMsg, RestIsTyped
<1>4. CASE m.type \in Types
  <2>1. m.number \in Numbers /\ m.on \in BOOLEAN
    BY <1>1 DEF ServiceMsgs
  <2>2. m # Registration /\ m # Deregistration
    BY <1>4, RegistrationTyped, KindsOfMessages
  <2>3. /\ engineConfig' = IF m.type \in AboveMax \cup {"odcpi"} THEN engineConfig
                           ELSE [engineConfig EXCEPT ![m.type] = m.number]
        /\ xtraRegistered' = IF m.type = XtraUpdate THEN m.on ELSE xtraRegistered
        /\ mConfigReqs' \in {mConfigReqs, mConfigReqs \cup {m}}
        /\ Answer(<<m.type>>) \/ UNCHANGED toApi
        /\ UNCHANGED apiRegistered
    BY <2>2 DEF processClientMsg
  <2>4. toApi' \in Seq(ApiMsgs)
    BY <1>4, <2>3, AnswerTyped DEF RestIsTyped
  <2>5. engineConfig' \in [Types -> Numbers] /\ mConfigReqs' \subseteq ServiceMsgs
    BY <1>1, <1>4, <2>1, <2>3 DEF RestIsTyped
  <2>6. xtraRegistered' \in BOOLEAN /\ apiRegistered' \in BOOLEAN
    BY <2>1, <2>3 DEF RestIsTyped
  <2> QED BY <1>1, <1>2, <2>4, <2>5, <2>6 DEF RestIsTyped
<1> QED BY <1>3, <1>4 DEF processClientMsg

LEMMA RequestsStay ==
  ASSUME RequestsOnly, [ConfigNext]_configVars
  PROVE  RequestsOnly'
<1>1. \/ mConfigReqs' \subseteq mConfigReqs
      \/ \E m : m.type \in Types /\ mConfigReqs' = mConfigReqs \cup {m}
  <2>1. CASE processClientMsg
    BY <2>1 DEF processClientMsg
  <2>2. CASE \E m \in mConfigReqs : EndConfigReq(m)
    BY <2>2 DEF EndConfigReq
  <2>3. CASE ConfigRegisterReq \/ processHalReadyMsg \/ ServiceCrash
    BY <2>3 DEF ConfigRegisterReq, processHalReadyMsg, processQueuedReqs, ServiceCrash,
                ServiceDies, configDaemon
  <2>4. CASE \/ \E k \in Types, on \in BOOLEAN : configRequest(k, on)
             \/ destroy \/ processGetXtraStatusRespCb \/ ServiceBinds \/ ServiceReady
             \/ \E k \in Types : processConfigRespCb(k)
             \/ UNCHANGED configVars
    BY <2>4
    DEF configRequest, destroy, processGetXtraStatusRespCb, ServiceBinds, ServiceReady,
        processConfigRespCb, configVars, configDaemon
  <2> QED BY <2>1, <2>2, <2>3, <2>4 DEF ConfigNext, ApiTask, ServiceTask
<1> QED BY <1>1 DEF RequestsOnly

LEMMA RestKeepsTypes ==
  ASSUME ConfigTypeOK, RequestsOnly, [ConfigNext]_configVars
  PROVE  RestIsTyped'
<1>1. RestIsTyped /\ QueueIsTyped /\ number \in Nat /\ toApi \in Seq(ApiMsgs)
  BY RestFromTypes DEF ConfigTypeOK
<1>2. ASSUME NEW k \in Types, NEW on \in BOOLEAN, configRequest(k, on) PROVE RestIsTyped'
  BY <1>1, <1>2, ConfigRequestKeepsTypes
<1>3. ASSUME ConfigRegisterReq PROVE RestIsTyped'
  <2>1. CASE \E sent \in 0..Len(mQueuedMsg) : processQueuedReqs(sent)
    BY <1>1, <1>3, <2>1, QueuedReqsKeepTypes DEF ConfigRegisterReq
  <2>2. CASE UNCHANGED <<configRegistered, mQueuedMsg, cached, svConfigValid,
                         mRegisterXtraUpdate, toService, service, restarts, configDaemon,
                         configHistory>>
    BY <1>1, <1>3, <2>2 DEF ConfigRegisterReq, RestIsTyped, configDaemon, configHistory
  <2> QED BY <1>3, <2>1, <2>2 DEF ConfigRegisterReq
<1>4. ASSUME processHalReadyMsg PROVE RestIsTyped'
  BY <1>4, HalReadyKeepsTypes
<1>5. ASSUME (\E k \in Types : processConfigRespCb(k)) \/ processGetXtraStatusRespCb
      PROVE  RestIsTyped'
  <2>1. toApi' \in Seq(ApiMsgs)
    BY <1>1, <1>5, ApiTaken DEF processConfigRespCb, processGetXtraStatusRespCb
  <2> QED BY <1>1, <1>5, <2>1
          DEF processConfigRespCb, processGetXtraStatusRespCb, RestIsTyped, configDaemon
<1>6. ASSUME destroy PROVE RestIsTyped'
  <2>1. toService' \in Seq(ServiceMsgs)
    BY <1>1, <1>6, RegistrationTyped, AppendProperties DEF destroy, RestIsTyped
  <2> QED BY <1>1, <1>6, <2>1 DEF destroy, RestIsTyped, configDaemon, configHistory
<1>7. ASSUME processClientMsg PROVE RestIsTyped'
  BY <1>1, <1>7, ClientMsgKeepsTypes
<1>8. ASSUME ServiceBinds \/ ServiceCrash PROVE RestIsTyped'
  BY <1>1, <1>8, DyingKeepsTypes
  DEF ServiceBinds, ServiceCrash, RestIsTyped, configClient, configDaemon, configHistory
<1>9. ASSUME ServiceReady PROVE RestIsTyped'
  <2>1. toApi' \in Seq(ApiMsgs)
    <3>1. [type |-> "HAL_READY"] \in ApiMsgs
      BY DEF ApiMsgs
    <3> QED BY <1>1, <1>9, <3>1, AppendProperties DEF ServiceReady
  <2> QED BY <1>1, <1>9, <2>1
          DEF ServiceReady, RestIsTyped, configClient, configDaemon, configHistory
<1>10. ASSUME NEW m \in mConfigReqs, EndConfigReq(m) PROVE RestIsTyped'
  <2>1. toApi' \in Seq(ApiMsgs)
    BY <1>1, <1>10, AnswerTyped DEF EndConfigReq, RequestsOnly
  <2> QED BY <1>1, <1>10, <2>1 DEF EndConfigReq, RestIsTyped, configClient, configHistory
<1>11. ASSUME UNCHANGED configVars PROVE RestIsTyped'
  BY <1>1, <1>11 DEF configVars, RestIsTyped, configClient, configDaemon, configHistory
<1> QED BY <1>2, <1>3, <1>4, <1>5, <1>6, <1>7, <1>8, <1>9, <1>10, <1>11
        DEF ConfigNext, ApiTask, ServiceTask

ConfigTyped == AccountsInv /\ XInv /\ RequestsOnly /\ ConfigTypeOK

LEMMA InitConfigTyped == ConfigInit => ConfigTyped
<1> SUFFICES ASSUME ConfigInit PROVE ConfigTyped
  OBVIOUS
<1>1. AccountsInv
  BY InitAccounts
<1>2. XInv
  <2>1. ~mXtraUpdateUponRegisterPending /\ mXtraUpdateUponRegisterPending \in BOOLEAN
    BY DEF ConfigInit
  <2>2. xtraTold = 0 /\ registrations = 0
    BY DEF ConfigInit
  <2> QED BY <2>1, <2>2 DEF XInv, XtraToldOncePerRegistration
<1>3. Zero \in [Types -> Numbers] /\ 0 \in 0..MaxRestarts
  BY ConfigBounds DEF Zero, Numbers
<1>4. RestIsTyped
  BY <1>3, EmptySeq DEF ConfigInit, RestIsTyped
<1>5. RequestsOnly
  BY DEF ConfigInit, RequestsOnly
<1> QED BY <1>1, <1>2, <1>4, <1>5, TypesFromParts DEF ConfigTyped

LEMMA NextConfigTyped == ConfigTyped /\ [ConfigNext]_configVars => ConfigTyped'
  BY NextIInv, NextXInv, RequestsStay, RestKeepsTypes, TypesFromPartsPrime DEF ConfigTyped

\* The client's and the daemon's state keeps its types, and what waits in the queue was
\* never sent before (LocationIntegrationApiImpl.cpp:1442-1475).
THEOREM ConfigsAreTyped == ConfigSpec => []ConfigTypeOK
<1>1. ConfigTyped => ConfigTypeOK
  BY DEF ConfigTyped
<1> QED BY <1>1, InitConfigTyped, NextConfigTyped, PTL DEF ConfigSpec

-----------------------------------------------------------------------------
(* What the daemon knows, or will know when it has taken what is on its socket *)

RegistrationTold == apiRegistered \/ LastIn(toService, "REGISTER", {Registration})

ConfigTold(k) ==
    \/ LastIn(toService, k, Numbered(cached[k]))
    \/ Lacks(toService, k) /\ engineConfig[k] = cached[k]

XtraTold ==
    \/ LastIn(toService, XtraUpdate, Switched(mRegisterXtraUpdate))
    \/ Lacks(toService, XtraUpdate) /\ (xtraRegistered <=> mRegisterXtraUpdate)

AllTold ==
    /\ RegistrationTold
    /\ \A k \in Types \cap CachedTypes : cached[k] # 0 => ConfigTold(k)
    /\ XtraUpdate \in Types => XtraTold

\* The queue ends with what was accepted last.
Queued ==
    /\ \A k \in Types \cap CachedTypes :
          cached[k] # 0 => LastIn(mQueuedMsg, k, Numbered(cached[k]))
    /\ XtraUpdate \in Types =>
          \/ LastIn(mQueuedMsg, XtraUpdate, Switched(mRegisterXtraUpdate))
          \/ Lacks(mQueuedMsg, XtraUpdate) /\ ~mRegisterXtraUpdate

CurrentRun ==
    /\ listener = "ready" /\ service = "ready"
    /\ [type |-> "HAL_READY"] \notin Range(toApi)

\* A registered client has told its daemon everything, unless it has still to hear of this
\* run of it; then what it will not send again is right already.  A client that never
\* registered has sent nothing and keeps everything.
Restorable ==
    /\ listener # "destroyed" => Lacks(toService, "DEREGISTER_CLIENT")
    /\ configRegistered =>
          /\ listener # "starting"
          /\ mQueuedMsg = <<>>
          /\ XtraUpdate \in Types /\ ~mRegisterXtraUpdate => XtraTold
          /\ CurrentRun => AllTold
    /\ ~configRegistered => toService = <<>> /\ ~xtraRegistered /\ Queued

\* The message of an accepted request is the last of its type.
LEMMA AcceptedIsLast ==
  ASSUME ConfigTypeOK, NEW q \in Seq(ServiceMsgs), NEW m \in ServiceMsgs, m.type \in Types,
         Accept(m), NEW k \in Types
  PROVE  /\ k \in CachedTypes /\ k = m.type => LastIn(Append(q, m), k, Numbered(cached'[k]))
         /\ k = XtraUpdate /\ k = m.type =>
               LastIn(Append(q, m), k, Switched(mRegisterXtraUpdate'))
         /\ k # m.type =>
               /\ cached'[k] = cached[k]
               /\ k = XtraUpdate => mRegisterXtraUpdate' = mRegisterXtraUpdate
               /\ \A S : LastIn(q, k, S) => LastIn(Append(q, m), k, S)
               /\ Lacks(q, k) => Lacks(Append(q, m), k)
<1>1. cached \in [Types -> Numbers]
  BY DEF ConfigTypeOK
<1>2. ASSUME k \in CachedTypes, k = m.type
      PROVE  LastIn(Append(q, m), k, Numbered(cached'[k]))
  <2>1. cached'[k] = m.number
    BY <1>1, <1>2 DEF Accept
  <2>2. m \in Numbered(cached'[k])
    BY <2>1 DEF Numbered
  <2> QED BY <1>2, <2>2, LastAppend
<1>3. ASSUME k = XtraUpdate, k = m.type
      PROVE  LastIn(Append(q, m), k, Switched(mRegisterXtraUpdate'))
  <2>1. mRegisterXtraUpdate' = m.on
    BY <1>3 DEF Accept
  <2>2. m \in Switched(mRegisterXtraUpdate')
    BY <2>1 DEF Switched
  <2> QED BY <1>3, <2>2, LastAppend
<1>4. ASSUME k # m.type
      PROVE  /\ cached'[k] = cached[k]
             /\ k = XtraUpdate => mRegisterXtraUpdate' = mRegisterXtraUpdate
  BY <1>1, <1>4 DEF Accept
<1>5. ASSUME k # m.type
      PROVE  /\ \A S : LastIn(q, k, S) => LastIn(Append(q, m), k, S)
             /\ Lacks(q, k) => Lacks(Append(q, m), k)
  BY <1>5, LastAppend
<1> QED BY <1>2, <1>3, <1>4, <1>5

LEMMA RequestRestores ==
  ASSUME ConfigTyped, Restorable, NEW k \in Types, NEW on \in BOOLEAN, configRequest(k, on)
  PROVE  Restorable'
<1> DEFINE m == Msg(k, number + 1, on, FALSE)
<1>1. number + 1 \in Numbers
  BY ConfigBounds DEF configRequest, Numbers, ConfigTyped, AccountsInv, CountsAreTyped
<1>2. m \in ServiceMsgs /\ m.type = k
  BY <1>1, MsgTyped
<1>3. /\ sendConfigMsgToHalDaemon(m) /\ listener # "destroyed"
      /\ UNCHANGED <<listener, configRegistered, toApi, service, restarts, apiRegistered,
                     engineConfig, xtraRegistered>>
  BY DEF configRequest, configDaemon
<1>4. /\ ConfigTypeOK /\ toService \in Seq(ServiceMsgs) /\ mQueuedMsg \in Seq(ServiceMsgs)
      /\ k # "DEREGISTER_CLIENT" /\ k # "REGISTER"
  BY QueuedMsgTyped, SeqMonotonic, KindsOfMessages DEF ConfigTyped, ConfigTypeOK, QueuedMsg
<1> HIDE DEF m
<1>5. CASE ~configRegistered
  <2>1. mQueuedMsg' = Append(mQueuedMsg, m) /\ Accept(m) /\ toService' = toService
    BY <1>3, <1>5 DEF sendConfigMsgToHalDaemon
  <2>2. Queued
    BY <1>5 DEF Restorable
  <2>3. ASSUME NEW j \in Types \cap CachedTypes, cached'[j] # 0
        PROVE  LastIn(mQueuedMsg', j, Numbered(cached'[j]))
    BY <1>2, <1>4, <2>1, <2>2, <2>3, AcceptedIsLast DEF Queued
  <2>4. ASSUME XtraUpdate \in Types
        PROVE  \/ LastIn(mQueuedMsg', XtraUpdate, Switched(mRegisterXtraUpdate'))
               \/ Lacks(mQueuedMsg', XtraUpdate) /\ ~mRegisterXtraUpdate'
    BY <1>2, <1>4, <2>1, <2>2, <2>4, AcceptedIsLast DEF Queued
  <2>5. Queued'
    BY <2>3, <2>4 DEF Queued, Numbered, Switched
  <2> QED BY <1>3, <1>5, <2>1, <2>5 DEF Restorable
<1>6. CASE configRegistered /\ service # "down"
  <2>1. toService' = Append(toService, m) /\ Accept(m) /\ mQueuedMsg' = mQueuedMsg
    BY <1>3, <1>6 DEF sendConfigMsgToHalDaemon
  <2>2. Lacks(toService', "DEREGISTER_CLIENT")
    BY <1>2, <1>3, <1>4, <2>1, LastAppend DEF Restorable
  <2>3. ASSUME XtraUpdate \in Types, ~mRegisterXtraUpdate => XtraTold, ~mRegisterXtraUpdate'
        PROVE  XtraTold'
    BY <1>2, <1>3, <1>4, <2>1, <2>3, AcceptedIsLast DEF XtraTold, Switched
  <2>4. ASSUME XtraUpdate \in Types, XtraTold
        PROVE  XtraTold'
    BY <1>2, <1>3, <1>4, <2>1, <2>4, AcceptedIsLast DEF XtraTold, Switched
  <2>5. ASSUME NEW j \in Types \cap CachedTypes, cached[j] # 0 => ConfigTold(j), cached'[j] # 0
        PROVE  ConfigTold(j)'
    BY <1>2, <1>3, <1>4, <2>1, <2>5, AcceptedIsLast DEF ConfigTold, Numbered
  <2>6. RegistrationTold => RegistrationTold'
    BY <1>2, <1>3, <1>4, <2>1, LastAppend DEF RegistrationTold
  <2>7. AllTold => AllTold'
    BY <2>4, <2>5, <2>6 DEF AllTold
  <2>8. CurrentRun' => CurrentRun
    BY <1>3 DEF CurrentRun
  <2> QED BY <1>3, <1>6, <2>1, <2>2, <2>3, <2>7, <2>8 DEF Restorable
<1>7. CASE configRegistered /\ service = "down"
  <2>1. UNCHANGED <<mQueuedMsg, toService, cached, mRegisterXtraUpdate>>
    BY <1>3, <1>7 DEF sendConfigMsgToHalDaemon
  <2>2. /\ UNCHANGED <<CurrentRun, XtraTold, RegistrationTold, AllTold>>
    BY <1>3, <2>1 DEF CurrentRun, XtraTold, RegistrationTold, AllTold, ConfigTold
  <2> QED BY <1>3, <1>7, <2>1, <2>2 DEF Restorable
<1> QED BY <1>5, <1>6, <1>7

\* A registration and the messages r are sent: what r ends with is told.
LEMMA SendingTells ==
  ASSUME ConfigTypeOK, NEW r \in Seq(ServiceMsgs),
         toService' = Append(toService, Registration) \o r,
         Lacks(r, "REGISTER"), Lacks(r, "DEREGISTER_CLIENT")
  PROVE  /\ RegistrationTold'
         /\ Lacks(toService, "DEREGISTER_CLIENT") => Lacks(toService', "DEREGISTER_CLIENT")
         /\ \A k \in Types : \A S : LastIn(r, k, S) => LastIn(toService', k, S)
         /\ \A k \in Types : \A S : Lacks(r, k) /\ LastIn(toService, k, S) => LastIn(toService', k, S)
         /\ \A k \in Types : Lacks(r, k) /\ Lacks(toService, k) => Lacks(toService', k)
<1> DEFINE q == Append(toService, Registration)
<1>1. toService \in Seq(ServiceMsgs) /\ Registration \in ServiceMsgs
      /\ Registration.type = "REGISTER"
  BY RegistrationTyped DEF ConfigTypeOK
<1>2. q \in Seq(ServiceMsgs) /\ LastIn(q, "REGISTER", {Registration})
  BY <1>1, AppendProperties, LastAppend
<1>3. \A k, S : k # "REGISTER" /\ LastIn(toService, k, S) => LastIn(q, k, S)
  BY <1>1, LastAppend
<1>4. \A k : k # "REGISTER" /\ Lacks(toService, k) => Lacks(q, k)
  BY <1>1, LastAppend
<1> HIDE DEF q
<1>5. toService' = q \o r
  BY DEF q
<1>6. \A k, S : /\ LastIn(r, k, S) => LastIn(toService', k, S)
                /\ Lacks(r, k) /\ LastIn(q, k, S) => LastIn(toService', k, S)
                /\ Lacks(r, k) /\ Lacks(q, k) => Lacks(toService', k)
  BY <1>2, <1>5, LastConcat
<1>7. \A k \in Types : k # "REGISTER"
  BY KindsOfMessages
<1>8. RegistrationTold'
  BY <1>2, <1>6 DEF RegistrationTold
<1>9. Lacks(toService, "DEREGISTER_CLIENT") => Lacks(toService', "DEREGISTER_CLIENT")
  BY <1>4, <1>6
<1>10. ASSUME NEW k \in Types, NEW S
       PROVE  /\ LastIn(r, k, S) => LastIn(toService', k, S)
              /\ Lacks(r, k) /\ LastIn(toService, k, S) => LastIn(toService', k, S)
              /\ Lacks(r, k) /\ Lacks(toService, k) => Lacks(toService', k)
  BY <1>3, <1>4, <1>6, <1>7
<1> QED BY <1>8, <1>9, <1>10

LEMMA QueueHasRequests ==
  ASSUME ConfigTypeOK
  PROVE  /\ mQueuedMsg \in Seq(ServiceMsgs)
         /\ Lacks(mQueuedMsg, "REGISTER") /\ Lacks(mQueuedMsg, "DEREGISTER_CLIENT")
<1>1. mQueuedMsg \in Seq(QueuedMsg)
  BY DEF ConfigTypeOK, QueuedMsg
<1>2. \A i \in 1..Len(mQueuedMsg) : mQueuedMsg[i].type \in Types
  <2>1. \A i \in 1..Len(mQueuedMsg) : mQueuedMsg[i] \in QueuedMsg
    BY <1>1, ElementOfSeq
  <2>2. \A m \in QueuedMsg : m.type \in Types
    BY DEF QueuedMsg
  <2> QED BY <2>1, <2>2
<1>3. mQueuedMsg \in Seq(ServiceMsgs)
  BY <1>1, QueuedMsgTyped, SeqMonotonic
<1>4. "REGISTER" \notin Types /\ "DEREGISTER_CLIENT" \notin Types
  BY KindsOfMessages
<1> QED BY <1>2, <1>3, <1>4 DEF Lacks

\* The registration that sends the queue.
LEMMA QueuedReqsRestore ==
  ASSUME ConfigTyped, Restorable, ~configRegistered, NEW sent \in 0..Len(mQueuedMsg),
         processQueuedReqs(sent), listener' = "ready"
  PROVE  Restorable'
<1>1. ConfigTypeOK /\ toService = <<>> /\ ~xtraRegistered /\ Queued
  BY DEF ConfigTyped, Restorable
<1>2. /\ configRegistered' = TRUE /\ mQueuedMsg' = <<>>
      /\ UNCHANGED <<cached, mRegisterXtraUpdate>>
  BY DEF processQueuedReqs
<1>3. CASE sent = Len(mQueuedMsg)
  <2>1. /\ toService' = Append(toService, Registration) \o mQueuedMsg
        /\ UNCHANGED <<xtraRegistered, engineConfig, apiRegistered>>
    BY <1>3 DEF processQueuedReqs, configDaemon
  <2>2. Lacks(toService, "DEREGISTER_CLIENT") /\ Lacks(toService, XtraUpdate)
    BY <1>1, EmptySeq DEF Lacks
  <2>3. /\ RegistrationTold' /\ Lacks(toService', "DEREGISTER_CLIENT")
        /\ \A k \in Types : \A S : LastIn(mQueuedMsg, k, S) => LastIn(toService', k, S)
        /\ \A k \in Types : Lacks(mQueuedMsg, k) /\ Lacks(toService, k) => Lacks(toService', k)
    BY <1>1, <2>1, <2>2, QueueHasRequests, SendingTells
  <2>4. ASSUME NEW k \in Types \cap CachedTypes, cached'[k] # 0
        PROVE  ConfigTold(k)'
    BY <1>1, <1>2, <2>3, <2>4 DEF Queued, ConfigTold, Numbered
  <2>5. ASSUME XtraUpdate \in Types
        PROVE  XtraTold'
    <3>1. CASE LastIn(mQueuedMsg, XtraUpdate, Switched(mRegisterXtraUpdate))
      BY <1>2, <2>3, <2>5, <3>1 DEF XtraTold, Switched
    <3>2. CASE Lacks(mQueuedMsg, XtraUpdate) /\ ~mRegisterXtraUpdate
      BY <1>1, <1>2, <2>1, <2>2, <2>3, <2>5, <3>2 DEF XtraTold
    <3> QED BY <1>1, <2>5, <3>1, <3>2 DEF Queued
  <2> QED BY <1>2, <2>3, <2>4, <2>5 DEF Restorable, AllTold
<1>4. CASE sent # Len(mQueuedMsg)
  <2>1. service' = "down" /\ toService' = <<>> /\ ~xtraRegistered'
    BY <1>4 DEF processQueuedReqs, ServiceDies
  <2>2. \A k : Lacks(toService', k)
    BY <2>1, EmptySeq DEF Lacks
  <2>3. ~mRegisterXtraUpdate' => XtraTold'
    BY <2>1, <2>2 DEF XtraTold
  <2> QED BY <1>2, <2>1, <2>2, <2>3 DEF Restorable, CurrentRun
<1> QED BY <1>3, <1>4

\* The registration that sends what is cached.
LEMMA CacheRestores ==
  ASSUME ConfigTyped, Restorable, listener' = "ready", listener = "ready",
         mQueuedMsg = <<>>, mQueuedMsg' = <<>>, configRegistered' = TRUE,
         toService' = Append(toService, Registration) \o SetToSeq(CachedMsgs),
         UNCHANGED <<cached, mRegisterXtraUpdate, service, configDaemon>>
  PROVE  Restorable'
<1> DEFINE r == SetToSeq(CachedMsgs)
<1>1. ConfigTypeOK
  BY DEF ConfigTyped
<1>2. /\ r \in Seq(ServiceMsgs)
      /\ \A k \in Types \cap CachedTypes : cached[k] # 0 => LastIn(r, k, Numbered(cached[k]))
      /\ XtraUpdate \in Types /\ mRegisterXtraUpdate => LastIn(r, XtraUpdate, Switched(TRUE))
      /\ ~mRegisterXtraUpdate => Lacks(r, XtraUpdate)
      /\ Lacks(r, "REGISTER") /\ Lacks(r, "DEREGISTER_CLIENT")
  BY <1>1, CachedMsgsListed
<1> HIDE DEF r
<1>3. toService' = Append(toService, Registration) \o r
  BY DEF r
<1>4. /\ RegistrationTold'
      /\ Lacks(toService, "DEREGISTER_CLIENT") => Lacks(toService', "DEREGISTER_CLIENT")
      /\ \A k \in Types : \A S : LastIn(r, k, S) => LastIn(toService', k, S)
      /\ \A k \in Types : \A S : Lacks(r, k) /\ LastIn(toService, k, S) => LastIn(toService', k, S)
      /\ \A k \in Types : Lacks(r, k) /\ Lacks(toService, k) => Lacks(toService', k)
  BY <1>1, <1>2, <1>3, SendingTells
<1>5. ASSUME NEW k \in Types \cap CachedTypes, cached'[k] # 0
      PROVE  ConfigTold(k)'
  BY <1>2, <1>4, <1>5 DEF ConfigTold, Numbered
<1>6. ASSUME XtraUpdate \in Types
      PROVE  XtraTold'
  <2>1. CASE mRegisterXtraUpdate
    <3>1. LastIn(toService', XtraUpdate, Switched(TRUE))
      BY <1>2, <1>4, <1>6, <2>1
    <3>2. mRegisterXtraUpdate' = TRUE
      BY <1>1, <2>1 DEF ConfigTypeOK
    <3> QED BY <3>1, <3>2 DEF XtraTold, Switched
  <2>2. CASE ~mRegisterXtraUpdate
    <3>1. XtraTold
      <4>1. CASE configRegistered
        BY <1>6, <2>2, <4>1 DEF Restorable
      <4>2. CASE ~configRegistered
        BY <2>2, <4>2, EmptySeq DEF Restorable, XtraTold, Lacks
      <4> QED BY <4>1, <4>2
    <3>2. Lacks(r, XtraUpdate)
      BY <1>2, <2>2
    <3> QED BY <1>4, <1>6, <3>1, <3>2 DEF XtraTold, Switched, configDaemon
  <2> QED BY <2>1, <2>2
<1> QED BY <1>4, <1>5, <1>6 DEF Restorable, AllTold

\* The daemon takes a message of a registered client.
LEMMA ClientMsgRestores ==
  ASSUME ConfigTyped, Restorable, processClientMsg
  PROVE  Restorable'
<1> DEFINE m == Head(toService)
<1>1. /\ toService # <<>> /\ toService' = Tail(toService)
      /\ UNCHANGED <<listener, configRegistered, mQueuedMsg, cached, mRegisterXtraUpdate, service>>
  BY DEF processClientMsg, configClient
<1>2. /\ toService \in Seq(ServiceMsgs) /\ RestIsTyped /\ m \in ServiceMsgs
      /\ engineConfig \in [Types -> Numbers] /\ mRegisterXtraUpdate \in BOOLEAN
      /\ xtraRegistered \in BOOLEAN
  BY <1>1, RestFromTypes, HeadTailProperties DEF ConfigTyped, ConfigTypeOK
<1>3. /\ \A k, S : LastIn(toService, k, S) =>
                      \/ LastIn(toService', k, S)
                      \/ m.type = k /\ m \in S /\ Lacks(toService', k)
      /\ \A k : Lacks(toService, k) => Lacks(toService', k) /\ m.type # k
  BY <1>1, <1>2, LastTail
<1>4. configRegistered
  BY <1>1 DEF Restorable
<1>5. \/ /\ m = Registration /\ apiRegistered' = TRUE
         /\ UNCHANGED <<engineConfig, xtraRegistered, toApi>>
      \/ /\ m = Deregistration /\ apiRegistered' = FALSE
         /\ UNCHANGED <<engineConfig, xtraRegistered, toApi>>
      \/ /\ m.type \in Types
         /\ engineConfig' = IF m.type \in AboveMax \cup {"odcpi"} THEN engineConfig
                            ELSE [engineConfig EXCEPT ![m.type] = m.number]
         /\ xtraRegistered' = IF m.type = XtraUpdate THEN m.on ELSE xtraRegistered
         /\ UNCHANGED apiRegistered
         /\ Answer(<<m.type>>) \/ UNCHANGED toApi
  BY DEF processClientMsg
<1>6. CurrentRun' => CurrentRun
  <2>1. [type |-> "HAL_READY"] \notin Range(toApi') => [type |-> "HAL_READY"] \notin Range(toApi)
    <3>1. CASE m.type \in Types /\ Answer(<<m.type>>)
      BY <1>2, <3>1, AnswerTyped DEF RestIsTyped
    <3>2. CASE UNCHANGED toApi
      BY <3>2
    <3> QED BY <1>5, <3>1, <3>2
  <2> QED BY <1>1, <2>1 DEF CurrentRun
<1>7. ASSUME RegistrationTold, listener # "destroyed"
      PROVE  RegistrationTold'
  <2>1. m.type # "DEREGISTER_CLIENT"
    BY <1>3, <1>7 DEF Restorable
  <2>2. m # Deregistration
    BY <2>1, RegistrationTyped
  <2>3. CASE apiRegistered
    BY <1>5, <2>2, <2>3 DEF RegistrationTold
  <2>4. CASE LastIn(toService, "REGISTER", {Registration})
    <3>1. CASE m = Registration
      <4>1. m.type \notin Types /\ m # Deregistration
        BY <3>1, RegistrationTyped, KindsOfMessages
      <4> QED BY <1>5, <4>1 DEF RegistrationTold
    <3>2. CASE m # Registration
      BY <1>3, <2>4, <3>2 DEF RegistrationTold
    <3> QED BY <3>1, <3>2
  <2> QED BY <1>7, <2>3, <2>4 DEF RegistrationTold
<1>8. ASSUME NEW k \in Types \cap CachedTypes, ConfigTold(k)
      PROVE  ConfigTold(k)'
  <2>1. k \notin AboveMax \cup {"odcpi"}
    BY KindsOfMessages
  <2>2. k # "REGISTER" /\ k # "DEREGISTER_CLIENT"
    BY KindsOfMessages
  <2>3. CASE LastIn(toService', k, Numbered(cached[k]))
    BY <1>1, <2>3 DEF ConfigTold, Numbered
  <2>4. CASE m.type = k /\ m \in Numbered(cached[k]) /\ Lacks(toService', k)
    <3>1. m # Registration /\ m # Deregistration
      BY <2>2, <2>4, RegistrationTyped
    <3>2. engineConfig'[k] = cached[k]
      BY <1>2, <1>5, <2>1, <2>4, <3>1 DEF Numbered
    <3> QED BY <1>1, <2>4, <3>2 DEF ConfigTold
  <2>5. CASE Lacks(toService, k) /\ engineConfig[k] = cached[k]
    <3>1. Lacks(toService', k) /\ m.type # k
      BY <1>3, <2>5
    <3>2. engineConfig'[k] = engineConfig[k]
      BY <1>2, <1>5, <3>1
    <3> QED BY <1>1, <2>5, <3>1, <3>2 DEF ConfigTold
  <2> QED BY <1>3, <1>8, <2>3, <2>4, <2>5 DEF ConfigTold
<1>9. ASSUME XtraUpdate \in Types, XtraTold
      PROVE  XtraTold'
  <2>1. XtraUpdate # "REGISTER" /\ XtraUpdate # "DEREGISTER_CLIENT"
    BY DEF XtraUpdate
  <2>2. CASE LastIn(toService', XtraUpdate, Switched(mRegisterXtraUpdate))
    BY <1>1, <2>2 DEF XtraTold, Switched
  <2>3. CASE m.type = XtraUpdate /\ m \in Switched(mRegisterXtraUpdate)
             /\ Lacks(toService', XtraUpdate)
    <3>1. m # Registration /\ m # Deregistration
      BY <2>1, <2>3, RegistrationTyped
    <3>2. xtraRegistered' = mRegisterXtraUpdate
      BY <1>5, <2>3, <3>1 DEF Switched
    <3> QED BY <1>1, <2>3, <3>2 DEF XtraTold
  <2>4. CASE Lacks(toService, XtraUpdate) /\ (xtraRegistered <=> mRegisterXtraUpdate)
    <3>1. Lacks(toService', XtraUpdate) /\ m.type # XtraUpdate
      BY <1>3, <2>4
    <3>2. xtraRegistered' = xtraRegistered
      BY <1>5, <3>1
    <3> QED BY <1>1, <2>4, <3>1, <3>2 DEF XtraTold
  <2> QED BY <1>3, <1>9, <2>2, <2>3, <2>4 DEF XtraTold
<1>10. AllTold /\ listener # "destroyed" => AllTold'
  BY <1>1, <1>7, <1>8, <1>9 DEF AllTold
<1> QED BY <1>1, <1>3, <1>4, <1>6, <1>9, <1>10 DEF Restorable, CurrentRun

LEMMA InitRestorable == ConfigInit => Restorable
  BY EmptySeq DEF ConfigInit, Restorable, Queued, Lacks, Zero

\* A message other than HAL_READY was taken from the client's socket.
LEMMA OtherTaken ==
  ASSUME ConfigTyped, NEW type, type # "HAL_READY", ConfigReceive(type)
  PROVE  [type |-> "HAL_READY"] \notin Range(toApi') => [type |-> "HAL_READY"] \notin Range(toApi)
<1> SUFFICES ASSUME [type |-> "HAL_READY"] \in Range(toApi)
             PROVE  [type |-> "HAL_READY"] \in Range(toApi')
  OBVIOUS
<1>1. /\ toApi \in Seq(ApiMsgs) /\ toApi # <<>> /\ toApi' = Tail(toApi)
      /\ Head(toApi).type # "HAL_READY"
  BY DEF ConfigTyped, ConfigTypeOK, ConfigReceive
<1>2. /\ Len(toApi) \in Nat /\ DOMAIN toApi = 1..Len(toApi) /\ Head(toApi) = toApi[1]
      /\ toApi' \in Seq(ApiMsgs) /\ Len(toApi') = Len(toApi) - 1
      /\ DOMAIN toApi' = 1..Len(toApi')
      /\ \A i \in 1..Len(toApi') : toApi'[i] = toApi[i + 1]
  BY <1>1, HeadTailProperties, LenProperties
<1>3. PICK i \in 1..Len(toApi) : toApi[i] = [type |-> "HAL_READY"]
  BY <1>2 DEF Range
<1>4. i # 1
  BY <1>1, <1>2, <1>3
<1> DEFINE h == i - 1
<1>5. h \in 1..Len(toApi') /\ h + 1 = i
  BY <1>2, <1>4
<1> HIDE DEF h
<1>6. toApi'[h] = [type |-> "HAL_READY"]
  BY <1>2, <1>3, <1>5
<1> QED BY <1>2, <1>5, <1>6 DEF Range

\* What a step leaves alone is told as it was.
LEMMA ToldStays ==
  ASSUME ConfigTyped, Restorable,
         UNCHANGED <<listener, configRegistered, mQueuedMsg, cached, mRegisterXtraUpdate,
                     toService, apiRegistered, engineConfig, xtraRegistered>>,
         CurrentRun' => CurrentRun
  PROVE  Restorable'
<1>1. /\ \A k : ConfigTold(k)' <=> ConfigTold(k)
      /\ XtraTold' <=> XtraTold
      /\ RegistrationTold' <=> RegistrationTold
      /\ Queued' <=> Queued
  BY DEF ConfigTold, XtraTold, RegistrationTold, Queued, Numbered, Switched
<1>2. AllTold => AllTold'
  BY <1>1 DEF AllTold
<1> QED BY <1>1, <1>2 DEF Restorable

LEMMA DyingRestores ==
  ASSUME ConfigTyped, Restorable, ServiceDies, configRegistered' = configRegistered,
         UNCHANGED <<listener, mQueuedMsg, cached, mRegisterXtraUpdate>>
  PROVE  Restorable'
<1>1. toService' = <<>> /\ service' = "down" /\ ~xtraRegistered'
  BY DEF ServiceDies
<1>2. \A k : Lacks(toService', k)
  BY <1>1, EmptySeq DEF Lacks
<1>3. ~mRegisterXtraUpdate' => XtraTold'
  BY <1>1, <1>2 DEF XtraTold
<1>4. Queued => Queued'
  BY DEF Queued, Numbered, Switched
<1> QED BY <1>1, <1>2, <1>3, <1>4 DEF Restorable, CurrentRun

LEMMA NextRestorable == ConfigTyped /\ Restorable /\ [ConfigNext]_configVars => Restorable'
<1> SUFFICES ASSUME ConfigTyped, Restorable, [ConfigNext]_configVars PROVE Restorable'
  OBVIOUS
<1>1. toApi \in Seq(ApiMsgs) /\ toService \in Seq(ServiceMsgs)
      /\ listener \in {"starting", "ready", "destroyed"} /\ configRegistered \in BOOLEAN
  BY DEF ConfigTyped, ConfigTypeOK
<1>2. ASSUME NEW k \in Types, NEW on \in BOOLEAN, configRequest(k, on) PROVE Restorable'
  BY <1>2, RequestRestores
<1>3. ASSUME ConfigRegisterReq PROVE Restorable'
  <2>1. ~configRegistered /\ listener' = "ready"
    BY <1>3 DEF ConfigRegisterReq, Restorable
  <2>2. CASE \E sent \in 0..Len(mQueuedMsg) : processQueuedReqs(sent)
    BY <2>1, <2>2, QueuedReqsRestore
  <2>3. CASE UNCHANGED <<configRegistered, mQueuedMsg, cached, mRegisterXtraUpdate, toService,
                         apiRegistered, engineConfig, xtraRegistered>>
    <3>1. toService' = <<>> /\ Lacks(toService', "DEREGISTER_CLIENT")
      BY <2>1, <2>3, EmptySeq DEF Restorable, Lacks
    <3>2. Queued' <=> Queued
      BY <2>3 DEF Queued, Numbered, Switched
    <3> QED BY <2>1, <2>3, <3>1, <3>2 DEF Restorable
  <2> QED BY <1>3, <2>2, <2>3 DEF ConfigRegisterReq, configDaemon
<1>4. ASSUME processHalReadyMsg PROVE Restorable'
  <2>1. listener = "ready" /\ listener' = "ready"
    BY <1>4 DEF processHalReadyMsg, ConfigReceive
  <2>2. CASE service = "down"
    <3>1. UNCHANGED <<configRegistered, mQueuedMsg, cached, mRegisterXtraUpdate, toService,
                      service, apiRegistered, engineConfig, xtraRegistered>>
      BY <1>4, <2>2 DEF processHalReadyMsg, configDaemon
    <3>2. ~CurrentRun'
      BY <2>2, <3>1 DEF CurrentRun
    <3> QED BY <2>1, <3>1, <3>2, ToldStays
  <2>3. CASE service # "down" /\ mQueuedMsg # <<>>
    <3>1. ~configRegistered
      BY <2>3 DEF Restorable
    <3>2. \E sent \in 0..Len(mQueuedMsg) : processQueuedReqs(sent)
      BY <1>4, <2>3 DEF processHalReadyMsg
    <3> QED BY <2>1, <3>1, <3>2, QueuedReqsRestore
  <2>4. CASE service # "down" /\ mQueuedMsg = <<>>
    <3>1. /\ configRegistered' = TRUE /\ mQueuedMsg' = <<>>
          /\ toService' = Append(toService, Registration) \o SetToSeq(CachedMsgs)
          /\ UNCHANGED <<cached, mRegisterXtraUpdate, service, configDaemon>>
      BY <1>4, <2>4 DEF processHalReadyMsg
    <3> QED BY <2>1, <2>4, <3>1, CacheRestores
  <2> QED BY <2>2, <2>3, <2>4
<1>5. ASSUME NEW type \in Types \cup {"UPON_REGISTRATION"}, ConfigReceive(type),
             UNCHANGED <<listener, configRegistered, mQueuedMsg, cached, mRegisterXtraUpdate,
                         toService, service, configDaemon>>
      PROVE  Restorable'
  <2>1. type # "HAL_READY" /\ listener = "ready"
    BY <1>5, KindsOfMessages DEF ConfigReceive
  <2>2. CurrentRun' => CurrentRun
    BY <1>5, <2>1, OtherTaken DEF CurrentRun
  <2> QED BY <1>5, <2>1, <2>2, ToldStays DEF configDaemon
<1>6. ASSUME (\E k \in Types : processConfigRespCb(k)) \/ processGetXtraStatusRespCb
      PROVE  Restorable'
  BY <1>5, <1>6 DEF processConfigRespCb, processGetXtraStatusRespCb
<1>7. ASSUME destroy PROVE Restorable'
  <2>1. /\ listener = "ready" /\ listener' = "destroyed"
        /\ UNCHANGED <<configRegistered, mQueuedMsg, cached, mRegisterXtraUpdate,
                       apiRegistered, engineConfig, xtraRegistered>>
    BY <1>7 DEF destroy, configDaemon
  <2>2. CASE ~configRegistered
    <3>1. toService' = toService
      BY <1>7, <2>2 DEF destroy
    <3>2. Queued' <=> Queued
      BY <2>1 DEF Queued, Numbered, Switched
    <3> QED BY <2>1, <2>2, <3>1, <3>2 DEF Restorable
  <2>3. CASE configRegistered
    <3>1. toService' = toService \/ toService' = Append(toService, Deregistration)
      BY <1>7 DEF destroy
    <3>2. XtraTold => XtraTold'
      <4>1. CASE toService' = toService
        BY <2>1, <4>1 DEF XtraTold, Switched
      <4>2. CASE toService' = Append(toService, Deregistration)
        <5>1. Deregistration.type # XtraUpdate
          BY RegistrationTyped DEF XtraUpdate
        <5> QED BY <1>1, <2>1, <4>2, <5>1, RegistrationTyped, LastAppend
                DEF XtraTold, Switched
      <4> QED BY <3>1, <4>1, <4>2
    <3> QED BY <2>1, <2>3, <3>2 DEF Restorable, CurrentRun
  <2> QED BY <2>2, <2>3
<1>8. ASSUME processClientMsg PROVE Restorable'
  BY <1>8, ClientMsgRestores
<1>9. ASSUME ServiceBinds \/ ServiceReady PROVE Restorable'
  <2>1. ~CurrentRun'
    <3>1. CASE ServiceBinds
      BY <3>1 DEF ServiceBinds, CurrentRun
    <3>2. CASE ServiceReady
      <4>1. listener' = listener
        BY <3>2 DEF ServiceReady, configClient
      <4>2. CASE toApi' = Append(toApi, [type |-> "HAL_READY"])
        <5>1. [type |-> "HAL_READY"] \in ApiMsgs
          BY DEF ApiMsgs
        <5>2. /\ toApi' \in Seq(ApiMsgs) /\ Len(toApi) \in Nat /\ Len(toApi') = Len(toApi) + 1
              /\ toApi'[Len(toApi) + 1] = [type |-> "HAL_READY"]
          BY <1>1, <4>2, <5>1, AppendProperties, LenProperties
        <5>3. Len(toApi) + 1 \in DOMAIN toApi'
          BY <5>2, LenProperties
        <5> QED BY <5>2, <5>3 DEF Range, CurrentRun
      <4>3. CASE listener # "ready"
        BY <4>1, <4>3 DEF CurrentRun
      <4> QED BY <3>2, <4>2, <4>3 DEF ServiceReady
    <3> QED BY <1>9, <3>1, <3>2
  <2>2. UNCHANGED <<listener, configRegistered, mQueuedMsg, cached, mRegisterXtraUpdate,
                    toService, apiRegistered, engineConfig, xtraRegistered>>
    BY <1>9 DEF ServiceBinds, ServiceReady, configClient, configDaemon
  <2> QED BY <2>1, <2>2, ToldStays
<1>10. ASSUME NEW m \in mConfigReqs, EndConfigReq(m) PROVE Restorable'
  <2>1. /\ Answer(<<m.type>>) \/ Answer(<<m.type, "UPON_REGISTRATION">>)
        /\ UNCHANGED <<listener, configRegistered, mQueuedMsg, cached, mRegisterXtraUpdate,
                       toService, service, apiRegistered, engineConfig, xtraRegistered>>
    BY <1>10 DEF EndConfigReq, configClient
  <2>2. m.type \in Types
    BY DEF ConfigTyped, RequestsOnly
  <2>3. CurrentRun' => CurrentRun
    BY <1>1, <2>1, <2>2, AnswerTyped DEF CurrentRun
  <2> QED BY <2>1, <2>3, ToldStays
<1>11. ASSUME ServiceCrash PROVE Restorable'
  BY <1>11, DyingRestores DEF ServiceCrash, configClient
<1>12. ASSUME UNCHANGED configVars PROVE Restorable'
  <2>1. UNCHANGED <<listener, configRegistered, mQueuedMsg, cached, mRegisterXtraUpdate,
                    toService, toApi, service, apiRegistered, engineConfig, xtraRegistered>>
    BY <1>12 DEF configVars, configClient, configDaemon
  <2>2. CurrentRun' => CurrentRun
    BY <2>1 DEF CurrentRun
  <2> QED BY <2>1, <2>2, ToldStays
<1> QED BY <1>2, <1>3, <1>4, <1>6, <1>7, <1>8, <1>9, <1>10, <1>11, <1>12
        DEF ConfigNext, ApiTask, ServiceTask

LEMMA RestorableIsRestored == ConfigTyped /\ Restorable => ConfigsAreRestored
<1> SUFFICES ASSUME ConfigTyped, Restorable, ConfigSettled
             PROVE  /\ apiRegistered
                    /\ \A k \in Types \cap CachedTypes :
                          cached[k] # 0 => engineConfig[k] = cached[k]
                    /\ XtraUpdate \in Types => xtraRegistered = mRegisterXtraUpdate
  BY DEF ConfigsAreRestored
<1>1. CurrentRun /\ configRegistered /\ toService = <<>>
  BY DEF ConfigSettled, CurrentRun
<1>2. \A k, S : ~LastIn(toService, k, S)
  BY <1>1, EmptySeq DEF LastIn
<1>3. AllTold
  BY <1>1 DEF Restorable
<1>4. XtraUpdate \in Types => xtraRegistered = mRegisterXtraUpdate
  BY <1>2, <1>3 DEF AllTold, XtraTold, ConfigTyped, ConfigTypeOK
<1> QED BY <1>2, <1>3, <1>4 DEF AllTold, RegistrationTold, ConfigTold

\* Whenever client and daemon have settled, the daemon is up to date: its engine has the
\* last configuration the client accepted of every cached type, and the registration for
\* xtra updates is what the client wants, whichever requests were queued, refused or sent
\* again, however often the daemon died and wherever in a registration
\* (LocationIntegrationApiImpl.cpp:1442-1646).
THEOREM ConfigurationsAreRestored == ConfigSpec => []ConfigsAreRestored
<1>1. ConfigInit => ConfigTyped /\ Restorable
  BY InitConfigTyped, InitRestorable
<1>2. ConfigTyped /\ Restorable /\ [ConfigNext]_configVars => (ConfigTyped /\ Restorable)'
  BY NextConfigTyped, NextRestorable
<1> QED BY <1>1, <1>2, RestorableIsRestored, PTL DEF ConfigSpec
=============================================================================
