-------------------------- MODULE SingleFixProofs --------------------------
(***************************************************************************)
(* Proofs about SingleFix, for any set of clients and any bounds.  What    *)
(* TLC checks is not inductive by itself: a timeout or an answer finds the *)
(* right entry because an entry of a map is a request of that client and   *)
(* of that kind (MapsAreOwn), so two entries never share a request and     *)
(* erasing one leaves the timers of the others alone.                      *)
(***************************************************************************)
EXTENDS SingleFix, SequenceTheorems, TLAPS

\* An entry of a map is a request of the client it is filed under, of the kind
\* the map is for.
MapsAreOwn ==
    \A c \in Clients :
        /\ mTerrestrialFixTimeoutMap[c] # 0 =>
               /\ reqs[mTerrestrialFixTimeoutMap[c]].client = c
               /\ reqs[mTerrestrialFixTimeoutMap[c]].kind = "TERRESTRIAL"
        /\ mSingleFixReqMap[c] # 0 =>
               /\ reqs[mSingleFixReqMap[c]].client = c
               /\ reqs[mSingleFixReqMap[c]].kind = "FUSED"

\* Consent is never given without the LocationAPI that serves it being created.
ConsentHasApi == mOptInTerrestrialService = 1 => mGtpWwanSsLocationApi

\* Nothing was sent for a request that has not arrived.
NothingSentAhead ==
    \A r \in 1..MaxReqs : r > Len(reqs) => Len(answers[r]) = 0

\* The inductive invariant.
IInv ==
    /\ TypeOK
    /\ MapsAreOwn
    /\ ConsentHasApi
    /\ NetworkSessionIsExact
    /\ TrackingSessionIsExact
    /\ LastLocationIsOfThisSession
    /\ RequestIsTimed
    /\ AnsweredAtMostOnce
    /\ NothingSentAhead

-----------------------------------------------------------------------------
(* The steps, one by one *)

\* A step is one of the handlers, a timer or a message: the disjuncts of Next of
\* LocationApiService's entry points.
LEMMA StepCases ==
  ASSUME Next
  PROVE  \/ \E c \in Clients : newClient(c)
         \/ \E c \in Clients : deleteClientbyName(c)
         \/ \E u \in {0, 1} : configUserConsentTerrestrialPositioning(u)
         \/ \E c \in Clients : TerrestrialRefused(c)
         \/ \E c \in Clients : TerrestrialAccepted(c)
         \/ \E l \in Locations : onGtpWwanTrackingCallback(l)
         \/ \E c \in Clients, q \in 1..MaxQoS : SinglePosRequested(c, q)
         \/ \E c \in Clients : SinglePosCancelled(c)
         \/ \E l \in Locations : onGnssLocationInfoCb(l)
         \/ \E r \in 1..MaxReqs : timeOutCallback(r)
         \/ \E c \in Clients : gtpFixRequestTimeout(c)
         \/ \E c \in Clients : singleFixRequestTimeout(c)
BY DEF Next, ClientStep, EngineStep, TimerStep, MsgTaskStep, getSingleTerrestrialPos,
       getSinglePos

\* The shape of the variables is all that a tuple of unchanged variables says.
LEMMA Stutter ==
  ASSUME IInv, UNCHANGED vars
  PROVE  IInv'
BY DEF IInv, vars, consentVars, apiVars, fusedVars, TypeOK, ServiceTypes,
       FusedTypes, HistoryTypes, MapsAreOwn, ConsentHasApi,
       NothingSentAhead,
       NetworkSessionIsExact, TrackingSessionIsExact, LastLocationIsOfThisSession,
       RequestIsTimed, AnsweredAtMostOnce, Timed, Waits, Pending

-----------------------------------------------------------------------------
(* Sequences *)

\* What is queued stays queued when timeOutCallback appends another message.
LEMMA AppendKeeps ==
  ASSUME NEW S, NEW s \in Seq(S), NEW e \in S, NEW i \in 1..Len(s)
  PROVE  /\ i \in 1..Len(Append(s, e))
         /\ Append(s, e)[i] = s[i]
OBVIOUS

\* What is queued behind the head stays queued when the message task takes the head.
LEMMA TailKeeps ==
  ASSUME NEW S, NEW s \in Seq(S), s # <<>>, NEW i \in 1..Len(s), s[i] # Head(s)
  PROVE  \E j \in 1..Len(Tail(s)) : Tail(s)[j] = s[i]
<1>1. i # 1
  OBVIOUS
<1>2. i - 1 \in 1..Len(Tail(s)) /\ Tail(s)[i - 1] = s[i]
  BY <1>1
<1> QED
  BY <1>2

\* sendTerrestrialFix and sendSingleFusedFix add an answer of the right type ...
LEMMA SendTypes ==
  ASSUME answers \in [1..MaxReqs -> Seq(Answer)],
         NEW rs, NEW e \in {"SUCCESS", "TIMEOUT", "NOT_SUPPORTED"},
         NEW l \in Locations, NEW t \in Nat
  PROVE  Send(rs, e, l, t) \in [1..MaxReqs -> Seq(Answer)]
<1> DEFINE a == [error |-> e, location |-> l, timer |-> t]
<1>1. a \in Answer
  BY DEF Answer
<1> HIDE DEF a
<1>2. \A r \in 1..MaxReqs : Append(answers[r], a) \in Seq(Answer)
  BY <1>1
<1>3. Send(rs, e, l, t) = [r \in 1..MaxReqs |->
                            IF r \in rs /\ reqs[r].client \in mClients
                            THEN Append(answers[r], a) ELSE answers[r]]
  BY DEF Send, a
<1> QED
  BY <1>2, <1>3

\* ... to each of the requests whose client is registered, and nothing to the others.
LEMMA SendLengths ==
  ASSUME answers \in [1..MaxReqs -> Seq(Answer)],
         NEW rs, NEW e, NEW l, NEW t, answers' = Send(rs, e, l, t),
         NEW r \in 1..MaxReqs
  PROVE  /\ r \in rs /\ reqs[r].client \in mClients =>
                Len(answers'[r]) = Len(answers[r]) + 1
         /\ ~(r \in rs /\ reqs[r].client \in mClients) => answers'[r] = answers[r]
<1>1. answers'[r] = IF r \in rs /\ reqs[r].client \in mClients
                    THEN Append(answers[r], [error |-> e, location |-> l, timer |-> t])
                    ELSE answers[r]
  BY DEF Send
<1>2. \A a : Len(Append(answers[r], a)) = Len(answers[r]) + 1
  <2> SUFFICES ASSUME NEW a PROVE Len(Append(answers[r], a)) = Len(answers[r]) + 1
    OBVIOUS
  <2>1. answers[r] \in Seq(Answer \cup {a})
    OBVIOUS
  <2> QED
    BY <2>1
<1> QED
  BY <1>1, <1>2

\* A request that arrives is added behind the others.
LEMMA ReceiveAppends ==
  ASSUME TypeOK, NEW c \in Clients, NEW k \in Kinds, NEW q \in 0..MaxQoS,
         Receive(c, k, q)
  PROVE  /\ reqs' \in Seq(Request)
         /\ Len(reqs) \in Nat
         /\ Len(reqs') = Len(reqs) + 1
         /\ Len(reqs') =< MaxReqs
         /\ reqs'[Len(reqs')] = [client |-> c, kind |-> k, horQoS |-> q]
         /\ \A r \in 1..Len(reqs) : reqs'[r] = reqs[r]
<1> DEFINE m == [client |-> c, kind |-> k, horQoS |-> q]
<1>1. m \in Request
  BY DEF Request
<1>2. /\ reqs' = Append(reqs, m) /\ reqs \in Seq(Request) /\ Len(reqs) \in Nat
      /\ Len(reqs) < MaxReqs
  BY DEF Receive, TypeOK, HistoryTypes
<1> HIDE DEF m
<1>3. /\ reqs' \in Seq(Request)
      /\ Len(reqs') = Len(reqs) + 1
      /\ reqs'[Len(reqs')] = m
      /\ \A r \in 1..Len(reqs) : reqs'[r] = reqs[r]
  BY <1>1, <1>2
<1> QED
  BY <1>2, <1>3, BoundsAssumption DEF m

\* Stopping the tracking session keeps the types of what it touches.
LEMMA StopTypes ==
  ASSUME FusedTypes, NEW m, NEW l \in Locations, NoPosition \in Locations,
         stopTrackingSessionForSingleFixes(m, l)
  PROVE  /\ mSingleFixTrackingSessionId' \in 0..sessionsStarted
         /\ mSingleFixLastLocation' \in Locations
         /\ tracking' \subseteq 1..sessionsStarted
<1>1. CASE Pending(m) = {}
  <2>1. tracking' \subseteq tracking /\ mSingleFixTrackingSessionId' = 0
    BY <1>1 DEF stopTrackingSessionForSingleFixes
  <2> QED
    BY <1>1, <2>1 DEF stopTrackingSessionForSingleFixes, FusedTypes
<1>2. CASE Pending(m) # {}
  BY <1>2 DEF stopTrackingSessionForSingleFixes, FusedTypes
<1> QED
  BY <1>1, <1>2

\* While somebody waits for a terrestrial fix there is a session to stop.
LEMMA SessionToStop ==
  ASSUME NetworkSessionIsExact, Pending(mTerrestrialFixTimeoutMap) # {}
  PROVE  networkSessions - 1 = 0
BY DEF NetworkSessionIsExact

\* Every handler keeps the types.
LEMMA TypeStep ==
  ASSUME TypeOK, NetworkSessionIsExact, Next
  PROVE  TypeOK'
<1> USE DEF consentVars, apiVars, fusedVars
<1>a. /\ MaxReqs \in Nat /\ MaxQoS \in Nat /\ Len(reqs) \in Nat /\ Len(reqs) =< MaxReqs
      /\ NoPosition \in Locations
  BY BoundsAssumption DEF TypeOK, HistoryTypes, Locations, NoPosition
<1>b. answers \in [1..MaxReqs -> Seq(Answer)] /\ reqs \in Seq(Request)
  BY DEF TypeOK, HistoryTypes
<1>c. mMsgTask \in Seq(1..MaxReqs)
  BY DEF TypeOK, ServiceTypes
<1>e. 0 \in 0..MaxQoS /\ 1..MaxQoS \subseteq 0..MaxQoS /\ Kinds = {"TERRESTRIAL", "FUSED"}
  BY <1>a DEF Kinds
<1>d. \A S : <<>> \in Seq(S)
  OBVIOUS
<1>1. ASSUME NEW c \in Clients, newClient(c) PROVE TypeOK'
  <2>1. HistoryTypes'
    BY <1>a, <1>1 DEF newClient, TypeOK, HistoryTypes
  <2>2. ServiceTypes'
    BY <1>1 DEF newClient, TypeOK, ServiceTypes
  <2>3. FusedTypes'
    BY <1>1 DEF newClient, TypeOK, FusedTypes
  <2> QED
    BY <2>1, <2>2, <2>3 DEF TypeOK
<1>2. ASSUME NEW c \in Clients, deleteClientbyName(c) PROVE TypeOK'
  <2>1. networkSessions \in Nat /\ mTerrestrialFixTimeoutMap \in [Clients -> 0..Len(reqs)]
    BY DEF TypeOK, ServiceTypes
  <2>2. mTerrestrialFixTimeoutMap[c] # 0 => networkSessions - 1 = 0
    BY <1>2, SessionToStop DEF Pending
  <2>3. networkSessions' \in Nat
    BY <1>2, <2>1, <2>2 DEF deleteClientbyName, NetworkSessionsAfter
  <2>4. mTerrestrialFixTimeoutMap' \in [Clients -> 0..Len(reqs')] /\ armed' \subseteq 1..MaxReqs
    BY <1>2, <1>a, <2>1 DEF deleteClientbyName, TypeOK, ServiceTypes
  <2>5. mSingleFixReqMap' \in [Clients -> 0..Len(reqs')]
    BY <1>2, <1>a DEF deleteClientbyName, TypeOK, FusedTypes
  <2>6. /\ mSingleFixTrackingSessionId' \in 0..sessionsStarted
        /\ mSingleFixLastLocation' \in Locations /\ tracking' \subseteq 1..sessionsStarted
    BY <1>a, <1>2, StopTypes DEF deleteClientbyName, TypeOK, FusedTypes
  <2>7. HistoryTypes'
    BY <1>2 DEF deleteClientbyName, TypeOK, HistoryTypes
  <2>8. ServiceTypes'
    BY <2>3, <2>4, <1>2 DEF deleteClientbyName, TypeOK, ServiceTypes
  <2>9. FusedTypes'
    BY <2>5, <2>6, <1>2 DEF deleteClientbyName, TypeOK, FusedTypes
  <2> QED
    BY <2>7, <2>8, <2>9 DEF TypeOK
<1>3. ASSUME NEW u \in {0, 1}, configUserConsentTerrestrialPositioning(u) PROVE TypeOK'
  <2>1. HistoryTypes'
    BY <1>3 DEF configUserConsentTerrestrialPositioning, TypeOK, HistoryTypes
  <2>2. ServiceTypes'
    BY <1>3 DEF configUserConsentTerrestrialPositioning, TypeOK, ServiceTypes
  <2>3. FusedTypes'
    BY <1>3 DEF configUserConsentTerrestrialPositioning, TypeOK, FusedTypes
  <2> QED
    BY <2>1, <2>2, <2>3 DEF TypeOK
<1>4. ASSUME NEW c \in Clients, TerrestrialRefused(c) PROVE TypeOK'
  <2>1. Receive(c, "TERRESTRIAL", 0)
    BY <1>4 DEF TerrestrialRefused
  <2>2. reqs' \in Seq(Request) /\ Len(reqs') = Len(reqs) + 1 /\ Len(reqs') =< MaxReqs
    BY <2>1, <1>4, <1>e, ReceiveAppends
  <2>3. Len(reqs') \in 1..MaxReqs /\ 0..Len(reqs) \subseteq 0..Len(reqs')
    BY <2>2, <1>a
  <2>4. <<[error |-> "NOT_SUPPORTED", location |-> NoPosition, timer |-> 0]>>
          \in Seq(Answer)
    BY <1>a DEF Answer
  <2>5. answers' \in [1..MaxReqs -> Seq(Answer)]
    BY <2>4, <1>b, <1>d, <1>4 DEF TerrestrialRefused
  <2>6. HistoryTypes'
    BY <2>2, <2>5 DEF HistoryTypes
  <2>7. ServiceTypes'
    BY <2>3, <1>4 DEF TerrestrialRefused, TypeOK, ServiceTypes
  <2>8. FusedTypes'
    BY <2>3, <1>4 DEF TerrestrialRefused, TypeOK, FusedTypes
  <2> QED
    BY <2>6, <2>7, <2>8 DEF TypeOK
<1>5. ASSUME NEW c \in Clients, TerrestrialAccepted(c) PROVE TypeOK'
  <2>1. Receive(c, "TERRESTRIAL", 0)
    BY <1>5 DEF TerrestrialAccepted
  <2>2. reqs' \in Seq(Request) /\ Len(reqs') = Len(reqs) + 1 /\ Len(reqs') =< MaxReqs
    BY <2>1, <1>5, <1>e, ReceiveAppends
  <2>3. Len(reqs') \in 1..MaxReqs /\ 0..Len(reqs) \subseteq 0..Len(reqs')
    BY <2>2, <1>a
  <2>4. networkSessions' \in Nat
    BY <1>5 DEF TerrestrialAccepted, TypeOK, ServiceTypes
  <2>5. mTerrestrialFixTimeoutMap' \in [Clients -> 0..Len(reqs')]
    BY <1>5, <1>a, <2>2 DEF TerrestrialAccepted, TypeOK, ServiceTypes
  <2>6. armed' \subseteq 1..MaxReqs
    BY <1>5, <2>3 DEF TerrestrialAccepted, TypeOK, ServiceTypes
  <2>7. HistoryTypes'
    BY <2>2, <1>5 DEF TerrestrialAccepted, TypeOK, HistoryTypes
  <2>8. ServiceTypes'
    BY <2>4, <2>5, <2>6, <1>5 DEF TerrestrialAccepted, TypeOK, ServiceTypes
  <2>9. FusedTypes'
    BY <2>3, <1>5 DEF TerrestrialAccepted, TypeOK, FusedTypes
  <2> QED
    BY <2>7, <2>8, <2>9 DEF TypeOK
<1>6. ASSUME NEW l \in Locations, onGtpWwanTrackingCallback(l) PROVE TypeOK'
  <2>1. answers' \in [1..MaxReqs -> Seq(Answer)]
    BY <1>6, <1>a, <1>b, SendTypes DEF onGtpWwanTrackingCallback
  <2>2. networkSessions' = 0
    BY <1>6, SessionToStop DEF onGtpWwanTrackingCallback
  <2>3. HistoryTypes'
    BY <2>1, <1>6 DEF onGtpWwanTrackingCallback, TypeOK, HistoryTypes
  <2>4. ServiceTypes'
    <3>1. armed' \subseteq armed
      BY <1>6 DEF onGtpWwanTrackingCallback
    <3>2. mTerrestrialFixTimeoutMap' \in [Clients -> 0..Len(reqs')]
      BY <1>6, <1>a DEF onGtpWwanTrackingCallback
    <3>3. UNCHANGED <<mClients, mOptInTerrestrialService, mGtpWwanSsLocationApi, mMsgTask>>
      BY <1>6 DEF onGtpWwanTrackingCallback
    <3> QED
      BY <3>1, <3>2, <3>3, <2>2 DEF TypeOK, ServiceTypes
  <2>5. FusedTypes'
    BY <1>6 DEF onGtpWwanTrackingCallback, TypeOK, FusedTypes
  <2> QED
    BY <2>3, <2>4, <2>5 DEF TypeOK
<1>7. ASSUME NEW c \in Clients, NEW q \in 1..MaxQoS, SinglePosRequested(c, q)
      PROVE  TypeOK'
  <2>1. Receive(c, "FUSED", q)
    BY <1>7 DEF SinglePosRequested
  <2>2. reqs' \in Seq(Request) /\ Len(reqs') = Len(reqs) + 1 /\ Len(reqs') =< MaxReqs
    BY <2>1, <1>7, <1>e, ReceiveAppends
  <2>3. Len(reqs') \in 1..MaxReqs /\ 0..Len(reqs) \subseteq 0..Len(reqs')
    BY <2>2, <1>a
  <2>4. armed' \subseteq 1..MaxReqs
    BY <1>7, <2>3 DEF SinglePosRequested, TypeOK, ServiceTypes
  <2>5. mSingleFixReqMap' \in [Clients -> 0..Len(reqs')]
    BY <1>7, <1>a, <2>2 DEF SinglePosRequested, TypeOK, FusedTypes
  <2>6. /\ sessionsStarted' \in Nat /\ mSingleFixTrackingSessionId' \in 0..sessionsStarted'
        /\ tracking' \subseteq 1..sessionsStarted'
    <3>1. CASE mSingleFixTrackingSessionId = 0
      <4>1. /\ sessionsStarted' = sessionsStarted + 1
            /\ mSingleFixTrackingSessionId' = sessionsStarted'
            /\ tracking' = tracking \cup {sessionsStarted'}
        BY <3>1, <1>7 DEF SinglePosRequested
      <4>2. sessionsStarted \in Nat /\ tracking \subseteq 1..sessionsStarted
        BY DEF TypeOK, FusedTypes
      <4> QED
        BY <4>1, <4>2
    <3>2. CASE mSingleFixTrackingSessionId # 0
      BY <3>2, <1>7 DEF SinglePosRequested, TypeOK, FusedTypes
    <3> QED
      BY <3>1, <3>2
  <2>7. HistoryTypes'
    BY <2>2, <1>7 DEF SinglePosRequested, TypeOK, HistoryTypes
  <2>8. ServiceTypes'
    BY <2>3, <2>4, <1>7 DEF SinglePosRequested, TypeOK, ServiceTypes
  <2>9. FusedTypes'
    BY <2>5, <2>6, <1>7 DEF SinglePosRequested, TypeOK, FusedTypes
  <2> QED
    BY <2>7, <2>8, <2>9 DEF TypeOK
<1>8. ASSUME NEW c \in Clients, SinglePosCancelled(c) PROVE TypeOK'
  <2>1. Receive(c, "FUSED", 0)
    BY <1>8 DEF SinglePosCancelled
  <2>2. reqs' \in Seq(Request) /\ Len(reqs') = Len(reqs) + 1 /\ Len(reqs') =< MaxReqs
    BY <2>1, <1>8, <1>e, ReceiveAppends
  <2>3. Len(reqs') \in 1..MaxReqs /\ 0..Len(reqs) \subseteq 0..Len(reqs')
    BY <2>2, <1>a
  <2>4. armed' \subseteq 1..MaxReqs
    BY <1>8 DEF SinglePosCancelled, TypeOK, ServiceTypes
  <2>5. mSingleFixReqMap' \in [Clients -> 0..Len(reqs')]
    BY <1>8, <1>a, <2>2 DEF SinglePosCancelled, TypeOK, FusedTypes
  <2>6. /\ mSingleFixTrackingSessionId' \in 0..sessionsStarted
        /\ mSingleFixLastLocation' \in Locations /\ tracking' \subseteq 1..sessionsStarted
    BY <1>a, <1>8, StopTypes DEF SinglePosCancelled, TypeOK, FusedTypes
  <2>7. HistoryTypes'
    BY <2>2, <1>8 DEF SinglePosCancelled, TypeOK, HistoryTypes
  <2>8. ServiceTypes'
    BY <2>3, <2>4, <1>8 DEF SinglePosCancelled, TypeOK, ServiceTypes
  <2>9. FusedTypes'
    BY <2>5, <2>6, <1>8 DEF SinglePosCancelled, TypeOK, FusedTypes
  <2> QED
    BY <2>7, <2>8, <2>9 DEF TypeOK
<1>9. ASSUME NEW l \in Locations, onGnssLocationInfoCb(l) PROVE TypeOK'
  <2>1. answers' \in [1..MaxReqs -> Seq(Answer)]
    BY <1>9, <1>a, <1>b, SendTypes DEF onGnssLocationInfoCb
  <2>2. mSingleFixReqMap' \in [Clients -> 0..Len(reqs')]
    BY <1>9, <1>a DEF onGnssLocationInfoCb, TypeOK, FusedTypes
  <2>3. /\ mSingleFixTrackingSessionId' \in 0..sessionsStarted
        /\ mSingleFixLastLocation' \in Locations /\ tracking' \subseteq 1..sessionsStarted
    BY <1>a, <1>9, StopTypes DEF onGnssLocationInfoCb, TypeOK, FusedTypes
  <2>4. HistoryTypes'
    BY <2>1, <1>9 DEF onGnssLocationInfoCb, TypeOK, HistoryTypes
  <2>5. ServiceTypes'
    BY <1>a, <1>9 DEF onGnssLocationInfoCb, TypeOK, ServiceTypes
  <2>6. FusedTypes'
    BY <2>2, <2>3, <1>9 DEF onGnssLocationInfoCb, TypeOK, FusedTypes
  <2> QED
    BY <2>4, <2>5, <2>6 DEF TypeOK
<1>10. ASSUME NEW r \in 1..MaxReqs, timeOutCallback(r) PROVE TypeOK'
  <2>1. mMsgTask' \in Seq(1..MaxReqs)
    BY <1>c, <1>10 DEF timeOutCallback
  <2>2. HistoryTypes'
    BY <1>10 DEF timeOutCallback, TypeOK, HistoryTypes
  <2>3. ServiceTypes'
    BY <2>1, <1>10 DEF timeOutCallback, TypeOK, ServiceTypes
  <2>4. FusedTypes'
    BY <1>10 DEF timeOutCallback, TypeOK, FusedTypes
  <2> QED
    BY <2>2, <2>3, <2>4 DEF TypeOK
<1>11. ASSUME NEW c \in Clients, gtpFixRequestTimeout(c) PROVE TypeOK'
  <2>1. mMsgTask # <<>> /\ mMsgTask' = Tail(mMsgTask)
    BY <1>11 DEF gtpFixRequestTimeout, Due
  <2>2. Head(mMsgTask) \in Nat /\ mMsgTask' \in Seq(1..MaxReqs)
    BY <2>1, <1>c, <1>a
  <2>3. answers' \in [1..MaxReqs -> Seq(Answer)]
    <3>1. Send({mTerrestrialFixTimeoutMap[c]}, "TIMEOUT", NoPosition, Head(mMsgTask))
            \in [1..MaxReqs -> Seq(Answer)]
      BY <2>2, <1>a, <1>b, SendTypes
    <3> QED
      BY <3>1, <1>11, <1>b DEF gtpFixRequestTimeout
  <2>4. networkSessions \in Nat /\ mTerrestrialFixTimeoutMap \in [Clients -> 0..Len(reqs)]
    BY DEF TypeOK, ServiceTypes
  <2>5. mTerrestrialFixTimeoutMap[c] # 0 => networkSessions - 1 = 0
    BY <1>11, SessionToStop DEF Pending
  <2>6. networkSessions' \in Nat
    BY <1>11, <2>4, <2>5 DEF gtpFixRequestTimeout, NetworkSessionsAfter
  <2>7. mTerrestrialFixTimeoutMap' \in [Clients -> 0..Len(reqs')] /\ armed' \subseteq armed
    BY <1>11, <1>a, <2>4 DEF gtpFixRequestTimeout
  <2>8. HistoryTypes'
    BY <2>3, <1>11 DEF gtpFixRequestTimeout, TypeOK, HistoryTypes
  <2>9. ServiceTypes'
    BY <2>2, <2>6, <2>7, <1>11 DEF gtpFixRequestTimeout, TypeOK, ServiceTypes
  <2>10. FusedTypes'
    BY <1>11 DEF gtpFixRequestTimeout, TypeOK, FusedTypes
  <2> QED
    BY <2>8, <2>9, <2>10 DEF TypeOK
<1>12. ASSUME NEW c \in Clients, singleFixRequestTimeout(c) PROVE TypeOK'
  <2>1. mMsgTask # <<>> /\ mMsgTask' = Tail(mMsgTask)
    BY <1>12 DEF singleFixRequestTimeout, Due
  <2>2. Head(mMsgTask) \in Nat /\ mMsgTask' \in Seq(1..MaxReqs)
    BY <2>1, <1>c, <1>a
  <2>3. mSingleFixLastLocation \in Locations
    BY DEF TypeOK, FusedTypes
  <2>4. answers' \in [1..MaxReqs -> Seq(Answer)]
    <3>1. Send({mSingleFixReqMap[c]}, "TIMEOUT", mSingleFixLastLocation, Head(mMsgTask))
            \in [1..MaxReqs -> Seq(Answer)]
      BY <2>2, <2>3, <1>b, SendTypes
    <3> QED
      BY <3>1, <1>12, <1>b DEF singleFixRequestTimeout
  <2>5. mSingleFixReqMap' \in [Clients -> 0..Len(reqs')]
    BY <1>12, <1>a DEF singleFixRequestTimeout, TypeOK, FusedTypes
  <2>6. /\ mSingleFixTrackingSessionId' \in 0..sessionsStarted
        /\ mSingleFixLastLocation' \in Locations /\ tracking' \subseteq 1..sessionsStarted
    BY <1>a, <1>12, StopTypes DEF singleFixRequestTimeout, TypeOK, FusedTypes
  <2>7. HistoryTypes'
    BY <2>4, <1>12 DEF singleFixRequestTimeout, TypeOK, HistoryTypes
  <2>8. ServiceTypes'
    BY <2>2, <1>a, <1>12 DEF singleFixRequestTimeout, TypeOK, ServiceTypes
  <2>9. FusedTypes'
    BY <2>5, <2>6, <1>12 DEF singleFixRequestTimeout, TypeOK, FusedTypes
  <2> QED
    BY <2>7, <2>8, <2>9 DEF TypeOK
<1> QED
  BY StepCases, <1>1, <1>2, <1>3, <1>4, <1>5, <1>6, <1>7, <1>8, <1>9, <1>10, <1>11, <1>12

\* Entries are filed under their own client.
LEMMA OwnStep ==
  ASSUME TypeOK, MapsAreOwn, Next
  PROVE  MapsAreOwn'
<1>1. CASE \E c \in Clients : newClient(c)
  BY <1>1 DEF TypeOK, ServiceTypes, FusedTypes, HistoryTypes, MapsAreOwn, newClient, consentVars, apiVars, fusedVars
<1>2. CASE \E c \in Clients : deleteClientbyName(c)
  BY <1>2 DEF TypeOK, ServiceTypes, FusedTypes, HistoryTypes, MapsAreOwn, deleteClientbyName, NetworkSessionsAfter, stopTrackingSessionForSingleFixes, consentVars, apiVars, fusedVars
<1>3. CASE \E u \in {0, 1} : configUserConsentTerrestrialPositioning(u)
  BY <1>3 DEF TypeOK, ServiceTypes, FusedTypes, HistoryTypes, MapsAreOwn, configUserConsentTerrestrialPositioning, consentVars, apiVars, fusedVars
<1>4. CASE \E c \in Clients : TerrestrialRefused(c)
  BY <1>4 DEF TypeOK, ServiceTypes, FusedTypes, HistoryTypes, MapsAreOwn, TerrestrialRefused, Receive, consentVars, apiVars, fusedVars
<1>5. CASE \E c \in Clients : TerrestrialAccepted(c)
  BY <1>5 DEF TypeOK, ServiceTypes, FusedTypes, HistoryTypes, MapsAreOwn, TerrestrialAccepted, Receive, consentVars, apiVars, fusedVars
<1>6. CASE \E l \in Locations : onGtpWwanTrackingCallback(l)
  BY <1>6 DEF TypeOK, ServiceTypes, FusedTypes, HistoryTypes, MapsAreOwn, onGtpWwanTrackingCallback, Send, consentVars, apiVars, fusedVars
<1>7. CASE \E c \in Clients, q \in 1..MaxQoS : SinglePosRequested(c, q)
  BY <1>7 DEF TypeOK, ServiceTypes, FusedTypes, HistoryTypes, MapsAreOwn, SinglePosRequested, Receive, consentVars, apiVars, fusedVars
<1>8. CASE \E c \in Clients : SinglePosCancelled(c)
  BY <1>8 DEF TypeOK, ServiceTypes, FusedTypes, HistoryTypes, MapsAreOwn, SinglePosCancelled, Receive, stopTrackingSessionForSingleFixes, consentVars, apiVars, fusedVars
<1>9. CASE \E l \in Locations : onGnssLocationInfoCb(l)
  BY <1>9 DEF TypeOK, ServiceTypes, FusedTypes, HistoryTypes, MapsAreOwn, onGnssLocationInfoCb, Send, stopTrackingSessionForSingleFixes, Met, consentVars, apiVars, fusedVars
<1>10. CASE \E r \in 1..MaxReqs : timeOutCallback(r)
  BY <1>10 DEF TypeOK, ServiceTypes, FusedTypes, HistoryTypes, MapsAreOwn, timeOutCallback, consentVars, apiVars, fusedVars
<1>11. CASE \E c \in Clients : gtpFixRequestTimeout(c)
  BY <1>11 DEF TypeOK, ServiceTypes, FusedTypes, HistoryTypes, MapsAreOwn, gtpFixRequestTimeout, Due, Send, NetworkSessionsAfter, consentVars, apiVars, fusedVars
<1>12. CASE \E c \in Clients : singleFixRequestTimeout(c)
  BY <1>12 DEF TypeOK, ServiceTypes, FusedTypes, HistoryTypes, MapsAreOwn, singleFixRequestTimeout, Due, Send, stopTrackingSessionForSingleFixes, consentVars, apiVars, fusedVars
<1> QED
  BY StepCases, <1>1, <1>2, <1>3, <1>4, <1>5, <1>6, <1>7, <1>8, <1>9, <1>10, <1>11, <1>12

\* The network session follows the map.
LEMMA NetworkStep ==
  ASSUME TypeOK, NetworkSessionIsExact, ConsentHasApi, Next
  PROVE  NetworkSessionIsExact' /\ ConsentHasApi'
<1>1. CASE \E c \in Clients : newClient(c)
  BY <1>1 DEF TypeOK, ServiceTypes, NetworkSessionIsExact, ConsentHasApi, Pending, newClient, consentVars, apiVars, fusedVars
<1>2. CASE \E c \in Clients : deleteClientbyName(c)
  BY <1>2 DEF TypeOK, ServiceTypes, NetworkSessionIsExact, ConsentHasApi, Pending, deleteClientbyName, NetworkSessionsAfter, stopTrackingSessionForSingleFixes, consentVars, apiVars, fusedVars
<1>3. CASE \E u \in {0, 1} : configUserConsentTerrestrialPositioning(u)
  BY <1>3 DEF TypeOK, ServiceTypes, NetworkSessionIsExact, ConsentHasApi, Pending, configUserConsentTerrestrialPositioning, consentVars, apiVars, fusedVars
<1>4. CASE \E c \in Clients : TerrestrialRefused(c)
  BY <1>4 DEF TypeOK, ServiceTypes, NetworkSessionIsExact, ConsentHasApi, Pending, TerrestrialRefused, Receive, consentVars, apiVars, fusedVars
<1>5. ASSUME NEW c \in Clients, TerrestrialAccepted(c)
      PROVE  NetworkSessionIsExact' /\ ConsentHasApi'
  <2>1. mGtpWwanSsLocationApi' /\ ConsentHasApi'
    BY <1>5 DEF ConsentHasApi, TerrestrialAccepted, consentVars
  <2>2. Len(reqs') # 0 /\ mTerrestrialFixTimeoutMap'[c] = Len(reqs')
    BY <1>5 DEF TypeOK, ServiceTypes, HistoryTypes, TerrestrialAccepted, Receive
  <2>3. networkSessions' = 1
    BY <1>5 DEF TypeOK, ServiceTypes, NetworkSessionIsExact, TerrestrialAccepted
  <2>4. c \in Pending(mTerrestrialFixTimeoutMap)'
    BY <1>5, <2>2 DEF Pending
  <2> QED
    BY <2>1, <2>3, <2>4 DEF NetworkSessionIsExact
<1>6. CASE \E l \in Locations : onGtpWwanTrackingCallback(l)
  BY <1>6 DEF TypeOK, ServiceTypes, NetworkSessionIsExact, ConsentHasApi, Pending, onGtpWwanTrackingCallback, Send, consentVars, apiVars, fusedVars
<1>7. CASE \E c \in Clients, q \in 1..MaxQoS : SinglePosRequested(c, q)
  BY <1>7 DEF TypeOK, ServiceTypes, NetworkSessionIsExact, ConsentHasApi, Pending, SinglePosRequested, Receive, consentVars, apiVars, fusedVars
<1>8. CASE \E c \in Clients : SinglePosCancelled(c)
  BY <1>8 DEF TypeOK, ServiceTypes, NetworkSessionIsExact, ConsentHasApi, Pending, SinglePosCancelled, Receive, stopTrackingSessionForSingleFixes, consentVars, apiVars, fusedVars
<1>9. CASE \E l \in Locations : onGnssLocationInfoCb(l)
  BY <1>9 DEF TypeOK, ServiceTypes, NetworkSessionIsExact, ConsentHasApi, Pending, onGnssLocationInfoCb, Send, stopTrackingSessionForSingleFixes, Met, consentVars, apiVars, fusedVars
<1>10. CASE \E r \in 1..MaxReqs : timeOutCallback(r)
  BY <1>10 DEF TypeOK, ServiceTypes, NetworkSessionIsExact, ConsentHasApi, Pending, timeOutCallback, consentVars, apiVars, fusedVars
<1>11. CASE \E c \in Clients : gtpFixRequestTimeout(c)
  BY <1>11 DEF TypeOK, ServiceTypes, NetworkSessionIsExact, ConsentHasApi, Pending, gtpFixRequestTimeout, Due, Send, NetworkSessionsAfter, consentVars, apiVars, fusedVars
<1>12. CASE \E c \in Clients : singleFixRequestTimeout(c)
  BY <1>12 DEF TypeOK, ServiceTypes, NetworkSessionIsExact, ConsentHasApi, Pending, singleFixRequestTimeout, Due, Send, stopTrackingSessionForSingleFixes, consentVars, apiVars, fusedVars
<1> QED
  BY StepCases, <1>1, <1>2, <1>3, <1>4, <1>5, <1>6, <1>7, <1>8, <1>9, <1>10, <1>11, <1>12

\* The tracking session follows the map.
LEMMA TrackingStep ==
  ASSUME TypeOK, TrackingSessionIsExact, Next
  PROVE  TrackingSessionIsExact'
<1>1. CASE \E c \in Clients : newClient(c)
  BY <1>1 DEF TypeOK, FusedTypes, HistoryTypes, TrackingSessionIsExact, Pending, newClient, consentVars, apiVars, fusedVars
<1>2. CASE \E c \in Clients : deleteClientbyName(c)
  BY <1>2 DEF TypeOK, FusedTypes, HistoryTypes, TrackingSessionIsExact, Pending, deleteClientbyName, NetworkSessionsAfter, stopTrackingSessionForSingleFixes, consentVars, apiVars, fusedVars
<1>3. CASE \E u \in {0, 1} : configUserConsentTerrestrialPositioning(u)
  BY <1>3 DEF TypeOK, FusedTypes, HistoryTypes, TrackingSessionIsExact, Pending, configUserConsentTerrestrialPositioning, consentVars, apiVars, fusedVars
<1>4. CASE \E c \in Clients : TerrestrialRefused(c)
  BY <1>4 DEF TypeOK, FusedTypes, HistoryTypes, TrackingSessionIsExact, Pending, TerrestrialRefused, Receive, consentVars, apiVars, fusedVars
<1>5. CASE \E c \in Clients : TerrestrialAccepted(c)
  BY <1>5 DEF TypeOK, FusedTypes, HistoryTypes, TrackingSessionIsExact, Pending, TerrestrialAccepted, Receive, consentVars, apiVars, fusedVars
<1>6. CASE \E l \in Locations : onGtpWwanTrackingCallback(l)
  BY <1>6 DEF TypeOK, FusedTypes, HistoryTypes, TrackingSessionIsExact, Pending, onGtpWwanTrackingCallback, Send, consentVars, apiVars, fusedVars
<1>7. CASE \E c \in Clients, q \in 1..MaxQoS : SinglePosRequested(c, q)
  BY <1>7 DEF TypeOK, FusedTypes, HistoryTypes, TrackingSessionIsExact, Pending, SinglePosRequested, Receive, consentVars, apiVars, fusedVars
<1>8. CASE \E c \in Clients : SinglePosCancelled(c)
  BY <1>8 DEF TypeOK, FusedTypes, HistoryTypes, TrackingSessionIsExact, Pending, SinglePosCancelled, Receive, stopTrackingSessionForSingleFixes, consentVars, apiVars, fusedVars
<1>9. CASE \E l \in Locations : onGnssLocationInfoCb(l)
  BY <1>9 DEF TypeOK, FusedTypes, HistoryTypes, TrackingSessionIsExact, Pending, onGnssLocationInfoCb, Send, stopTrackingSessionForSingleFixes, Met, consentVars, apiVars, fusedVars
<1>10. CASE \E r \in 1..MaxReqs : timeOutCallback(r)
  BY <1>10 DEF TypeOK, FusedTypes, HistoryTypes, TrackingSessionIsExact, Pending, timeOutCallback, consentVars, apiVars, fusedVars
<1>11. CASE \E c \in Clients : gtpFixRequestTimeout(c)
  BY <1>11 DEF TypeOK, FusedTypes, HistoryTypes, TrackingSessionIsExact, Pending, gtpFixRequestTimeout, Due, Send, NetworkSessionsAfter, consentVars, apiVars, fusedVars
<1>12. CASE \E c \in Clients : singleFixRequestTimeout(c)
  BY <1>12 DEF TypeOK, FusedTypes, HistoryTypes, TrackingSessionIsExact, Pending, singleFixRequestTimeout, Due, Send, stopTrackingSessionForSingleFixes, consentVars, apiVars, fusedVars
<1> QED
  BY StepCases, <1>1, <1>2, <1>3, <1>4, <1>5, <1>6, <1>7, <1>8, <1>9, <1>10, <1>11, <1>12

\* The last location is cleared with the last request.
LEMMA LastStep ==
  ASSUME TypeOK, LastLocationIsOfThisSession, Next
  PROVE  LastLocationIsOfThisSession'
<1>1. CASE \E c \in Clients : newClient(c)
  BY <1>1 DEF TypeOK, FusedTypes, HistoryTypes, LastLocationIsOfThisSession, Pending, newClient, consentVars, apiVars, fusedVars
<1>2. CASE \E c \in Clients : deleteClientbyName(c)
  BY <1>2 DEF TypeOK, FusedTypes, HistoryTypes, LastLocationIsOfThisSession, Pending, deleteClientbyName, NetworkSessionsAfter, stopTrackingSessionForSingleFixes, consentVars, apiVars, fusedVars
<1>3. CASE \E u \in {0, 1} : configUserConsentTerrestrialPositioning(u)
  BY <1>3 DEF TypeOK, FusedTypes, HistoryTypes, LastLocationIsOfThisSession, Pending, configUserConsentTerrestrialPositioning, consentVars, apiVars, fusedVars
<1>4. CASE \E c \in Clients : TerrestrialRefused(c)
  BY <1>4 DEF TypeOK, FusedTypes, HistoryTypes, LastLocationIsOfThisSession, Pending, TerrestrialRefused, Receive, consentVars, apiVars, fusedVars
<1>5. CASE \E c \in Clients : TerrestrialAccepted(c)
  BY <1>5 DEF TypeOK, FusedTypes, HistoryTypes, LastLocationIsOfThisSession, Pending, TerrestrialAccepted, Receive, consentVars, apiVars, fusedVars
<1>6. CASE \E l \in Locations : onGtpWwanTrackingCallback(l)
  BY <1>6 DEF TypeOK, FusedTypes, HistoryTypes, LastLocationIsOfThisSession, Pending, onGtpWwanTrackingCallback, Send, consentVars, apiVars, fusedVars
<1>7. CASE \E c \in Clients, q \in 1..MaxQoS : SinglePosRequested(c, q)
  BY <1>7 DEF TypeOK, FusedTypes, HistoryTypes, LastLocationIsOfThisSession, Pending, SinglePosRequested, Receive, consentVars, apiVars, fusedVars
<1>8. CASE \E c \in Clients : SinglePosCancelled(c)
  BY <1>8 DEF TypeOK, FusedTypes, HistoryTypes, LastLocationIsOfThisSession, Pending, SinglePosCancelled, Receive, stopTrackingSessionForSingleFixes, consentVars, apiVars, fusedVars
<1>9. CASE \E l \in Locations : onGnssLocationInfoCb(l)
  BY <1>9 DEF TypeOK, FusedTypes, HistoryTypes, LastLocationIsOfThisSession, Pending, onGnssLocationInfoCb, Send, stopTrackingSessionForSingleFixes, Met, consentVars, apiVars, fusedVars
<1>10. CASE \E r \in 1..MaxReqs : timeOutCallback(r)
  BY <1>10 DEF TypeOK, FusedTypes, HistoryTypes, LastLocationIsOfThisSession, Pending, timeOutCallback, consentVars, apiVars, fusedVars
<1>11. CASE \E c \in Clients : gtpFixRequestTimeout(c)
  BY <1>11 DEF TypeOK, FusedTypes, HistoryTypes, LastLocationIsOfThisSession, Pending, gtpFixRequestTimeout, Due, Send, NetworkSessionsAfter, consentVars, apiVars, fusedVars
<1>12. CASE \E c \in Clients : singleFixRequestTimeout(c)
  BY <1>12 DEF TypeOK, FusedTypes, HistoryTypes, LastLocationIsOfThisSession, Pending, singleFixRequestTimeout, Due, Send, stopTrackingSessionForSingleFixes, consentVars, apiVars, fusedVars
<1> QED
  BY StepCases, <1>1, <1>2, <1>3, <1>4, <1>5, <1>6, <1>7, <1>8, <1>9, <1>10, <1>11, <1>12

\* Two entries never share a request.
LEMMA EntriesDiffer ==
  ASSUME MapsAreOwn
  PROVE  \A c, d \in Clients :
            /\ mTerrestrialFixTimeoutMap[c] # 0 =>
                 /\ mTerrestrialFixTimeoutMap[c] # mSingleFixReqMap[d]
                 /\ c # d => mTerrestrialFixTimeoutMap[c] # mTerrestrialFixTimeoutMap[d]
            /\ mSingleFixReqMap[c] # 0 /\ c # d =>
                 mSingleFixReqMap[c] # mSingleFixReqMap[d]
BY DEF MapsAreOwn

\* A request stays timed if neither its timer nor a message is removed.
LEMMA TimedStays ==
  ASSUME NEW r, Timed(r), mMsgTask' = mMsgTask, r \in armed => r \in armed'
  PROVE  Timed(r)'
BY DEF Timed

\* A timer that fires leaves a message behind (timeOutCallback).
LEMMA TimedWhenFired ==
  ASSUME NEW r, Timed(r), NEW t \in 1..MaxReqs, timeOutCallback(t),
         mMsgTask \in Seq(1..MaxReqs)
  PROVE  Timed(r)'
<1>1. mMsgTask' = Append(mMsgTask, t) /\ armed' = armed \ {t}
  BY DEF timeOutCallback
<1>2. /\ Len(mMsgTask') = Len(mMsgTask) + 1 /\ Len(mMsgTask) \in Nat
      /\ mMsgTask'[Len(mMsgTask) + 1] = t
  BY <1>1
<1>3. CASE r = t
  BY <1>2, <1>3 DEF Timed
<1>4. CASE r # t /\ r \in armed
  BY <1>1, <1>4 DEF Timed
<1>5. CASE \E i \in 1..Len(mMsgTask) : mMsgTask[i] = r
  BY <1>1, <1>5, AppendKeeps DEF Timed
<1> QED
  BY <1>3, <1>4, <1>5 DEF Timed

\* A message taken from the queue is the only one that is lost.
LEMMA TimedWhenTaken ==
  ASSUME NEW r, Timed(r), mMsgTask \in Seq(1..MaxReqs), mMsgTask # <<>>,
         mMsgTask' = Tail(mMsgTask), r # Head(mMsgTask), r \in armed => r \in armed'
  PROVE  Timed(r)'
<1>1. CASE \E i \in 1..Len(mMsgTask) : mMsgTask[i] = r
  BY <1>1, TailKeeps DEF Timed
<1> QED
  BY <1>1 DEF Timed

\* What waits stays timed, whichever entry is added or erased.
LEMMA TimedStep ==
  ASSUME TypeOK, MapsAreOwn, RequestIsTimed, Next
  PROVE  RequestIsTimed'
<1> USE DEF consentVars, apiVars, fusedVars
<1>a. mMsgTask \in Seq(1..MaxReqs) /\ Len(reqs) \in Nat
  BY DEF TypeOK, ServiceTypes, HistoryTypes
<1>b. /\ mTerrestrialFixTimeoutMap \in [Clients -> 0..Len(reqs)]
      /\ mSingleFixReqMap \in [Clients -> 0..Len(reqs)]
  BY DEF TypeOK, ServiceTypes, FusedTypes
<1> SUFFICES ASSUME NEW d \in Clients
             PROVE  /\ mTerrestrialFixTimeoutMap'[d] # 0 =>
                          Timed(mTerrestrialFixTimeoutMap[d])'
                    /\ mSingleFixReqMap'[d] # 0 => Timed(mSingleFixReqMap[d])'
  BY DEF RequestIsTimed
<1> DEFINE Goal == /\ mTerrestrialFixTimeoutMap'[d] # 0 =>
                         Timed(mTerrestrialFixTimeoutMap[d])'
                   /\ mSingleFixReqMap'[d] # 0 => Timed(mSingleFixReqMap[d])'
<1>c. /\ mTerrestrialFixTimeoutMap[d] # 0 => Timed(mTerrestrialFixTimeoutMap[d])
      /\ mSingleFixReqMap[d] # 0 => Timed(mSingleFixReqMap[d])
  BY DEF RequestIsTimed
<1>1. ASSUME NEW c \in Clients, newClient(c) PROVE Goal
  <2>1. /\ mTerrestrialFixTimeoutMap' = mTerrestrialFixTimeoutMap
        /\ mSingleFixReqMap' = mSingleFixReqMap
        /\ armed' = armed /\ mMsgTask' = mMsgTask
    BY <1>1 DEF newClient
  <2> QED
    BY <1>c, <2>1, TimedStays
<1>2. ASSUME NEW c \in Clients, deleteClientbyName(c) PROVE Goal
  <2>1. /\ mMsgTask' = mMsgTask
        /\ mTerrestrialFixTimeoutMap'[c] = 0 /\ mSingleFixReqMap'[c] = 0
        /\ d # c => mTerrestrialFixTimeoutMap'[d] = mTerrestrialFixTimeoutMap[d] /\ mSingleFixReqMap'[d] = mSingleFixReqMap[d]
        /\ armed' = armed \ {mTerrestrialFixTimeoutMap[c], mSingleFixReqMap[c]}
    BY <1>2, <1>b DEF deleteClientbyName
  <2> QED
    BY <1>2, <1>c, <2>1, TimedStays, EntriesDiffer
<1>3. ASSUME NEW u \in {0, 1}, configUserConsentTerrestrialPositioning(u) PROVE Goal
  <2>1. /\ mTerrestrialFixTimeoutMap' = mTerrestrialFixTimeoutMap
        /\ mSingleFixReqMap' = mSingleFixReqMap
        /\ armed' = armed /\ mMsgTask' = mMsgTask
    BY <1>3 DEF configUserConsentTerrestrialPositioning
  <2> QED
    BY <1>c, <2>1, TimedStays
<1>4. ASSUME NEW c \in Clients, TerrestrialRefused(c) PROVE Goal
  <2>1. /\ mTerrestrialFixTimeoutMap' = mTerrestrialFixTimeoutMap
        /\ mSingleFixReqMap' = mSingleFixReqMap
        /\ armed' = armed /\ mMsgTask' = mMsgTask
    BY <1>4 DEF TerrestrialRefused
  <2> QED
    BY <1>c, <2>1, TimedStays
<1>5. ASSUME NEW c \in Clients, TerrestrialAccepted(c) PROVE Goal
  <2>1. /\ mMsgTask' = mMsgTask /\ mSingleFixReqMap' = mSingleFixReqMap
        /\ mTerrestrialFixTimeoutMap'[c] = Len(reqs') /\ Len(reqs') \in armed'
        /\ d # c => mTerrestrialFixTimeoutMap'[d] = mTerrestrialFixTimeoutMap[d]
        /\ armed \ {mTerrestrialFixTimeoutMap[c]} \subseteq armed'
    BY <1>5, <1>b DEF TerrestrialAccepted
  <2>2. mSingleFixReqMap'[d] # 0 => Timed(mSingleFixReqMap[d])'
    BY <1>5, <1>c, <2>1, TimedStays, EntriesDiffer
  <2>3. mTerrestrialFixTimeoutMap'[d] # 0 => Timed(mTerrestrialFixTimeoutMap[d])'
    <3>1. CASE d = c
      BY <2>1, <3>1 DEF Timed
    <3>2. CASE d # c
      BY <1>5, <1>c, <2>1, <3>2, TimedStays, EntriesDiffer
    <3> QED
      BY <3>1, <3>2
  <2> QED
    BY <2>2, <2>3
<1>6. ASSUME NEW l \in Locations, onGtpWwanTrackingCallback(l) PROVE Goal
  <2>1. /\ mMsgTask' = mMsgTask /\ mSingleFixReqMap' = mSingleFixReqMap
        /\ mTerrestrialFixTimeoutMap'[d] = 0
        /\ \A r \in armed : (\A c \in Clients : r # mTerrestrialFixTimeoutMap[c]) => r \in armed'
    BY <1>6 DEF onGtpWwanTrackingCallback
  <2>2. mSingleFixReqMap[d] # 0 => \A c \in Clients : mSingleFixReqMap[d] # mTerrestrialFixTimeoutMap[c]
    BY EntriesDiffer
  <2> QED
    BY <1>c, <2>1, <2>2, TimedStays
<1>7. ASSUME NEW c \in Clients, NEW q \in 1..MaxQoS, SinglePosRequested(c, q) PROVE Goal
  <2>1. /\ mMsgTask' = mMsgTask /\ mTerrestrialFixTimeoutMap' = mTerrestrialFixTimeoutMap
        /\ mSingleFixReqMap'[c] = Len(reqs') /\ Len(reqs') \in armed'
        /\ d # c => mSingleFixReqMap'[d] = mSingleFixReqMap[d]
        /\ armed \ {mSingleFixReqMap[c]} \subseteq armed'
    BY <1>7, <1>b DEF SinglePosRequested
  <2>2. mTerrestrialFixTimeoutMap'[d] # 0 => Timed(mTerrestrialFixTimeoutMap[d])'
    BY <1>7, <1>c, <2>1, TimedStays, EntriesDiffer
  <2>3. mSingleFixReqMap'[d] # 0 => Timed(mSingleFixReqMap[d])'
    <3>1. CASE d = c
      BY <2>1, <3>1 DEF Timed
    <3>2. CASE d # c
      BY <1>7, <1>c, <2>1, <3>2, TimedStays, EntriesDiffer
    <3> QED
      BY <3>1, <3>2
  <2> QED
    BY <2>2, <2>3
<1>8. ASSUME NEW c \in Clients, SinglePosCancelled(c) PROVE Goal
  <2>1. /\ mMsgTask' = mMsgTask /\ mTerrestrialFixTimeoutMap' = mTerrestrialFixTimeoutMap
        /\ mSingleFixReqMap'[c] = 0
        /\ d # c => mSingleFixReqMap'[d] = mSingleFixReqMap[d]
        /\ armed' = armed \ {mSingleFixReqMap[c]}
    BY <1>8, <1>b DEF SinglePosCancelled
  <2> QED
    BY <1>8, <1>c, <2>1, TimedStays, EntriesDiffer
<1>9. ASSUME NEW l \in Locations, onGnssLocationInfoCb(l) PROVE Goal
  <2>1. /\ mMsgTask' = mMsgTask /\ mTerrestrialFixTimeoutMap' = mTerrestrialFixTimeoutMap
        /\ mSingleFixReqMap'[d] # 0 => d \notin Met(l) /\ mSingleFixReqMap'[d] = mSingleFixReqMap[d]
        /\ \A r \in armed : (\A c \in Met(l) : r # mSingleFixReqMap[c]) => r \in armed'
    BY <1>9 DEF onGnssLocationInfoCb
  <2>2. \A c \in Met(l) : c \in Clients
    BY DEF Met, Pending
  <2>3. mTerrestrialFixTimeoutMap[d] # 0 => \A c \in Met(l) : mTerrestrialFixTimeoutMap[d] # mSingleFixReqMap[c]
    BY <2>2, EntriesDiffer
  <2>4. mSingleFixReqMap'[d] # 0 => \A c \in Met(l) : mSingleFixReqMap[d] # mSingleFixReqMap[c]
    BY <2>1, <2>2, EntriesDiffer
  <2> QED
    BY <1>c, <2>1, <2>3, <2>4, TimedStays
<1>10. ASSUME NEW r \in 1..MaxReqs, timeOutCallback(r) PROVE Goal
  <2>1. /\ mTerrestrialFixTimeoutMap' = mTerrestrialFixTimeoutMap
        /\ mSingleFixReqMap' = mSingleFixReqMap
    BY <1>10 DEF timeOutCallback
  <2> QED
    BY <1>10, <1>a, <1>c, <2>1, TimedWhenFired
<1>11. ASSUME NEW c \in Clients, gtpFixRequestTimeout(c) PROVE Goal
  <2>1. /\ mMsgTask # <<>> /\ mMsgTask' = Tail(mMsgTask)
        /\ reqs[Head(mMsgTask)].client = c /\ reqs[Head(mMsgTask)].kind = "TERRESTRIAL"
    BY <1>11 DEF gtpFixRequestTimeout, Due
  <2>2. /\ mSingleFixReqMap' = mSingleFixReqMap
        /\ mTerrestrialFixTimeoutMap'[c] = 0
        /\ d # c => mTerrestrialFixTimeoutMap'[d] = mTerrestrialFixTimeoutMap[d]
        /\ armed' = armed \/ armed' = armed \ {mTerrestrialFixTimeoutMap[c]}
    BY <1>11, <1>b DEF gtpFixRequestTimeout
  <2>3. mSingleFixReqMap[d] # 0 => mSingleFixReqMap[d] # Head(mMsgTask)
    BY <2>1 DEF MapsAreOwn
  <2>4. mTerrestrialFixTimeoutMap[d] # 0 /\ d # c => mTerrestrialFixTimeoutMap[d] # Head(mMsgTask)
    BY <2>1 DEF MapsAreOwn
  <2>5. mSingleFixReqMap'[d] # 0 => Timed(mSingleFixReqMap[d])'
    BY <1>11, <1>a, <1>c, <2>1, <2>2, <2>3, EntriesDiffer, TimedWhenTaken
  <2>6. mTerrestrialFixTimeoutMap'[d] # 0 => Timed(mTerrestrialFixTimeoutMap[d])'
    BY <1>11, <1>a, <1>c, <2>1, <2>2, <2>4, EntriesDiffer, TimedWhenTaken
  <2> QED
    BY <2>5, <2>6
<1>12. ASSUME NEW c \in Clients, singleFixRequestTimeout(c) PROVE Goal
  <2>1. /\ mMsgTask # <<>> /\ mMsgTask' = Tail(mMsgTask)
        /\ reqs[Head(mMsgTask)].client = c /\ reqs[Head(mMsgTask)].kind = "FUSED"
    BY <1>12 DEF singleFixRequestTimeout, Due
  <2>2. /\ mTerrestrialFixTimeoutMap' = mTerrestrialFixTimeoutMap
        /\ mSingleFixReqMap'[c] = 0
        /\ d # c => mSingleFixReqMap'[d] = mSingleFixReqMap[d]
        /\ armed' = armed \/ armed' = armed \ {mSingleFixReqMap[c]}
    BY <1>12, <1>b DEF singleFixRequestTimeout
  <2>3. mTerrestrialFixTimeoutMap[d] # 0 => mTerrestrialFixTimeoutMap[d] # Head(mMsgTask)
    BY <2>1 DEF MapsAreOwn
  <2>4. mSingleFixReqMap[d] # 0 /\ d # c => mSingleFixReqMap[d] # Head(mMsgTask)
    BY <2>1 DEF MapsAreOwn
  <2>5. mTerrestrialFixTimeoutMap'[d] # 0 => Timed(mTerrestrialFixTimeoutMap[d])'
    BY <1>12, <1>a, <1>c, <2>1, <2>2, <2>3, EntriesDiffer, TimedWhenTaken
  <2>6. mSingleFixReqMap'[d] # 0 => Timed(mSingleFixReqMap[d])'
    BY <1>12, <1>a, <1>c, <2>1, <2>2, <2>4, EntriesDiffer, TimedWhenTaken
  <2> QED
    BY <2>5, <2>6
<1> QED
  BY StepCases, <1>1, <1>2, <1>3, <1>4, <1>5, <1>6, <1>7, <1>8, <1>9, <1>10, <1>11, <1>12

\* A request that waits has arrived.
LEMMA WaitingHasArrived ==
  ASSUME TypeOK
  PROVE  /\ Len(reqs) \in Nat /\ Len(reqs) =< MaxReqs /\ MaxReqs \in Nat
         /\ \A r : Waits(r) => r \in 0..Len(reqs)
BY BoundsAssumption DEF TypeOK, ServiceTypes, FusedTypes, HistoryTypes, Waits

\* Nothing is sent and nothing new waits.
LEMMA AnsweredStays ==
  ASSUME AnsweredAtMostOnce, NothingSentAhead, answers' = answers, reqs' = reqs,
         \A r \in 1..Len(reqs) : Waits(r)' => Waits(r)
  PROVE  AnsweredAtMostOnce' /\ NothingSentAhead'
BY DEF AnsweredAtMostOnce, NothingSentAhead

\* One request arrives, and nothing is sent.
LEMMA AnsweredAfterReceive ==
  ASSUME TypeOK, AnsweredAtMostOnce, NothingSentAhead, answers' = answers,
         Len(reqs') = Len(reqs) + 1, Len(reqs') =< MaxReqs,
         \A r \in 1..Len(reqs) : Waits(r)' => Waits(r)
  PROVE  AnsweredAtMostOnce' /\ NothingSentAhead'
<1>1. Len(reqs) \in Nat /\ MaxReqs \in Nat
  BY WaitingHasArrived
<1>2. \A r \in 1..Len(reqs') : r \in 1..Len(reqs) \/ (r > Len(reqs) /\ r \in 1..MaxReqs)
  BY <1>1
<1>3. \A r \in 1..MaxReqs : Len(answers[r]) \in Nat
  BY DEF TypeOK, HistoryTypes
<1>4. AnsweredAtMostOnce'
  BY <1>2, <1>3 DEF AnsweredAtMostOnce, NothingSentAhead
<1> QED
  BY <1>1, <1>4 DEF NothingSentAhead

\* What is sent an answer has waited, and waits no longer.
LEMMA AnsweredAfterSend ==
  ASSUME TypeOK, AnsweredAtMostOnce, NothingSentAhead,
         NEW rs, NEW e \in {"SUCCESS", "TIMEOUT", "NOT_SUPPORTED"},
         NEW l \in Locations, NEW t \in Nat,
         answers' = Send(rs, e, l, t), reqs' = reqs,
         \A r \in rs : Waits(r) /\ ~Waits(r)',
         \A r \in 1..Len(reqs) : Waits(r)' => Waits(r)
  PROVE  AnsweredAtMostOnce' /\ NothingSentAhead'
<1>1. Len(reqs) \in Nat /\ Len(reqs) =< MaxReqs /\ MaxReqs \in Nat
  BY WaitingHasArrived
<1>2. answers \in [1..MaxReqs -> Seq(Answer)]
  BY DEF TypeOK, HistoryTypes
<1>3. \A r \in 1..MaxReqs : Len(answers'[r]) = Len(answers[r])
                              \/ (r \in rs /\ Len(answers'[r]) = Len(answers[r]) + 1)
  BY <1>2, SendLengths
<1>4. AnsweredAtMostOnce'
  <2> SUFFICES ASSUME NEW r \in 1..Len(reqs)
               PROVE  Len(answers'[r]) =< 1 /\ (Waits(r)' => Len(answers'[r]) = 0)
    BY DEF AnsweredAtMostOnce
  <2>1. r \in 1..MaxReqs
    BY <1>1
  <2> QED
    BY <1>3, <2>1 DEF AnsweredAtMostOnce
<1>5. NothingSentAhead'
  BY <1>1, <1>3, WaitingHasArrived DEF NothingSentAhead
<1> QED
  BY <1>4, <1>5

\* Only what waits is answered, and it stops waiting.
LEMMA AnsweredStep ==
  ASSUME TypeOK, MapsAreOwn, AnsweredAtMostOnce, NothingSentAhead, Next
  PROVE  AnsweredAtMostOnce' /\ NothingSentAhead'
<1> USE DEF consentVars, apiVars, fusedVars
<1>a. /\ mTerrestrialFixTimeoutMap \in [Clients -> 0..Len(reqs)]
      /\ mSingleFixReqMap \in [Clients -> 0..Len(reqs)]
      /\ mSingleFixLastLocation \in Locations
      /\ mMsgTask \in Seq(1..MaxReqs)
  BY DEF TypeOK, ServiceTypes, FusedTypes
<1>b. NoPosition \in Locations /\ Len(reqs) \in Nat
  BY BoundsAssumption, WaitingHasArrived DEF Locations, NoPosition
<1>c. 0 \in 0..MaxQoS /\ 1..MaxQoS \subseteq 0..MaxQoS /\ Kinds = {"TERRESTRIAL", "FUSED"}
  BY BoundsAssumption DEF Kinds
<1> DEFINE Goal == AnsweredAtMostOnce' /\ NothingSentAhead'
<1>1. ASSUME NEW c \in Clients, newClient(c) PROVE Goal
  BY <1>1, AnsweredStays DEF newClient, Waits
<1>2. ASSUME NEW c \in Clients, deleteClientbyName(c) PROVE Goal
  <2>1. \A r \in 1..Len(reqs) : Waits(r)' => Waits(r)
    BY <1>2, <1>a DEF deleteClientbyName, Waits
  <2> QED
    BY <1>2, <2>1, AnsweredStays DEF deleteClientbyName
<1>3. ASSUME NEW u \in {0, 1}, configUserConsentTerrestrialPositioning(u) PROVE Goal
  BY <1>3, AnsweredStays DEF configUserConsentTerrestrialPositioning, Waits
<1>4. ASSUME NEW c \in Clients, TerrestrialRefused(c) PROVE Goal
  <2>1. Receive(c, "TERRESTRIAL", 0)
    BY <1>4 DEF TerrestrialRefused
  <2>2. Len(reqs') = Len(reqs) + 1 /\ Len(reqs') =< MaxReqs
    BY <2>1, <1>4, <1>c, ReceiveAppends
  <2>3. \A r \in 1..MaxReqs : r # Len(reqs') => answers'[r] = answers[r]
    BY <1>4 DEF TerrestrialRefused, TypeOK, HistoryTypes
  <2>4. \A r : Waits(r)' <=> Waits(r)
    BY <1>4 DEF TerrestrialRefused, Waits
  <2>5. ~Waits(Len(reqs'))
    BY <1>b, <2>2, WaitingHasArrived
  <2>6. Len(answers'[Len(reqs')]) =< 1
    <3>1. Len(reqs') \in 1..MaxReqs
      BY <1>b, <2>2, WaitingHasArrived
    <3> QED
      BY <1>4, <3>1 DEF TerrestrialRefused, TypeOK, HistoryTypes
  <2>7. AnsweredAtMostOnce'
    <3> SUFFICES ASSUME NEW r \in 1..Len(reqs')
                 PROVE  Len(answers'[r]) =< 1 /\ (Waits(r)' => Len(answers'[r]) = 0)
      BY DEF AnsweredAtMostOnce
    <3>1. CASE r = Len(reqs')
      BY <2>4, <2>5, <2>6, <3>1
    <3>2. CASE r # Len(reqs')
      <4>1. r \in 1..Len(reqs) /\ r \in 1..MaxReqs
        BY <1>b, <2>2, <3>2, WaitingHasArrived
      <4> QED
        BY <2>3, <2>4, <3>2, <4>1 DEF AnsweredAtMostOnce
    <3> QED
      BY <3>1, <3>2
  <2>8. NothingSentAhead'
    BY <1>b, <2>2, <2>3 DEF NothingSentAhead
  <2> QED
    BY <2>7, <2>8
<1>5. ASSUME NEW c \in Clients, TerrestrialAccepted(c) PROVE Goal
  <2>1. Receive(c, "TERRESTRIAL", 0)
    BY <1>5 DEF TerrestrialAccepted
  <2>2. Len(reqs') = Len(reqs) + 1 /\ Len(reqs') =< MaxReqs
    BY <2>1, <1>5, <1>c, ReceiveAppends
  <2>3. \A r \in 1..Len(reqs) : Waits(r)' => Waits(r)
    BY <1>5, <1>a, <1>b, <2>2 DEF TerrestrialAccepted, Waits
  <2> QED
    BY <1>5, <2>2, <2>3, AnsweredAfterReceive DEF TerrestrialAccepted
<1>6. ASSUME NEW l \in Locations, onGtpWwanTrackingCallback(l) PROVE Goal
  <2> DEFINE rs == {mTerrestrialFixTimeoutMap[c] : c \in Pending(mTerrestrialFixTimeoutMap)}
  <2>1. answers' = Send(rs, "SUCCESS", l, 0) /\ reqs' = reqs
    BY <1>6 DEF onGtpWwanTrackingCallback
  <2>2. \A c \in Clients : mTerrestrialFixTimeoutMap'[c] = 0 /\ mSingleFixReqMap'[c] = mSingleFixReqMap[c]
    BY <1>6 DEF onGtpWwanTrackingCallback
  <2>3. \A r \in rs : Waits(r) /\ ~Waits(r)'
    <3> SUFFICES ASSUME NEW c \in Clients, mTerrestrialFixTimeoutMap[c] # 0
                 PROVE  Waits(mTerrestrialFixTimeoutMap[c]) /\ ~(\E d \in Clients :
                            mTerrestrialFixTimeoutMap'[d] = mTerrestrialFixTimeoutMap[c] \/ mSingleFixReqMap'[d] = mTerrestrialFixTimeoutMap[c])
      BY DEF Pending, Waits
    <3> QED
      BY <2>2, EntriesDiffer DEF Waits
  <2>4. \A r \in 1..Len(reqs) : Waits(r)' => Waits(r)
    BY <1>b, <2>2 DEF Waits
  <2> HIDE DEF rs
  <2> QED
    BY <1>6, <2>1, <2>3, <2>4, AnsweredAfterSend
<1>7. ASSUME NEW c \in Clients, NEW q \in 1..MaxQoS, SinglePosRequested(c, q) PROVE Goal
  <2>1. Receive(c, "FUSED", q)
    BY <1>7 DEF SinglePosRequested
  <2>2. Len(reqs') = Len(reqs) + 1 /\ Len(reqs') =< MaxReqs
    BY <2>1, <1>7, <1>c, ReceiveAppends
  <2>3. \A r \in 1..Len(reqs) : Waits(r)' => Waits(r)
    BY <1>7, <1>a, <1>b, <2>2 DEF SinglePosRequested, Waits
  <2> QED
    BY <1>7, <2>2, <2>3, AnsweredAfterReceive DEF SinglePosRequested
<1>8. ASSUME NEW c \in Clients, SinglePosCancelled(c) PROVE Goal
  <2>1. Receive(c, "FUSED", 0)
    BY <1>8 DEF SinglePosCancelled
  <2>2. Len(reqs') = Len(reqs) + 1 /\ Len(reqs') =< MaxReqs
    BY <2>1, <1>8, <1>c, ReceiveAppends
  <2>3. \A r \in 1..Len(reqs) : Waits(r)' => Waits(r)
    BY <1>8, <1>a, <1>b, <2>2 DEF SinglePosCancelled, Waits
  <2> QED
    BY <1>8, <2>2, <2>3, AnsweredAfterReceive DEF SinglePosCancelled
<1>9. ASSUME NEW l \in Locations, onGnssLocationInfoCb(l) PROVE Goal
  <2> DEFINE rs == {mSingleFixReqMap[c] : c \in Met(l)}
  <2>1. answers' = Send(rs, "SUCCESS", l, 0) /\ reqs' = reqs
    BY <1>9 DEF onGnssLocationInfoCb
  <2>2. \A c \in Clients :
           /\ mTerrestrialFixTimeoutMap'[c] = mTerrestrialFixTimeoutMap[c]
           /\ mSingleFixReqMap'[c] = IF c \in Met(l) THEN 0 ELSE mSingleFixReqMap[c]
    BY <1>9 DEF onGnssLocationInfoCb
  <2>3. \A c \in Met(l) : c \in Clients /\ mSingleFixReqMap[c] # 0
    BY DEF Met, Pending
  <2>4. \A r \in rs : Waits(r) /\ ~Waits(r)'
    <3> SUFFICES ASSUME NEW c \in Met(l)
                 PROVE  Waits(mSingleFixReqMap[c]) /\ ~(\E d \in Clients :
                            mTerrestrialFixTimeoutMap'[d] = mSingleFixReqMap[c] \/ mSingleFixReqMap'[d] = mSingleFixReqMap[c])
      BY DEF Waits
    <3> QED
      BY <2>2, <2>3, EntriesDiffer DEF Waits
  <2>5. \A r \in 1..Len(reqs) : Waits(r)' => Waits(r)
    BY <1>b, <2>2 DEF Waits
  <2> HIDE DEF rs
  <2> QED
    BY <1>9, <2>1, <2>4, <2>5, AnsweredAfterSend
<1>10. ASSUME NEW r \in 1..MaxReqs, timeOutCallback(r) PROVE Goal
  BY <1>10, AnsweredStays DEF timeOutCallback, Waits
<1>11. ASSUME NEW c \in Clients, gtpFixRequestTimeout(c) PROVE Goal
  <2>1. Head(mMsgTask) \in Nat /\ reqs' = reqs
    <3>1. mMsgTask # <<>>
      BY <1>11 DEF gtpFixRequestTimeout, Due
    <3> QED
      BY <1>11, <1>a, <3>1, BoundsAssumption DEF gtpFixRequestTimeout
  <2>2. CASE mTerrestrialFixTimeoutMap[c] = 0
    <3>1. answers' = answers /\ mTerrestrialFixTimeoutMap' = mTerrestrialFixTimeoutMap /\ mSingleFixReqMap' = mSingleFixReqMap
      BY <1>11, <2>2 DEF gtpFixRequestTimeout
    <3> QED
      BY <2>1, <3>1, AnsweredStays DEF Waits
  <2>3. CASE mTerrestrialFixTimeoutMap[c] # 0
    <3> DEFINE rs == {mTerrestrialFixTimeoutMap[c]}
    <3>1. /\ answers' = Send(rs, "TIMEOUT", NoPosition, Head(mMsgTask))
          /\ mSingleFixReqMap' = mSingleFixReqMap
          /\ mTerrestrialFixTimeoutMap'[c] = 0
          /\ \A d \in Clients : d # c => mTerrestrialFixTimeoutMap'[d] = mTerrestrialFixTimeoutMap[d]
      BY <1>11, <1>a, <2>3 DEF gtpFixRequestTimeout
    <3>2. Waits(mTerrestrialFixTimeoutMap[c])
      BY <1>11 DEF Waits
    <3>3. ~(\E d \in Clients : mTerrestrialFixTimeoutMap'[d] = mTerrestrialFixTimeoutMap[c] \/ mSingleFixReqMap'[d] = mTerrestrialFixTimeoutMap[c])
      BY <1>11, <2>3, <3>1, EntriesDiffer
    <3>4. \A r \in rs : Waits(r) /\ ~Waits(r)'
      BY <3>2, <3>3 DEF Waits
    <3>5. \A r \in 1..Len(reqs) : Waits(r)' => Waits(r)
      BY <1>11, <1>b, <3>1 DEF Waits
    <3> HIDE DEF rs
    <3> QED
      BY <1>a, <1>b, <2>1, <3>1, <3>4, <3>5, AnsweredAfterSend
  <2> QED
    BY <2>2, <2>3
<1>12. ASSUME NEW c \in Clients, singleFixRequestTimeout(c) PROVE Goal
  <2>1. Head(mMsgTask) \in Nat /\ reqs' = reqs
    <3>1. mMsgTask # <<>>
      BY <1>12 DEF singleFixRequestTimeout, Due
    <3> QED
      BY <1>12, <1>a, <3>1, BoundsAssumption DEF singleFixRequestTimeout
  <2>2. CASE mSingleFixReqMap[c] = 0
    <3>1. answers' = answers /\ mSingleFixReqMap' = mSingleFixReqMap /\ mTerrestrialFixTimeoutMap' = mTerrestrialFixTimeoutMap
      BY <1>12, <2>2 DEF singleFixRequestTimeout
    <3> QED
      BY <2>1, <3>1, AnsweredStays DEF Waits
  <2>3. CASE mSingleFixReqMap[c] # 0
    <3> DEFINE rs == {mSingleFixReqMap[c]}
    <3>1. /\ answers' = Send(rs, "TIMEOUT", mSingleFixLastLocation, Head(mMsgTask))
          /\ mTerrestrialFixTimeoutMap' = mTerrestrialFixTimeoutMap
          /\ mSingleFixReqMap'[c] = 0
          /\ \A d \in Clients : d # c => mSingleFixReqMap'[d] = mSingleFixReqMap[d]
      BY <1>12, <1>a, <2>3 DEF singleFixRequestTimeout
    <3>2. Waits(mSingleFixReqMap[c])
      BY <1>12 DEF Waits
    <3>3. ~(\E d \in Clients : mTerrestrialFixTimeoutMap'[d] = mSingleFixReqMap[c] \/ mSingleFixReqMap'[d] = mSingleFixReqMap[c])
      BY <1>12, <2>3, <3>1, EntriesDiffer
    <3>4. \A r \in rs : Waits(r) /\ ~Waits(r)'
      BY <3>2, <3>3 DEF Waits
    <3>5. \A r \in 1..Len(reqs) : Waits(r)' => Waits(r)
      BY <1>12, <1>b, <3>1 DEF Waits
    <3> HIDE DEF rs
    <3> QED
      BY <1>a, <1>b, <2>1, <3>1, <3>4, <3>5, AnsweredAfterSend
  <2> QED
    BY <2>2, <2>3
<1> QED
  BY StepCases, <1>1, <1>2, <1>3, <1>4, <1>5, <1>6, <1>7, <1>8, <1>9, <1>10, <1>11, <1>12

\* Every handler that erases an entry answers it, or has one of the two excuses.
LEMMA DropIsExcused ==
  ASSUME TypeOK, MapsAreOwn, AnsweredAtMostOnce, Next,
         NEW r \in 1..Len(reqs), Waits(r), ~Waits(r)'
  PROVE  \/ Len(answers'[r]) = 1
         \/ reqs[r].client \notin mClients \cap mClients'
         \/ /\ Len(reqs') > Len(reqs)
            /\ reqs'[Len(reqs')].client = reqs[r].client
<1> USE DEF consentVars, apiVars, fusedVars
<1>a. /\ mTerrestrialFixTimeoutMap \in [Clients -> 0..Len(reqs)]
      /\ mSingleFixReqMap \in [Clients -> 0..Len(reqs)]
      /\ mSingleFixLastLocation \in Locations
      /\ mMsgTask \in Seq(1..MaxReqs)
      /\ answers \in [1..MaxReqs -> Seq(Answer)]
  BY DEF TypeOK, ServiceTypes, FusedTypes, HistoryTypes
<1>b. /\ NoPosition \in Locations /\ Len(reqs) \in Nat /\ r \in 1..MaxReqs
      /\ 0 \in 0..MaxQoS /\ 1..MaxQoS \subseteq 0..MaxQoS
      /\ Kinds = {"TERRESTRIAL", "FUSED"}
  BY BoundsAssumption, WaitingHasArrived DEF Locations, NoPosition, Kinds
<1>c. Len(answers[r]) = 0
  BY DEF AnsweredAtMostOnce
<1> DEFINE Goal == \/ Len(answers'[r]) = 1
                   \/ reqs[r].client \notin mClients \cap mClients'
                   \/ /\ Len(reqs') > Len(reqs)
                      /\ reqs'[Len(reqs')].client = reqs[r].client
\* An entry that is gone belonged to the client whose entries changed.
<1>d. PICK d \in Clients : mTerrestrialFixTimeoutMap[d] = r \/ mSingleFixReqMap[d] = r
  BY DEF Waits
<1>e. reqs[r].client = d /\ ~(mTerrestrialFixTimeoutMap'[d] = r \/ mSingleFixReqMap'[d] = r)
  BY <1>b, <1>d DEF MapsAreOwn, Waits
<1>1. ASSUME NEW c \in Clients, newClient(c) PROVE Goal
  BY <1>1, <1>d, <1>e DEF newClient
<1>2. ASSUME NEW c \in Clients, deleteClientbyName(c) PROVE Goal
  <2>1. d = c
    BY <1>2, <1>a, <1>d, <1>e DEF deleteClientbyName
  <2> QED
    BY <1>2, <1>e, <2>1 DEF deleteClientbyName
<1>3. ASSUME NEW u \in {0, 1}, configUserConsentTerrestrialPositioning(u) PROVE Goal
  BY <1>3, <1>d, <1>e DEF configUserConsentTerrestrialPositioning
<1>4. ASSUME NEW c \in Clients, TerrestrialRefused(c) PROVE Goal
  BY <1>4, <1>d, <1>e DEF TerrestrialRefused
<1>5. ASSUME NEW c \in Clients, TerrestrialAccepted(c) PROVE Goal
  <2>1. Receive(c, "TERRESTRIAL", 0)
    BY <1>5 DEF TerrestrialAccepted
  <2>2. reqs' \in Seq(Request) /\ Len(reqs') = Len(reqs) + 1
    BY <2>1, <1>5, <1>b, ReceiveAppends
  <2>4. reqs'[Len(reqs')].client = c
    BY <2>1, <1>b DEF Receive, TypeOK, HistoryTypes
  <2>3. d = c
    BY <1>5, <1>a, <1>d, <1>e DEF TerrestrialAccepted
  <2> QED
    BY <1>b, <1>e, <2>2, <2>3, <2>4
<1>6. ASSUME NEW l \in Locations, onGtpWwanTrackingCallback(l) PROVE Goal
  <2> DEFINE rs == {mTerrestrialFixTimeoutMap[c] : c \in Pending(mTerrestrialFixTimeoutMap)}
  <2>1. mClients' = mClients
    BY <1>6 DEF onGtpWwanTrackingCallback
  <2>2. 0 \in Nat
    OBVIOUS
  <2>3. d \in Pending(mTerrestrialFixTimeoutMap) /\ mTerrestrialFixTimeoutMap[d] = r
    BY <1>6, <1>a, <1>b, <1>d, <1>e DEF onGtpWwanTrackingCallback, Pending
  <2>4. answers' = Send(rs, "SUCCESS", l, 0) /\ r \in rs
    BY <1>6, <2>3 DEF onGtpWwanTrackingCallback
  <2> HIDE DEF rs
  <2>5. r \in rs /\ reqs[r].client \in mClients => Len(answers'[r]) = Len(answers[r]) + 1
    BY <1>a, <1>b, <2>4, SendLengths
  <2> QED
    BY <1>c, <2>1, <2>4, <2>5
<1>7. ASSUME NEW c \in Clients, NEW q \in 1..MaxQoS, SinglePosRequested(c, q) PROVE Goal
  <2>1. Receive(c, "FUSED", q)
    BY <1>7 DEF SinglePosRequested
  <2>2. reqs' \in Seq(Request) /\ Len(reqs') = Len(reqs) + 1
    BY <2>1, <1>7, <1>b, ReceiveAppends
  <2>4. reqs'[Len(reqs')].client = c
    BY <2>1, <1>b DEF Receive, TypeOK, HistoryTypes
  <2>3. d = c
    BY <1>7, <1>a, <1>d, <1>e DEF SinglePosRequested
  <2> QED
    BY <1>b, <1>e, <2>2, <2>3, <2>4
<1>8. ASSUME NEW c \in Clients, SinglePosCancelled(c) PROVE Goal
  <2>1. Receive(c, "FUSED", 0)
    BY <1>8 DEF SinglePosCancelled
  <2>2. reqs' \in Seq(Request) /\ Len(reqs') = Len(reqs) + 1
    BY <2>1, <1>8, <1>b, ReceiveAppends
  <2>4. reqs'[Len(reqs')].client = c
    BY <2>1, <1>b DEF Receive, TypeOK, HistoryTypes
  <2>3. d = c
    BY <1>8, <1>a, <1>d, <1>e DEF SinglePosCancelled
  <2> QED
    BY <1>b, <1>e, <2>2, <2>3, <2>4
<1>9. ASSUME NEW l \in Locations, onGnssLocationInfoCb(l) PROVE Goal
  <2> DEFINE rs == {mSingleFixReqMap[c] : c \in Met(l)}
  <2>1. mClients' = mClients
    BY <1>9 DEF onGnssLocationInfoCb
  <2>2. 0 \in Nat
    OBVIOUS
  <2>3. d \in Met(l) /\ mSingleFixReqMap[d] = r
    BY <1>9, <1>a, <1>b, <1>d, <1>e DEF onGnssLocationInfoCb, Pending
  <2>4. answers' = Send(rs, "SUCCESS", l, 0) /\ r \in rs
    BY <1>9, <2>3 DEF onGnssLocationInfoCb
  <2> HIDE DEF rs
  <2>5. r \in rs /\ reqs[r].client \in mClients => Len(answers'[r]) = Len(answers[r]) + 1
    BY <1>a, <1>b, <2>4, SendLengths
  <2> QED
    BY <1>c, <2>1, <2>4, <2>5
<1>10. ASSUME NEW r0 \in 1..MaxReqs, timeOutCallback(r0) PROVE Goal
  BY <1>10, <1>d, <1>e DEF timeOutCallback
<1>11. ASSUME NEW c \in Clients, gtpFixRequestTimeout(c) PROVE Goal
  <2> DEFINE rs == {mTerrestrialFixTimeoutMap[c]}
  <2>1. mMsgTask # <<>> /\ mClients' = mClients
    BY <1>11 DEF gtpFixRequestTimeout, Due
  <2>2. Head(mMsgTask) \in Nat
    BY <1>a, <2>1, BoundsAssumption, SMTT(20)
  <2>3. d = c /\ mTerrestrialFixTimeoutMap[c] = r /\ mTerrestrialFixTimeoutMap[c] # 0
    BY <1>11, <1>a, <1>b, <1>d, <1>e DEF gtpFixRequestTimeout
  <2>4. answers' = Send(rs, "TIMEOUT", NoPosition, Head(mMsgTask)) /\ r \in rs
    BY <1>11, <2>3 DEF gtpFixRequestTimeout
  <2> HIDE DEF rs
  <2>5. r \in rs /\ reqs[r].client \in mClients => Len(answers'[r]) = Len(answers[r]) + 1
    BY <1>a, <1>b, <2>4, SendLengths
  <2> QED
    BY <1>c, <2>1, <2>4, <2>5
<1>12. ASSUME NEW c \in Clients, singleFixRequestTimeout(c) PROVE Goal
  <2> DEFINE rs == {mSingleFixReqMap[c]}
  <2>1. mMsgTask # <<>> /\ mClients' = mClients
    BY <1>12 DEF singleFixRequestTimeout, Due
  <2>2. Head(mMsgTask) \in Nat
    BY <1>a, <2>1, BoundsAssumption, SMTT(20)
  <2>3. d = c /\ mSingleFixReqMap[c] = r /\ mSingleFixReqMap[c] # 0
    BY <1>12, <1>a, <1>b, <1>d, <1>e DEF singleFixRequestTimeout
  <2>4. answers' = Send(rs, "TIMEOUT", mSingleFixLastLocation, Head(mMsgTask)) /\ r \in rs
    BY <1>12, <2>3 DEF singleFixRequestTimeout
  <2> HIDE DEF rs
  <2>5. r \in rs /\ reqs[r].client \in mClients => Len(answers'[r]) = Len(answers[r]) + 1
    BY <1>a, <1>b, <2>4, SendLengths
  <2> QED
    BY <1>c, <2>1, <2>4, <2>5
<1> QED
  BY StepCases, <1>1, <1>2, <1>3, <1>4, <1>5, <1>6, <1>7, <1>8, <1>9, <1>10, <1>11, <1>12

-----------------------------------------------------------------------------
(* The abstract requests *)

AbstractStep == Fixes!FixNext \/ UNCHANGED Fixes!fixVars

\* The requests that wait are entries of a map: those of a client and a kind are its entry.
LEMMA EntryWaits ==
  ASSUME TypeOK, MapsAreOwn, NEW c \in Clients
  PROVE  /\ Fixes!WaitingOf(c, "TERRESTRIAL") = {mTerrestrialFixTimeoutMap[c]} \ {0}
         /\ Fixes!WaitingOf(c, "FUSED") = {mSingleFixReqMap[c]} \ {0}
<1>1. /\ mTerrestrialFixTimeoutMap \in [Clients -> 0..Len(reqs)]
      /\ mSingleFixReqMap \in [Clients -> 0..Len(reqs)]
      /\ Len(reqs) \in Nat
  BY DEF TypeOK, ServiceTypes, FusedTypes, HistoryTypes
<1>2. ASSUME NEW r PROVE r \in Fixes!WaitingOf(c, "TERRESTRIAL")
                          <=> r # 0 /\ r = mTerrestrialFixTimeoutMap[c]
  BY <1>1 DEF Fixes!WaitingOf, Waiting, Waits, MapsAreOwn
<1>3. ASSUME NEW r PROVE r \in Fixes!WaitingOf(c, "FUSED")
                          <=> r # 0 /\ r = mSingleFixReqMap[c]
  BY <1>1 DEF Fixes!WaitingOf, Waiting, Waits, MapsAreOwn
<1> QED
  BY <1>2, <1>3

\* While no entry changes, whatever arrives does not wait.
LEMMA SameWaiting ==
  ASSUME TypeOK, UNCHANGED <<mTerrestrialFixTimeoutMap, mSingleFixReqMap>>,
         reqs' = reqs \/ Len(reqs') = Len(reqs) + 1
  PROVE  Waiting' = Waiting
<1>1. /\ mTerrestrialFixTimeoutMap \in [Clients -> 0..Len(reqs)]
      /\ mSingleFixReqMap \in [Clients -> 0..Len(reqs)]
      /\ Len(reqs) \in Nat
  BY DEF TypeOK, ServiceTypes, FusedTypes, HistoryTypes
<1>2. ASSUME NEW r PROVE r \in Waiting' <=> r \in Waiting
  BY <1>1 DEF Waiting, Waits
<1> QED
  BY <1>2

\* The entries in D are erased, from both maps, and no others.
LEMMA ErasedStopWaiting ==
  ASSUME TypeOK, NEW D, reqs' = reqs,
         \A c \in Clients :
            /\ mTerrestrialFixTimeoutMap'[c] = IF mTerrestrialFixTimeoutMap[c] \in D
                                               THEN 0 ELSE mTerrestrialFixTimeoutMap[c]
            /\ mSingleFixReqMap'[c] = IF mSingleFixReqMap[c] \in D
                                      THEN 0 ELSE mSingleFixReqMap[c]
  PROVE  Waiting' = Waiting \ D
<1>1. /\ mTerrestrialFixTimeoutMap \in [Clients -> 0..Len(reqs)]
      /\ mSingleFixReqMap \in [Clients -> 0..Len(reqs)]
      /\ Len(reqs) \in Nat
  BY DEF TypeOK, ServiceTypes, FusedTypes, HistoryTypes
<1>2. ASSUME NEW r PROVE r \in Waiting' <=> r \in Waiting /\ r \notin D
  BY <1>1 DEF Waiting, Waits
<1> QED
  BY <1>2

\* What was told, as the client sees it.
AbstractAnswer == [error : {"SUCCESS", "TIMEOUT", "NOT_SUPPORTED"}, location : Locations]

\* A function on 1..n is a sequence.
LEMMA FunctionIsSeq ==
  ASSUME NEW S, NEW n \in Nat, NEW f \in [1..n -> S]
  PROVE  f \in Seq(S)
OBVIOUS

\* What is told of a request is a sequence of answers without their timers.
LEMMA ToldIsSeq ==
  ASSUME NEW s \in Seq(Answer)
  PROVE  [i \in 1..Len(s) |-> [error |-> s[i].error, location |-> s[i].location]]
             \in Seq(AbstractAnswer)
<1> DEFINE f == [i \in 1..Len(s) |-> [error |-> s[i].error, location |-> s[i].location]]
<1>0. \A a \in Answer : [error |-> a.error, location |-> a.location] \in AbstractAnswer
  BY DEF Answer, AbstractAnswer
<1>1. \A i \in 1..Len(s) : [error |-> s[i].error, location |-> s[i].location] \in AbstractAnswer
  BY <1>0
<1>2. f \in [1..Len(s) -> AbstractAnswer]
  BY <1>1
<1>3. Len(s) \in Nat
  OBVIOUS
<1> HIDE DEF f
<1>4. f \in Seq(AbstractAnswer)
  BY <1>2, <1>3, FunctionIsSeq
<1> QED
  BY <1>4 DEF f

\* An answer that is sent is told behind what was told before.
LEMMA ToldAppend ==
  ASSUME answers \in [1..MaxReqs -> Seq(Answer)], NEW r \in 1..MaxReqs,
         NEW a \in Answer, answers'[r] = Append(answers[r], a)
  PROVE  ToldOf(r)' = Append(ToldOf(r), Fixes!Says(a.error, a.location))
<1> DEFINE s == answers[r]
           T(q) == [i \in 1..Len(q) |-> [error |-> q[i].error, location |-> q[i].location]]
           x == Fixes!Says(a.error, a.location)
<1>1. s \in Seq(Answer) /\ Append(s, a) \in Seq(Answer)
  OBVIOUS
<1>2. x \in AbstractAnswer
  BY DEF Answer, AbstractAnswer, Fixes!Says
<1>3. T(s) \in Seq(AbstractAnswer) /\ T(Append(s, a)) \in Seq(AbstractAnswer)
  BY <1>1, ToldIsSeq
<1>4. Len(T(s)) = Len(s) /\ Len(T(Append(s, a))) = Len(s) + 1
  BY <1>1, <1>3
<1>5. \A i \in 1..Len(s) : T(Append(s, a))[i] = T(s)[i]
  BY <1>1
<1>6. T(Append(s, a))[Len(s) + 1] = x
  BY <1>1 DEF Fixes!Says
<1>7. ToldOf(r) = T(s) /\ ToldOf(r)' = T(Append(s, a))
  BY DEF ToldOf
<1> DEFINE u == T(s)
           v == T(Append(s, a))
<1>8. /\ u \in Seq(AbstractAnswer) /\ v \in Seq(AbstractAnswer)
      /\ Len(s) \in Nat /\ Len(u) = Len(s) /\ Len(v) = Len(s) + 1
      /\ \A i \in 1..Len(s) : v[i] = u[i]
      /\ v[Len(s) + 1] = x
  BY <1>1, <1>3, <1>4, <1>5, <1>6
<1> HIDE DEF u, v, x, s, T
<1>9. v = Append(u, x)
  <2>1. Append(u, x) \in Seq(AbstractAnswer) /\ Len(Append(u, x)) = Len(s) + 1
    BY <1>2, <1>8
  <2>2. ASSUME NEW i \in 1..Len(v) PROVE v[i] = Append(u, x)[i]
    <3>1. CASE i \in 1..Len(s)
      BY <1>2, <1>8, <3>1
    <3>2. CASE i = Len(s) + 1
      BY <1>2, <1>8, <3>2
    <3> QED
      BY <1>8, <3>1, <3>2
  <2> QED
    BY <1>8, <2>1, <2>2, SeqEqual
<1> QED
  BY <1>7, <1>9 DEF u, v, x

\* Nothing is sent, and nothing is told.
LEMMA SameTold ==
  ASSUME answers' = answers
  PROVE  Told' = Told
BY DEF Told, ToldOf

\* Send tells the requests rs whose clients are registered, and nobody else.
LEMMA SendTells ==
  ASSUME answers \in [1..MaxReqs -> Seq(Answer)],
         NEW rs, NEW e \in {"SUCCESS", "TIMEOUT", "NOT_SUPPORTED"},
         NEW l \in Locations, NEW t \in Nat,
         answers' = Send(rs, e, l, t), reqs' = reqs
  PROVE  Fixes!Tell(rs, Fixes!Says(e, l))
<1> DEFINE a == [error |-> e, location |-> l, timer |-> t]
<1>1. a \in Answer /\ a.error = e /\ a.location = l
  BY DEF Answer
<1>2. ASSUME NEW r \in 1..MaxReqs
      PROVE  answers'[r] = IF r \in rs /\ reqs[r].client \in mClients
                           THEN Append(answers[r], a) ELSE answers[r]
  BY DEF Send
<1> HIDE DEF a
<1>3. ASSUME NEW r \in 1..MaxReqs
      PROVE  Told'[r] = IF r \in rs /\ reqs'[r].client \in mClients
                        THEN Append(Told[r], Fixes!Says(e, l)) ELSE Told[r]
  <2>1. Told[r] = ToldOf(r) /\ Told'[r] = ToldOf(r)'
    BY DEF Told
  <2>2. CASE r \in rs /\ reqs[r].client \in mClients
    <3>1. answers'[r] = Append(answers[r], a)
      BY <1>2, <2>2
    <3>2. ToldOf(r)' = Append(ToldOf(r), Fixes!Says(a.error, a.location))
      BY <1>1, <3>1, ToldAppend
    <3> QED
      BY <1>1, <2>1, <2>2, <3>2
  <2>3. CASE ~(r \in rs /\ reqs[r].client \in mClients)
    <3>1. answers'[r] = answers[r]
      BY <1>2, <2>3
    <3>2. ToldOf(r)' = ToldOf(r)
      BY <3>1 DEF ToldOf
    <3> QED
      BY <2>1, <2>3, <3>2
  <2> QED
    BY <2>2, <2>3
<1> QED
  BY <1>3 DEF Fixes!Tell, Told

\* A client that is new, or goes: everything that waits for it stops waiting.
LEMMA ClientRefines ==
  ASSUME IInv, NEW c \in Clients, newClient(c) \/ deleteClientbyName(c)
  PROVE  AbstractStep
<1>1. CASE newClient(c)
  <2>1. /\ reqs' = reqs /\ answers' = answers /\ mClients' = mClients \cup {c}
        /\ UNCHANGED <<mTerrestrialFixTimeoutMap, mSingleFixReqMap>>
    BY <1>1 DEF newClient, apiVars, fusedVars
  <2>2. Waiting' = Waiting /\ Told' = Told
    BY <2>1, SameWaiting, SameTold DEF IInv
  <2>3. Fixes!Come(c)
    BY <2>1, <2>2 DEF Fixes!Come
  <2> QED
    BY <2>3 DEF AbstractStep, Fixes!FixNext
<1>2. CASE deleteClientbyName(c)
  <2> DEFINE D == {mTerrestrialFixTimeoutMap[c], mSingleFixReqMap[c]}
  <2>1. /\ reqs' = reqs /\ answers' = answers /\ mClients' = mClients \ {c}
        /\ mTerrestrialFixTimeoutMap' = [mTerrestrialFixTimeoutMap EXCEPT ![c] = 0]
        /\ mSingleFixReqMap' = [mSingleFixReqMap EXCEPT ![c] = 0]
    BY <1>2 DEF deleteClientbyName
  <2>2. ASSUME NEW d \in Clients
        PROVE  /\ mTerrestrialFixTimeoutMap'[d] = IF mTerrestrialFixTimeoutMap[d] \in D
                                                  THEN 0 ELSE mTerrestrialFixTimeoutMap[d]
               /\ mSingleFixReqMap'[d] = IF mSingleFixReqMap[d] \in D
                                         THEN 0 ELSE mSingleFixReqMap[d]
    BY <2>1, EntriesDiffer DEF IInv, TypeOK, ServiceTypes, FusedTypes
  <2> HIDE DEF D
  <2>3. Waiting' = Waiting \ D
    BY <2>1, <2>2, ErasedStopWaiting DEF IInv
  <2>4. Waiting \ D = Waiting \ (Fixes!WaitingOf(c, "TERRESTRIAL")
                                     \cup Fixes!WaitingOf(c, "FUSED"))
    <3>1. 0 \notin Waiting
      BY WaitingHasArrived DEF Waiting, IInv
    <3>2. /\ Fixes!WaitingOf(c, "TERRESTRIAL") = {mTerrestrialFixTimeoutMap[c]} \ {0}
          /\ Fixes!WaitingOf(c, "FUSED") = {mSingleFixReqMap[c]} \ {0}
      BY EntryWaits DEF IInv
    <3> QED
      BY <3>1, <3>2 DEF D
  <2>5. Fixes!Go(c)
    BY <2>1, <2>3, <2>4, SameTold DEF Fixes!Go
  <2> QED
    BY <2>5 DEF AbstractStep, Fixes!FixNext
<1> QED
  BY <1>1, <1>2

\* Neither the consent nor a timer that fires is seen by a client.
LEMMA HiddenRefines ==
  ASSUME IInv, \/ \E u \in {0, 1} : configUserConsentTerrestrialPositioning(u)
               \/ \E r \in 1..MaxReqs : timeOutCallback(r)
               \/ UNCHANGED vars
  PROVE  AbstractStep
<1>1. UNCHANGED <<mClients, mTerrestrialFixTimeoutMap, mSingleFixReqMap, reqs, answers>>
  BY DEF configUserConsentTerrestrialPositioning, timeOutCallback, vars, apiVars, fusedVars
<1>2. Waiting' = Waiting /\ Told' = Told
  BY <1>1, SameWaiting, SameTold DEF IInv
<1> QED
  BY <1>1, <1>2 DEF AbstractStep, Fixes!fixVars

\* A terrestrial request without consent: it is refused at once and never waits.
LEMMA RefusedRefines ==
  ASSUME IInv, NEW c \in Clients, TerrestrialRefused(c)
  PROVE  AbstractStep
<1> DEFINE n == Len(reqs')
           a == [error |-> "NOT_SUPPORTED", location |-> NoPosition, timer |-> 0]
<1>1. /\ Receive(c, "TERRESTRIAL", 0) /\ mClients' = mClients
      /\ UNCHANGED <<mTerrestrialFixTimeoutMap, mSingleFixReqMap>>
      /\ answers' = [answers EXCEPT ![n] = IF c \in mClients THEN <<a>> ELSE <<>>]
  BY DEF TerrestrialRefused, apiVars, fusedVars
<1>2. /\ TypeOK /\ NothingSentAhead
      /\ answers \in [1..MaxReqs -> Seq(Answer)]
  BY DEF IInv, TypeOK, HistoryTypes
<1>3. /\ "TERRESTRIAL" \in Kinds /\ 0 \in 0..MaxQoS
  BY BoundsAssumption DEF Kinds
<1>4. /\ Len(reqs) \in Nat /\ n = Len(reqs) + 1 /\ n =< MaxReqs
      /\ reqs'[n].client = c
  <2>1. /\ Len(reqs) \in Nat /\ Len(reqs') = Len(reqs) + 1 /\ Len(reqs') =< MaxReqs
        /\ reqs'[Len(reqs')] = [client |-> c, kind |-> "TERRESTRIAL", horQoS |-> 0]
    BY <1>1, <1>2, <1>3, ReceiveAppends
  <2> QED
    BY <2>1
<1>5. n \in 1..MaxReqs /\ answers[n] = <<>>
  <2>1. n \in 1..MaxReqs
    BY <1>4, BoundsAssumption
  <2>2. Len(answers[n]) = 0
    BY <1>2, <1>4, <2>1 DEF NothingSentAhead
  <2> QED
    BY <1>2, <2>1, <2>2
<1>6. a \in Answer /\ a.error = "NOT_SUPPORTED" /\ a.location = -1
  BY BoundsAssumption DEF Answer, Locations, NoPosition
<1> HIDE DEF n, a
<1>7. Fixes!Receive(c, "TERRESTRIAL", 0)
  BY <1>1 DEF Receive, Fixes!Receive
<1>8. Waiting' = Waiting
  BY <1>1, <1>2, <1>4, SameWaiting DEF n
<1>9. ASSUME NEW r \in 1..MaxReqs
      PROVE  Told'[r] = IF r \in {n} /\ reqs'[r].client \in mClients
                        THEN Append(Told[r], Fixes!Says("NOT_SUPPORTED", -1)) ELSE Told[r]
  <2>1. Told[r] = ToldOf(r) /\ Told'[r] = ToldOf(r)'
    BY DEF Told
  <2>2. CASE r = n /\ c \in mClients
    <3>1. answers'[r] = <<a>>
      BY <1>1, <1>2, <1>5, <2>2
    <3>2. answers'[r] = Append(answers[r], a)
      BY <1>5, <2>2, <3>1
    <3>3. ToldOf(r)' = Append(ToldOf(r), Fixes!Says(a.error, a.location))
      BY <1>2, <1>6, <3>2, ToldAppend
    <3> QED
      BY <1>4, <1>6, <2>1, <2>2, <3>3
  <2>3. CASE ~(r = n /\ c \in mClients)
    <3>1. answers'[r] = answers[r]
      BY <1>1, <1>2, <1>5, <2>3
    <3>2. ToldOf(r)' = ToldOf(r)
      BY <3>1 DEF ToldOf
    <3> QED
      BY <1>4, <2>1, <2>3, <3>2
  <2> QED
    BY <2>2, <2>3
<1>10. Fixes!Tell({n}, Fixes!Says("NOT_SUPPORTED", -1))
  BY <1>9 DEF Fixes!Tell, Told
<1>11. Fixes!Refuse(c)
  BY <1>1, <1>7, <1>8, <1>10 DEF Fixes!Refuse, n
<1> QED
  BY <1>11 DEF AbstractStep, Fixes!FixNext

\* A request that is filed waits in place of the one it replaces.
LEMMA FiledWaits ==
  ASSUME TypeOK, MapsAreOwn, NEW c \in Clients, Len(reqs') = Len(reqs) + 1
  PROVE  /\ /\ mTerrestrialFixTimeoutMap'
                   = [mTerrestrialFixTimeoutMap EXCEPT ![c] = Len(reqs')]
            /\ mSingleFixReqMap' = mSingleFixReqMap
            => Waiting' = (Waiting \ Fixes!WaitingOf(c, "TERRESTRIAL")) \cup {Len(reqs')}
         /\ /\ mSingleFixReqMap' = [mSingleFixReqMap EXCEPT ![c] = Len(reqs')]
            /\ mTerrestrialFixTimeoutMap' = mTerrestrialFixTimeoutMap
            => Waiting' = (Waiting \ Fixes!WaitingOf(c, "FUSED")) \cup {Len(reqs')}
         /\ /\ mSingleFixReqMap' = [mSingleFixReqMap EXCEPT ![c] = 0]
            /\ mTerrestrialFixTimeoutMap' = mTerrestrialFixTimeoutMap
            => Waiting' = (Waiting \ Fixes!WaitingOf(c, "FUSED")) \cup {}
<1>1. /\ mTerrestrialFixTimeoutMap \in [Clients -> 0..Len(reqs)]
      /\ mSingleFixReqMap \in [Clients -> 0..Len(reqs)]
      /\ Len(reqs) \in Nat
  BY DEF TypeOK, ServiceTypes, FusedTypes, HistoryTypes
<1>2. /\ Fixes!WaitingOf(c, "TERRESTRIAL") = {mTerrestrialFixTimeoutMap[c]} \ {0}
      /\ Fixes!WaitingOf(c, "FUSED") = {mSingleFixReqMap[c]} \ {0}
  BY EntryWaits
<1>3. \A r : r \in Waiting <=> r \in 1..Len(reqs) /\ Waits(r)
  BY DEF Waiting
<1>4. \A r : r \in Waiting' <=> r \in 1..(Len(reqs) + 1) /\ Waits(r)'
  BY DEF Waiting
<1>5. ASSUME mTerrestrialFixTimeoutMap'
                 = [mTerrestrialFixTimeoutMap EXCEPT ![c] = Len(reqs')],
             mSingleFixReqMap' = mSingleFixReqMap, NEW r
      PROVE  r \in Waiting' <=> \/ r \in Waiting /\ ~(r = mTerrestrialFixTimeoutMap[c] /\ r # 0)
                                \/ r = Len(reqs')
  <2>1. CASE r = Len(reqs')
    <3>1. mTerrestrialFixTimeoutMap'[c] = r
      BY <1>1, <1>5, <2>1
    <3>2. Waits(r)'
      BY <3>1 DEF Waits
    <3>3. r \in 1..(Len(reqs) + 1)
      BY <1>1, <2>1
    <3> QED
      BY <1>4, <2>1, <3>2, <3>3
  <2>2. CASE r # Len(reqs')
    BY <1>1, <1>3, <1>4, <1>5, <2>2, EntriesDiffer DEF Waits
  <2> QED
    BY <2>1, <2>2
<1>6. ASSUME mSingleFixReqMap' = [mSingleFixReqMap EXCEPT ![c] = Len(reqs')],
             mTerrestrialFixTimeoutMap' = mTerrestrialFixTimeoutMap, NEW r
      PROVE  r \in Waiting' <=> \/ r \in Waiting /\ ~(r = mSingleFixReqMap[c] /\ r # 0)
                                \/ r = Len(reqs')
  <2>1. CASE r = Len(reqs')
    <3>1. mSingleFixReqMap'[c] = r
      BY <1>1, <1>6, <2>1
    <3>2. Waits(r)'
      BY <3>1 DEF Waits
    <3>3. r \in 1..(Len(reqs) + 1)
      BY <1>1, <2>1
    <3> QED
      BY <1>4, <2>1, <3>2, <3>3
  <2>2. CASE r # Len(reqs')
    BY <1>1, <1>3, <1>4, <1>6, <2>2, EntriesDiffer DEF Waits
  <2> QED
    BY <2>1, <2>2
<1>7. ASSUME mSingleFixReqMap' = [mSingleFixReqMap EXCEPT ![c] = 0],
             mTerrestrialFixTimeoutMap' = mTerrestrialFixTimeoutMap, NEW r
      PROVE  r \in Waiting' <=> r \in Waiting /\ ~(r = mSingleFixReqMap[c] /\ r # 0)
  BY <1>1, <1>3, <1>4, <1>7, EntriesDiffer DEF Waits
<1>8. ASSUME mTerrestrialFixTimeoutMap'
                 = [mTerrestrialFixTimeoutMap EXCEPT ![c] = Len(reqs')],
             mSingleFixReqMap' = mSingleFixReqMap
      PROVE  Waiting' = (Waiting \ Fixes!WaitingOf(c, "TERRESTRIAL")) \cup {Len(reqs')}
  BY <1>2, <1>5, <1>8
<1>9. ASSUME mSingleFixReqMap' = [mSingleFixReqMap EXCEPT ![c] = Len(reqs')],
             mTerrestrialFixTimeoutMap' = mTerrestrialFixTimeoutMap
      PROVE  Waiting' = (Waiting \ Fixes!WaitingOf(c, "FUSED")) \cup {Len(reqs')}
  BY <1>2, <1>6, <1>9
<1>10. ASSUME mSingleFixReqMap' = [mSingleFixReqMap EXCEPT ![c] = 0],
              mTerrestrialFixTimeoutMap' = mTerrestrialFixTimeoutMap
       PROVE  Waiting' = (Waiting \ Fixes!WaitingOf(c, "FUSED")) \cup {}
  BY <1>2, <1>7, <1>10
<1> QED
  BY <1>8, <1>9, <1>10

\* A request with consent, a fused request and a cancellation replace the client's entry.
LEMMA RequestRefines ==
  ASSUME IInv, NEW c \in Clients,
         \/ TerrestrialAccepted(c)
         \/ \E q \in 1..MaxQoS : SinglePosRequested(c, q)
         \/ SinglePosCancelled(c)
  PROVE  AbstractStep
<1>1. TypeOK /\ MapsAreOwn
  BY DEF IInv
<1>2. /\ Kinds = {"TERRESTRIAL", "FUSED"} /\ 0 \in 0..MaxQoS
      /\ \A q \in 1..MaxQoS : q \in 0..MaxQoS /\ q # 0
  BY BoundsAssumption DEF Kinds
<1>3. CASE TerrestrialAccepted(c)
  <2>1. /\ Receive(c, "TERRESTRIAL", 0) /\ mClients' = mClients /\ answers' = answers
        /\ mTerrestrialFixTimeoutMap' = [mTerrestrialFixTimeoutMap EXCEPT ![c] = Len(reqs')]
        /\ mSingleFixReqMap' = mSingleFixReqMap
    BY <1>3 DEF TerrestrialAccepted, fusedVars
  <2>2. Len(reqs') = Len(reqs) + 1
    BY <1>1, <1>2, <2>1, ReceiveAppends
  <2>3. Waiting' = (Waiting \ Fixes!WaitingOf(c, "TERRESTRIAL")) \cup {Len(reqs')}
    BY <1>1, <2>1, <2>2, FiledWaits
  <2>4. Fixes!Ask(c, "TERRESTRIAL", 0)
    BY <2>1, <2>3, SameTold DEF Fixes!Ask, Fixes!Receive, Receive
  <2> QED
    BY <2>4 DEF AbstractStep, Fixes!FixNext
<1>4. ASSUME NEW q \in 1..MaxQoS, SinglePosRequested(c, q) PROVE AbstractStep
  <2>1. /\ Receive(c, "FUSED", q) /\ mClients' = mClients /\ answers' = answers
        /\ mSingleFixReqMap' = [mSingleFixReqMap EXCEPT ![c] = Len(reqs')]
        /\ mTerrestrialFixTimeoutMap' = mTerrestrialFixTimeoutMap
    BY <1>4 DEF SinglePosRequested, apiVars
  <2>2. Len(reqs') = Len(reqs) + 1
    BY <1>1, <1>2, <2>1, ReceiveAppends
  <2>3. Waiting' = (Waiting \ Fixes!WaitingOf(c, "FUSED")) \cup {Len(reqs')}
    BY <1>1, <2>1, <2>2, FiledWaits
  <2>4. Fixes!Ask(c, "FUSED", q)
    BY <1>2, <2>1, <2>3, SameTold DEF Fixes!Ask, Fixes!Receive, Receive
  <2> QED
    BY <1>2, <2>4 DEF AbstractStep, Fixes!FixNext
<1>5. CASE SinglePosCancelled(c)
  <2>1. /\ Receive(c, "FUSED", 0) /\ mClients' = mClients /\ answers' = answers
        /\ mSingleFixReqMap' = [mSingleFixReqMap EXCEPT ![c] = 0]
        /\ mTerrestrialFixTimeoutMap' = mTerrestrialFixTimeoutMap
    BY <1>5 DEF SinglePosCancelled, apiVars
  <2>2. Len(reqs') = Len(reqs) + 1
    BY <1>1, <1>2, <2>1, ReceiveAppends
  <2>3. Waiting' = (Waiting \ Fixes!WaitingOf(c, "FUSED")) \cup {}
    BY <1>1, <2>1, <2>2, FiledWaits
  <2>4. Fixes!Ask(c, "FUSED", 0)
    BY <2>1, <2>3, SameTold DEF Fixes!Ask, Fixes!Receive, Receive
  <2> QED
    BY <1>2, <2>4 DEF AbstractStep, Fixes!FixNext
<1> QED
  BY <1>3, <1>4, <1>5

\* A terrestrial fix: it serves every terrestrial request that waits.
LEMMA TerrestrialFixRefines ==
  ASSUME IInv, NEW l \in Locations, onGtpWwanTrackingCallback(l)
  PROVE  AbstractStep
<1> DEFINE map == mTerrestrialFixTimeoutMap
           D == {map[c] : c \in Pending(map)}
<1>1. /\ TypeOK /\ MapsAreOwn
      /\ answers \in [1..MaxReqs -> Seq(Answer)]
      /\ map \in [Clients -> 0..Len(reqs)]
      /\ mSingleFixReqMap \in [Clients -> 0..Len(reqs)]
      /\ Len(reqs) \in Nat
  BY DEF IInv, TypeOK, HistoryTypes, ServiceTypes, FusedTypes
<1>2. /\ reqs' = reqs /\ mClients' = mClients /\ mSingleFixReqMap' = mSingleFixReqMap
      /\ mTerrestrialFixTimeoutMap' = [c \in Clients |-> 0]
      /\ answers' = Send(D, "SUCCESS", l, 0)
      /\ l # NoPosition
  BY DEF onGtpWwanTrackingCallback, fusedVars
<1>3. \A r : r \in D <=> r # 0 /\ \E c \in Clients : mTerrestrialFixTimeoutMap[c] = r
  BY DEF Pending
<1> HIDE DEF D
<1>4. Waiting' = Waiting \ D
  <2>1. ASSUME NEW c \in Clients
        PROVE  /\ mTerrestrialFixTimeoutMap'[c] = IF mTerrestrialFixTimeoutMap[c] \in D
                                                  THEN 0 ELSE mTerrestrialFixTimeoutMap[c]
               /\ mSingleFixReqMap'[c] = IF mSingleFixReqMap[c] \in D
                                         THEN 0 ELSE mSingleFixReqMap[c]
    <3>1. mSingleFixReqMap[c] \notin D
      BY <1>1, <1>3, EntriesDiffer
    <3>2. mTerrestrialFixTimeoutMap'[c] = 0
      BY <1>2
    <3>3. mTerrestrialFixTimeoutMap[c] \notin D => mTerrestrialFixTimeoutMap[c] = 0
      BY <1>3
    <3> QED
      BY <1>2, <3>1, <3>2, <3>3
  <2> QED
    BY <1>1, <1>2, <2>1, ErasedStopWaiting
<1>5. D = Fixes!Satisfied("TERRESTRIAL", l)
  <2>1. ASSUME NEW r PROVE r \in D <=> r \in Waiting /\ reqs[r].kind = "TERRESTRIAL"
    BY <1>1, <1>3 DEF Waiting, Waits, MapsAreOwn
  <2>2. ASSUME NEW r PROVE r \in Fixes!Satisfied("TERRESTRIAL", l)
                           <=> r \in Waiting /\ reqs[r].kind = "TERRESTRIAL"
    BY DEF Fixes!Satisfied
  <2> QED
    BY <2>1, <2>2
<1>6. Fixes!Tell(D, Fixes!Says("SUCCESS", l))
  BY <1>1, <1>2, SendTells
<1>7. Fixes!Serve("TERRESTRIAL", l)
  BY <1>2, <1>4, <1>5, <1>6 DEF Fixes!Serve
<1>8. l \in Fixes!Positions
  BY <1>2, BoundsAssumption DEF Fixes!Positions, Locations, NoPosition
<1> QED
  BY <1>7, <1>8 DEF AbstractStep, Fixes!FixNext

\* A location: it serves the fused requests it is accurate enough for, if it is a position.
LEMMA LocationRefines ==
  ASSUME IInv, NEW l \in Locations, onGnssLocationInfoCb(l)
  PROVE  AbstractStep
<1> DEFINE D == {mSingleFixReqMap[c] : c \in Met(l)}
<1>1. /\ TypeOK /\ MapsAreOwn
      /\ answers \in [1..MaxReqs -> Seq(Answer)]
      /\ mTerrestrialFixTimeoutMap \in [Clients -> 0..Len(reqs)]
      /\ mSingleFixReqMap \in [Clients -> 0..Len(reqs)]
      /\ Len(reqs) \in Nat
  BY DEF IInv, TypeOK, HistoryTypes, ServiceTypes, FusedTypes
<1>2. /\ reqs' = reqs /\ mClients' = mClients
      /\ mTerrestrialFixTimeoutMap' = mTerrestrialFixTimeoutMap
      /\ mSingleFixReqMap' = [c \in Clients |->
                                 IF c \in Met(l) THEN 0 ELSE mSingleFixReqMap[c]]
      /\ answers' = Send(D, "SUCCESS", l, 0)
  BY DEF onGnssLocationInfoCb, apiVars
<1>3. \A r : r \in D <=> \E c \in Met(l) : mSingleFixReqMap[c] = r
  OBVIOUS
<1>4. \A c \in Clients : c \in Met(l) <=> /\ mSingleFixReqMap[c] # 0
                                          /\ l # NoPosition
                                          /\ l < reqs[mSingleFixReqMap[c]].horQoS
  BY DEF Met, Pending
<1>5. Met(l) \subseteq Clients
  BY DEF Met, Pending
<1> HIDE DEF D
<1>6. Waiting' = Waiting \ D
  <2>1. ASSUME NEW c \in Clients
        PROVE  /\ mTerrestrialFixTimeoutMap'[c] = IF mTerrestrialFixTimeoutMap[c] \in D
                                                  THEN 0 ELSE mTerrestrialFixTimeoutMap[c]
               /\ mSingleFixReqMap'[c] = IF mSingleFixReqMap[c] \in D
                                         THEN 0 ELSE mSingleFixReqMap[c]
    <3>1. mTerrestrialFixTimeoutMap[c] \notin D
      BY <1>1, <1>3, <1>4, <1>5, EntriesDiffer
    <3>2. mSingleFixReqMap'[c] = IF c \in Met(l) THEN 0 ELSE mSingleFixReqMap[c]
      BY <1>2
    <3>3. mSingleFixReqMap[c] \in D <=> c \in Met(l)
      BY <1>1, <1>3, <1>4, <1>5, EntriesDiffer
    <3> QED
      BY <1>2, <3>1, <3>2, <3>3
  <2> QED
    BY <1>1, <1>2, <2>1, ErasedStopWaiting
<1>7. CASE l = NoPosition
  <2>1. D = {}
    BY <1>3, <1>4, <1>5, <1>7
  <2>2. answers' = answers
    BY <1>1, <1>2, <2>1 DEF Send
  <2> QED
    BY <1>2, <1>6, <2>1, <2>2, SameTold DEF AbstractStep, Fixes!fixVars
<1>8. CASE l # NoPosition
  <2>1. D = Fixes!Satisfied("FUSED", l)
    <3>1. ASSUME NEW r
          PROVE  r \in D <=> /\ r \in Waiting /\ reqs[r].kind = "FUSED"
                             /\ l < reqs[r].horQoS
      BY <1>1, <1>3, <1>4, <1>5, <1>8 DEF Waiting, Waits, MapsAreOwn
    <3>2. ASSUME NEW r
          PROVE  r \in Fixes!Satisfied("FUSED", l)
                 <=> /\ r \in Waiting /\ reqs[r].kind = "FUSED"
                     /\ l < reqs[r].horQoS
      BY DEF Fixes!Satisfied
    <3> QED
      BY <3>1, <3>2
  <2>2. Fixes!Tell(D, Fixes!Says("SUCCESS", l))
    BY <1>1, <1>2, SendTells
  <2>3. Fixes!Serve("FUSED", l)
    BY <1>2, <1>6, <2>1, <2>2 DEF Fixes!Serve
  <2>4. l \in Fixes!Positions
    BY <1>8, BoundsAssumption DEF Fixes!Positions, Locations, NoPosition
  <2> QED
    BY <2>3, <2>4 DEF AbstractStep, Fixes!FixNext
<1> QED
  BY <1>7, <1>8

\* A timeout that is handled: the entry of the client it names stops waiting and is told.
LEMMA TimeoutRefines ==
  ASSUME IInv, NEW c \in Clients, gtpFixRequestTimeout(c) \/ singleFixRequestTimeout(c)
  PROVE  AbstractStep
<1>1. /\ TypeOK /\ MapsAreOwn
      /\ answers \in [1..MaxReqs -> Seq(Answer)]
      /\ mTerrestrialFixTimeoutMap \in [Clients -> 0..Len(reqs)]
      /\ mSingleFixReqMap \in [Clients -> 0..Len(reqs)]
      /\ mSingleFixLastLocation \in Locations /\ mMsgTask \in Seq(1..MaxReqs)
      /\ Len(reqs) \in Nat
  BY DEF IInv, TypeOK, HistoryTypes, ServiceTypes, FusedTypes
<1>2. Head(mMsgTask) \in Nat
  <2>1. mMsgTask # <<>>
    BY DEF gtpFixRequestTimeout, singleFixRequestTimeout, Due
  <2> QED
    BY <1>1, <2>1, BoundsAssumption, SMTT(20)
<1>3. Fixes!Locations = Locations /\ NoPosition = -1 /\ NoPosition \in Locations
  BY BoundsAssumption DEF Fixes!Locations, Locations, NoPosition
<1>4. ASSUME NEW r, NEW l \in Locations, NEW t \in Nat, r # 0,
             \/ mTerrestrialFixTimeoutMap[c] = r /\ l = NoPosition
             \/ mSingleFixReqMap[c] = r,
             \A d \in Clients :
                /\ mTerrestrialFixTimeoutMap'[d] = IF mTerrestrialFixTimeoutMap[d] = r
                                                   THEN 0 ELSE mTerrestrialFixTimeoutMap[d]
                /\ mSingleFixReqMap'[d] = IF mSingleFixReqMap[d] = r
                                          THEN 0 ELSE mSingleFixReqMap[d],
             answers' = Send({r}, "TIMEOUT", l, t), reqs' = reqs, mClients' = mClients
      PROVE  AbstractStep
  <2>1. r \in Waiting
    BY <1>1, <1>4 DEF Waiting, Waits
  <2>2. reqs[r].kind = "TERRESTRIAL" => l = NoPosition
    BY <1>1, <1>4 DEF MapsAreOwn
  <2>3. Waiting' = Waiting \ {r}
    <3> DEFINE D == {r}
    <3>1. \A d \in Clients :
            /\ mTerrestrialFixTimeoutMap'[d] = IF mTerrestrialFixTimeoutMap[d] \in D
                                               THEN 0 ELSE mTerrestrialFixTimeoutMap[d]
            /\ mSingleFixReqMap'[d] = IF mSingleFixReqMap[d] \in D
                                      THEN 0 ELSE mSingleFixReqMap[d]
      BY <1>4
    <3> HIDE DEF D
    <3>2. Waiting' = Waiting \ D
      BY <1>1, <1>4, <3>1, ErasedStopWaiting
    <3> QED
      BY <3>2 DEF D
  <2>4. Fixes!Tell({r}, Fixes!Says("TIMEOUT", l))
    BY <1>1, <1>4, SendTells
  <2>5. Fixes!TimeOut(r, l)
    BY <1>3, <1>4, <2>1, <2>2, <2>3, <2>4 DEF Fixes!TimeOut
  <2>6. \E s \in Waiting, k \in Fixes!Locations : Fixes!TimeOut(s, k)
    BY <1>3, <1>4, <2>1, <2>5
  <2> QED
    BY <2>6 DEF AbstractStep, Fixes!FixNext
<1>5. ASSUME UNCHANGED <<mClients, reqs, answers, mTerrestrialFixTimeoutMap, mSingleFixReqMap>>
      PROVE  AbstractStep
  BY <1>1, <1>5, SameWaiting, SameTold DEF AbstractStep, Fixes!fixVars
<1>6. CASE gtpFixRequestTimeout(c)
  <2>1. reqs' = reqs /\ mClients' = mClients /\ mSingleFixReqMap' = mSingleFixReqMap
    BY <1>6 DEF gtpFixRequestTimeout, fusedVars
  <2>2. CASE mTerrestrialFixTimeoutMap[c] = 0
    BY <1>5, <1>6, <2>1, <2>2 DEF gtpFixRequestTimeout, apiVars
  <2>3. CASE mTerrestrialFixTimeoutMap[c] # 0
    <3> DEFINE r == mTerrestrialFixTimeoutMap[c]
    <3>1. /\ answers' = Send({r}, "TIMEOUT", NoPosition, Head(mMsgTask))
          /\ mTerrestrialFixTimeoutMap' = [mTerrestrialFixTimeoutMap EXCEPT ![c] = 0]
      BY <1>6, <2>3 DEF gtpFixRequestTimeout
    <3>2. ASSUME NEW d \in Clients
          PROVE  /\ mTerrestrialFixTimeoutMap'[d] = IF mTerrestrialFixTimeoutMap[d] = r
                                                    THEN 0 ELSE mTerrestrialFixTimeoutMap[d]
                 /\ mSingleFixReqMap'[d] = IF mSingleFixReqMap[d] = r
                                           THEN 0 ELSE mSingleFixReqMap[d]
      BY <1>1, <2>1, <2>3, <3>1, EntriesDiffer
    <3> HIDE DEF r
    <3>3. r # 0 /\ mTerrestrialFixTimeoutMap[c] = r
      BY <2>3 DEF r
    <3> QED
      BY <1>2, <1>3, <1>4, <2>1, <3>1, <3>2, <3>3
  <2> QED
    BY <2>2, <2>3
<1>7. CASE singleFixRequestTimeout(c)
  <2>1. /\ reqs' = reqs /\ mClients' = mClients
        /\ mTerrestrialFixTimeoutMap' = mTerrestrialFixTimeoutMap
    BY <1>7 DEF singleFixRequestTimeout, apiVars
  <2>2. CASE mSingleFixReqMap[c] = 0
    BY <1>5, <1>7, <2>1, <2>2 DEF singleFixRequestTimeout
  <2>3. CASE mSingleFixReqMap[c] # 0
    <3> DEFINE r == mSingleFixReqMap[c]
    <3>1. /\ answers' = Send({r}, "TIMEOUT", mSingleFixLastLocation, Head(mMsgTask))
          /\ mSingleFixReqMap' = [mSingleFixReqMap EXCEPT ![c] = 0]
      BY <1>7, <2>3 DEF singleFixRequestTimeout
    <3>2. ASSUME NEW d \in Clients
          PROVE  /\ mTerrestrialFixTimeoutMap'[d] = IF mTerrestrialFixTimeoutMap[d] = r
                                                    THEN 0 ELSE mTerrestrialFixTimeoutMap[d]
                 /\ mSingleFixReqMap'[d] = IF mSingleFixReqMap[d] = r
                                           THEN 0 ELSE mSingleFixReqMap[d]
      BY <1>1, <2>1, <2>3, <3>1, EntriesDiffer
    <3> HIDE DEF r
    <3>3. r # 0 /\ mSingleFixReqMap[c] = r
      BY <2>3 DEF r
    <3> QED
      BY <1>1, <1>2, <1>4, <2>1, <3>1, <3>2, <3>3
  <2> QED
    BY <2>2, <2>3
<1> QED
  BY <1>6, <1>7

\* Every step is one the abstract requests can take, or shows a client nothing.
LEMMA StepRefines ==
  ASSUME IInv, Next
  PROVE  AbstractStep
BY StepCases, ClientRefines, HiddenRefines, RefusedRefines, RequestRefines,
   TerrestrialFixRefines, LocationRefines, TimeoutRefines

\* The daemon starts with no request and nobody to tell.
LEMMA InitRefines ==
  ASSUME Init
  PROVE  Fixes!FixInit
<1>1. Waiting = {}
  BY DEF Init, Waiting
<1>2. ASSUME NEW r \in 1..MaxReqs PROVE ToldOf(r) = <<>>
  <2>1. answers[r] = <<>>
    BY DEF Init
  <2> QED
    BY <2>1 DEF ToldOf
<1>3. Told = [r \in 1..MaxReqs |-> <<>>]
  BY <1>2 DEF Told
<1> QED
  BY <1>1, <1>3 DEF Init, Fixes!FixInit

-----------------------------------------------------------------------------
(* Timeouts of patient clients *)

\* The entry of the client and the kind that request r is of.
EntryOf(r) == IF reqs[r].kind = "TERRESTRIAL" THEN mTerrestrialFixTimeoutMap[reqs[r].client]
              ELSE mSingleFixReqMap[reqs[r].client]

Queued == {mMsgTask[i] : i \in 1..Len(mMsgTask)}

\* A timer runs only as long as its request is the entry.
TimersAreOwn == \A r \in armed : r \in 1..Len(reqs) /\ EntryOf(r) = r

\* A timeout in the queue finds the request that armed it, or none.
TimeoutsAreOwn == \A r \in Queued : r \in 1..Len(reqs) /\ EntryOf(r) \in {0, r}

PatientInv == TimersAreOwn /\ TimeoutsAreOwn /\ TimeoutIsItsOwn

\* The entries in D are erased, from both maps, and no others.
Erased(D) ==
    \A c \in Clients :
        /\ mTerrestrialFixTimeoutMap'[c] = IF mTerrestrialFixTimeoutMap[c] \in D
                                           THEN 0 ELSE mTerrestrialFixTimeoutMap[c]
        /\ mSingleFixReqMap'[c] = IF mSingleFixReqMap[c] \in D
                                  THEN 0 ELSE mSingleFixReqMap[c]

\* Requests that were received keep their numbers.
KeepsReqs ==
    /\ Len(reqs) \in Nat /\ Len(reqs') \in Nat /\ Len(reqs) =< Len(reqs')
    /\ \A r \in 1..Len(reqs) : reqs'[r] = reqs[r]

\* With an entry its timer is destroyed, and no message is added to the queue.
LEMMA ErasedKeepOwn ==
  ASSUME TypeOK, TimersAreOwn, TimeoutsAreOwn, NEW D, Erased(D), KeepsReqs,
         armed' \subseteq armed \ D, Queued' \subseteq Queued
  PROVE  TimersAreOwn' /\ TimeoutsAreOwn'
<1>1. \A r \in 1..Len(reqs) : /\ reqs[r].client \in Clients
                              /\ r \in 1..Len(reqs') /\ reqs'[r] = reqs[r]
  <2>1. reqs \in Seq(Request) /\ \A m \in Request : m.client \in Clients
    BY DEF TypeOK, HistoryTypes, Request
  <2> QED
    BY <2>1 DEF KeepsReqs
<1>2. ASSUME NEW r \in 1..Len(reqs)
      PROVE  EntryOf(r)' = IF EntryOf(r) \in D THEN 0 ELSE EntryOf(r)
  BY <1>1 DEF EntryOf, Erased
<1>3. ASSUME NEW r \in armed' PROVE r \in 1..Len(reqs') /\ EntryOf(r)' = r
  <2>1. r \in 1..Len(reqs) /\ EntryOf(r) = r /\ r \notin D
    BY <1>3 DEF TimersAreOwn
  <2> QED
    BY <1>1, <1>2, <2>1
<1>4. ASSUME NEW r \in Queued' PROVE r \in 1..Len(reqs') /\ EntryOf(r)' \in {0, r}
  <2>1. r \in 1..Len(reqs) /\ EntryOf(r) \in {0, r}
    BY <1>4 DEF TimeoutsAreOwn
  <2> QED
    BY <1>1, <1>2, <2>1
<1> QED
  BY <1>3, <1>4 DEF TimersAreOwn, TimeoutsAreOwn

\* Each handler that erases entries destroys their timers.
LEMMA TimersGo ==
  ASSUME IInv, \/ \E c \in Clients : deleteClientbyName(c) \/ SinglePosCancelled(c)
               \/ \E l \in Locations : onGtpWwanTrackingCallback(l) \/ onGnssLocationInfoCb(l)
               \/ \E c \in Clients : gtpFixRequestTimeout(c) \/ singleFixRequestTimeout(c)
  PROVE  \E D : Erased(D) /\ armed' \subseteq armed \ D
<1>1. /\ TypeOK /\ MapsAreOwn
      /\ mTerrestrialFixTimeoutMap \in [Clients -> 0..Len(reqs)]
      /\ mSingleFixReqMap \in [Clients -> 0..Len(reqs)]
      /\ armed \subseteq 1..MaxReqs
      /\ 0 \notin armed
  BY DEF IInv, TypeOK, HistoryTypes, ServiceTypes, FusedTypes
<1>2. \A c, d \in Clients :
         /\ mTerrestrialFixTimeoutMap[c] # 0 =>
              /\ mTerrestrialFixTimeoutMap[c] # mSingleFixReqMap[d]
              /\ c # d => mTerrestrialFixTimeoutMap[c] # mTerrestrialFixTimeoutMap[d]
         /\ mSingleFixReqMap[c] # 0 /\ c # d => mSingleFixReqMap[c] # mSingleFixReqMap[d]
  BY <1>1, EntriesDiffer
<1>3. ASSUME NEW c \in Clients, deleteClientbyName(c)
      PROVE  \E D : Erased(D) /\ armed' \subseteq armed \ D
  <2> DEFINE D == {mTerrestrialFixTimeoutMap[c], mSingleFixReqMap[c]}
  <2>1. /\ mTerrestrialFixTimeoutMap' = [mTerrestrialFixTimeoutMap EXCEPT ![c] = 0]
        /\ mSingleFixReqMap' = [mSingleFixReqMap EXCEPT ![c] = 0]
        /\ armed' = armed \ D
    BY <1>3 DEF deleteClientbyName
  <2>2. Erased(D)
    BY <1>1, <1>2, <2>1 DEF Erased
  <2> QED
    BY <2>1, <2>2
<1>4. ASSUME NEW c \in Clients, SinglePosCancelled(c)
      PROVE  \E D : Erased(D) /\ armed' \subseteq armed \ D
  <2> DEFINE D == {mSingleFixReqMap[c]}
  <2>1. /\ mTerrestrialFixTimeoutMap' = mTerrestrialFixTimeoutMap
        /\ mSingleFixReqMap' = [mSingleFixReqMap EXCEPT ![c] = 0]
        /\ armed' = armed \ D
    BY <1>4 DEF SinglePosCancelled, apiVars
  <2>2. Erased(D)
    BY <1>1, <1>2, <2>1 DEF Erased
  <2> QED
    BY <2>1, <2>2
<1>5. ASSUME NEW l \in Locations, onGtpWwanTrackingCallback(l)
      PROVE  \E D : Erased(D) /\ armed' \subseteq armed \ D
  <2> DEFINE D == {mTerrestrialFixTimeoutMap[c] : c \in Clients}
  <2>1. /\ mTerrestrialFixTimeoutMap' = [c \in Clients |-> 0]
        /\ mSingleFixReqMap' = mSingleFixReqMap
        /\ armed' = armed \ D
    BY <1>5 DEF onGtpWwanTrackingCallback, fusedVars
  <2>2. Erased(D)
    <3>1. ASSUME NEW c \in Clients PROVE mSingleFixReqMap[c] \in D => mSingleFixReqMap[c] = 0
      BY <1>2
    <3>2. ASSUME NEW c \in Clients PROVE mTerrestrialFixTimeoutMap[c] \in D
      OBVIOUS
    <3> QED
      BY <2>1, <3>1, <3>2 DEF Erased
  <2> QED
    BY <2>1, <2>2
<1>6. ASSUME NEW l \in Locations, onGnssLocationInfoCb(l)
      PROVE  \E D : Erased(D) /\ armed' \subseteq armed \ D
  <2> DEFINE D == {mSingleFixReqMap[c] : c \in Met(l)}
  <2>1. /\ mTerrestrialFixTimeoutMap' = mTerrestrialFixTimeoutMap
        /\ mSingleFixReqMap' = [c \in Clients |->
                                   IF c \in Met(l) THEN 0 ELSE mSingleFixReqMap[c]]
        /\ armed' = armed \ D
    BY <1>6 DEF onGnssLocationInfoCb, apiVars
  <2>2. Met(l) \subseteq Clients /\ \A c \in Met(l) : mSingleFixReqMap[c] # 0
    BY DEF Met, Pending
  <2>3. Erased(D)
    <3>1. ASSUME NEW c \in Clients PROVE mSingleFixReqMap[c] \in D <=> c \in Met(l)
      BY <1>2, <2>2
    <3>2. ASSUME NEW c \in Clients PROVE mTerrestrialFixTimeoutMap[c] \notin D
      BY <1>2, <2>2
    <3> QED
      BY <2>1, <3>1, <3>2 DEF Erased
  <2> QED
    BY <2>1, <2>3
<1>7. ASSUME NEW c \in Clients, gtpFixRequestTimeout(c)
      PROVE  \E D : Erased(D) /\ armed' \subseteq armed \ D
  <2> DEFINE D == {mTerrestrialFixTimeoutMap[c]}
  <2>1. /\ mTerrestrialFixTimeoutMap' = [mTerrestrialFixTimeoutMap EXCEPT ![c] = 0]
        /\ mSingleFixReqMap' = mSingleFixReqMap
        /\ armed' = armed \ D
    BY <1>1, <1>7 DEF gtpFixRequestTimeout, apiVars, fusedVars
  <2>2. Erased(D)
    BY <1>1, <1>2, <2>1 DEF Erased
  <2> QED
    BY <2>1, <2>2
<1>8. ASSUME NEW c \in Clients, singleFixRequestTimeout(c)
      PROVE  \E D : Erased(D) /\ armed' \subseteq armed \ D
  <2> DEFINE D == {mSingleFixReqMap[c]}
  <2>1. /\ mTerrestrialFixTimeoutMap' = mTerrestrialFixTimeoutMap
        /\ mSingleFixReqMap' = [mSingleFixReqMap EXCEPT ![c] = 0]
        /\ armed' = armed \ D
    BY <1>1, <1>8 DEF singleFixRequestTimeout, apiVars
  <2>2. Erased(D)
    BY <1>1, <1>2, <2>1 DEF Erased
  <2> QED
    BY <2>1, <2>2
<1> QED
  BY <1>3, <1>4, <1>5, <1>6, <1>7, <1>8

\* A handler receives one request, or none.
LEMMA ReceivedAreKept ==
  ASSUME TypeOK, \/ reqs' = reqs
                 \/ \E c \in Clients, k \in Kinds, q \in 0..MaxQoS : Receive(c, k, q)
  PROVE  KeepsReqs
<1>1. Len(reqs) \in Nat
  BY DEF TypeOK, HistoryTypes
<1>2. CASE reqs' = reqs
  BY <1>1, <1>2 DEF KeepsReqs
<1>3. ASSUME NEW c \in Clients, NEW k \in Kinds, NEW q \in 0..MaxQoS, Receive(c, k, q)
      PROVE  KeepsReqs
  <2>1. Len(reqs') = Len(reqs) + 1 /\ \A r \in 1..Len(reqs) : reqs'[r] = reqs[r]
    BY <1>3, ReceiveAppends
  <2> QED
    BY <1>1, <2>1 DEF KeepsReqs
<1> QED
  BY <1>2, <1>3

\* Request n of client c and kind k takes the place, and its timer the place of that, of e.
Filed(c, k, e, n) ==
    /\ n = Len(reqs') /\ n = Len(reqs) + 1
    /\ reqs'[n].client = c /\ reqs'[n].kind = k
    /\ \A r \in 1..Len(reqs) : IF reqs[r].client = c /\ reqs[r].kind = k
                               THEN EntryOf(r) = e ELSE EntryOf(r)' = EntryOf(r)
    /\ armed' = (armed \ {e}) \cup {n} /\ mMsgTask' = mMsgTask

\* A request that is filed finds no timeout of its client and kind in the queue: later ones
\* are its own.
LEMMA FiledKeepOwn ==
  ASSUME TypeOK, TimersAreOwn, TimeoutsAreOwn, KeepsReqs, Patient,
         NEW c \in Clients, NEW k \in Kinds, NEW e, NEW n, Filed(c, k, e, n),
         EntryOf(n)' = n
  PROVE  TimersAreOwn' /\ TimeoutsAreOwn'
<1>1. Len(reqs) \in Nat /\ n \in 1..Len(reqs') /\ 1..Len(reqs) \subseteq 1..Len(reqs')
  BY DEF KeepsReqs, Filed
<1>2. ASSUME NEW r \in armed' PROVE r \in 1..Len(reqs') /\ EntryOf(r)' = r
  <2>1. CASE r = n
    BY <1>1, <2>1
  <2>2. CASE r # n
    <3>1. r \in armed /\ r # e /\ r \in 1..Len(reqs) /\ EntryOf(r) = r
      BY <1>2, <2>2 DEF TimersAreOwn, Filed
    <3>2. EntryOf(r)' = EntryOf(r)
      BY <3>1 DEF Filed
    <3> QED
      BY <1>1, <3>1, <3>2
  <2> QED
    BY <2>1, <2>2
<1>3. ASSUME NEW r \in Queued' PROVE r \in 1..Len(reqs') /\ EntryOf(r)' \in {0, r}
  <2>1. r \in Queued
    BY <1>3 DEF Queued, Filed
  <2>2. r \in 1..Len(reqs) /\ EntryOf(r) \in {0, r}
    BY <2>1 DEF TimeoutsAreOwn
  <2>3. ~(reqs[r].client = c /\ reqs[r].kind = k)
    <3>1. Len(reqs') > Len(reqs) /\ reqs'[Len(reqs')].client = c /\ reqs'[Len(reqs')].kind = k
      BY <1>1 DEF Filed
    <3>2. PICK i \in 1..Len(mMsgTask) : mMsgTask[i] = r
      BY <2>1 DEF Queued
    <3> QED
      BY <3>1, <3>2 DEF Patient
  <2>4. EntryOf(r)' = EntryOf(r)
    BY <2>2, <2>3 DEF Filed
  <2> QED
    BY <1>1, <2>2, <2>4
<1> QED
  BY <1>2, <1>3 DEF TimersAreOwn, TimeoutsAreOwn

\* A terrestrial and a fused request that is filed.
LEMMA RequestKeepsOwn ==
  ASSUME IInv, TimersAreOwn, TimeoutsAreOwn, Patient, NEW c \in Clients,
         TerrestrialAccepted(c) \/ \E q \in 1..MaxQoS : SinglePosRequested(c, q)
  PROVE  TimersAreOwn' /\ TimeoutsAreOwn'
<1>1. /\ TypeOK
      /\ mTerrestrialFixTimeoutMap \in [Clients -> 0..Len(reqs)]
      /\ mSingleFixReqMap \in [Clients -> 0..Len(reqs)]
  BY DEF IInv, TypeOK, ServiceTypes, FusedTypes
<1>2. /\ "TERRESTRIAL" \in Kinds /\ "FUSED" \in Kinds /\ 0 \in 0..MaxQoS
      /\ \A q \in 1..MaxQoS : q \in 0..MaxQoS
  BY BoundsAssumption DEF Kinds
<1>3. \A r \in 1..Len(reqs) : reqs[r].client \in Clients /\ reqs[r].kind \in Kinds
  <2>1. reqs \in Seq(Request) /\ \A m \in Request : m.client \in Clients /\ m.kind \in Kinds
    BY <1>1 DEF TypeOK, HistoryTypes, Request
  <2> QED
    BY <2>1
\* The number of the new request.
<1>4. ASSUME NEW k \in Kinds, NEW q \in 0..MaxQoS, Receive(c, k, q)
      PROVE  /\ KeepsReqs
             /\ \E n \in Nat : /\ n = Len(reqs') /\ n = Len(reqs) + 1
                               /\ reqs'[n].client = c /\ reqs'[n].kind = k
  <2>1. /\ Len(reqs) \in Nat /\ Len(reqs') = Len(reqs) + 1
        /\ reqs'[Len(reqs')] = [client |-> c, kind |-> k, horQoS |-> q]
    BY <1>1, <1>4, ReceiveAppends
  <2>2. KeepsReqs
    BY <1>1, <1>4, ReceivedAreKept
  <2> QED
    BY <2>1, <2>2
<1>5. CASE TerrestrialAccepted(c)
  <2>1. Receive(c, "TERRESTRIAL", 0)
    BY <1>5 DEF TerrestrialAccepted
  <2>2. KeepsReqs
    BY <1>2, <1>4, <2>1
  <2>3. PICK n \in Nat : /\ n = Len(reqs') /\ n = Len(reqs) + 1
                         /\ reqs'[n].client = c /\ reqs'[n].kind = "TERRESTRIAL"
    BY <1>2, <1>4, <2>1
  <2>4. /\ mTerrestrialFixTimeoutMap' = [mTerrestrialFixTimeoutMap EXCEPT ![c] = n]
        /\ armed' = (armed \ {mTerrestrialFixTimeoutMap[c]}) \cup {n}
        /\ mSingleFixReqMap' = mSingleFixReqMap /\ mMsgTask' = mMsgTask
    BY <1>5, <2>3 DEF TerrestrialAccepted, fusedVars
  <2>5. ASSUME NEW r \in 1..Len(reqs)
        PROVE  /\ reqs[r].client = c /\ reqs[r].kind = "TERRESTRIAL"
                      => EntryOf(r) = mTerrestrialFixTimeoutMap[c]
               /\ ~(reqs[r].client = c /\ reqs[r].kind = "TERRESTRIAL")
                      => EntryOf(r)' = EntryOf(r)
    BY <1>1, <1>3, <2>2, <2>4 DEF EntryOf, KeepsReqs
  <2>6. EntryOf(n)' = n
    <3>1. mTerrestrialFixTimeoutMap'[c] = n
      BY <1>1, <2>4
    <3> QED
      BY <2>3, <3>1 DEF EntryOf
  <2>7. Filed(c, "TERRESTRIAL", mTerrestrialFixTimeoutMap[c], n)
    BY <2>3, <2>4, <2>5 DEF Filed
  <2> QED
    BY <1>1, <1>2, <2>2, <2>6, <2>7, FiledKeepOwn
<1>6. ASSUME NEW q \in 1..MaxQoS, SinglePosRequested(c, q)
      PROVE  TimersAreOwn' /\ TimeoutsAreOwn'
  <2>1. Receive(c, "FUSED", q)
    BY <1>6 DEF SinglePosRequested
  <2>2. KeepsReqs
    BY <1>2, <1>4, <2>1
  <2>3. PICK n \in Nat : /\ n = Len(reqs') /\ n = Len(reqs) + 1
                         /\ reqs'[n].client = c /\ reqs'[n].kind = "FUSED"
    BY <1>2, <1>4, <2>1
  <2>4. /\ mSingleFixReqMap' = [mSingleFixReqMap EXCEPT ![c] = n]
        /\ armed' = (armed \ {mSingleFixReqMap[c]}) \cup {n}
        /\ mTerrestrialFixTimeoutMap' = mTerrestrialFixTimeoutMap /\ mMsgTask' = mMsgTask
    BY <1>6, <2>3 DEF SinglePosRequested, apiVars
  <2>5. ASSUME NEW r \in 1..Len(reqs)
        PROVE  /\ reqs[r].client = c /\ reqs[r].kind = "FUSED"
                      => EntryOf(r) = mSingleFixReqMap[c]
               /\ ~(reqs[r].client = c /\ reqs[r].kind = "FUSED")
                      => EntryOf(r)' = EntryOf(r)
    BY <1>1, <1>3, <2>2, <2>4 DEF EntryOf, KeepsReqs, Kinds
  <2>6. EntryOf(n)' = n
    <3>1. mSingleFixReqMap'[c] = n
      BY <1>1, <2>4
    <3> QED
      BY <2>3, <3>1 DEF EntryOf
  <2>7. Filed(c, "FUSED", mSingleFixReqMap[c], n)
    BY <2>3, <2>4, <2>5 DEF Filed
  <2> QED
    BY <1>1, <1>2, <2>2, <2>6, <2>7, FiledKeepOwn
<1> QED
  BY <1>5, <1>6

\* Timers and queued timeouts stay own, step by step.
LEMMA OwnTimersStep ==
  ASSUME IInv, TimersAreOwn, TimeoutsAreOwn, Next, Patient
  PROVE  TimersAreOwn' /\ TimeoutsAreOwn'
<1> DEFINE Goal == TimersAreOwn' /\ TimeoutsAreOwn'
<1>1. /\ TypeOK /\ mMsgTask \in Seq(1..MaxReqs) /\ Len(reqs) \in Nat
  BY DEF IInv, TypeOK, ServiceTypes, HistoryTypes
<1>2. /\ "TERRESTRIAL" \in Kinds /\ "FUSED" \in Kinds /\ 0 \in 0..MaxQoS
  BY BoundsAssumption DEF Kinds
<1>3. ASSUME NEW D, Erased(D), KeepsReqs, armed' \subseteq armed \ D, mMsgTask' = mMsgTask
      PROVE  Goal
  <2>1. Queued' \subseteq Queued
    BY <1>3 DEF Queued
  <2> QED
    BY <1>1, <1>3, <2>1, ErasedKeepOwn
<1>4. ASSUME NEW D, Erased(D), KeepsReqs, armed' \subseteq armed \ D, mMsgTask # <<>>,
             mMsgTask' = Tail(mMsgTask)
      PROVE  Goal
  <2>1. Queued' \subseteq Queued
    <3>1. ASSUME NEW i \in 1..Len(Tail(mMsgTask))
          PROVE  i + 1 \in 1..Len(mMsgTask) /\ Tail(mMsgTask)[i] = mMsgTask[i + 1]
      BY <1>1, <1>4
    <3>2. ASSUME NEW r \in Queued' PROVE r \in Queued
      <4>1. PICK i \in 1..Len(Tail(mMsgTask)) : Tail(mMsgTask)[i] = r
        BY <1>4, <3>2 DEF Queued
      <4> QED
        BY <3>1, <4>1 DEF Queued
    <3> QED
      BY <3>2
  <2> QED
    BY <1>1, <1>4, <2>1, ErasedKeepOwn
<1>5. ASSUME NEW c \in Clients, newClient(c) \/ TerrestrialRefused(c) PROVE Goal
  <2>1. /\ UNCHANGED <<mTerrestrialFixTimeoutMap, mSingleFixReqMap, armed, mMsgTask>>
        /\ reqs' = reqs \/ Receive(c, "TERRESTRIAL", 0)
    BY <1>5 DEF newClient, TerrestrialRefused, apiVars, fusedVars
  <2>2. Erased({}) /\ armed' \subseteq armed \ {}
    BY <2>1 DEF Erased
  <2>3. KeepsReqs
    BY <1>1, <1>2, <2>1, ReceivedAreKept
  <2> QED
    BY <1>3, <2>1, <2>2, <2>3
<1>6. ASSUME NEW u \in {0, 1}, configUserConsentTerrestrialPositioning(u) PROVE Goal
  <2>1. UNCHANGED <<mTerrestrialFixTimeoutMap, mSingleFixReqMap, armed, mMsgTask, reqs>>
    BY <1>6 DEF configUserConsentTerrestrialPositioning, apiVars, fusedVars
  <2>2. Erased({}) /\ armed' \subseteq armed \ {}
    BY <2>1 DEF Erased
  <2> QED
    BY <1>1, <1>3, <2>1, <2>2, ReceivedAreKept
<1>7. ASSUME NEW c \in Clients, deleteClientbyName(c) \/ SinglePosCancelled(c) PROVE Goal
  <2>1. /\ mMsgTask' = mMsgTask
        /\ reqs' = reqs \/ Receive(c, "FUSED", 0)
    BY <1>7 DEF deleteClientbyName, SinglePosCancelled
  <2>2. KeepsReqs
    BY <1>1, <1>2, <2>1, ReceivedAreKept
  <2>3. PICK D : Erased(D) /\ armed' \subseteq armed \ D
    BY <1>7, TimersGo
  <2> QED
    BY <1>3, <2>1, <2>2, <2>3
<1>8. ASSUME NEW l \in Locations, onGtpWwanTrackingCallback(l) \/ onGnssLocationInfoCb(l)
      PROVE  Goal
  <2>1. mMsgTask' = mMsgTask /\ reqs' = reqs
    BY <1>8 DEF onGtpWwanTrackingCallback, onGnssLocationInfoCb
  <2>2. PICK D : Erased(D) /\ armed' \subseteq armed \ D
    BY <1>8, TimersGo
  <2> QED
    BY <1>1, <1>3, <2>1, <2>2, ReceivedAreKept
<1>9. ASSUME NEW c \in Clients, gtpFixRequestTimeout(c) \/ singleFixRequestTimeout(c)
      PROVE  Goal
  <2>1. mMsgTask # <<>> /\ mMsgTask' = Tail(mMsgTask) /\ reqs' = reqs
    BY <1>9 DEF gtpFixRequestTimeout, singleFixRequestTimeout, Due
  <2>2. PICK D : Erased(D) /\ armed' \subseteq armed \ D
    BY <1>9, TimersGo
  <2> QED
    BY <1>1, <1>4, <2>1, <2>2, ReceivedAreKept
<1>10. ASSUME NEW r \in 1..MaxReqs, timeOutCallback(r) PROVE Goal
  <2>1. /\ UNCHANGED <<mTerrestrialFixTimeoutMap, mSingleFixReqMap, reqs>>
        /\ r \in armed /\ armed' = armed \ {r} /\ mMsgTask' = Append(mMsgTask, r)
    BY <1>10 DEF timeOutCallback, apiVars, fusedVars
  <2>2. ASSUME NEW s PROVE EntryOf(s)' = EntryOf(s)
    BY <2>1 DEF EntryOf
  <2>3. ASSUME NEW s \in Queued' PROVE s \in Queued \/ s = r
    <3>1. PICK i \in 1..Len(Append(mMsgTask, r)) : Append(mMsgTask, r)[i] = s
      BY <2>1, <2>3 DEF Queued
    <3>2. i \in 1..Len(mMsgTask) => mMsgTask[i] = s
      BY <1>1, <3>1
    <3>3. i \notin 1..Len(mMsgTask) => s = r
      BY <1>1, <3>1
    <3> QED
      BY <3>2, <3>3 DEF Queued
  <2>4. TimersAreOwn'
    BY <2>1, <2>2 DEF TimersAreOwn
  <2>5. TimeoutsAreOwn'
    BY <2>1, <2>2, <2>3 DEF TimersAreOwn, TimeoutsAreOwn
  <2> QED
    BY <2>4, <2>5
<1>11. ASSUME NEW c \in Clients, TerrestrialAccepted(c) PROVE Goal
  BY <1>11, RequestKeepsOwn
<1>12. ASSUME NEW c \in Clients, NEW q \in 1..MaxQoS, SinglePosRequested(c, q) PROVE Goal
  BY <1>12, RequestKeepsOwn
<1> QED
  BY StepCases, <1>5, <1>6, <1>7, <1>8, <1>9, <1>10, <1>11, <1>12

\* What is sent is no timeout, or that of the request it is sent for.
LEMMA SendIsOwn ==
  ASSUME TypeOK, TimeoutIsItsOwn,
         NEW rs, NEW e \in {"SUCCESS", "TIMEOUT", "NOT_SUPPORTED"},
         NEW l \in Locations, NEW t \in Nat,
         answers' = Send(rs, e, l, t), reqs' = reqs, e = "TIMEOUT" => rs \subseteq {t}
  PROVE  TimeoutIsItsOwn'
<1> DEFINE a == [error |-> e, location |-> l, timer |-> t]
<1>1. /\ answers \in [1..MaxReqs -> Seq(Answer)] /\ Len(reqs) \in Nat
      /\ \A r \in 1..Len(reqs) : r \in 1..MaxReqs
  BY BoundsAssumption DEF TypeOK, HistoryTypes
<1>2. a \in Answer /\ a.error = e /\ a.timer = t
  BY DEF Answer
<1>3. ASSUME NEW r \in 1..MaxReqs
      PROVE  answers'[r] = IF r \in rs /\ reqs[r].client \in mClients
                           THEN Append(answers[r], a) ELSE answers[r]
  BY DEF Send
<1> HIDE DEF a
<1>4. ASSUME NEW r \in 1..Len(reqs), NEW i \in 1..Len(answers'[r]),
             answers'[r][i].error = "TIMEOUT"
      PROVE  answers'[r][i].timer = r
  <2>1. answers[r] \in Seq(Answer) /\ r \in 1..MaxReqs
    BY <1>1
  <2>2. CASE answers'[r] = answers[r]
    BY <1>4, <2>2 DEF TimeoutIsItsOwn
  <2>3. CASE r \in rs /\ answers'[r] = Append(answers[r], a)
    <3>1. i \in 1..Len(answers[r]) => answers'[r][i] = answers[r][i]
      BY <1>2, <2>1, <2>3
    <3>2. i \notin 1..Len(answers[r]) => answers'[r][i] = a
      BY <1>2, <2>1, <2>3
    <3> QED
      BY <1>2, <1>4, <2>3, <3>1, <3>2 DEF TimeoutIsItsOwn
  <2> QED
    BY <1>3, <2>1, <2>2, <2>3
<1> QED
  BY <1>4 DEF TimeoutIsItsOwn

\* Every timeout that is sent is that of the request whose timer fired.
LEMMA OwnTimeoutStep ==
  ASSUME IInv, TimeoutsAreOwn, TimeoutIsItsOwn, Next
  PROVE  TimeoutIsItsOwn'
<1>1. /\ TypeOK /\ NothingSentAhead /\ mMsgTask \in Seq(1..MaxReqs)
      /\ answers \in [1..MaxReqs -> Seq(Answer)]
      /\ mSingleFixLastLocation \in Locations
      /\ Len(reqs) \in Nat /\ Len(reqs) =< MaxReqs /\ MaxReqs \in Nat
  BY BoundsAssumption DEF IInv, TypeOK, ServiceTypes, FusedTypes, HistoryTypes
<1>2. /\ "TERRESTRIAL" \in Kinds /\ "FUSED" \in Kinds /\ 0 \in 0..MaxQoS
      /\ \A q \in 1..MaxQoS : q \in 0..MaxQoS
      /\ NoPosition \in Locations /\ 0 \in Nat
  BY BoundsAssumption DEF Kinds, Locations, NoPosition
\* A request that is received has been told nothing.
<1>3. ASSUME answers' = answers,
             \/ reqs' = reqs
             \/ \E c \in Clients, k \in Kinds, q \in 0..MaxQoS : Receive(c, k, q)
      PROVE  TimeoutIsItsOwn'
  <2>1. Len(reqs') \in {Len(reqs), Len(reqs) + 1} /\ Len(reqs') =< MaxReqs
    BY <1>1, <1>3, ReceiveAppends
  <2>2. ASSUME NEW r \in 1..Len(reqs'), NEW i \in 1..Len(answers[r])
        PROVE  r \in 1..Len(reqs)
    <3>1. CASE r \in 1..Len(reqs)
      BY <3>1
    <3>2. CASE r > Len(reqs)
      <4>1. r \in 1..MaxReqs
        BY <1>1, <2>1
      <4>2. Len(answers[r]) = 0
        BY <3>2, <4>1, <1>1 DEF NothingSentAhead
      <4> QED
        BY <4>2
    <3> QED
      BY <1>1, <2>1, <3>1, <3>2
  <2> QED
    BY <1>3, <2>2 DEF TimeoutIsItsOwn
<1>4. ASSUME NEW c \in Clients, \/ newClient(c) \/ deleteClientbyName(c)
                                \/ TerrestrialAccepted(c) \/ SinglePosCancelled(c)
                                \/ \E q \in 1..MaxQoS : SinglePosRequested(c, q)
      PROVE  TimeoutIsItsOwn'
  BY <1>2, <1>3, <1>4 DEF newClient, deleteClientbyName, TerrestrialAccepted,
     SinglePosCancelled, SinglePosRequested
<1>5. ASSUME \/ \E u \in {0, 1} : configUserConsentTerrestrialPositioning(u)
             \/ \E r \in 1..MaxReqs : timeOutCallback(r)
      PROVE  TimeoutIsItsOwn'
  BY <1>3, <1>5 DEF configUserConsentTerrestrialPositioning, timeOutCallback
<1>6. ASSUME NEW c \in Clients, TerrestrialRefused(c) PROVE TimeoutIsItsOwn'
  <2> DEFINE a == [error |-> "NOT_SUPPORTED", location |-> NoPosition, timer |-> 0]
  <2>1. /\ Len(reqs') = Len(reqs) + 1 /\ Len(reqs') =< MaxReqs
    BY <1>1, <1>2, <1>6, ReceiveAppends DEF TerrestrialRefused
  <2>2. answers' = [answers EXCEPT ![Len(reqs) + 1] = IF c \in mClients THEN <<a>> ELSE <<>>]
    BY <1>6, <2>1 DEF TerrestrialRefused
  <2>3. ASSUME NEW r \in 1..Len(reqs)
        PROVE  answers'[r] = answers[r]
    BY <1>1, <2>1, <2>2
  <2>4. ASSUME NEW i \in 1..Len(answers'[Len(reqs) + 1])
        PROVE  answers'[Len(reqs) + 1][i].error = "NOT_SUPPORTED"
    <3>1. Len(reqs) + 1 \in 1..MaxReqs
      BY <1>1, <2>1
    <3>2. \/ answers'[Len(reqs) + 1] = <<a>>
          \/ answers'[Len(reqs) + 1] = <<>>
      BY <1>1, <2>2, <3>1
    <3> QED
      BY <2>4, <3>2
  <2>5. \A r \in 1..Len(reqs') : r \in 1..Len(reqs) \/ r = Len(reqs) + 1
    BY <1>1, <2>1
  <2> HIDE DEF a
  <2> QED
    BY <2>3, <2>4, <2>5 DEF TimeoutIsItsOwn
<1>7. ASSUME NEW l \in Locations, onGtpWwanTrackingCallback(l) PROVE TimeoutIsItsOwn'
  <2> DEFINE rs == {mTerrestrialFixTimeoutMap[c] : c \in Pending(mTerrestrialFixTimeoutMap)}
  <2>1. answers' = Send(rs, "SUCCESS", l, 0) /\ reqs' = reqs
    BY <1>7 DEF onGtpWwanTrackingCallback
  <2> HIDE DEF rs
  <2> QED
    BY <1>1, <1>2, <2>1, SendIsOwn
<1>8. ASSUME NEW l \in Locations, onGnssLocationInfoCb(l) PROVE TimeoutIsItsOwn'
  <2> DEFINE rs == {mSingleFixReqMap[c] : c \in Met(l)}
  <2>1. answers' = Send(rs, "SUCCESS", l, 0) /\ reqs' = reqs
    BY <1>8 DEF onGnssLocationInfoCb
  <2> HIDE DEF rs
  <2> QED
    BY <1>1, <1>2, <2>1, SendIsOwn
\* The message at the head of the queue finds the entry that armed its timer, or none.
<1>9. ASSUME mMsgTask # <<>>
      PROVE  Head(mMsgTask) \in Nat /\ EntryOf(Head(mMsgTask)) \in {0, Head(mMsgTask)}
  <2>1. 1 \in 1..Len(mMsgTask) /\ Head(mMsgTask) = mMsgTask[1]
    BY <1>1, <1>9
  <2>2. Head(mMsgTask) \in Queued
    BY <2>1 DEF Queued
  <2>3. Head(mMsgTask) \in 1..Len(reqs) /\ EntryOf(Head(mMsgTask)) \in {0, Head(mMsgTask)}
    BY <2>2 DEF TimeoutsAreOwn
  <2> QED
    BY <2>3
<1>10. ASSUME NEW c \in Clients, gtpFixRequestTimeout(c) PROVE TimeoutIsItsOwn'
  <2>1. /\ reqs' = reqs /\ mMsgTask # <<>>
        /\ reqs[Head(mMsgTask)].client = c /\ reqs[Head(mMsgTask)].kind = "TERRESTRIAL"
    BY <1>10 DEF gtpFixRequestTimeout, Due
  <2>2. CASE mTerrestrialFixTimeoutMap[c] = 0
    BY <1>3, <1>10, <2>1, <2>2 DEF gtpFixRequestTimeout
  <2>3. CASE mTerrestrialFixTimeoutMap[c] # 0
    <3>1. answers' = Send({mTerrestrialFixTimeoutMap[c]}, "TIMEOUT", NoPosition,
                          Head(mMsgTask))
      BY <1>10, <2>3 DEF gtpFixRequestTimeout
    <3>2. mTerrestrialFixTimeoutMap[c] = Head(mMsgTask)
      BY <1>9, <2>1, <2>3 DEF EntryOf
    <3>3. {mTerrestrialFixTimeoutMap[c]} \subseteq {Head(mMsgTask)}
      BY <3>2
    <3> QED
      BY <1>1, <1>2, <1>9, <2>1, <3>1, <3>3, SendIsOwn
  <2> QED
    BY <2>2, <2>3
<1>11. ASSUME NEW c \in Clients, singleFixRequestTimeout(c) PROVE TimeoutIsItsOwn'
  <2>1. /\ reqs' = reqs /\ mMsgTask # <<>>
        /\ reqs[Head(mMsgTask)].client = c /\ reqs[Head(mMsgTask)].kind = "FUSED"
    BY <1>11 DEF singleFixRequestTimeout, Due
  <2>2. CASE mSingleFixReqMap[c] = 0
    BY <1>3, <1>11, <2>1, <2>2 DEF singleFixRequestTimeout
  <2>3. CASE mSingleFixReqMap[c] # 0
    <3>1. answers' = Send({mSingleFixReqMap[c]}, "TIMEOUT", mSingleFixLastLocation,
                          Head(mMsgTask))
      BY <1>11, <2>3 DEF singleFixRequestTimeout
    <3>2. mSingleFixReqMap[c] = Head(mMsgTask)
      BY <1>9, <2>1, <2>3 DEF EntryOf
    <3>3. {mSingleFixReqMap[c]} \subseteq {Head(mMsgTask)}
      BY <3>2
    <3> QED
      BY <1>1, <1>2, <1>9, <2>1, <3>1, <3>3, SendIsOwn
  <2> QED
    BY <2>2, <2>3
<1> QED
  BY StepCases, <1>4, <1>5, <1>6, <1>7, <1>8, <1>10, <1>11

-----------------------------------------------------------------------------
(* Theorems *)

\* The daemon starts with no request, no session and no timer (Init).
LEMMA InitInv ==
  ASSUME Init
  PROVE  IInv
<1>1. TypeOK
  <2>1. ServiceTypes
    <3>1. mMsgTask \in Seq(1..MaxReqs)
      BY DEF Init
    <3>2. Len(reqs) = 0
      BY DEF Init
    <3>3. mTerrestrialFixTimeoutMap \in [Clients -> 0..Len(reqs)]
      BY <3>2 DEF Init
    <3>4. mOptInTerrestrialService \in {-1, 0, 1} /\ networkSessions \in Nat
      BY DEF Init
    <3>5. mClients = {} /\ mGtpWwanSsLocationApi = FALSE /\ armed = {}
      BY DEF Init
    <3> QED
      BY <3>1, <3>3, <3>4, <3>5 DEF ServiceTypes
  <2>2. FusedTypes
    BY BoundsAssumption DEF Init, FusedTypes, Locations, NoPosition
  <2>3. HistoryTypes
    BY BoundsAssumption DEF Init, HistoryTypes
  <2> QED
    BY <2>1, <2>2, <2>3 DEF TypeOK
<1>2. /\ MapsAreOwn /\ ConsentHasApi /\ NetworkSessionIsExact /\ TrackingSessionIsExact
      /\ LastLocationIsOfThisSession /\ RequestIsTimed
  BY DEF Init, MapsAreOwn, ConsentHasApi, NetworkSessionIsExact, TrackingSessionIsExact,
     LastLocationIsOfThisSession, RequestIsTimed, Pending
<1>3. AnsweredAtMostOnce /\ NothingSentAhead
  BY DEF Init, AnsweredAtMostOnce, NothingSentAhead
<1> QED
  BY <1>1, <1>2, <1>3 DEF IInv

\* The inductive invariant holds of every handler, timer and message.
THEOREM Inductive == Spec => []IInv
<1>1. IInv /\ Next => IInv'
  BY TypeStep, OwnStep, NetworkStep, TrackingStep, LastStep, TimedStep, AnsweredStep DEF IInv
<1>2. IInv /\ [Next]_vars => IInv'
  BY <1>1, Stutter
<1> QED
  BY InitInv, <1>2, PTL DEF Spec

\* The types of the daemon's single-fix state, for any number of clients.
THEOREM TypeCorrect == Spec => []TypeOK
<1>1. IInv => TypeOK
  BY DEF IInv
<1> QED
  BY <1>1, Inductive, PTL

\* The network session runs exactly while somebody waits for its fix
\* (stopNetworkLocation).
THEOREM NetworkSessionsAreExact == Spec => []NetworkSessionIsExact
<1>1. IInv => NetworkSessionIsExact
  BY DEF IInv
<1> QED
  BY <1>1, Inductive, PTL

\* The tracking session runs exactly while somebody waits for its fix, and it is the one
\* whose id the daemon remembers (stopTrackingSessionForSingleFixes).
THEOREM TrackingSessionsAreExact == Spec => []TrackingSessionIsExact
<1>1. IInv => TrackingSessionIsExact
  BY DEF IInv
<1> QED
  BY <1>1, Inductive, PTL

\* No location of an earlier session is handed out at a timeout.
THEOREM NoStaleLocation == Spec => []LastLocationIsOfThisSession
<1>1. IInv => LastLocationIsOfThisSession
  BY DEF IInv
<1> QED
  BY <1>1, Inductive, PTL

\* What waits for a fix has a timer that runs, or whose message is queued.
THEOREM RequestsAreTimed == Spec => []RequestIsTimed
<1>1. IInv => RequestIsTimed
  BY DEF IInv
<1> QED
  BY <1>1, Inductive, PTL

\* A request is answered at most once.
THEOREM RequestsAreServedOnce == Spec => []AnsweredAtMostOnce
<1>1. IInv => AnsweredAtMostOnce
  BY DEF IInv
<1> QED
  BY <1>1, Inductive, PTL

\* A request leaves the maps with an answer, unless its client is gone or has sent a
\* newer request (NoSilentDrop is about every handler that erases an entry).
THEOREM NothingIsDropped == Spec => NoSilentDrop
<1> DEFINE Dropped(r) == Waits(r) /\ ~Waits(r)'
           Excused(r) == \/ Len(answers'[r]) = 1
                         \/ reqs[r].client \notin mClients \cap mClients'
                         \/ /\ Len(reqs') > Len(reqs)
                            /\ reqs'[Len(reqs')].client = reqs[r].client
<1>1. IInv /\ Next => \A r \in 1..Len(reqs) : Dropped(r) => Excused(r)
  <2> SUFFICES ASSUME IInv, Next, NEW r \in 1..Len(reqs), Dropped(r)
               PROVE  Excused(r)
    OBVIOUS
  <2> QED
    BY DropIsExcused DEF IInv
<1>2. IInv /\ [Next]_vars =>
        [\A r \in 1..Len(reqs) : Dropped(r) => Excused(r)]_vars
  BY <1>1
<1> QED
  BY <1>2, Inductive, PTL DEF Spec, NoSilentDrop

\* SingleFix implements FixRequests: what a client is told of a request is what the
\* abstract daemon says, though a timeout carries a name and names come back.
THEOREM FixRequestsAreImplemented == Spec => FixesAreServed
<1>1. IInv /\ [Next]_vars => [Fixes!FixNext]_(Fixes!fixVars)
  BY StepRefines, HiddenRefines DEF AbstractStep
<1> QED
  BY <1>1, InitRefines, Inductive, PTL DEF Spec, FixesAreServed, Fixes!FixSpec

\* The promise of LocationClientApi.h:3797-3800 holds as long as no request comes while a
\* timeout of its client and kind is in the queue: nothing else breaks it.
THEOREM PatientTimeoutsAreOwn == PatientSpec => []TimeoutIsItsOwn
<1>1. Init => IInv /\ PatientInv
  <2>1. ASSUME Init PROVE PatientInv
    <3>1. Len(reqs) = 0 /\ Len(mMsgTask) = 0 /\ armed = {}
      BY <2>1 DEF Init
    <3> QED
      BY <3>1 DEF PatientInv, TimersAreOwn, TimeoutsAreOwn, TimeoutIsItsOwn, Queued
  <2> QED
    BY <2>1, InitInv
<1>2. IInv /\ Next => IInv'
  BY TypeStep, OwnStep, NetworkStep, TrackingStep, LastStep, TimedStep, AnsweredStep DEF IInv
<1>3. IInv /\ PatientInv /\ PatientNext => PatientInv'
  BY OwnTimersStep, OwnTimeoutStep DEF PatientInv, PatientNext
<1>4. PatientInv /\ UNCHANGED vars => PatientInv'
  BY DEF vars, consentVars, apiVars, fusedVars, PatientInv, TimersAreOwn, TimeoutsAreOwn,
     TimeoutIsItsOwn, Queued, EntryOf
<1>5. IInv /\ PatientInv /\ [PatientNext]_vars => (IInv /\ PatientInv)'
  BY <1>2, <1>3, <1>4, Stutter DEF PatientNext
<1>6. PatientInv => TimeoutIsItsOwn
  BY DEF PatientInv
<1> QED
  BY <1>1, <1>5, <1>6, PTL DEF PatientSpec

=============================================================================
