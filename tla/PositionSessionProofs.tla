------------------------ MODULE PositionSessionProofs ------------------------
(***************************************************************************)
(* Proofs about PositionSession, for any options, modes, numbers of starts *)
(* and crashes, lossy or not: the state keeps its types, and as long as    *)
(* the daemon does not crash while the client still registers with it,     *)
(* client and daemon agree on sessions and subscriptions.                  *)
(***************************************************************************)
EXTENDS PositionSession, SequenceTheorems, TLAPS

Callbacks == TrackCbs \cup {"BATCHING", "BATCHING_STATUS"}

\* Is the i-th message of q of that type?
Is(q, i, type) == q[i].type = type

LinkTypes ==
    /\ toDaemon \in Seq(Requests)
    /\ inbox \in Seq(Indications)
    /\ reachable \in BOOLEAN
    /\ up \in BOOLEAN
    /\ crashes \in 0..MaxCrashes

-----------------------------------------------------------------------------
(* The inbox *)

LEMMA IndicationFields ==
  ASSUME NEW m \in Indications
  PROVE  /\ m.type \in {"HAL_READY", "CAPABILITIES", "TRIP_COMPLETED", "REGISTER",
                        "STOP_BATCHING", "RESPONSE"}
         /\ m.type = "RESPONSE" => m.start \in 0..MaxStarts
  BY DEF Indications

\* The message that was taken is gone, the others move up.
LEMMA InboxTaken ==
  ASSUME NEW type, inbox \in Seq(Indications), Take(type)
  PROVE  /\ inbox' \in Seq(Indications)
         /\ Len(inbox) \in Nat /\ Len(inbox) >= 1
         /\ Len(inbox') = Len(inbox) - 1
         /\ Is(inbox, 1, type)
         /\ \A i \in 1..Len(inbox') : inbox'[i] = inbox[i + 1]
  BY HeadTailProperties, EmptySeq DEF Take, Is

\* The message that was posted is somewhere, the others are in their order.
LEMMA InboxPosted ==
  ASSUME NEW type, NEW posted \in {"REGISTER", "STOP_BATCHING"},
         inbox \in Seq(Indications), TakeAndPost(type, posted)
  PROVE  /\ inbox' \in Seq(Indications)
         /\ Len(inbox) \in Nat /\ Len(inbox) >= 1
         /\ Len(inbox') = Len(inbox)
         /\ Is(inbox, 1, type)
         /\ \E k \in 1..Len(inbox) :
               /\ inbox'[k] = [type |-> posted]
               /\ \A i \in 1..(k - 1) : inbox'[i] = inbox[i + 1]
               /\ \A i \in (k + 1)..Len(inbox) : inbox'[i] = inbox[i]
<1> DEFINE m == [type |-> posted]
           rest == Tail(inbox)
<1>1. PICK k \in 1..Len(inbox) : inbox' = InsertAt(rest, k, m)
  BY DEF TakeAndPost
<1>2. /\ rest \in Seq(Indications) /\ Len(inbox) \in Nat /\ Len(inbox) >= 1
      /\ Len(rest) = Len(inbox) - 1
      /\ \A i \in 1..Len(rest) : rest[i] = inbox[i + 1]
  BY HeadTailProperties, EmptySeq DEF TakeAndPost
<1> DEFINE front == SubSeq(rest, 1, k - 1)
           back == SubSeq(rest, k, Len(rest))
<1> HIDE DEF rest, m
<1>3. m \in Indications /\ <<m>> \in Seq(Indications) /\ Len(<<m>>) = 1 /\ <<m>>[1] = m
  BY DEF Indications, m
<1>4. /\ front \in Seq(Indications) /\ Len(front) = k - 1
      /\ \A i \in 1..(k - 1) : front[i] = rest[i]
  <2>1. \A i \in 1..(k - 1) : rest[i] \in Indications
    BY <1>2, ElementOfSeq
  <2>2. 1 \in Int /\ k - 1 \in Int /\ k - 1 >= 0
    BY <1>2
  <2> HIDE DEF front
  <2> QED BY <2>1, <2>2, SubSeqProperties DEF front
<1>5. /\ back \in Seq(Indications) /\ Len(back) = Len(inbox) - k
      /\ \A i \in 1..(Len(inbox) - k) : back[i] = rest[k + i - 1]
  <2>1. \A i \in k..Len(rest) : rest[i] \in Indications
    BY <1>2, ElementOfSeq
  <2>2. k \in Int /\ Len(rest) \in Int
    BY <1>2
  <2> HIDE DEF back
  <2> QED BY <1>2, <2>1, <2>2, SubSeqProperties DEF back
<1>6. inbox' = (front \o <<m>>) \o back
  BY <1>1 DEF InsertAt
<1> DEFINE upTo == front \o <<m>>
<1> HIDE DEF front, back
<1>7. /\ upTo \in Seq(Indications) /\ Len(upTo) = k
      /\ \A i \in 1..k : upTo[i] = IF i < k THEN front[i] ELSE m
  <2>1. /\ upTo \in Seq(Indications) /\ Len(upTo) = Len(front) + Len(<<m>>)
        /\ \A i \in 1..(Len(front) + Len(<<m>>)) :
              upTo[i] = IF i <= Len(front) THEN front[i] ELSE <<m>>[i - Len(front)]
    BY <1>3, <1>4, ConcatProperties
  <2> HIDE DEF upTo
  <2> QED BY <1>2, <1>3, <1>4, <2>1
<1> HIDE DEF upTo
<1>8. /\ inbox' \in Seq(Indications) /\ Len(inbox') = Len(inbox)
      /\ \A i \in 1..Len(inbox) :
            inbox'[i] = IF i < k THEN front[i] ELSE IF i = k THEN m ELSE back[i - k]
  <2>1. inbox' = upTo \o back
    BY <1>6 DEF upTo
  <2>2. /\ inbox' \in Seq(Indications) /\ Len(inbox') = Len(upTo) + Len(back)
        /\ \A i \in 1..(Len(upTo) + Len(back)) :
              inbox'[i] = IF i <= Len(upTo) THEN upTo[i] ELSE back[i - Len(upTo)]
    BY <1>5, <1>7, <2>1, ConcatProperties
  <2> QED BY <1>2, <1>5, <1>7, <2>2
<1>9. \A i \in 1..(k - 1) : inbox'[i] = inbox[i + 1]
  <2> TAKE i \in 1..(k - 1)
  <2>1. i \in 1..Len(inbox) /\ i \in 1..Len(rest) /\ i < k
    BY <1>2
  <2>2. inbox'[i] = front[i] /\ front[i] = rest[i] /\ rest[i] = inbox[i + 1]
    BY <1>2, <1>4, <1>8, <2>1
  <2> QED BY <2>2
<1>10. \A i \in (k + 1)..Len(inbox) : inbox'[i] = inbox[i]
  <2> TAKE i \in (k + 1)..Len(inbox)
  <2> DEFINE j == i - k
             n == i - 1
  <2>1. i \in 1..Len(inbox) /\ j \in 1..(Len(inbox) - k) /\ n \in 1..Len(rest)
        /\ ~(i < k) /\ i # k /\ k + j - 1 = n /\ n + 1 = i
    BY <1>2, SMTT(20)
  <2> HIDE DEF n
  <2>2. inbox'[i] = back[j] /\ back[j] = rest[n] /\ rest[n] = inbox[i]
    BY <1>2, <1>5, <1>8, <2>1
  <2> QED BY <2>2
<1>11. Is(inbox, 1, type) /\ inbox'[k] = m
  BY <1>2, <1>8, HeadTailProperties DEF TakeAndPost, Is
<1> QED BY <1>2, <1>8, <1>9, <1>10, <1>11 DEF m

-----------------------------------------------------------------------------
(* The messages of the client *)

LEMMA RequestKinds ==
  /\ [type |-> "REGISTER"] \in Requests
  /\ [type |-> "STOP_TRACKING"] \in Requests
  /\ [type |-> "STOP_BATCHING"] \in Requests
  /\ \A mask \in SUBSET Callbacks : [type |-> "UPDATE_CALLBACKS", mask |-> mask] \in Requests
  /\ \A o \in Options, n \in 0..MaxStarts :
        /\ [type |-> "START_TRACKING", opt |-> o, start |-> n] \in Requests
        /\ [type |-> "UPDATE_TRACKING", opt |-> o, start |-> n] \in Requests
  /\ \A mode \in BatchModes \cup {"none"}, n \in 0..MaxStarts :
        [type |-> "START_BATCHING", opt |-> mode, start |-> n] \in Requests
  BY DEF Requests, Callbacks

LEMMA RequestFields ==
  ASSUME NEW m \in Requests
  PROVE  /\ m.type \in {"REGISTER", "STOP_TRACKING", "STOP_BATCHING", "UPDATE_CALLBACKS",
                        "START_TRACKING", "UPDATE_TRACKING", "START_BATCHING"}
         /\ m.type = "UPDATE_CALLBACKS" => m.mask \in SUBSET Callbacks
         /\ m.type \in {"START_TRACKING", "UPDATE_TRACKING"} =>
               m.opt \in Options /\ m.start \in 0..MaxStarts
         /\ m.type = "START_BATCHING" =>
               m.opt \in BatchModes \cup {"none"} /\ m.start \in 0..MaxStarts
  BY DEF Requests, Callbacks

LEMMA MessagesTyped ==
  ASSUME NEW o \in Options, NEW mode \in BatchModes \cup {"none"},
         NEW n \in 0..MaxStarts, NEW mask \in SUBSET Callbacks, mLocationOptions \in Options
  PROVE  /\ <<>> \in Seq(Requests)
         /\ UpdateCallbacks(mask) \in Seq(Requests)
         /\ StartTracking(o, n) \in Seq(Requests)
         /\ StopTracking(o) \in Seq(Requests)
         /\ StartBatching(mode, n) \in Seq(Requests)
         /\ updateTrackingOptionsSync(o, n) \in Seq(Requests)
         /\ <<[type |-> "REGISTER"]>> \in Seq(Requests)
         /\ <<[type |-> "STOP_BATCHING"]>> \in Seq(Requests)
<1>1. /\ UpdateCallbacks(mask) \in Seq(Requests)
      /\ StartBatching(mode, n) \in Seq(Requests)
      /\ <<[type |-> "REGISTER"]>> \in Seq(Requests)
      /\ <<[type |-> "STOP_BATCHING"]>> \in Seq(Requests)
  BY RequestKinds DEF UpdateCallbacks, StartBatching
<1>2. <<>> \in Seq(Requests)
  BY EmptySeq
<1> DEFINE start == [type |-> "START_TRACKING", opt |-> o, start |-> n]
           update == [type |-> "UPDATE_TRACKING", opt |-> o, start |-> n]
           stop == [type |-> "STOP_TRACKING"]
<1>3. <<start>> \in Seq(Requests) /\ <<update>> \in Seq(Requests) /\ <<stop>> \in Seq(Requests)
  <2>1. start \in Requests /\ update \in Requests /\ stop \in Requests
    BY RequestKinds
  <2> HIDE DEF start, update, stop
  <2> QED BY <2>1
<1>4. /\ StartTracking(o, n) \in Seq(Requests)
      /\ StopTracking(o) \in Seq(Requests)
      /\ StopTracking(mLocationOptions) \in Seq(Requests)
  BY <1>2, <1>3 DEF StartTracking, StopTracking
<1>5. updateTrackingOptionsSync(o, n) \in Seq(Requests)
  BY <1>4, <1>3 DEF updateTrackingOptionsSync
<1> QED BY <1>1, <1>2, <1>4, <1>5

LEMMA SendTyped ==
  ASSUME toDaemon \in Seq(Requests), NEW msgs \in Seq(Requests), Send(msgs)
  PROVE  toDaemon' \in Seq(Requests)
  BY ConcatProperties DEF Send

LEMMA CallbacksTyped ==
  ASSUME NEW mode \in BatchModes
  PROVE  TrackCbs \subseteq Callbacks /\ BatchCbs(mode) \subseteq Callbacks
  BY DEF Callbacks, TrackCbs, BatchCbs

\* The client's geofences move the flag they share with the sessions and nothing else.
LEMMA OnlyTheFlagMoves ==
  ASSUME GeofenceStep, {ofStart, withGeofences} \subseteq BOOLEAN
  PROVE  /\ UNCHANGED <<linkVars, mHalRegistered, sessionVars, mCallbacksMask, starts, told>>
         /\ mPositionSessionResponseCbPending' \in BOOLEAN
         /\ {ofStart', withGeofences'} \subseteq BOOLEAN
<1>1. CASE AddGeofencesTakesFlag
  BY <1>1 DEF AddGeofencesTakesFlag
<1>2. CASE GeofenceAnswerClearsFlag
  BY <1>2 DEF GeofenceAnswerClearsFlag
<1> QED BY <1>1, <1>2 DEF GeofenceStep

-----------------------------------------------------------------------------
(* The types *)

\* A call of the application or a message of the task keeps the types.
LEMMA ClientKeepsTypes ==
  ASSUME TypeOK, ClientStep
  PROVE  TypeOK'
<1> USE DEF TypeOK, ClientTypes, Callbacks
<1>1. toDaemon \in Seq(Requests) /\ inbox \in Seq(Indications) /\ mCallbacksMask \in SUBSET Callbacks
      /\ starts \in 0..MaxStarts /\ mLocationOptions \in Options
  OBVIOUS
<1>2. ASSUME NEW o \in TrackOptions, startPositionSession(o)
      PROVE  TypeOK'
  <2>1. o \in Options /\ starts' \in 0..MaxStarts /\ mCallbacksMask' \in SUBSET Callbacks
    BY <1>2, LinkBounds DEF startPositionSession, Accepted, Options, TrackCbs
  <2>2. toDaemon' \in Seq(Requests)
    <3> DEFINE update == IF ~mSessionId THEN StartTracking(o, starts')
                         ELSE IF o # mLocationOptions THEN updateTrackingOptionsSync(o, starts')
                         ELSE <<>>
               msgs == IF ~mHalRegistered THEN <<>> ELSE UpdateCallbacks(mCallbacksMask') \o update
    <3>1. update \in Seq(Requests) /\ UpdateCallbacks(mCallbacksMask') \in Seq(Requests)
          /\ <<>> \in Seq(Requests)
      BY <1>1, <2>1, MessagesTyped, "none" \in BatchModes \cup {"none"}
    <3>2. msgs \in Seq(Requests)
      <4> HIDE DEF update
      <4> QED BY <3>1, ConcatProperties
    <3>3. Send(msgs)
      BY <1>2 DEF startPositionSession
    <3> HIDE DEF msgs
    <3> QED BY <1>1, <3>2, <3>3, SendTyped
  <2>3. CASE mHalRegistered /\ mSessionId /\ o = mLocationOptions
    <3>1. told' = [start |-> starts', answer |-> starts']
          /\ UNCHANGED pendingVars
      BY <1>2, <2>3 DEF startPositionSession
    <3>2. told' \in [start : 0..MaxStarts, answer : 0..MaxStarts]
      BY <2>1, <3>1
    <3> QED BY <1>2, <2>1, <2>2, <3>1, <3>2 DEF startPositionSession, ClientStep, pendingVars
  <2>4. CASE ~(mHalRegistered /\ mSessionId /\ o = mLocationOptions)
    <3>1. UNCHANGED told /\ mPositionSessionResponseCbPending' = TRUE /\ ofStart' = TRUE
      BY <1>2, <2>4 DEF startPositionSession
    <3> QED BY <1>2, <2>1, <2>2, <3>1 DEF startPositionSession, ClientStep
  <2> QED BY <2>3, <2>4
<1>3. ASSUME stopPositionSession
      PROVE  TypeOK'
  <2>1. toDaemon' \in Seq(Requests)
    BY <1>1, <1>3, MessagesTyped, SendTyped, "none" \in BatchModes \cup {"none"}
    DEF stopPositionSession
  <2>2. "passive" \in Options
    BY DEF Options
  <2> QED BY <1>3, <2>1, <2>2 DEF stopPositionSession, ClientStep
<1>4. ASSUME NEW mode \in BatchModes, startBatchingSession(mode)
      PROVE  TypeOK'
  <2>1. starts' \in 0..MaxStarts /\ mCallbacksMask' \in SUBSET Callbacks
    BY <1>4, LinkBounds, CallbacksTyped DEF startBatchingSession, Accepted
  <2>2. toDaemon' \in Seq(Requests)
    <3> DEFINE update == IF mCallbacksMask' = mCallbacksMask THEN <<>>
                         ELSE UpdateCallbacks(mCallbacksMask')
               start == StartBatching(mode, starts')
               msgs == IF ~mHalRegistered THEN <<>> ELSE update \o start
    <3>1. update \in Seq(Requests) /\ start \in Seq(Requests) /\ <<>> \in Seq(Requests)
      BY <1>1, <2>1, MessagesTyped
    <3>2. msgs \in Seq(Requests)
      <4> HIDE DEF update, start
      <4> QED BY <3>1, ConcatProperties
    <3>3. Send(msgs)
      BY <1>4 DEF startBatchingSession
    <3> HIDE DEF msgs
    <3> QED BY <1>1, <3>2, <3>3, SendTyped
  <2> QED BY <1>4, <2>1, <2>2 DEF startBatchingSession, ClientStep
<1>5. ASSUME StopBatchingReq
      PROVE  toDaemon' \in Seq(Requests)
  BY <1>1, <1>5, MessagesTyped, SendTyped, "none" \in BatchModes \cup {"none"}
  DEF StopBatchingReq
<1>6. CASE stopBatchingSession
  BY <1>5, <1>6 DEF stopBatchingSession, StopBatchingReq, ClientStep, pendingVars
<1>7. CASE ClientRegisterReq
  <2>1. toDaemon' \in Seq(Requests)
    BY <1>1, <1>7, MessagesTyped, SendTyped, "none" \in BatchModes \cup {"none"}
    DEF ClientRegisterReq
  <2>2. inbox' \in Seq(Indications)
    BY <1>1, <1>7, InboxTaken DEF ClientRegisterReq
  <2> QED BY <1>7, <2>1, <2>2 DEF ClientRegisterReq, ClientStep, clientVars
<1>8. CASE onHalReady
  <2>1. inbox' \in Seq(Indications)
    BY <1>1, <1>8, InboxPosted DEF onHalReady
  <2> QED BY <1>8, <2>1 DEF onHalReady, ClientStep, sessionVars, pendingVars
<1>9. CASE capabilitesCallback
  <2>1. inbox' \in Seq(Indications)
    BY <1>1, <1>9, InboxTaken DEF capabilitesCallback
  <2>2. toDaemon' \in Seq(Requests)
    <3> DEFINE update == IF mCallbacksMask # {} THEN UpdateCallbacks(mCallbacksMask) ELSE <<>>
               start == IF mHalRegistered THEN <<>>
                        ELSE IF mSessionId THEN StartTracking(mLocationOptions, starts)
                        ELSE IF mBatchingId THEN StartBatching(mBatchingOptions, starts)
                        ELSE <<>>
    <3>1. update \in Seq(Requests) /\ start \in Seq(Requests)
      BY <1>1, MessagesTyped
    <3>2. Send(update \o start)
      BY <1>9 DEF capabilitesCallback
    <3>3. update \o start \in Seq(Requests)
      <4> HIDE DEF update, start
      <4> QED BY <3>1, ConcatProperties
    <3> HIDE DEF update, start
    <3> QED BY <1>1, <3>2, <3>3, SendTyped
  <2> QED BY <1>9, <2>1, <2>2 DEF capabilitesCallback, ClientStep, sessionVars, pendingVars
<1>10. CASE onResponse
  <2>1. inbox' \in Seq(Indications)
    BY <1>1, <1>10, InboxTaken DEF onResponse
  <2>2. Head(inbox).start \in 0..MaxStarts
    BY <1>1, <1>10, HeadTailProperties, IndicationFields DEF onResponse, Take
  <2>3. told' \in [start : 0..MaxStarts, answer : 0..MaxStarts]
    BY <1>10, <2>2 DEF onResponse
  <2> QED BY <1>10, <2>1, <2>3 DEF onResponse, ClientStep, sessionVars
<1>11. CASE onTripCompleted
  <2>1. inbox' \in Seq(Indications)
    BY <1>1, <1>11, InboxTaken, InboxPosted DEF onTripCompleted
  <2> QED BY <1>11, <2>1 DEF onTripCompleted, ClientStep, clientVars
<1>12. CASE Take("STOP_BATCHING") /\ StopBatchingReq
  <2>1. inbox' \in Seq(Indications)
    BY <1>1, <1>12, InboxTaken
  <2> QED BY <1>5, <1>12, <2>1 DEF StopBatchingReq, ClientStep, pendingVars
<1>13. CASE GeofenceStep
  BY <1>13, OnlyTheFlagMoves DEF ClientStep, sessionVars, linkVars
<1> QED
  BY <1>2, <1>3, <1>4, <1>6, <1>7, <1>8, <1>9, <1>10, <1>11, <1>12, <1>13
  DEF ClientStep, ClientCall, ClientTask

LEMMA NoHandlerTyped == NoHandler \in Handler /\ NewHandler \in Handler
<1>1. <<>> \in Seq(0..MaxStarts)
      /\ <<>> \in Seq({"START_TRACKING", "UPDATE_TRACKING", "START_BATCHING", "STOP_BATCHING"})
  BY EmptySeq
<1>2. NoHandler \in Handler
  BY <1>1 DEF NoHandler, Handler, Options
<1> QED BY <1>2 DEF NewHandler, Handler

LEMMA SentTyped ==
  ASSUME NEW h \in Handler, inbox \in Seq(Indications), reachable \in BOOLEAN,
         SendNothing(h) \/ \E msg \in Indications : SendTo(h, msg)
  PROVE  handler' \in Handler /\ inbox' \in Seq(Indications) /\ reachable' \in BOOLEAN
<1>1. CASE SendNothing(h)
  BY <1>1 DEF SendNothing
<1>2. ASSUME NEW msg \in Indications, SendTo(h, msg)
      PROVE  handler' \in Handler /\ inbox' \in Seq(Indications) /\ reachable' \in BOOLEAN
  <2>1. Append(inbox, msg) \in Seq(Indications)
    BY AppendProperties
  <2> QED BY <1>2, <2>1, NoHandlerTyped DEF SendTo
<1> QED BY <1>1, <1>2

\* What the daemon takes from its socket.
LEMMA RequestTaken ==
  ASSUME toDaemon \in Seq(Requests), toDaemon # <<>>
  PROVE  Head(toDaemon) \in Requests /\ Tail(toDaemon) \in Seq(Requests)
  BY HeadTailProperties

LEMMA IndicationKinds ==
  /\ \A type \in {"HAL_READY", "CAPABILITIES", "TRIP_COMPLETED"} : [type |-> type] \in Indications
  /\ \A to \in {"START_TRACKING", "UPDATE_TRACKING", "START_BATCHING", "STOP_BATCHING"},
        n \in 0..MaxStarts : [type |-> "RESPONSE", to |-> to, start |-> n] \in Indications
  BY DEF Indications

\* The handler a request leads to, if it is not purged.
LEMMA RequestKeepsTypes ==
  ASSUME TypeOK, DaemonRequest
  PROVE  handler' \in Handler /\ inbox' \in Seq(Indications) /\ reachable' \in BOOLEAN
<1> DEFINE m == Head(toDaemon)
<1>1. handler \in Handler /\ inbox \in Seq(Indications) /\ reachable \in BOOLEAN
      /\ toDaemon \in Seq(Requests) /\ toDaemon # <<>>
  BY DEF TypeOK, DaemonRequest, unknownClient, newClient, updateSubscription, startTracking,
         stopTracking, updateTrackingOptions, startBatching, stopBatching, Request, Receive
<1>2. m \in Requests
  BY <1>1, RequestTaken
<1>3. /\ m.type = "UPDATE_CALLBACKS" => m.mask \in SUBSET Callbacks
      /\ m.type \in {"START_TRACKING", "UPDATE_TRACKING"} =>
            m.opt \in Options /\ m.start \in 0..MaxStarts
      /\ m.type = "START_BATCHING" =>
            m.opt \in BatchModes \cup {"none"} /\ m.start \in 0..MaxStarts
  BY <1>2, RequestFields
<1> HIDE DEF m
<1> DEFINE Pending == {"START_TRACKING", "UPDATE_TRACKING", "START_BATCHING", "STOP_BATCHING"}
<1>4. /\ handler.calls \in Seq(0..MaxStarts)
      /\ \A n \in 0..MaxStarts : Append(handler.calls, n) \in Seq(0..MaxStarts)
      /\ handler.mPendingMessages \in Seq(Pending)
      /\ \A to \in Pending : Append(handler.mPendingMessages, to) \in Seq(Pending)
  <2>1. handler.calls \in Seq(0..MaxStarts) /\ handler.mPendingMessages \in Seq(Pending)
    BY <1>1 DEF Handler
  <2> HIDE DEF Pending
  <2> QED BY <2>1, AppendProperties
<1>5. 0 \in 0..MaxStarts
  BY LinkBounds
<1>6. CASE unknownClient
  BY <1>1, <1>6 DEF unknownClient
<1>7. CASE newClient
  <2> DEFINE h == IF handler.registered THEN handler ELSE NewHandler
             msg == [type |-> "CAPABILITIES"]
  <2>1. h \in Handler /\ msg \in Indications
    BY <1>1, NoHandlerTyped, IndicationKinds
  <2>2. SendTo(handler, msg) \/ SendNothing(h)
    BY <1>7 DEF newClient
  <2> HIDE DEF h, msg
  <2> QED BY <1>1, <2>1, <2>2, SentTyped
<1>8. CASE updateSubscription
  <2>1. [handler EXCEPT !.mSubscriptionMask = m.mask] \in Handler
    BY <1>1, <1>3, <1>8 DEF Handler, updateSubscription, Request, Receive, Callbacks, m
  <2> QED BY <1>1, <1>8, <2>1, SentTyped DEF updateSubscription, m
<1>9. CASE startTracking
  <2>1. CASE handler.mSessionId
    BY <1>1, <1>9, <2>1, SentTyped DEF startTracking
  <2>2. CASE ~handler.mSessionId
    <3>1. PICK ok \in StartResults :
             SendNothing([handler EXCEPT !.mOptions = m.opt,
                                         !.mSessionId = ok,
                                         !.calls = IF ok THEN Append(@, m.start) ELSE @,
                                         !.mPendingMessages = Append(@, "START_TRACKING"),
                                         !.refused = @ \/ ~ok])
      BY <1>9, <2>2 DEF startTracking, m
    <3>2. ok \in BOOLEAN /\ m.opt \in Options /\ m.start \in 0..MaxStarts
      BY <1>3, <1>9, StartResultsAssumption DEF startTracking, Request, Receive, m
    <3>3. (IF ok THEN Append(handler.calls, m.start) ELSE handler.calls) \in Seq(0..MaxStarts)
          /\ Append(handler.mPendingMessages, "START_TRACKING") \in Seq(Pending)
      BY <1>4, <3>2
    <3>4. (handler.refused \/ ~ok) \in BOOLEAN
      BY <1>1, <3>2 DEF Handler
    <3>5. [handler EXCEPT !.mOptions = m.opt,
                          !.mSessionId = ok,
                          !.calls = IF ok THEN Append(@, m.start) ELSE @,
                          !.mPendingMessages = Append(@, "START_TRACKING"),
                          !.refused = @ \/ ~ok] \in Handler
      BY <1>1, <3>2, <3>3, <3>4, ZenonT(30) DEF Handler
    <3> QED BY <1>1, <3>1, <3>5, SentTyped
  <2> QED BY <2>1, <2>2
<1>10. CASE stopTracking
  <2> DEFINE calls == IF handler.mSessionId THEN Append(handler.calls, 0) ELSE handler.calls
  <2>1. calls \in Seq(0..MaxStarts)
    BY <1>4, <1>5
  <2>2. [handler EXCEPT !.mSubscriptionMask = @ \ TrackCbs,
                        !.mSessionId = FALSE,
                        !.calls = IF handler.mSessionId THEN Append(@, 0) ELSE @] \in Handler
    BY <1>1, <2>1, ZenonT(30) DEF Handler
  <2> QED BY <1>1, <1>10, <2>2, SentTyped DEF stopTracking
<1>11. CASE updateTrackingOptions
  <2> DEFINE h == [handler EXCEPT !.mPendingMessages = Append(@, "UPDATE_TRACKING")]
  <2>1. h \in Handler
    BY <1>1, <1>4 DEF Handler
  <2>2. m.opt \in Options /\ m.start \in 0..MaxStarts
    BY <1>3, <1>11 DEF updateTrackingOptions, Request, Receive, m
  <2>3. h.calls = handler.calls
    BY <1>1 DEF Handler
  <2>4. Append(h.calls, m.start) \in Seq(0..MaxStarts)
    BY <1>4, <2>2, <2>3
  <2>5. SendNothing(IF ~handler.mSessionId THEN h
                    ELSE [h EXCEPT !.mOptions = m.opt, !.calls = Append(@, m.start)])
    BY <1>11 DEF updateTrackingOptions, m
  <2> HIDE DEF h
  <2>6. [h EXCEPT !.mOptions = m.opt, !.calls = Append(@, m.start)] \in Handler
    BY <2>1, <2>2, <2>4 DEF Handler
  <2> QED BY <1>1, <2>1, <2>5, <2>6, SentTyped
<1>12. CASE startBatching
  <2> DEFINE Started(h) == [h EXCEPT !.mBatchingMode = m.opt,
                                     !.mPendingMessages = Append(@, "START_BATCHING")]
             begun == [handler EXCEPT !.mBatchingId = TRUE,
                                      !.mBatchOptions = m.opt,
                                      !.calls = Append(@, m.start),
                                      !.trip = FALSE]
             failed == [handler EXCEPT !.mBatchOptions = m.opt, !.refused = TRUE]
  <2>1. m.opt \in BatchModes \cup {"none"} /\ m.start \in 0..MaxStarts
    BY <1>3, <1>12 DEF startBatching, Request, Receive, m
  <2>2. begun \in Handler /\ begun.mPendingMessages = handler.mPendingMessages
    BY <1>1, <1>4, <2>1 DEF Handler
  <2>3. failed \in Handler
    BY <1>1, <2>1 DEF Handler
  <2>4. ASSUME NEW h \in Handler, h.mPendingMessages = handler.mPendingMessages
        PROVE  Started(h) \in Handler
    <3>1. Append(h.mPendingMessages, "START_BATCHING") \in Seq(Pending)
      BY <1>4, <2>4
    <3> QED BY <2>1, <2>4, <3>1 DEF Handler
  <2>5. \/ SendNothing(Started(handler))
        \/ SendNothing(Started(begun))
        \/ SendNothing(failed)
    BY <1>12 DEF startBatching, m
  <2> HIDE DEF Started, begun, failed
  <2> QED BY <1>1, <2>2, <2>3, <2>4, <2>5, SentTyped
<1>13. CASE stopBatching
  <2>1. (IF handler.mBatchingId THEN Append(handler.calls, 0) ELSE handler.calls) \in Seq(0..MaxStarts)
    BY <1>4, <1>5
  <2>2. [handler EXCEPT !.mBatchingMode = "none",
                        !.mBatchingId = FALSE,
                        !.calls = IF handler.mBatchingId THEN Append(@, 0) ELSE @,
                        !.mPendingMessages = Append(@, "STOP_BATCHING")] \in Handler
    BY <1>1, <1>4, <2>1, ZenonT(30) DEF Handler
  <2> QED BY <1>1, <1>13, <2>2, SentTyped DEF stopBatching
<1> QED
  BY <1>6, <1>7, <1>8, <1>9, <1>10, <1>11, <1>12, <1>13 DEF DaemonRequest

LEMMA DaemonKeepsTypes ==
  ASSUME TypeOK, DaemonStep
  PROVE  TypeOK'
<1>1. handler \in Handler /\ inbox \in Seq(Indications) /\ reachable \in BOOLEAN
      /\ toDaemon \in Seq(Requests) /\ up \in BOOLEAN /\ crashes \in 0..MaxCrashes /\ ClientTypes
  BY DEF TypeOK
<1>2. ClientTypes'
  BY <1>1 DEF DaemonStep, ClientTypes, clientVars
<1>3. CASE DaemonRequest
  <2>1. handler' \in Handler /\ inbox' \in Seq(Indications) /\ reachable' \in BOOLEAN
    BY <1>3, RequestKeepsTypes
  <2>2. toDaemon # <<>> /\ toDaemon' = Tail(toDaemon) /\ UNCHANGED <<up, crashes>>
    BY <1>3
    DEF DaemonRequest, unknownClient, newClient, updateSubscription, startTracking,
        stopTracking, updateTrackingOptions, startBatching, stopBatching, Request, Receive
  <2> QED BY <1>1, <1>2, <2>1, <2>2, RequestTaken DEF TypeOK
<1>4. CASE EngineCallback
  <2>1. UNCHANGED <<toDaemon, up, crashes>>
    BY <1>4 DEF EngineCallback, onCapabilitiesCallback, onResponseCb, onBatchingStatusCb
  <2>2. CASE onCapabilitiesCallback
    <3>1. [handler EXCEPT !.mCapabilityMask = TRUE] \in Handler
      BY <1>1 DEF Handler
    <3> QED BY <1>1, <1>2, <2>1, <2>2, <3>1, SentTyped, IndicationKinds
            DEF onCapabilitiesCallback, TypeOK
  <2>3. CASE onResponseCb
    <3> DEFINE h == [handler EXCEPT !.calls = Tail(@)]
               Pending == {"START_TRACKING", "UPDATE_TRACKING", "START_BATCHING", "STOP_BATCHING"}
    <3>1. /\ handler.calls \in Seq(0..MaxStarts) /\ handler.calls # <<>>
          /\ handler.mPendingMessages \in Seq(Pending)
      BY <1>1, <2>3 DEF onResponseCb, Handler
    <3>2. Tail(handler.calls) \in Seq(0..MaxStarts) /\ Head(handler.calls) \in 0..MaxStarts
      BY <3>1, HeadTailProperties
    <3>3. h \in Handler /\ h.mPendingMessages = handler.mPendingMessages
      BY <1>1, <3>2 DEF Handler
    <3>4. CASE handler.mPendingMessages = <<>>
      BY <1>1, <1>2, <2>1, <2>3, <3>3, <3>4, SentTyped DEF onResponseCb, TypeOK
    <3>5. CASE handler.mPendingMessages # <<>>
      <4> DEFINE answer == [type |-> "RESPONSE", to |-> Head(handler.mPendingMessages),
                            start |-> Head(handler.calls)]
      <4>1. Tail(h.mPendingMessages) \in Seq(Pending) /\ Head(handler.mPendingMessages) \in Pending
        <5> HIDE DEF Pending, h
        <5> QED BY <3>1, <3>3, <3>5, HeadTailProperties
      <4>2. answer \in Indications
        BY <3>2, <4>1, IndicationKinds
      <4>3. SendTo([h EXCEPT !.mPendingMessages = Tail(@)], answer)
        BY <2>3, <3>5 DEF onResponseCb
      <4> HIDE DEF h, answer
      <4>4. [h EXCEPT !.mPendingMessages = Tail(@)] \in Handler
        BY <3>3, <4>1 DEF Handler
      <4> QED BY <1>1, <1>2, <2>1, <4>2, <4>3, <4>4, SentTyped DEF TypeOK
    <3> QED BY <3>4, <3>5
  <2>4. CASE onBatchingStatusCb
    <3>1. [handler EXCEPT !.trip = TRUE] \in Handler
      BY <1>1 DEF Handler
    <3> QED BY <1>1, <1>2, <2>1, <2>4, <3>1, SentTyped, IndicationKinds
            DEF onBatchingStatusCb, TypeOK
  <2> QED BY <1>4, <2>2, <2>3, <2>4 DEF EngineCallback
<1>5. CASE Crash
  <2>1. crashes' \in 0..MaxCrashes
    <3>1. crashes' = crashes + 1 /\ crashes < MaxCrashes
      BY <1>5 DEF Crash
    <3> QED BY <1>1, <3>1, LinkBounds
  <2>2. up' \in BOOLEAN /\ toDaemon' \in Seq(Requests) /\ handler' \in Handler
    BY <1>5, NoHandlerTyped, EmptySeq DEF Crash
  <2> QED BY <1>1, <1>2, <1>5, <2>1, <2>2 DEF Crash, TypeOK
<1>6. CASE onListenerReady
  <2>1. inbox' \in Seq(Indications)
    BY <1>1, <1>6, AppendProperties, IndicationKinds DEF onListenerReady
  <2> QED BY <1>1, <1>2, <1>6, <2>1 DEF onListenerReady, TypeOK
<1> QED BY <1>3, <1>4, <1>5, <1>6 DEF DaemonStep

LEMMA InitTypes == Init => TypeOK
<1> SUFFICES ASSUME Init PROVE TypeOK
  OBVIOUS
<1>1. toDaemon \in Seq(Requests) /\ [type |-> "REGISTER"] \in Indications
  BY EmptySeq DEF Init, Indications
<1>2. inbox \in Seq(Indications)
  BY <1>1 DEF Init
<1>3. ClientTypes
  <2>1. 0 \in 0..MaxStarts
    BY LinkBounds
  <2>2. [start |-> 0, answer |-> 0] \in [start : 0..MaxStarts, answer : 0..MaxStarts]
    BY <2>1
  <2> QED BY <2>1, <2>2 DEF Init, ClientInit, ClientTypes, Options
<1>4. reachable \in BOOLEAN /\ up \in BOOLEAN /\ crashes \in 0..MaxCrashes
  BY LinkBounds DEF Init
<1> QED BY <1>1, <1>2, <1>3, <1>4, NoHandlerTyped DEF Init, TypeOK

LEMMA NextKeepsTypes ==
  ASSUME TypeOK, [Next]_vars
  PROVE  TypeOK'
<1>1. CASE Next
  BY <1>1, ClientKeepsTypes, DaemonKeepsTypes DEF Next
<1>2. CASE UNCHANGED vars
  BY <1>2 DEF TypeOK, ClientTypes, vars, linkVars, clientVars
<1> QED BY <1>1, <1>2

\* The state of client, daemon and sockets keeps its types, whatever crashes and however
\* many (LocationClientApiImpl.cpp, LocHalDaemonClientHandler.cpp).
THEOREM TypeCorrect == Spec => []TypeOK
  BY InitTypes, NextKeepsTypes, PTL DEF Spec

-----------------------------------------------------------------------------
(* What the daemon will make of the messages on its socket.  A view is what *)
(* matters of a handler to the client: its registration, the session it was *)
(* told to run, whether or not the API agreed, and its subscriptions.       *)

NoView == [registered |-> FALSE, track |-> FALSE, opt |-> "passive", batch |-> FALSE,
           mask |-> {}]

View ==
    {v \in [registered : BOOLEAN, track : BOOLEAN, opt : Options, batch : BOOLEAN,
            mask : SUBSET Callbacks] :
        (v.registered \/ v = NoView) /\ ~(v.track /\ v.batch)}

\* A registered client's request is looked at, as REGISTER is.
Handled(v, m) ==
    [registered |-> TRUE,
     track |-> m.type = "START_TRACKING" \/ (v.track /\ m.type # "STOP_TRACKING"),
     opt |-> IF \/ m.type = "START_TRACKING" /\ ~v.track
                \/ m.type = "UPDATE_TRACKING" /\ v.track THEN m.opt ELSE v.opt,
     batch |-> m.type = "START_BATCHING" \/ (v.batch /\ m.type # "STOP_BATCHING"),
     mask |-> IF m.type = "UPDATE_CALLBACKS" THEN m.mask
              ELSE IF m.type = "STOP_TRACKING" THEN v.mask \ TrackCbs ELSE v.mask]

After(v, m) == IF v.registered \/ m.type = "REGISTER" THEN Handled(v, m) ELSE v

\* The messages q lead from view v to view w, by views on the way, none of which has
\* two sessions and none of which loses the registration.
LeadsTo(v, q, w) ==
    \E st \in [0..Len(q) -> View] :
        /\ st[0] = v
        /\ st[Len(q)] = w
        /\ \A i \in 1..Len(q) : st[i] = After(st[i - 1], q[i])
        /\ \A i, j \in 0..Len(q) : i =< j /\ st[i].registered => st[j].registered

LEMMA ViewFields ==
  ASSUME NEW v \in View
  PROVE  /\ v.registered \in BOOLEAN /\ v.track \in BOOLEAN /\ v.batch \in BOOLEAN
         /\ v.opt \in Options /\ v.mask \in SUBSET Callbacks
         /\ ~(v.track /\ v.batch)
         /\ v = [registered |-> v.registered, track |-> v.track, opt |-> v.opt,
                 batch |-> v.batch, mask |-> v.mask]
         /\ ~v.registered => /\ v = NoView /\ ~v.track /\ ~v.batch
                             /\ v.opt = "passive" /\ v.mask = {}
  BY DEF View, NoView

LEMMA NoViewTyped == NoView \in View
  BY DEF NoView, View, Options

\* A request makes a view of a view, unless it starts a second session.
LEMMA AfterTyped ==
  ASSUME NEW v \in View, NEW m \in Requests,
         m.type = "START_TRACKING" => ~v.batch,
         m.type = "START_BATCHING" => ~v.track
  PROVE  /\ After(v, m) \in View
         /\ m.type # "REGISTER" => After(v, m).registered = v.registered
         /\ m.type = "REGISTER" => After(v, m).registered
<1>1. CASE v.registered \/ m.type = "REGISTER"
  <2>1. /\ (m.type = "START_TRACKING" \/ (v.track /\ m.type # "STOP_TRACKING")) \in BOOLEAN
        /\ (m.type = "START_BATCHING" \/ (v.batch /\ m.type # "STOP_BATCHING")) \in BOOLEAN
        /\ Handled(v, m).opt \in Options
        /\ Handled(v, m).mask \in SUBSET Callbacks
    BY RequestFields, ViewFields DEF Handled
  <2>2. ~(Handled(v, m).track /\ Handled(v, m).batch)
    BY ViewFields DEF Handled
  <2>3. Handled(v, m) \in View
    BY <2>1, <2>2 DEF Handled, View
  <2>4. Handled(v, m).registered
    BY DEF Handled
  <2> QED BY <1>1, <2>3, <2>4, ViewFields DEF After
<1>2. CASE ~(v.registered \/ m.type = "REGISTER")
  BY <1>2 DEF After
<1> QED BY <1>1, <1>2

LEMMA LeadsToEnds ==
  ASSUME NEW v, NEW w, NEW q \in Seq(Requests), LeadsTo(v, q, w)
  PROVE  /\ v \in View /\ w \in View
         /\ v.registered => w.registered
         /\ q = <<>> => w = v
<1>1. Len(q) \in Nat /\ (q = <<>> => Len(q) = 0)
  BY EmptySeq, LenProperties
<1>2. 0 \in 0..Len(q) /\ Len(q) \in 0..Len(q)
  BY <1>1
<1> QED BY <1>1, <1>2 DEF LeadsTo

LEMMA LeadsToNothing ==
  ASSUME NEW v \in View
  PROVE  LeadsTo(v, <<>>, v)
<1> DEFINE st == [i \in 0..0 |-> v]
<1>1. Len(<<>>) = 0
  BY EmptySeq
<1>2. st \in [0..0 -> View] /\ st[0] = v
  OBVIOUS
<1> HIDE DEF st
<1>3. \A i, j \in 0..0 : i =< j /\ st[i].registered => st[j].registered
  OBVIOUS
<1> QED BY <1>1, <1>2, <1>3 DEF LeadsTo

LEMMA LeadsToAppend ==
  ASSUME NEW v, NEW w, NEW q \in Seq(Requests), LeadsTo(v, q, w), NEW m \in Requests,
         m.type = "START_TRACKING" => ~w.batch,
         m.type = "START_BATCHING" => ~w.track
  PROVE  LeadsTo(v, Append(q, m), After(w, m))
<1> DEFINE n == Len(q)
           p == Append(q, m)
           x == After(w, m)
<1>1. n \in Nat /\ Len(p) = n + 1 /\ p[n + 1] = m /\ \A i \in 1..n : p[i] = q[i]
  BY AppendProperties, LenProperties
<1>2. w \in View
  BY LeadsToEnds
<1>3. x \in View /\ (w.registered => x.registered)
  BY <1>2, AfterTyped
<1>4. PICK st \in [0..n -> View] :
         /\ st[0] = v
         /\ st[n] = w
         /\ \A i \in 1..n : st[i] = After(st[i - 1], q[i])
         /\ \A i, j \in 0..n : i =< j /\ st[i].registered => st[j].registered
  BY DEF LeadsTo
<1> HIDE DEF n, p
<1> DEFINE tr == [i \in 0..(n + 1) |-> IF i = n + 1 THEN x ELSE st[i]]
<1>5. tr \in [0..(n + 1) -> View] /\ tr[n + 1] = x /\ \A i \in 0..n : tr[i] = st[i]
  BY <1>1, <1>3, <1>4
<1> HIDE DEF tr
<1>6. tr[0] = v /\ tr[n] = w
  BY <1>1, <1>4, <1>5
<1>7. \A i \in 1..(n + 1) : tr[i] = After(tr[i - 1], p[i])
  <2> TAKE i \in 1..(n + 1)
  <2>1. CASE i = n + 1
    <3>1. i - 1 = n
      BY <1>1, <2>1
    <3> QED BY <1>1, <1>5, <1>6, <2>1, <3>1
  <2>2. CASE i # n + 1
    <3>1. i \in 1..n /\ i \in 0..n /\ i - 1 \in 0..n
      BY <1>1, <2>2
    <3>2. tr[i] = st[i] /\ tr[i - 1] = st[i - 1] /\ p[i] = q[i]
      BY <1>1, <1>5, <3>1
    <3> QED BY <1>4, <3>1, <3>2
  <2> QED BY <2>1, <2>2
<1>8. ASSUME NEW i \in 0..(n + 1), NEW j \in 0..(n + 1), i =< j, tr[i].registered
      PROVE  tr[j].registered
  <2>1. CASE j = n + 1 /\ i = n + 1
    BY <1>8, <2>1
  <2>2. CASE j = n + 1 /\ i # n + 1
    <3>1. i \in 0..n /\ n \in 0..n /\ i =< n
      BY <1>1, <2>2
    <3>2. st[n].registered
      BY <1>4, <1>5, <1>8, <3>1
    <3> QED BY <1>3, <1>4, <1>5, <2>2, <3>2
  <2>3. CASE j # n + 1
    <3>1. i \in 0..n /\ j \in 0..n
      BY <1>1, <1>8, <2>3
    <3> QED BY <1>4, <1>5, <1>8, <3>1
  <2> QED BY <2>1, <2>2, <2>3
<1>9. LeadsTo(v, p, x)
  BY <1>1, <1>5, <1>6, <1>7, <1>8, ZenonT(30) DEF LeadsTo
<1> QED BY <1>9 DEF p

LEMMA LeadsToTail ==
  ASSUME NEW v, NEW w, NEW q \in Seq(Requests), LeadsTo(v, q, w), q # <<>>
  PROVE  LeadsTo(After(v, Head(q)), Tail(q), w)
<1> DEFINE n == Len(q)
           p == Tail(q)
<1>1. n \in Nat /\ n >= 1 /\ Len(p) = n - 1 /\ Head(q) = q[1] /\ \A i \in 1..(n - 1) : p[i] = q[i + 1]
  BY HeadTailProperties, EmptySeq
<1>2. PICK st \in [0..n -> View] :
         /\ st[0] = v
         /\ st[n] = w
         /\ \A i \in 1..n : st[i] = After(st[i - 1], q[i])
         /\ \A i, j \in 0..n : i =< j /\ st[i].registered => st[j].registered
  BY DEF LeadsTo
<1> HIDE DEF n, p
<1> DEFINE tr == [i \in 0..(n - 1) |-> st[i + 1]]
<1>3. tr \in [0..(n - 1) -> View] /\ \A i \in 0..(n - 1) : tr[i] = st[i + 1]
  BY <1>1, <1>2
<1> HIDE DEF tr
<1>4. tr[0] = After(v, Head(q)) /\ tr[n - 1] = w
  <2>1. 0 \in 0..(n - 1) /\ n - 1 \in 0..(n - 1) /\ (n - 1) + 1 = n /\ 1 \in 1..n /\ 1 - 1 = 0
        /\ 0 + 1 = 1
    BY <1>1
  <2>2. tr[0] = st[1] /\ tr[n - 1] = st[n]
    BY <1>3, <2>1
  <2>3. st[1] = After(st[0], q[1])
    BY <1>2, <2>1
  <2> QED BY <1>1, <1>2, <2>2, <2>3
<1>5. ASSUME NEW i \in 1..(n - 1)
      PROVE  tr[i] = After(tr[i - 1], p[i])
  <2>1. i \in 0..(n - 1) /\ i - 1 \in 0..(n - 1) /\ i + 1 \in 1..n /\ (i + 1) - 1 = i /\ (i - 1) + 1 = i
    BY <1>1
  <2>2. tr[i] = st[i + 1] /\ tr[i - 1] = st[i] /\ p[i] = q[i + 1]
    BY <1>1, <1>3, <2>1
  <2>3. st[i + 1] = After(st[i], q[i + 1])
    BY <1>2, <2>1
  <2> QED BY <2>2, <2>3
<1>6. ASSUME NEW i \in 0..(n - 1), NEW j \in 0..(n - 1), i =< j, tr[i].registered
      PROVE  tr[j].registered
  <2>1. i + 1 \in 0..n /\ j + 1 \in 0..n /\ i + 1 =< j + 1
    BY <1>1, <1>6
  <2> QED BY <1>2, <1>3, <1>6, <2>1
<1>7. LeadsTo(After(v, Head(q)), p, w)
  BY <1>1, <1>3, <1>4, <1>5, <1>6, ZenonT(30) DEF LeadsTo
<1> QED BY <1>7 DEF p

-----------------------------------------------------------------------------
(* What the client's messages make of the last view *)

LEMMA SendNone ==
  ASSUME toDaemon \in Seq(Requests), Send(<<>>)
  PROVE  toDaemon' = toDaemon
  BY ConcatEmptySeq DEF Send

LEMMA SendOne ==
  ASSUME NEW v, NEW w, toDaemon \in Seq(Requests), LeadsTo(v, toDaemon, w),
         NEW m \in Requests, Send(<<m>>),
         m.type = "START_TRACKING" => ~w.batch,
         m.type = "START_BATCHING" => ~w.track
  PROVE  LeadsTo(v, toDaemon', IF up THEN After(w, m) ELSE w)
<1>1. CASE up
  <2>1. toDaemon' = Append(toDaemon, m)
    BY <1>1, AppendIsConcat DEF Send
  <2> QED BY <1>1, <2>1, LeadsToAppend
<1>2. CASE ~up
  BY <1>2 DEF Send
<1> QED BY <1>1, <1>2

LEMMA SendTwo ==
  ASSUME NEW v, NEW w, toDaemon \in Seq(Requests), LeadsTo(v, toDaemon, w),
         NEW m \in Requests, NEW m2 \in Requests, Send(<<m>> \o <<m2>>),
         m.type = "START_TRACKING" => ~w.batch,
         m.type = "START_BATCHING" => ~w.track,
         m2.type = "START_TRACKING" => ~After(w, m).batch,
         m2.type = "START_BATCHING" => ~After(w, m).track
  PROVE  LeadsTo(v, toDaemon', IF up THEN After(After(w, m), m2) ELSE w)
<1>1. CASE up
  <2> DEFINE q == Append(toDaemon, m)
  <2>1. q \in Seq(Requests) /\ <<m>> \in Seq(Requests) /\ <<m2>> \in Seq(Requests)
    BY AppendProperties
  <2>2. toDaemon' = (toDaemon \o <<m>>) \o <<m2>>
    BY <1>1, <2>1, ConcatAssociative DEF Send
  <2>3. toDaemon' = Append(q, m2)
    BY <2>1, <2>2, AppendIsConcat
  <2>4. LeadsTo(v, q, After(w, m))
    BY LeadsToAppend
  <2> HIDE DEF q
  <2> QED BY <1>1, <2>1, <2>3, <2>4, LeadsToAppend
<1>2. CASE ~up
  BY <1>2 DEF Send
<1> QED BY <1>1, <1>2

-----------------------------------------------------------------------------
(* The order of what the client will take: where in it the daemon announced *)
(* a new run (HAL_READY), and the registration with a run (CAPABILITIES).   *)

HalReady(q) == \E i \in 1..Len(q) : Is(q, i, "HAL_READY")

NoneBefore(q, i, type) == \A j \in 1..i : ~Is(q, j, type)

None(q, type) == NoneBefore(q, Len(q), type)

\* No two runs in one registration: between the announcements of two there is none.
OneRun(q) ==
    \A i, c, j \in 1..Len(q) :
        i < c /\ c < j /\ Is(q, i, "HAL_READY") /\ Is(q, j, "HAL_READY") =>
            ~Is(q, c, "CAPABILITIES")

\* The capabilities of the last run came from a registered client's handler.
Announced(q, registered) ==
    \A c \in 1..Len(q) :
        Is(q, c, "CAPABILITIES") /\ (\A j \in c..Len(q) : ~Is(q, j, "HAL_READY")) => registered

\* Before a run of the daemon is made known, its client has not registered with it, or the
\* client knows of no other registration.
Renewed(q, registered, halRegistered) ==
    \A i \in 1..Len(q) :
        Is(q, i, "HAL_READY") =>
            \/ ~registered /\ NoneBefore(q, i, "REGISTER")
            \/ ~halRegistered /\ NoneBefore(q, i, "CAPABILITIES")

\* p has the messages of q but the first in their order, and at "fresh" some of type posted.
Follows(p, q, fresh, posted) ==
    \E f \in [1..Len(p) -> 1..Len(q)] :
        /\ \A i \in (1..Len(p)) \ fresh : f[i] >= 2 /\ p[i] = q[f[i]]
        /\ \A i, j \in (1..Len(p)) \ fresh : i < j => f[i] < f[j]
        /\ \A j \in 2..Len(q) : \E i \in (1..Len(p)) \ fresh : f[i] = j
        /\ \A i \in fresh : Is(p, i, posted)

LEMMA TakenFollows ==
  ASSUME NEW type, inbox \in Seq(Indications), Take(type)
  PROVE  Follows(inbox', inbox, {}, "STOP_BATCHING") /\ Is(inbox, 1, type)
<1> DEFINE n == Len(inbox)
           f == [i \in 1..Len(inbox') |-> i + 1]
<1>1. /\ n \in Nat /\ n >= 1 /\ Len(inbox') = n - 1 /\ Is(inbox, 1, type)
      /\ \A i \in 1..Len(inbox') : inbox'[i] = inbox[i + 1]
  BY InboxTaken
<1> HIDE DEF n
<1>2. f \in [1..Len(inbox') -> 1..n] /\ \A i \in 1..Len(inbox') : f[i] = i + 1
  BY <1>1
<1> HIDE DEF f
<1>3. \A i \in 1..Len(inbox') : f[i] >= 2 /\ inbox'[i] = inbox[f[i]]
  BY <1>1, <1>2
<1>4. \A i, j \in 1..Len(inbox') : i < j => f[i] < f[j]
  BY <1>1, <1>2
<1>5. ASSUME NEW j \in 2..n
      PROVE  \E i \in 1..Len(inbox') : f[i] = j
  <2>1. j - 1 \in 1..Len(inbox') /\ (j - 1) + 1 = j
    BY <1>1
  <2> QED BY <1>2, <2>1
<1>6. (1..Len(inbox')) \ {} = 1..Len(inbox')
  OBVIOUS
<1> DEFINE Old == (1..Len(inbox')) \ {}
<1>7. /\ \A i \in Old : f[i] >= 2 /\ inbox'[i] = inbox[f[i]]
      /\ \A i, j \in Old : i < j => f[i] < f[j]
      /\ \A j \in 2..n : \E i \in Old : f[i] = j
      /\ \A i \in {} : Is(inbox', i, "STOP_BATCHING")
  BY <1>3, <1>4, <1>5, <1>6
<1> QED BY <1>1, <1>2, <1>7 DEF Follows, n

LEMMA PostedFollows ==
  ASSUME NEW type, NEW posted \in {"REGISTER", "STOP_BATCHING"},
         inbox \in Seq(Indications), TakeAndPost(type, posted)
  PROVE  /\ \E fresh : Follows(inbox', inbox, fresh, posted)
         /\ Is(inbox, 1, type)
<1> DEFINE n == Len(inbox)
<1>1. PICK k \in 1..n :
         /\ inbox'[k] = [type |-> posted]
         /\ \A i \in 1..(k - 1) : inbox'[i] = inbox[i + 1]
         /\ \A i \in (k + 1)..n : inbox'[i] = inbox[i]
  BY InboxPosted
<1>2. n \in Nat /\ n >= 1 /\ Len(inbox') = n /\ Is(inbox, 1, type)
  BY InboxPosted
<1> HIDE DEF n
<1> DEFINE f == [i \in 1..n |-> IF i < k THEN i + 1 ELSE i]
<1>3. f \in [1..n -> 1..n] /\ \A i \in 1..n : f[i] = IF i < k THEN i + 1 ELSE i
  BY <1>1, <1>2
<1> HIDE DEF f
<1>4. ASSUME NEW i \in (1..n) \ {k}
      PROVE  f[i] >= 2 /\ inbox'[i] = inbox[f[i]]
  <2>1. i \in 1..(k - 1) \/ i \in (k + 1)..n
    BY <1>2
  <2> QED BY <1>1, <1>2, <1>3, <2>1
<1>5. ASSUME NEW i \in (1..n) \ {k}, NEW j \in (1..n) \ {k}, i < j
      PROVE  f[i] < f[j]
  <2>1. /\ f[i] = IF i < k THEN i + 1 ELSE i
        /\ f[j] = IF j < k THEN j + 1 ELSE j
    BY <1>3
  <2>2. i \in Nat /\ j \in Nat /\ k \in Nat /\ j # k
    BY <1>2
  <2> QED BY <1>5, <2>1, <2>2
<1>6. ASSUME NEW j \in 2..n
      PROVE  \E i \in (1..n) \ {k} : f[i] = j
  <2>1. CASE j =< k
    <3>1. j - 1 \in (1..n) \ {k} /\ (j - 1) + 1 = j /\ j - 1 < k
      BY <1>2, <2>1
    <3> QED BY <1>3, <3>1
  <2>2. CASE j > k
    <3>1. j \in (1..n) \ {k} /\ ~(j < k)
      BY <1>2, <2>2
    <3> QED BY <1>3, <3>1
  <2> QED BY <1>2, <2>1, <2>2
<1>7. \A i \in {k} : Is(inbox', i, posted)
  BY <1>1 DEF Is
<1>8. Follows(inbox', inbox, {k}, posted)
  <2> DEFINE Old == (1..Len(inbox')) \ {k}
  <2>1. f \in [1..Len(inbox') -> 1..Len(inbox)]
    BY <1>2, <1>3 DEF n
  <2>2. /\ \A i \in Old : f[i] >= 2 /\ inbox'[i] = inbox[f[i]]
        /\ \A i, j \in Old : i < j => f[i] < f[j]
        /\ \A j \in 2..Len(inbox) : \E i \in Old : f[i] = j
    <3>1. Len(inbox') = n /\ Len(inbox) = n
      BY <1>2 DEF n
    <3> QED BY <1>4, <1>5, <1>6, <3>1
  <2> QED BY <1>7, <2>1, <2>2 DEF Follows
<1> QED BY <1>2, <1>8

\* What holds of q's messages holds of those that are left.
LEMMA FollowsKeeps ==
  ASSUME NEW q \in Seq(Indications), NEW p \in Seq(Indications), NEW fresh,
         NEW posted \in {"REGISTER", "STOP_BATCHING"}, Follows(p, q, fresh, posted)
  PROVE  /\ HalReady(p) => HalReady(q)
         /\ HalReady(q) /\ ~Is(q, 1, "HAL_READY") => HalReady(p)
         /\ OneRun(q) => OneRun(p)
         /\ None(q, "CAPABILITIES") => None(p, "CAPABILITIES")
         /\ None(q, "HAL_READY") => None(p, "HAL_READY")
         /\ posted # "REGISTER" /\ None(q, "REGISTER") => None(p, "REGISTER")
<1> DEFINE Old == (1..Len(p)) \ fresh
<1>1. Len(p) \in Nat /\ Len(q) \in Nat
  BY LenProperties
<1>2. PICK f \in [1..Len(p) -> 1..Len(q)] :
         /\ \A i \in Old : f[i] >= 2 /\ p[i] = q[f[i]]
         /\ \A i, j \in Old : i < j => f[i] < f[j]
         /\ \A j \in 2..Len(q) : \E i \in Old : f[i] = j
         /\ \A i \in fresh : Is(p, i, posted)
  BY DEF Follows
<1>3. ASSUME NEW i \in 1..Len(p), NEW type, type # posted, Is(p, i, type)
      PROVE  i \in Old /\ f[i] \in 2..Len(q) /\ Is(q, f[i], type)
  <2>1. i \in Old
    BY <1>2, <1>3 DEF Is
  <2>2. f[i] \in 1..Len(q) /\ f[i] >= 2 /\ p[i] = q[f[i]]
    BY <1>2, <2>1
  <2> QED BY <1>1, <1>3, <2>1, <2>2 DEF Is
<1>4. ASSUME NEW j \in 2..Len(q), NEW type, Is(q, j, type)
      PROVE  \E i \in Old : f[i] = j /\ Is(p, i, type)
  BY <1>2, <1>4 DEF Is
<1>5. HalReady(p) => HalReady(q)
  BY <1>1, <1>3 DEF HalReady
<1>6. HalReady(q) /\ ~Is(q, 1, "HAL_READY") => HalReady(p)
  <2> SUFFICES ASSUME NEW j \in 1..Len(q), Is(q, j, "HAL_READY"), ~Is(q, 1, "HAL_READY")
               PROVE  HalReady(p)
    BY DEF HalReady
  <2>1. j \in 2..Len(q)
    BY <1>1
  <2> QED BY <1>4, <2>1 DEF HalReady
<1>7. OneRun(q) => OneRun(p)
  <2> SUFFICES ASSUME OneRun(q), NEW i \in 1..Len(p), NEW c \in 1..Len(p), NEW j \in 1..Len(p),
                      i < c, c < j, Is(p, i, "HAL_READY"), Is(p, j, "HAL_READY"),
                      Is(p, c, "CAPABILITIES")
               PROVE  FALSE
    BY DEF OneRun
  <2>1. f[i] \in 1..Len(q) /\ f[c] \in 1..Len(q) /\ f[j] \in 1..Len(q) /\ f[i] < f[c] /\ f[c] < f[j]
    BY <1>1, <1>2, <1>3
  <2>2. Is(q, f[i], "HAL_READY") /\ Is(q, f[j], "HAL_READY") /\ Is(q, f[c], "CAPABILITIES")
    BY <1>3
  <2> QED BY <2>1, <2>2 DEF OneRun
<1>8. ASSUME NEW type \in {"HAL_READY", "CAPABILITIES", "REGISTER"}, type # posted, None(q, type)
      PROVE  None(p, type)
  BY <1>1, <1>3, <1>8 DEF None, NoneBefore
<1> QED BY <1>5, <1>6, <1>7, <1>8

LEMMA FollowsKeepsOrder ==
  ASSUME NEW q \in Seq(Indications), NEW p \in Seq(Indications), NEW fresh,
         NEW posted \in {"REGISTER", "STOP_BATCHING"}, Follows(p, q, fresh, posted),
         NEW registered, NEW halRegistered
  PROVE  /\ Announced(q, registered) => Announced(p, registered)
         /\ posted # "REGISTER" =>
               (Renewed(q, registered, halRegistered) => Renewed(p, registered, halRegistered))
         /\ ~halRegistered /\ OneRun(q) /\ Is(q, 1, "HAL_READY") =>
               Renewed(p, registered, halRegistered)
<1> DEFINE Old == (1..Len(p)) \ fresh
<1>1. Len(p) \in Nat /\ Len(q) \in Nat
  BY LenProperties
<1>2. PICK f \in [1..Len(p) -> 1..Len(q)] :
         /\ \A i \in Old : f[i] >= 2 /\ p[i] = q[f[i]]
         /\ \A i, j \in Old : i < j => f[i] < f[j]
         /\ \A j \in 2..Len(q) : \E i \in Old : f[i] = j
         /\ \A i \in fresh : Is(p, i, posted)
  BY DEF Follows
<1>3. ASSUME NEW i \in 1..Len(p), NEW type, type # posted, Is(p, i, type)
      PROVE  i \in Old /\ f[i] \in 2..Len(q) /\ Is(q, f[i], type)
  <2>1. i \in Old
    BY <1>2, <1>3 DEF Is
  <2>2. f[i] \in 1..Len(q) /\ f[i] >= 2 /\ p[i] = q[f[i]]
    BY <1>2, <2>1
  <2> QED BY <1>1, <1>3, <2>1, <2>2 DEF Is
<1>4. ASSUME NEW j \in 2..Len(q), NEW type, Is(q, j, type)
      PROVE  \E i \in Old : f[i] = j /\ Is(p, i, type)
  BY <1>2, <1>4 DEF Is
<1>5. ASSUME Announced(q, registered), NEW c \in 1..Len(p),
             Is(p, c, "CAPABILITIES"), \A j \in c..Len(p) : ~Is(p, j, "HAL_READY")
      PROVE  registered
  <2>1. c \in Old /\ f[c] \in 2..Len(q) /\ Is(q, f[c], "CAPABILITIES")
    BY <1>3, <1>5
  <2>2. ASSUME NEW j \in f[c]..Len(q), Is(q, j, "HAL_READY")
        PROVE  FALSE
    <3>1. PICK i \in Old : f[i] = j /\ Is(p, i, "HAL_READY")
      BY <1>1, <1>4, <2>1, <2>2
    <3>2. ~(i < c)
      BY <1>1, <1>2, <2>1, <2>2, <3>1
    <3>3. i \in c..Len(p)
      BY <1>1, <3>2
    <3> QED BY <1>5, <3>1, <3>3
  <2> QED BY <1>1, <1>5, <2>1, <2>2 DEF Announced
<1>6. ASSUME NEW i \in 1..Len(p), Is(p, i, "HAL_READY"),
              NEW type, type # posted, NoneBefore(q, f[i], type)
       PROVE  NoneBefore(p, i, type)
  <2> SUFFICES ASSUME NEW j \in 1..i, Is(p, j, type)
               PROVE  FALSE
    BY DEF NoneBefore
  <2>1. j \in 1..Len(p) /\ j =< i
    BY <1>1
  <2>2. j \in Old /\ f[j] \in 2..Len(q) /\ Is(q, f[j], type)
    BY <1>3, <1>6, <2>1
  <2>3. i \in Old /\ f[i] \in 2..Len(q)
    BY <1>3, <1>6
  <2>4. f[j] \in 1..f[i]
    BY <1>1, <1>2, <2>1, <2>2, <2>3
  <2> QED BY <1>6, <2>2, <2>4 DEF NoneBefore
<1>7. ASSUME posted # "REGISTER", Renewed(q, registered, halRegistered)
       PROVE  Renewed(p, registered, halRegistered)
  <2> SUFFICES ASSUME NEW i \in 1..Len(p), Is(p, i, "HAL_READY")
               PROVE  \/ ~registered /\ NoneBefore(p, i, "REGISTER")
                      \/ ~halRegistered /\ NoneBefore(p, i, "CAPABILITIES")
    BY DEF Renewed
  <2>1. f[i] \in 1..Len(q) /\ Is(q, f[i], "HAL_READY")
    BY <1>1, <1>3
  <2>2. \/ ~registered /\ NoneBefore(q, f[i], "REGISTER")
        \/ ~halRegistered /\ NoneBefore(q, f[i], "CAPABILITIES")
    BY <1>7, <2>1 DEF Renewed
  <2> QED BY <1>6, <1>7, <2>2
<1>8. ASSUME ~halRegistered, OneRun(q), Is(q, 1, "HAL_READY")
      PROVE  Renewed(p, registered, halRegistered)
  <2> SUFFICES ASSUME NEW i \in 1..Len(p), Is(p, i, "HAL_READY")
               PROVE  NoneBefore(p, i, "CAPABILITIES")
    BY <1>8 DEF Renewed
  <2>1. f[i] \in 2..Len(q) /\ Is(q, f[i], "HAL_READY")
    BY <1>3
  <2>2. ASSUME NEW j \in 1..f[i], Is(q, j, "CAPABILITIES")
        PROVE  FALSE
    <3>1. 1 \in 1..Len(q) /\ j \in 1..Len(q) /\ f[i] \in 1..Len(q)
      BY <1>1, <2>1
    <3>2. j # 1 /\ j # f[i]
      BY <1>8, <2>1, <2>2 DEF Is
    <3>3. 1 < j /\ j < f[i]
      BY <1>1, <2>1, <3>2
    <3> QED BY <1>8, <2>1, <2>2, <3>1, <3>3 DEF OneRun
  <2> QED BY <1>6, <2>2 DEF NoneBefore
<1>9. Announced(q, registered) => Announced(p, registered)
  BY <1>5 DEF Announced
<1> QED BY <1>7, <1>8, <1>9

LEMMA AppendedKeeps ==
  ASSUME NEW q \in Seq(Indications), NEW m \in Indications, m.type # "HAL_READY",
         NEW registered \in BOOLEAN, NEW halRegistered \in BOOLEAN
  PROVE  /\ HalReady(Append(q, m)) <=> HalReady(q)
         /\ OneRun(q) => OneRun(Append(q, m))
         /\ Announced(q, registered) /\ (m.type = "CAPABILITIES" => registered) =>
               Announced(Append(q, m), registered)
         /\ Renewed(q, registered, halRegistered) =>
               Renewed(Append(q, m), registered, halRegistered)
<1> DEFINE p == Append(q, m)
           n == Len(q)
<1>1. n \in Nat /\ Len(p) = n + 1 /\ p[n + 1] = m /\ \A i \in 1..n : p[i] = q[i]
  BY AppendProperties, LenProperties
<1> HIDE DEF p
<1>2. \A i \in 1..Len(p) : \A type : Is(p, i, type) <=> IF i = n + 1 THEN m.type = type ELSE Is(q, i, type)
  BY <1>1 DEF Is
<1>3. HalReady(p) <=> HalReady(q)
  BY <1>1, <1>2 DEF HalReady
<1>4. OneRun(q) => OneRun(p)
  BY <1>1, <1>2 DEF OneRun
<1>5. ASSUME Announced(q, registered), m.type = "CAPABILITIES" => registered,
             NEW c \in 1..Len(p), Is(p, c, "CAPABILITIES"),
             \A j \in c..Len(p) : ~Is(p, j, "HAL_READY")
      PROVE  registered
  <2>1. CASE c = n + 1
    BY <1>2, <1>5, <2>1
  <2>2. CASE c # n + 1
    <3>1. c \in 1..n /\ Is(q, c, "CAPABILITIES")
      BY <1>1, <1>2, <1>5, <2>2
    <3>2. ASSUME NEW j \in c..n
          PROVE  ~Is(q, j, "HAL_READY")
      <4>1. j \in c..Len(p) /\ j \in 1..Len(p) /\ j # n + 1
        BY <1>1, <3>1
      <4> QED BY <1>2, <1>5, <4>1
    <3> QED BY <1>5, <3>1, <3>2 DEF Announced
  <2> QED BY <2>1, <2>2
<1>6. Renewed(q, registered, halRegistered) => Renewed(p, registered, halRegistered)
  <2> SUFFICES ASSUME Renewed(q, registered, halRegistered), NEW i \in 1..Len(p),
                      Is(p, i, "HAL_READY")
               PROVE  \/ ~registered /\ NoneBefore(p, i, "REGISTER")
                      \/ ~halRegistered /\ NoneBefore(p, i, "CAPABILITIES")
    BY DEF Renewed
  <2>1. i \in 1..n /\ Is(q, i, "HAL_READY")
    BY <1>1, <1>2
  <2>2. ASSUME NEW type
        PROVE  NoneBefore(q, i, type) => NoneBefore(p, i, type)
    BY <1>1, <1>2, <2>1 DEF NoneBefore
  <2> QED BY <2>1, <2>2 DEF Renewed
<1> QED BY <1>3, <1>4, <1>5, <1>6 DEF p, Announced

LEMMA HalReadyAppended ==
  ASSUME NEW q \in Seq(Indications), NEW m \in Indications, m.type = "HAL_READY",
         NEW registered \in BOOLEAN, NEW halRegistered \in BOOLEAN
  PROVE  /\ HalReady(Append(q, m))
         /\ OneRun(q) /\ (None(q, "CAPABILITIES") \/ None(q, "HAL_READY")) =>
               OneRun(Append(q, m))
         /\ Announced(Append(q, m), registered)
         /\ /\ Renewed(q, registered, halRegistered)
            /\ \/ ~registered /\ None(q, "REGISTER")
               \/ ~halRegistered /\ None(q, "CAPABILITIES")
            => Renewed(Append(q, m), registered, halRegistered)
<1> DEFINE p == Append(q, m)
           n == Len(q)
<1>1. n \in Nat /\ Len(p) = n + 1 /\ p[n + 1] = m /\ \A i \in 1..n : p[i] = q[i]
  BY AppendProperties, LenProperties
<1> HIDE DEF p
<1>2. \A i \in 1..Len(p) : \A type : Is(p, i, type) <=> IF i = n + 1 THEN m.type = type ELSE Is(q, i, type)
  BY <1>1 DEF Is
<1>3. n + 1 \in 1..Len(p) /\ Is(p, n + 1, "HAL_READY")
  BY <1>1, <1>2
<1>4. OneRun(q) /\ (None(q, "CAPABILITIES") \/ None(q, "HAL_READY")) => OneRun(p)
  <2> SUFFICES ASSUME OneRun(q), None(q, "CAPABILITIES") \/ None(q, "HAL_READY"),
                      NEW i \in 1..Len(p), NEW c \in 1..Len(p), NEW j \in 1..Len(p),
                      i < c, c < j, Is(p, i, "HAL_READY"), Is(p, j, "HAL_READY"),
                      Is(p, c, "CAPABILITIES")
               PROVE  FALSE
    BY DEF OneRun
  <2>1. i \in 1..n /\ c \in 1..n /\ Is(q, i, "HAL_READY") /\ Is(q, c, "CAPABILITIES")
    BY <1>1, <1>2
  <2> QED BY <2>1 DEF None, NoneBefore
<1>5. Announced(p, registered)
  <2> SUFFICES ASSUME NEW c \in 1..Len(p), \A j \in c..Len(p) : ~Is(p, j, "HAL_READY")
               PROVE  FALSE
    BY DEF Announced
  <2>1. n + 1 \in c..Len(p)
    BY <1>1
  <2> QED BY <1>3, <2>1
<1>6. ASSUME Renewed(q, registered, halRegistered),
             \/ ~registered /\ None(q, "REGISTER")
             \/ ~halRegistered /\ None(q, "CAPABILITIES")
      PROVE  Renewed(p, registered, halRegistered)
  <2> SUFFICES ASSUME NEW i \in 1..Len(p), Is(p, i, "HAL_READY")
               PROVE  \/ ~registered /\ NoneBefore(p, i, "REGISTER")
                      \/ ~halRegistered /\ NoneBefore(p, i, "CAPABILITIES")
    BY DEF Renewed
  <2>1. ASSUME i \in 1..n, NEW type
        PROVE  NoneBefore(q, i, type) => NoneBefore(p, i, type)
    BY <1>1, <1>2, <2>1 DEF NoneBefore
  <2>2. ASSUME NEW type, type # "HAL_READY", i = n + 1
        PROVE  None(q, type) => NoneBefore(p, i, type)
    BY <1>1, <1>2, <2>2 DEF NoneBefore, None
  <2>3. CASE i = n + 1
    BY <1>6, <2>2, <2>3
  <2>4. CASE i # n + 1
    <3>1. i \in 1..n /\ Is(q, i, "HAL_READY")
      BY <1>1, <1>2, <2>4
    <3> QED BY <1>6, <2>1, <3>1 DEF Renewed
  <2> QED BY <2>3, <2>4
<1>7. HalReady(p)
  BY <1>3 DEF HalReady
<1> QED BY <1>4, <1>5, <1>6, <1>7 DEF p

-----------------------------------------------------------------------------
(* The invariant *)

\* The handler is at most what the view v says and, if its client can be reached and the
\* API never refused, exactly that.
Bounded(v) ==
    /\ handler.registered => v.registered
    /\ handler.mSessionId => v.track
    /\ handler.mBatchingId => v.batch
    /\ ~handler.registered => handler = NoHandler
    /\ reachable =>
        /\ v.registered = handler.registered
        /\ v.mask = handler.mSubscriptionMask
        /\ ~handler.refused =>
            /\ v.track = handler.mSessionId
            /\ v.batch = handler.mBatchingId
            /\ v.opt = handler.mOptions
    /\ ~up => handler = NoHandler /\ toDaemon = <<>> /\ v = NoView

\* The view w is the client's own.
Exact(w) ==
    /\ w.registered
    /\ w.track <=> mSessionId /\ mLocationOptions # "passive"
    /\ w.track => w.opt = mLocationOptions
    /\ w.batch <=> mBatchingId
    /\ "passive" \notin TrackOptions /\ mSessionId => TrackCbs \subseteq w.mask

\* What the daemon is left with when it has handled all, w, is at most what the client
\* wants of it, and exactly that if the client is registered with this run.
Serves(w) ==
    /\ w.track => mHalRegistered /\ mSessionId /\ mLocationOptions # "passive"
    /\ w.batch => mHalRegistered /\ mBatchingId
    /\ up /\ reachable /\ ~HalReady(inbox) /\ mHalRegistered => Exact(w)

Ordered(w) ==
    /\ up /\ reachable => Announced(inbox, w.registered)
    /\ Renewed(inbox, w.registered, mHalRegistered)

Sessions ==
    /\ ~(mSessionId /\ mBatchingId)
    /\ mSessionId => TrackCbs \subseteq mCallbacksMask
    /\ "passive" \notin TrackOptions /\ mSessionId => mLocationOptions # "passive"

\* With the daemon down, the client is not registered, or has nothing left to register.
Unserved ==
    ~up => \/ ~mHalRegistered /\ None(inbox, "CAPABILITIES")
           \/ None(inbox, "REGISTER") /\ None(inbox, "HAL_READY")

Link(v, w) == LeadsTo(v, toDaemon, w) /\ Bounded(v) /\ Serves(w) /\ Ordered(w)

IInv ==
    /\ TypeOK
    /\ Sessions
    /\ OneRun(inbox)
    /\ Unserved
    /\ \E v, w \in View : Link(v, w)

LEMMA DaemonDown ==
  ASSUME TypeOK, NEW v, NEW w, LeadsTo(v, toDaemon, w), Bounded(v), ~up
  PROVE  w = NoView
  BY LeadsToEnds DEF Bounded, TypeOK

\* A step of the client leaves the handler alone, and a message it sends to a daemon
\* that is down is lost.
LEMMA ClientKeepsBounded ==
  ASSUME NEW v, Bounded(v), UNCHANGED <<handler, reachable, up>>, ~up => toDaemon' = toDaemon
  PROVE  Bounded(v)'
  BY DEF Bounded

\* The daemon that is down serves nobody.
LEMMA NoViewServes ==
  ASSUME ~up'
  PROVE  Serves(NoView)'
  BY DEF Serves, NoView

-----------------------------------------------------------------------------
(* The client's steps *)

\* What new callbacks do to a view.
LEMMA Subscribed ==
  ASSUME NEW w \in View, NEW mask \in SUBSET Callbacks
  PROVE  LET m == [type |-> "UPDATE_CALLBACKS", mask |-> mask]
             x == After(w, m)
         IN /\ m \in Requests /\ UpdateCallbacks(mask) = <<m>>
            /\ m.type \notin {"START_TRACKING", "START_BATCHING", "REGISTER"}
            /\ x \in View
            /\ x.registered = w.registered /\ x.track = w.track /\ x.batch = w.batch
            /\ x.opt = w.opt
            /\ w.registered => x.mask = mask
<1> DEFINE m == [type |-> "UPDATE_CALLBACKS", mask |-> mask]
           x == After(w, m)
<1>1. m \in Requests /\ m.type = "UPDATE_CALLBACKS" /\ m.mask = mask
  BY RequestKinds
<1>2. UpdateCallbacks(mask) = <<m>>
  BY DEF UpdateCallbacks
<1> HIDE DEF m
<1>3. x \in View /\ x.registered = w.registered
  BY <1>1, AfterTyped
<1>4. /\ x.track = w.track /\ x.batch = w.batch /\ x.opt = w.opt
      /\ w.registered => x.mask = mask
  <2>1. CASE w.registered
    BY <1>1, <2>1, ViewFields DEF After, Handled
  <2>2. CASE ~w.registered
    <3>1. x = w
      BY <1>1, <2>2 DEF After
    <3> QED BY <2>2, <3>1
  <2> QED BY <2>1, <2>2
<1> QED BY <1>1, <1>2, <1>3, <1>4 DEF m

\* One message after new callbacks, or none.
LEMMA SubscribedAndSent ==
  ASSUME TypeOK, NEW v, NEW w \in View, LeadsTo(v, toDaemon, w), up,
         NEW mask \in SUBSET Callbacks, NEW m \in Requests,
         m.type \in {"START_TRACKING", "UPDATE_TRACKING", "STOP_TRACKING"} => ~w.batch,
         m.type = "START_BATCHING" => ~w.track,
         m.type \notin {"REGISTER", "UPDATE_CALLBACKS"},
         Send(UpdateCallbacks(mask) \o <<m>>)
  PROVE  \E x \in View :
            /\ LeadsTo(v, toDaemon', x)
            /\ x.registered = w.registered
            /\ w.registered =>
                /\ x.track <=> m.type = "START_TRACKING" \/ (w.track /\ m.type # "STOP_TRACKING")
                /\ x.opt = IF \/ m.type = "START_TRACKING" /\ ~w.track
                              \/ m.type = "UPDATE_TRACKING" /\ w.track THEN m.opt ELSE w.opt
                /\ x.batch <=> m.type = "START_BATCHING" \/ (w.batch /\ m.type # "STOP_BATCHING")
                /\ m.type # "STOP_TRACKING" => x.mask = mask
<1> DEFINE s == [type |-> "UPDATE_CALLBACKS", mask |-> mask]
           y == After(w, s)
           x == After(y, m)
<1>1. /\ s \in Requests /\ UpdateCallbacks(mask) = <<s>>
      /\ s.type # "START_TRACKING" /\ s.type # "START_BATCHING"
      /\ y \in View /\ y.registered = w.registered /\ y.track = w.track
      /\ y.batch = w.batch /\ y.opt = w.opt /\ (w.registered => y.mask = mask)
  BY Subscribed
<1> HIDE DEF s
<1>2. toDaemon \in Seq(Requests)
  BY DEF TypeOK
<1>3. /\ m.type = "START_TRACKING" => ~After(w, s).batch
      /\ m.type = "START_BATCHING" => ~After(w, s).track
  BY <1>1
<1>4. LeadsTo(v, toDaemon', x)
  BY <1>1, <1>2, <1>3, SendTwo
<1> HIDE DEF y
<1>5. x \in View /\ x.registered = y.registered
  BY <1>1, <1>3, AfterTyped DEF y
<1>6. w.registered =>
        /\ x.track <=> m.type = "START_TRACKING" \/ (y.track /\ m.type # "STOP_TRACKING")
        /\ x.opt = IF \/ m.type = "START_TRACKING" /\ ~y.track
                      \/ m.type = "UPDATE_TRACKING" /\ y.track THEN m.opt ELSE y.opt
        /\ x.batch <=> m.type = "START_BATCHING" \/ (y.batch /\ m.type # "STOP_BATCHING")
        /\ m.type # "STOP_TRACKING" => x.mask = y.mask
  BY <1>1 DEF After, Handled
<1> HIDE DEF x
<1> QED BY <1>1, <1>4, <1>5, <1>6

\* New callbacks alone.
LEMMA SubscribedOnly ==
  ASSUME TypeOK, NEW v, NEW w \in View, LeadsTo(v, toDaemon, w), up,
         NEW mask \in SUBSET Callbacks, Send(UpdateCallbacks(mask))
  PROVE  \E x \in View :
            /\ LeadsTo(v, toDaemon', x)
            /\ x.registered = w.registered /\ x.track = w.track /\ x.batch = w.batch
            /\ x.opt = w.opt
            /\ w.registered => x.mask = mask
<1> DEFINE s == [type |-> "UPDATE_CALLBACKS", mask |-> mask]
           y == After(w, s)
<1>1. /\ s \in Requests /\ UpdateCallbacks(mask) = <<s>>
      /\ s.type # "START_TRACKING" /\ s.type # "START_BATCHING"
      /\ y \in View /\ y.registered = w.registered /\ y.track = w.track
      /\ y.batch = w.batch /\ y.opt = w.opt /\ (w.registered => y.mask = mask)
  BY Subscribed
<1> HIDE DEF s
<1>2. toDaemon \in Seq(Requests)
  BY DEF TypeOK
<1>3. LeadsTo(v, toDaemon', y)
  BY <1>1, <1>2, SendOne
<1> HIDE DEF y
<1> QED BY <1>1, <1>3

\* One message alone.
LEMMA SentAlone ==
  ASSUME TypeOK, NEW v, NEW w \in View, LeadsTo(v, toDaemon, w), up, NEW m \in Requests,
         m.type = "START_TRACKING" => ~w.batch,
         m.type = "START_BATCHING" => ~w.track,
         m.type \notin {"REGISTER", "UPDATE_CALLBACKS"},
         Send(<<m>>)
  PROVE  \E x \in View :
            /\ LeadsTo(v, toDaemon', x)
            /\ x.registered = w.registered
            /\ w.registered =>
                /\ x.track <=> m.type = "START_TRACKING" \/ (w.track /\ m.type # "STOP_TRACKING")
                /\ x.opt = IF \/ m.type = "START_TRACKING" /\ ~w.track
                              \/ m.type = "UPDATE_TRACKING" /\ w.track THEN m.opt ELSE w.opt
                /\ x.batch <=> m.type = "START_BATCHING" \/ (w.batch /\ m.type # "STOP_BATCHING")
                /\ m.type # "STOP_TRACKING" => x.mask = w.mask
<1> DEFINE x == After(w, m)
<1>1. toDaemon \in Seq(Requests)
  BY DEF TypeOK
<1>2. LeadsTo(v, toDaemon', x)
  BY <1>1, SendOne
<1>3. x \in View /\ x.registered = w.registered
  BY AfterTyped
<1>4. w.registered =>
        /\ x.track <=> m.type = "START_TRACKING" \/ (w.track /\ m.type # "STOP_TRACKING")
        /\ x.opt = IF \/ m.type = "START_TRACKING" /\ ~w.track
                      \/ m.type = "UPDATE_TRACKING" /\ w.track THEN m.opt ELSE w.opt
        /\ x.batch <=> m.type = "START_BATCHING" \/ (w.batch /\ m.type # "STOP_BATCHING")
        /\ m.type # "STOP_TRACKING" => x.mask = w.mask
  BY DEF After, Handled
<1> HIDE DEF x
<1> QED BY <1>2, <1>3, <1>4

\* A start of tracking: whichever messages it sends, it is what the daemon is left with.
LEMMA StartPositionServes ==
  ASSUME TypeOK, Sessions, NEW v \in View, NEW w \in View, LeadsTo(v, toDaemon, w), up,
         Serves(w), NEW o \in TrackOptions, startPositionSession(o)
  PROVE  \E x \in View :
            LeadsTo(v, toDaemon', x) /\ x.registered = w.registered /\ Serves(x)'
<1>1. /\ mHalRegistered \in BOOLEAN /\ mSessionId \in BOOLEAN /\ mBatchingId = FALSE
      /\ mSessionId' = TRUE /\ mLocationOptions' = o /\ mBatchingId' = FALSE
      /\ mCallbacksMask' = mCallbacksMask \cup TrackCbs
      /\ starts' \in 0..MaxStarts
      /\ UNCHANGED <<inbox, reachable, up, mHalRegistered>>
  BY LinkBounds DEF startPositionSession, Accepted, TypeOK, ClientTypes
<1>2. o \in Options /\ mCallbacksMask' \in SUBSET Callbacks /\ mLocationOptions \in Options
      /\ toDaemon \in Seq(Requests)
  BY <1>1 DEF Options, TypeOK, ClientTypes, Callbacks
<1>3. ~w.batch /\ (w.track => mHalRegistered /\ mSessionId /\ mLocationOptions # "passive")
  BY <1>1 DEF Serves
<1>4. ~w.registered => ~w.track /\ ~w.batch
  BY ViewFields
<1>5. "passive" \notin TrackOptions => o # "passive"
  OBVIOUS
<1>6. CASE ~mHalRegistered
  <2>1. toDaemon' = toDaemon
    BY <1>2, <1>6, SendNone DEF startPositionSession
  <2>2. Serves(w)'
    BY <1>1, <1>3, <1>6 DEF Serves
  <2> QED BY <2>1, <2>2
<1>7. ASSUME mHalRegistered, NEW x \in View, x.registered = w.registered,
             x.track => o # "passive", ~x.batch,
             Exact(w) => /\ x.track = (o # "passive")
                         /\ o # "passive" => x.opt = o /\ x.mask = mCallbacksMask'
      PROVE  Serves(x)'
  <2>1. CASE up /\ reachable /\ ~HalReady(inbox)
    <3>1. Exact(w)
      BY <1>7, <2>1 DEF Serves
    <3>2. Exact(x)'
      BY <1>1, <1>5, <1>7, <3>1 DEF Exact
    <3> QED BY <1>1, <1>7, <3>2 DEF Serves
  <2>2. CASE ~(up /\ reachable /\ ~HalReady(inbox))
    <3>1. ~(up' /\ reachable' /\ ~HalReady(inbox'))
      BY <1>1, <2>2
    <3> QED BY <1>1, <1>7, <3>1 DEF Serves
  <2> QED BY <2>1, <2>2
<1> DEFINE start == [type |-> "START_TRACKING", opt |-> o, start |-> starts']
           update == [type |-> "UPDATE_TRACKING", opt |-> o, start |-> starts']
           stop == [type |-> "STOP_TRACKING"]
<1>8. start \in Requests /\ update \in Requests /\ stop \in Requests
  BY <1>1, <1>2, RequestKinds
<1>9. CASE mHalRegistered
  <2>1. \/ (mSessionId \/ o = "passive") /\ (mSessionId => o = mLocationOptions)
           /\ Send(UpdateCallbacks(mCallbacksMask') \o <<>>)
        \/ o # "passive" /\ (mSessionId => mLocationOptions = "passive")
           /\ Send(UpdateCallbacks(mCallbacksMask') \o <<start>>)
        \/ mSessionId /\ o # "passive" /\ mLocationOptions # "passive"
           /\ Send(UpdateCallbacks(mCallbacksMask') \o <<update>>)
        \/ mSessionId /\ o = "passive" /\ mLocationOptions # "passive"
           /\ Send(UpdateCallbacks(mCallbacksMask') \o <<stop>>)
    BY <1>9 DEF startPositionSession, StartTracking, StopTracking, updateTrackingOptionsSync
  <2>2. CASE (mSessionId \/ o = "passive") /\ (mSessionId => o = mLocationOptions)
             /\ Send(UpdateCallbacks(mCallbacksMask') \o <<>>)
    <3>1. UpdateCallbacks(mCallbacksMask') \o <<>> = UpdateCallbacks(mCallbacksMask')
      BY <1>2, MessagesTyped, ConcatEmptySeq, LinkBounds, 0 \in 0..MaxStarts,
         "none" \in BatchModes \cup {"none"}
    <3>2. PICK x \in View :
             /\ LeadsTo(v, toDaemon', x)
             /\ x.registered = w.registered /\ x.track = w.track /\ x.batch = w.batch
             /\ x.opt = w.opt
             /\ w.registered => x.mask = mCallbacksMask'
      BY <1>2, <2>2, <3>1, SubscribedOnly
    <3>3. Serves(x)'
      BY <1>1, <1>3, <1>7, <1>9, <2>2, <3>2, ViewFields DEF Exact
    <3> QED BY <3>2, <3>3
  <2> DEFINE Led(x, m) ==
                /\ LeadsTo(v, toDaemon', x)
                /\ x.registered = w.registered
                /\ w.registered =>
                    /\ x.track <=> m.type = "START_TRACKING" \/ (w.track /\ m.type # "STOP_TRACKING")
                    /\ x.opt = IF \/ m.type = "START_TRACKING" /\ ~w.track
                                  \/ m.type = "UPDATE_TRACKING" /\ w.track THEN m.opt ELSE w.opt
                    /\ x.batch <=> m.type = "START_BATCHING" \/ (w.batch /\ m.type # "STOP_BATCHING")
                    /\ m.type # "STOP_TRACKING" => x.mask = mCallbacksMask'
  <2>3. ASSUME NEW m \in Requests, Send(UpdateCallbacks(mCallbacksMask') \o <<m>>),
               m.type \in {"START_TRACKING", "UPDATE_TRACKING", "STOP_TRACKING"}
        PROVE  \E x \in View : Led(x, m)
    BY <1>2, <1>3, <2>3, SubscribedAndSent
  <2>4. CASE o # "passive" /\ (mSessionId => mLocationOptions = "passive")
             /\ Send(UpdateCallbacks(mCallbacksMask') \o <<start>>)
    <3>1. PICK x \in View : Led(x, start)
      BY <1>8, <2>3, <2>4
    <3>2. x.registered => x.track /\ ~x.batch /\ x.opt = o /\ x.mask = mCallbacksMask'
      BY <1>3, <2>4, <3>1
    <3>3. Serves(x)'
      BY <1>7, <1>9, <2>4, <3>1, <3>2, ViewFields DEF Exact
    <3> QED BY <3>1, <3>3
  <2>5. CASE mSessionId /\ o # "passive" /\ mLocationOptions # "passive"
             /\ Send(UpdateCallbacks(mCallbacksMask') \o <<update>>)
    <3>1. PICK x \in View : Led(x, update)
      BY <1>8, <2>3, <2>5
    <3>2. x.registered => /\ x.track = w.track /\ ~x.batch /\ x.mask = mCallbacksMask'
                          /\ w.track => x.opt = o
      BY <1>3, <3>1, ViewFields
    <3>3. Serves(x)'
      BY <1>7, <1>9, <2>5, <3>1, <3>2, ViewFields DEF Exact
    <3> QED BY <3>1, <3>3
  <2>6. CASE mSessionId /\ o = "passive" /\ mLocationOptions # "passive"
             /\ Send(UpdateCallbacks(mCallbacksMask') \o <<stop>>)
    <3>1. PICK x \in View : Led(x, stop)
      BY <1>8, <2>3, <2>6
    <3>2. x.registered => ~x.track /\ ~x.batch
      BY <1>3, <3>1
    <3>3. Serves(x)'
      BY <1>7, <1>9, <2>6, <3>1, <3>2, ViewFields DEF Exact
    <3> QED BY <3>1, <3>3
  <2> QED BY <2>1, <2>2, <2>4, <2>5, <2>6
<1> QED BY <1>1, <1>6, <1>9

LEMMA StopPositionServes ==
  ASSUME TypeOK, Sessions, NEW v \in View, NEW w \in View, LeadsTo(v, toDaemon, w), up,
         Serves(w), stopPositionSession
  PROVE  \E x \in View :
            LeadsTo(v, toDaemon', x) /\ x.registered = w.registered /\ Serves(x)'
<1>1. /\ toDaemon \in Seq(Requests) /\ mSessionId' = FALSE
      /\ UNCHANGED <<inbox, reachable, up, mHalRegistered, mBatchingId>>
  BY DEF stopPositionSession, TypeOK
<1>2. ASSUME NEW x \in View, x.registered = w.registered, ~x.track,
             x.batch => w.batch, Exact(w) => x.batch = w.batch
      PROVE  Serves(x)'
  <2>1. CASE up /\ reachable /\ ~HalReady(inbox) /\ mHalRegistered
    <3>1. Exact(w)
      BY <2>1 DEF Serves
    <3>2. Exact(x)'
      BY <1>1, <1>2, <3>1 DEF Exact
    <3> QED BY <1>1, <1>2, <3>2 DEF Serves
  <2>2. CASE ~(up /\ reachable /\ ~HalReady(inbox) /\ mHalRegistered)
    <3>1. ~(up' /\ reachable' /\ ~HalReady(inbox') /\ mHalRegistered')
      BY <1>1, <2>2
    <3> QED BY <1>1, <1>2, <3>1 DEF Serves
  <2> QED BY <2>1, <2>2
<1>3. CASE mSessionId /\ mHalRegistered /\ mLocationOptions # "passive"
  <2> DEFINE m == [type |-> "STOP_TRACKING"]
  <2>1. m \in Requests /\ m.type = "STOP_TRACKING"
    BY RequestKinds
  <2>2. Send(<<m>>)
    BY <1>3 DEF stopPositionSession, StopTracking
  <2> HIDE DEF m
  <2>3. PICK x \in View :
           /\ LeadsTo(v, toDaemon', x)
           /\ x.registered = w.registered
           /\ w.registered => ~x.track /\ (x.batch <=> w.batch)
    BY <2>1, <2>2, SentAlone
  <2>4. ~x.track /\ (x.batch => w.batch) /\ (Exact(w) => x.batch = w.batch)
    BY <2>3, ViewFields DEF Exact
  <2> QED BY <1>2, <2>3, <2>4
<1>4. CASE ~(mSessionId /\ mHalRegistered /\ mLocationOptions # "passive")
  <2>1. toDaemon' = toDaemon
    BY <1>1, <1>4, SendNone DEF stopPositionSession, StopTracking
  <2>2. ~w.track
    BY <1>4 DEF Serves
  <2> QED BY <1>2, <2>1, <2>2
<1> QED BY <1>3, <1>4

LEMMA StopBatchingServes ==
  ASSUME TypeOK, Sessions, NEW v \in View, NEW w \in View, LeadsTo(v, toDaemon, w), up,
         Serves(w), StopBatchingReq, HalReady(inbox)' <=> HalReady(inbox)
  PROVE  \E x \in View :
            LeadsTo(v, toDaemon', x) /\ x.registered = w.registered /\ Serves(x)'
<1>1. /\ toDaemon \in Seq(Requests) /\ mBatchingId' = FALSE
      /\ UNCHANGED <<reachable, up, mHalRegistered, mSessionId, mLocationOptions>>
  BY DEF StopBatchingReq, TypeOK
<1>2. ASSUME NEW x \in View, x.registered = w.registered, ~x.batch,
             x.track => w.track,
             Exact(w) => x.track = w.track /\ x.opt = w.opt /\ x.mask = w.mask
      PROVE  Serves(x)'
  <2>1. CASE up /\ reachable /\ ~HalReady(inbox) /\ mHalRegistered
    <3>1. Exact(w)
      BY <2>1 DEF Serves
    <3>2. Exact(x)'
      BY <1>1, <1>2, <3>1 DEF Exact
    <3> QED BY <1>1, <1>2, <3>2 DEF Serves
  <2>2. CASE ~(up /\ reachable /\ ~HalReady(inbox) /\ mHalRegistered)
    <3>1. ~(up' /\ reachable' /\ ~HalReady(inbox)' /\ mHalRegistered')
      BY <1>1, <2>2
    <3> QED BY <1>1, <1>2, <3>1 DEF Serves
  <2> QED BY <2>1, <2>2
<1>3. CASE mBatchingId
  <2> DEFINE m == [type |-> "STOP_BATCHING"]
  <2>1. m \in Requests /\ m.type = "STOP_BATCHING"
    BY RequestKinds
  <2>2. Send(<<m>>)
    BY <1>3 DEF StopBatchingReq
  <2> HIDE DEF m
  <2>3. PICK x \in View :
           /\ LeadsTo(v, toDaemon', x)
           /\ x.registered = w.registered
           /\ w.registered => /\ ~x.batch /\ (x.track <=> w.track)
                              /\ x.opt = w.opt /\ x.mask = w.mask
    BY <2>1, <2>2, SentAlone
  <2>4. ~x.batch /\ (x.track => w.track)
        /\ (Exact(w) => x.track = w.track /\ x.opt = w.opt /\ x.mask = w.mask)
    BY <2>3, ViewFields DEF Exact
  <2> QED BY <1>2, <2>3, <2>4
<1>4. CASE ~mBatchingId
  <2>1. toDaemon' = toDaemon
    BY <1>1, <1>4, SendNone DEF StopBatchingReq
  <2>2. ~w.batch
    BY <1>4 DEF Serves
  <2> QED BY <1>2, <2>1, <2>2
<1> QED BY <1>3, <1>4

LEMMA StartBatchingServes ==
  ASSUME TypeOK, Sessions, NEW v \in View, NEW w \in View, LeadsTo(v, toDaemon, w), up,
         Serves(w), NEW mode \in BatchModes, startBatchingSession(mode)
  PROVE  \E x \in View :
            LeadsTo(v, toDaemon', x) /\ x.registered = w.registered /\ Serves(x)'
<1>1. /\ mHalRegistered \in BOOLEAN /\ mSessionId = FALSE /\ mSessionId' = FALSE
      /\ mBatchingId' = (mBatchingId \/ mHalRegistered)
      /\ mCallbacksMask' = mCallbacksMask \cup BatchCbs(mode)
      /\ starts' \in 0..MaxStarts
      /\ UNCHANGED <<inbox, reachable, up, mHalRegistered>>
  BY LinkBounds DEF startBatchingSession, Accepted, TypeOK, ClientTypes
<1>2. mCallbacksMask' \in SUBSET Callbacks /\ toDaemon \in Seq(Requests)
  BY <1>1, CallbacksTyped DEF TypeOK, ClientTypes, Callbacks
<1>3. ~w.track
  BY <1>1 DEF Serves
<1>4. ASSUME NEW x \in View, x.registered = w.registered, ~x.track,
             x.batch => mHalRegistered,
             mHalRegistered /\ w.registered => x.batch
      PROVE  Serves(x)'
  <2>1. CASE up /\ reachable /\ ~HalReady(inbox) /\ mHalRegistered
    <3>1. w.registered
      BY <2>1 DEF Serves, Exact
    <3>2. Exact(x)'
      BY <1>1, <1>4, <2>1, <3>1 DEF Exact
    <3> QED BY <1>1, <1>4, <2>1, <3>2 DEF Serves
  <2>2. CASE ~(up /\ reachable /\ ~HalReady(inbox) /\ mHalRegistered)
    <3>1. ~(up' /\ reachable' /\ ~HalReady(inbox') /\ mHalRegistered')
      BY <1>1, <2>2
    <3> QED BY <1>1, <1>4, <3>1 DEF Serves
  <2> QED BY <2>1, <2>2
<1>5. CASE ~mHalRegistered
  <2>1. toDaemon' = toDaemon
    BY <1>2, <1>5, SendNone DEF startBatchingSession
  <2>2. ~w.batch
    BY <1>5 DEF Serves
  <2> QED BY <1>3, <1>4, <1>5, <2>1, <2>2
<1>6. CASE mHalRegistered
  <2> DEFINE m == [type |-> "START_BATCHING", opt |-> mode, start |-> starts']
  <2>1. m \in Requests /\ m.type = "START_BATCHING" /\ <<m>> \in Seq(Requests)
    <3>1. m \in Requests
      BY <1>1, RequestKinds
    <3> QED BY <3>1
  <2>2. \/ Send(<<>> \o <<m>>)
        \/ Send(UpdateCallbacks(mCallbacksMask') \o <<m>>)
    BY <1>6 DEF startBatchingSession, StartBatching
  <2>3. <<>> \o <<m>> = <<m>>
    BY <2>1, ConcatEmptySeq
  <2> HIDE DEF m
  <2>4. PICK x \in View :
           /\ LeadsTo(v, toDaemon', x)
           /\ x.registered = w.registered
           /\ w.registered => x.batch /\ (x.track <=> w.track)
    <3>1. CASE Send(<<m>>)
      BY <1>3, <2>1, <3>1, SentAlone
    <3>2. CASE Send(UpdateCallbacks(mCallbacksMask') \o <<m>>)
      BY <1>2, <1>3, <2>1, <3>2, SubscribedAndSent
    <3> QED BY <2>2, <2>3, <3>1, <3>2
  <2>5. ~x.track
    BY <1>3, <2>4, ViewFields
  <2> QED BY <1>4, <1>6, <2>4, <2>5
<1> QED BY <1>1, <1>5, <1>6

\* The client that learns of its registration starts its session again: with callbacks
\* and options the daemon is left with what the client wants of it.
LEMMA CapabilitiesServe ==
  ASSUME TypeOK, Sessions, NEW v \in View, NEW w \in View, LeadsTo(v, toDaemon, w), up,
         Serves(w), Ordered(w), capabilitesCallback
  PROVE  \E x \in View :
            LeadsTo(v, toDaemon', x) /\ x.registered = w.registered /\ Serves(x)'
<1>1. /\ mHalRegistered \in BOOLEAN /\ mSessionId \in BOOLEAN /\ mBatchingId \in BOOLEAN
      /\ mHalRegistered' = TRUE
      /\ mCallbacksMask \in SUBSET Callbacks /\ mLocationOptions \in Options
      /\ mBatchingOptions \in BatchModes \cup {"none"} /\ starts \in 0..MaxStarts
      /\ toDaemon \in Seq(Requests) /\ inbox \in Seq(Indications) /\ inbox' \in Seq(Indications)
      /\ UNCHANGED <<reachable, up, mSessionId, mLocationOptions, mBatchingId>>
  BY InboxTaken DEF capabilitesCallback, TypeOK, ClientTypes, Callbacks, sessionVars
<1>2. Follows(inbox', inbox, {}, "STOP_BATCHING") /\ Is(inbox, 1, "CAPABILITIES")
      /\ Len(inbox) \in Nat /\ Len(inbox) >= 1
  BY <1>1, TakenFollows, InboxTaken DEF capabilitesCallback
<1>3. HalReady(inbox') <=> HalReady(inbox)
  <2>1. ~Is(inbox, 1, "HAL_READY")
    BY <1>2 DEF Is
  <2> QED BY <1>1, <1>2, <2>1, FollowsKeeps
<1>4. up /\ reachable /\ ~HalReady(inbox) => w.registered
  <2> SUFFICES ASSUME reachable, ~HalReady(inbox)
               PROVE  w.registered
    OBVIOUS
  <2>1. \A j \in 1..Len(inbox) : ~Is(inbox, j, "HAL_READY")
    BY DEF HalReady
  <2>2. 1 \in 1..Len(inbox) /\ Announced(inbox, w.registered)
    BY <1>2 DEF Ordered
  <2> QED BY <1>2, <2>1, <2>2 DEF Announced
<1>5. ASSUME NEW x \in View, x.registered = w.registered,
             x.track => mSessionId /\ mLocationOptions # "passive",
             x.batch => mBatchingId,
             up /\ reachable /\ ~HalReady(inbox) => Exact(x)
      PROVE  Serves(x)'
  <2>1. Exact(x) => Exact(x)'
    BY <1>1 DEF Exact
  <2> QED BY <1>1, <1>3, <1>5, <2>1 DEF Serves
<1>6. mSessionId /\ "passive" \notin TrackOptions =>
         TrackCbs \subseteq mCallbacksMask /\ mCallbacksMask # {}
  BY DEF Sessions, TrackCbs
<1>7. ~w.registered => ~w.track /\ ~w.batch
  BY ViewFields
<1> DEFINE update == UpdateCallbacks(mCallbacksMask)
           track == [type |-> "START_TRACKING", opt |-> mLocationOptions, start |-> starts]
           batch == [type |-> "START_BATCHING", opt |-> mBatchingOptions, start |-> starts]
           subscribes == mCallbacksMask # {}
<1>8. track \in Requests /\ batch \in Requests /\ <<track>> \in Seq(Requests)
      /\ <<batch>> \in Seq(Requests) /\ update \in Seq(Requests)
  <2>1. track \in Requests /\ batch \in Requests
    BY <1>1, RequestKinds
  <2> QED BY <1>1, <2>1, MessagesTyped
<1>9. CASE ~mHalRegistered /\ mSessionId /\ mLocationOptions # "passive"
  <2>1. subscribes
    BY <1>9 DEF Sessions, TrackCbs
  <2>2. Send(update \o <<track>>)
    BY <1>9, <2>1 DEF capabilitesCallback, StartTracking
  <2>3. ~w.track /\ ~w.batch
    BY <1>9 DEF Serves
  <2>4. PICK x \in View :
           /\ LeadsTo(v, toDaemon', x)
           /\ x.registered = w.registered
           /\ w.registered => /\ x.track /\ ~x.batch
                              /\ x.opt = mLocationOptions /\ x.mask = mCallbacksMask
    BY <1>1, <1>8, <2>2, <2>3, SubscribedAndSent, SMTT(20)
  <2>5. Serves(x)'
    BY <1>4, <1>5, <1>6, <1>9, <2>4, ViewFields DEF Exact, Sessions
  <2> QED BY <2>4, <2>5
<1>10. CASE ~mHalRegistered /\ ~mSessionId /\ mBatchingId
  <2>1. \/ Send(update \o <<batch>>)
        \/ Send(<<>> \o <<batch>>)
    BY <1>10 DEF capabilitesCallback, StartBatching
  <2>2. ~w.track /\ ~w.batch
    BY <1>10 DEF Serves
  <2>3. <<>> \o <<batch>> = <<batch>>
    <3> HIDE DEF batch
    <3> QED BY <1>8, ConcatEmptySeq
  <2>4. batch.type = "START_BATCHING"
    OBVIOUS
  <2> HIDE DEF batch
  <2>5. PICK x \in View :
           /\ LeadsTo(v, toDaemon', x)
           /\ x.registered = w.registered
           /\ w.registered => x.batch /\ ~x.track
    <3>1. CASE Send(update \o <<batch>>)
      BY <1>1, <1>8, <2>2, <2>4, <3>1, SubscribedAndSent
    <3>2. CASE Send(<<batch>>)
      BY <1>8, <2>2, <2>4, <3>2, SentAlone
    <3> QED BY <2>1, <2>3, <3>1, <3>2
  <2>6. Serves(x)'
    BY <1>4, <1>5, <1>10, <2>5, ViewFields DEF Exact
  <2> QED BY <2>5, <2>6
<1>11. CASE mHalRegistered \/ (~(mSessionId /\ mLocationOptions # "passive") /\ (mSessionId \/ ~mBatchingId))
  <2>1. Send((IF subscribes THEN update ELSE <<>>) \o <<>>)
    BY <1>11 DEF capabilitesCallback, StartTracking
  <2>2. update \o <<>> = update /\ <<>> \o <<>> = <<>>
    <3> HIDE DEF update
    <3> QED BY <1>8, ConcatEmptySeq, EmptySeq
  <2>3. w.track => mSessionId /\ mLocationOptions # "passive"
    BY DEF Serves
  <2>4. w.batch => mBatchingId
    BY DEF Serves
  <2>5. up /\ reachable /\ ~HalReady(inbox) =>
           (w.track <=> mSessionId /\ mLocationOptions # "passive")
           /\ (w.track => w.opt = mLocationOptions) /\ (w.batch <=> mBatchingId)
           /\ ("passive" \notin TrackOptions /\ mSessionId => TrackCbs \subseteq mCallbacksMask)
           /\ (~subscribes => ~("passive" \notin TrackOptions /\ mSessionId))
    <3>1. CASE mHalRegistered
      BY <1>6, <3>1 DEF Serves, Exact
    <3>2. CASE ~mHalRegistered
      BY <1>6, <1>11, <3>2 DEF Serves, Sessions
    <3> QED BY <1>1, <3>1, <3>2
  <2>6. PICK x \in View :
           /\ LeadsTo(v, toDaemon', x)
           /\ x.registered = w.registered /\ x.track = w.track /\ x.batch = w.batch
           /\ x.opt = w.opt
           /\ w.registered /\ subscribes => x.mask = mCallbacksMask
    <3>1. CASE subscribes
      BY <1>1, <2>1, <2>2, <3>1, SubscribedOnly
    <3>2. CASE ~subscribes
      <4>1. toDaemon' = toDaemon
        BY <1>1, <2>1, <2>2, <3>2, SendNone
      <4> QED BY <3>2, <4>1
    <3> QED BY <3>1, <3>2
  <2>7. up /\ reachable /\ ~HalReady(inbox) => Exact(x)
    BY <1>4, <2>5, <2>6 DEF Exact
  <2>8. Serves(x)'
    BY <1>5, <2>3, <2>4, <2>6, <2>7
  <2> QED BY <2>6, <2>8
<1>12. \/ ~mHalRegistered /\ mSessionId /\ mLocationOptions # "passive"
       \/ ~mHalRegistered /\ ~mSessionId /\ mBatchingId
       \/ mHalRegistered \/ (~(mSessionId /\ mLocationOptions # "passive") /\ (mSessionId \/ ~mBatchingId))
  BY <1>1
<1> HIDE DEF update, track, batch, subscribes
<1> QED BY <1>9, <1>10, <1>11, <1>12

LEMMA ClientKeepsSessions ==
  ASSUME TypeOK, Sessions, ClientStep
  PROVE  Sessions'
<1>1. CASE \E o \in TrackOptions : startPositionSession(o)
  BY <1>1 DEF startPositionSession, Accepted, Sessions
<1>2. CASE stopPositionSession
  BY <1>2 DEF stopPositionSession, Sessions
<1>3. CASE \E mode \in BatchModes : startBatchingSession(mode)
  BY <1>3 DEF startBatchingSession, Accepted, Sessions
<1>4. CASE StopBatchingReq
  BY <1>4 DEF StopBatchingReq, Sessions
<1>5. CASE ClientRegisterReq \/ onHalReady \/ capabilitesCallback \/ onResponse \/ onTripCompleted
  BY <1>5 DEF ClientRegisterReq, onHalReady, capabilitesCallback, onResponse, onTripCompleted,
              clientVars, sessionVars, Sessions
<1>6. CASE GeofenceStep
  BY <1>6, OnlyTheFlagMoves DEF TypeOK, ClientTypes, Sessions, sessionVars
<1> QED BY <1>1, <1>2, <1>3, <1>4, <1>5, <1>6
        DEF ClientStep, ClientCall, ClientTask, stopBatchingSession

\* A step after which the daemon is left with what the client wants, whose view of it has
\* the same registration, and before which nothing else was to be taken.
LEMMA ClientCallKeeps ==
  ASSUME IInv, ClientCall, UNCHANGED handler
  PROVE  IInv'
<1>1. PICK v \in View, w \in View : Link(v, w)
  BY DEF IInv
<1>2. LeadsTo(v, toDaemon, w) /\ Bounded(v) /\ Serves(w) /\ Ordered(w)
      /\ TypeOK /\ Sessions /\ OneRun(inbox) /\ Unserved
  BY <1>1 DEF Link, IInv
<1>3. TypeOK' /\ Sessions'
  BY <1>2, ClientKeepsTypes, ClientKeepsSessions DEF ClientStep
<1>4. UNCHANGED <<inbox, reachable, up, mHalRegistered>>
  BY DEF ClientCall, startPositionSession, stopPositionSession, startBatchingSession,
         stopBatchingSession, StopBatchingReq
<1>5. ~up => toDaemon' = toDaemon
  BY DEF ClientCall, startPositionSession, stopPositionSession, startBatchingSession,
         stopBatchingSession, StopBatchingReq, Send
<1>6. Bounded(v)'
  BY <1>2, <1>4, <1>5, ClientKeepsBounded
<1>7. \E x \in View :
         LeadsTo(v, toDaemon', x) /\ x.registered = w.registered /\ Serves(x)'
  <2>1. CASE ~up
    <3>1. w = NoView
      BY <1>2, <2>1, DaemonDown
    <3>2. Serves(w)'
      BY <1>4, <2>1, <3>1, NoViewServes
    <3> QED BY <1>2, <1>5, <2>1, <3>2
  <2>2. CASE up
    <3>1. CASE \E o \in TrackOptions : startPositionSession(o)
      BY <1>2, <2>2, <3>1, StartPositionServes
    <3>2. CASE stopPositionSession
      BY <1>2, <2>2, <3>2, StopPositionServes
    <3>3. CASE \E mode \in BatchModes : startBatchingSession(mode)
      BY <1>2, <2>2, <3>3, StartBatchingServes
    <3>4. CASE stopBatchingSession
      BY <1>2, <1>4, <2>2, <3>4, StopBatchingServes DEF stopBatchingSession, HalReady
    <3> QED BY <3>1, <3>2, <3>3, <3>4 DEF ClientCall
  <2> QED BY <2>1, <2>2
<1>8. PICK x \in View :
         LeadsTo(v, toDaemon', x) /\ x.registered = w.registered /\ Serves(x)'
  BY <1>7
<1>9. Ordered(x)'
  BY <1>2, <1>4, <1>8 DEF Ordered
<1>10. OneRun(inbox') /\ Unserved'
  BY <1>2, <1>4 DEF Unserved
<1> QED BY <1>3, <1>6, <1>8, <1>9, <1>10 DEF IInv, Link

\* What is left to take, when the first message is gone, and none that matters to its
\* order was posted.
LEMMA TakingKeepsOrder ==
  ASSUME inbox \in Seq(Indications), inbox' \in Seq(Indications), NEW fresh,
         Follows(inbox', inbox, fresh, "STOP_BATCHING"),
         NEW w \in View, NEW x \in View, Ordered(w), OneRun(inbox), Unserved,
         UNCHANGED <<reachable, up, mHalRegistered>>, x.registered = w.registered,
         mHalRegistered \in BOOLEAN
  PROVE  Ordered(x)' /\ OneRun(inbox') /\ Unserved'
<1>1. w.registered \in BOOLEAN
  BY ViewFields
<1>2. /\ OneRun(inbox')
      /\ Announced(inbox, w.registered) => Announced(inbox', w.registered)
      /\ Renewed(inbox, w.registered, mHalRegistered) =>
            Renewed(inbox', w.registered, mHalRegistered)
      /\ None(inbox, "CAPABILITIES") => None(inbox', "CAPABILITIES")
      /\ None(inbox, "HAL_READY") => None(inbox', "HAL_READY")
      /\ None(inbox, "REGISTER") => None(inbox', "REGISTER")
  <2> DEFINE posted == "STOP_BATCHING"
  <2>1. /\ posted \in {"REGISTER", "STOP_BATCHING"} /\ posted # "REGISTER"
        /\ Follows(inbox', inbox, fresh, posted)
    OBVIOUS
  <2> HIDE DEF posted
  <2> QED BY <1>1, <2>1, FollowsKeeps, FollowsKeepsOrder
<1>3. Ordered(x)'
  BY <1>2 DEF Ordered
<1>4. Unserved'
  BY <1>2 DEF Unserved
<1> QED BY <1>2, <1>3, <1>4

LEMMA ClientTaskKeeps ==
  ASSUME IInv, ClientTask, UNCHANGED handler
  PROVE  IInv'
<1>1. PICK v \in View, w \in View : Link(v, w)
  BY DEF IInv
<1>2. LeadsTo(v, toDaemon, w) /\ Bounded(v) /\ Serves(w) /\ Ordered(w)
      /\ TypeOK /\ Sessions /\ OneRun(inbox) /\ Unserved
  BY <1>1 DEF Link, IInv
<1>3. TypeOK' /\ Sessions'
  BY <1>2, ClientKeepsTypes, ClientKeepsSessions DEF ClientStep
<1>4. /\ inbox \in Seq(Indications) /\ inbox' \in Seq(Indications) /\ mHalRegistered \in BOOLEAN
      /\ toDaemon \in Seq(Requests) /\ UNCHANGED <<reachable, up>> /\ reachable \in BOOLEAN
      /\ ~up => toDaemon' = toDaemon
  BY <1>2, <1>3 DEF TypeOK, ClientTypes, ClientTask, ClientRegisterReq, onHalReady,
     capabilitesCallback, onResponse, onTripCompleted, StopBatchingReq, clientVars, sessionVars, Send
<1>5. Bounded(v)'
  BY <1>2, <1>4, ClientKeepsBounded
<1>6. ~up => w = NoView
  BY <1>2, DaemonDown
<1>7. ASSUME NEW x \in View, LeadsTo(v, toDaemon', x), Serves(x)', Ordered(x)',
             OneRun(inbox'), Unserved'
      PROVE  IInv'
  BY <1>3, <1>5, <1>7 DEF IInv, Link
<1>8. CASE onResponse \/ onTripCompleted
  <2>1. UNCHANGED <<toDaemon, mHalRegistered, mSessionId, mLocationOptions, mBatchingId>>
    BY <1>8 DEF onResponse, onTripCompleted, clientVars, sessionVars
  <2>2. PICK fresh : Follows(inbox', inbox, fresh, "STOP_BATCHING") /\ ~Is(inbox, 1, "HAL_READY")
    <3>1. \/ Take("RESPONSE") \/ Take("TRIP_COMPLETED")
          \/ TakeAndPost("TRIP_COMPLETED", "STOP_BATCHING")
      BY <1>8 DEF onResponse, onTripCompleted
    <3> QED BY <1>4, <3>1, TakenFollows, PostedFollows DEF Is
  <2>3. HalReady(inbox') <=> HalReady(inbox)
    BY <1>4, <2>2, FollowsKeeps
  <2>4. Serves(w)'
    BY <1>2, <1>4, <2>1, <2>3 DEF Serves, Exact
  <2>5. Ordered(w)' /\ OneRun(inbox') /\ Unserved'
    BY <1>2, <1>4, <2>1, <2>2, TakingKeepsOrder
  <2> QED BY <1>2, <1>7, <2>1, <2>4, <2>5
<1>9. CASE Take("STOP_BATCHING") /\ StopBatchingReq
  <2>1. Follows(inbox', inbox, {}, "STOP_BATCHING") /\ ~Is(inbox, 1, "HAL_READY")
    BY <1>4, <1>9, TakenFollows DEF Is
  <2>2. HalReady(inbox') <=> HalReady(inbox)
    BY <1>4, <2>1, FollowsKeeps
  <2>3. UNCHANGED mHalRegistered
    BY <1>9 DEF StopBatchingReq
  <2>4. PICK x \in View :
           LeadsTo(v, toDaemon', x) /\ x.registered = w.registered /\ Serves(x)'
    <3>1. CASE up
      BY <1>2, <1>9, <2>2, <3>1, StopBatchingServes
    <3>2. CASE ~up
      BY <1>2, <1>4, <1>6, <3>2, NoViewServes
    <3> QED BY <3>1, <3>2
  <2>5. Ordered(x)' /\ OneRun(inbox') /\ Unserved'
    BY <1>2, <1>4, <2>1, <2>3, <2>4, TakingKeepsOrder
  <2> QED BY <1>7, <2>4, <2>5
<1>10. CASE ClientRegisterReq
  <2> DEFINE m == [type |-> "REGISTER"]
             y == IF up THEN After(w, m) ELSE w
  <2>1. m \in Requests /\ m.type = "REGISTER"
    BY RequestKinds
  <2>2. Follows(inbox', inbox, {}, "STOP_BATCHING") /\ Is(inbox, 1, "REGISTER")
        /\ Len(inbox) \in Nat /\ Len(inbox) >= 1
    BY <1>4, <1>10, TakenFollows, InboxTaken DEF ClientRegisterReq
  <2>3. UNCHANGED <<mHalRegistered, mSessionId, mLocationOptions, mBatchingId>>
    BY <1>10 DEF ClientRegisterReq, clientVars
  <2>4. HalReady(inbox') <=> HalReady(inbox)
    <3>1. ~Is(inbox, 1, "HAL_READY")
      BY <2>2 DEF Is
    <3> QED BY <1>4, <2>2, <3>1, FollowsKeeps
  <2>5. LeadsTo(v, toDaemon', y)
    BY <1>2, <1>4, <1>10, <2>1, SendOne DEF ClientRegisterReq
  <2>6. y \in View /\ (up => y.registered) /\ y.track = w.track /\ y.batch = w.batch
        /\ y.opt = w.opt /\ y.mask = w.mask
    <3>1. CASE up
      <4>1. y = Handled(w, m)
        BY <2>1, <3>1 DEF After
      <4>2. y \in View /\ y.registered
        BY <2>1, <3>1, AfterTyped
      <4> HIDE DEF y, m
      <4> QED BY <2>1, <4>1, <4>2, ViewFields DEF Handled
    <3>2. CASE ~up
      BY <3>2
    <3> QED BY <3>1, <3>2
  <2> HIDE DEF m, y
  <2>7. PICK x \in View :
            /\ LeadsTo(v, toDaemon', x)
            /\ up => x.registered
            /\ x.track = w.track /\ x.batch = w.batch /\ x.opt = w.opt /\ x.mask = w.mask
    BY <2>5, <2>6
  <2>8. Serves(x)'
    BY <1>2, <1>4, <2>3, <2>4, <2>7 DEF Serves, Exact
  <2>9. Renewed(inbox, x.registered, mHalRegistered)
    <3> SUFFICES ASSUME NEW i \in 1..Len(inbox), Is(inbox, i, "HAL_READY")
                 PROVE  ~mHalRegistered /\ NoneBefore(inbox, i, "CAPABILITIES")
      BY DEF Renewed
    <3>1. ~NoneBefore(inbox, i, "REGISTER")
      BY <2>2 DEF NoneBefore
    <3> QED BY <1>2, <3>1 DEF Ordered, Renewed
  <2>10. up /\ reachable => Announced(inbox, x.registered)
    BY <2>7 DEF Announced
  <2>11. Ordered(x)
    BY <2>9, <2>10 DEF Ordered
  <2>12. Ordered(x)' /\ OneRun(inbox') /\ Unserved'
    BY <1>2, <1>4, <2>2, <2>3, <2>7, <2>11, TakingKeepsOrder
  <2> QED BY <1>7, <2>7, <2>8, <2>12
<1>11. CASE onHalReady
  <2>1. UNCHANGED <<toDaemon, mSessionId, mLocationOptions, mBatchingId>>
        /\ mHalRegistered' = FALSE
    BY <1>11 DEF onHalReady, sessionVars
  <2> DEFINE posted == "REGISTER"
  <2>2. PICK fresh : Follows(inbox', inbox, fresh, posted)
    BY <1>4, <1>11, PostedFollows DEF onHalReady
  <2>3. Is(inbox, 1, "HAL_READY") /\ Len(inbox) \in Nat /\ Len(inbox) >= 1
    BY <1>4, <1>11, PostedFollows, InboxPosted DEF onHalReady
  <2>4. posted \in {"REGISTER", "STOP_BATCHING"} /\ posted # "CAPABILITIES"
    OBVIOUS
  <2> HIDE DEF posted
  <2>5. ~w.track /\ ~w.batch
    <3>1. \/ ~w.registered
          \/ ~mHalRegistered
      BY <1>2, <2>3 DEF Ordered, Renewed
    <3> QED BY <1>2, <3>1, ViewFields DEF Serves
  <2>6. Serves(w)'
    BY <2>1, <2>5 DEF Serves
  <2>7. w.registered \in BOOLEAN
    BY ViewFields
  <2>8. /\ OneRun(inbox')
        /\ Announced(inbox, w.registered) => Announced(inbox', w.registered)
        /\ Renewed(inbox', w.registered, mHalRegistered')
    <3>1. OneRun(inbox')
      BY <1>2, <1>4, <2>2, <2>4, FollowsKeeps
    <3>2. /\ Announced(inbox, w.registered) => Announced(inbox', w.registered)
          /\ Renewed(inbox', w.registered, mHalRegistered')
      BY <1>2, <1>4, <2>1, <2>2, <2>3, <2>4, FollowsKeepsOrder
    <3> QED BY <3>1, <3>2
  <2>9. Ordered(w)'
    BY <1>2, <1>4, <2>8 DEF Ordered
  <2>10. Unserved'
    <3> SUFFICES ASSUME ~up
                 PROVE  None(inbox', "CAPABILITIES") /\ ~mHalRegistered'
      BY <1>4 DEF Unserved
    <3>1. ~None(inbox, "HAL_READY")
      BY <2>3 DEF None, NoneBefore
    <3>2. None(inbox, "CAPABILITIES")
      BY <1>2, <3>1 DEF Unserved
    <3>3. None(inbox, "CAPABILITIES") => None(inbox', "CAPABILITIES")
      BY <1>4, <2>2, <2>4, <2>7, FollowsKeeps, FollowsKeepsOrder
    <3> QED BY <2>1, <3>2, <3>3
  <2> QED BY <1>2, <1>7, <2>1, <2>6, <2>8, <2>9, <2>10
<1>12. CASE capabilitesCallback
  <2>1. Follows(inbox', inbox, {}, "STOP_BATCHING") /\ Is(inbox, 1, "CAPABILITIES")
        /\ Len(inbox) \in Nat /\ Len(inbox) >= 1
    BY <1>4, <1>12, TakenFollows, InboxTaken DEF capabilitesCallback
  <2>2. mHalRegistered' = TRUE
    BY <1>12 DEF capabilitesCallback
  <2>3. PICK x \in View :
           LeadsTo(v, toDaemon', x) /\ x.registered = w.registered /\ Serves(x)'
    <3>1. CASE up
      BY <1>2, <1>12, <3>1, CapabilitiesServe
    <3>2. CASE ~up
      BY <1>2, <1>4, <1>6, <3>2, NoViewServes
    <3> QED BY <3>1, <3>2
  <2> DEFINE posted == "STOP_BATCHING"
  <2>4. /\ posted \in {"REGISTER", "STOP_BATCHING"} /\ posted # "REGISTER"
        /\ posted # "HAL_READY" /\ Follows(inbox', inbox, {}, posted)
    BY <2>1
  <2> HIDE DEF posted
  <2>5. w.registered \in BOOLEAN
    BY ViewFields
  <2>6. Renewed(inbox, w.registered, TRUE)
    <3> SUFFICES ASSUME NEW i \in 1..Len(inbox), Is(inbox, i, "HAL_READY")
                 PROVE  ~w.registered /\ NoneBefore(inbox, i, "REGISTER")
      BY DEF Renewed
    <3>1. ~NoneBefore(inbox, i, "CAPABILITIES")
      BY <2>1 DEF NoneBefore
    <3> QED BY <1>2, <3>1 DEF Ordered, Renewed
  <2>7. OneRun(inbox')
    BY <1>2, <1>4, <2>4, FollowsKeeps
  <2>8. /\ Announced(inbox, w.registered) => Announced(inbox', w.registered)
        /\ Renewed(inbox', w.registered, mHalRegistered')
    <3>1. Renewed(inbox, w.registered, mHalRegistered')
      BY <2>2, <2>6
    <3> QED BY <1>4, <2>4, <3>1, FollowsKeepsOrder
  <2>9. Ordered(x)'
    BY <1>2, <1>4, <2>3, <2>8 DEF Ordered
  <2>10. Unserved'
    <3> SUFFICES ASSUME ~up
                 PROVE  None(inbox', "REGISTER") /\ None(inbox', "HAL_READY")
      BY <1>4 DEF Unserved
    <3>1. ~None(inbox, "CAPABILITIES")
      BY <2>1 DEF None, NoneBefore
    <3>2. None(inbox, "REGISTER") /\ None(inbox, "HAL_READY")
      BY <1>2, <3>1 DEF Unserved
    <3>3. /\ None(inbox, "REGISTER") => None(inbox', "REGISTER")
          /\ None(inbox, "HAL_READY") => None(inbox', "HAL_READY")
      BY <1>4, <2>4, <2>5, FollowsKeeps, FollowsKeepsOrder
    <3> QED BY <3>2, <3>3
  <2> QED BY <1>7, <2>3, <2>7, <2>9, <2>10
<1> QED BY <1>8, <1>9, <1>10, <1>11, <1>12 DEF ClientTask

-----------------------------------------------------------------------------
(* The daemon's steps *)

LEMMA RequestReceived ==
  ASSUME DaemonRequest
  PROVE  up /\ up' = up /\ toDaemon # <<>> /\ toDaemon' = Tail(toDaemon)
  BY DEF DaemonRequest, unknownClient, newClient, updateSubscription, startTracking,
     stopTracking, updateTrackingOptions, startBatching, stopBatching, Request, Receive

\* A purged client's handler knows nothing, and no view need be exact.
LEMMA PurgedBounded ==
  ASSUME NEW x \in View, handler' = NoHandler, reachable' = FALSE, up'
  PROVE  Bounded(x)'
  BY DEF Bounded, NoHandler

\* A request handled, the handler is bounded by the view after its message.
LEMMA RequestBounded ==
  ASSUME TypeOK, NEW v \in View, Bounded(v), DaemonRequest,
         NEW x \in View, x = After(v, Head(toDaemon))
  PROVE  Bounded(x)'
<1> DEFINE m == Head(toDaemon)
<1>1. handler \in Handler /\ reachable \in BOOLEAN /\ up' /\ m \in Requests
  <2>1. up /\ up' = up /\ toDaemon # <<>>
    BY RequestReceived
  <2>2. up'
    BY <2>1
  <2> QED BY <2>1, <2>2, RequestTaken DEF TypeOK
<1>2. /\ handler.registered \in BOOLEAN /\ handler.mSessionId \in BOOLEAN
      /\ handler.mBatchingId \in BOOLEAN /\ handler.refused \in BOOLEAN
      /\ handler.mSubscriptionMask \in SUBSET Callbacks
  BY <1>1 DEF Handler, Callbacks
<1>3. x = After(v, m)
  OBVIOUS
<1>4. ASSUME handler.registered
      PROVE  v.registered /\ x = Handled(v, m)
  BY <1>3, <1>4 DEF Bounded, After
<1> HIDE DEF m
<1>5. ASSUME NEW h, SendNothing(h), handler.registered, h.registered = handler.registered,
             h.mSessionId => x.track,
             h.mBatchingId => x.batch,
             reachable => /\ x.mask = h.mSubscriptionMask
                          /\ ~h.refused => /\ x.track = h.mSessionId
                                           /\ x.batch = h.mBatchingId
                                           /\ x.opt = h.mOptions
      PROVE  Bounded(x)'
  <2>1. x.registered
    BY <1>4, <1>5 DEF Handled
  <2>2. handler' = h /\ reachable' = reachable
    BY <1>5 DEF SendNothing
  <2>3. x.registered = h.registered
    BY <1>2, <1>5, <2>1, ViewFields
  <2> QED BY <1>1, <1>5, <2>1, <2>2, <2>3 DEF Bounded
<1>6. /\ handler.mSessionId => v.track
      /\ handler.mBatchingId => v.batch
      /\ reachable => /\ v.mask = handler.mSubscriptionMask
                      /\ ~handler.refused => /\ v.track = handler.mSessionId
                                             /\ v.batch = handler.mBatchingId
                                             /\ v.opt = handler.mOptions
  BY DEF Bounded
<1>7. CASE unknownClient
  <2>1. ~handler.registered /\ m.type # "REGISTER" /\ handler' = handler /\ reachable' = reachable
    BY <1>7 DEF unknownClient, m
  <2>2. handler = NoHandler
    BY <2>1 DEF Bounded
  <2>3. reachable => x = v
    BY <1>3, <2>1, ViewFields DEF Bounded, After
  <2> QED BY <1>1, <2>1, <2>2, <2>3 DEF Bounded, NoHandler
<1>8. CASE newClient
  <2>1. m.type = "REGISTER"
    BY <1>8 DEF newClient, Receive, m
  <2>2. /\ x = Handled(v, m) /\ x.registered /\ x.track = v.track /\ x.batch = v.batch
        /\ x.opt = v.opt /\ x.mask = v.mask
    <3>1. x = Handled(v, m)
      BY <1>3, <2>1 DEF After
    <3>2. v.track \in BOOLEAN /\ v.batch \in BOOLEAN
      BY ViewFields
    <3>3. /\ Handled(v, m).registered
          /\ Handled(v, m).track = v.track /\ Handled(v, m).batch = v.batch
      BY <2>1, <3>2 DEF Handled
    <3>4. Handled(v, m).opt = v.opt /\ Handled(v, m).mask = v.mask
      BY <2>1 DEF Handled
    <3> QED BY <3>1, <3>3, <3>4
  <2>3. ~handler.registered => handler = NoHandler
    BY DEF Bounded
  <2>4. CASE handler.registered
    <3>1. \/ handler' = handler /\ reachable' = reachable
          \/ handler' = NoHandler /\ reachable' = FALSE
      BY <1>8, <2>4 DEF newClient, SendTo, SendNothing
    <3>2. CASE handler' = handler /\ reachable' = reachable
      BY <1>1, <1>2, <2>2, <2>4, <3>2, ViewFields DEF Bounded
    <3> QED BY <1>1, <3>1, <3>2, PurgedBounded
  <2>5. CASE ~handler.registered
    <3>1. handler' = NewHandler /\ reachable' = reachable
      BY <1>8, <2>3, <2>5 DEF newClient, SendNothing, NoHandler
    <3>2. /\ NewHandler.registered = TRUE /\ NewHandler.mSessionId = FALSE
          /\ NewHandler.mBatchingId = FALSE /\ NewHandler.mSubscriptionMask = {}
          /\ NewHandler.mOptions = "passive"
      BY DEF NewHandler, NoHandler
    <3>3. reachable => ~v.registered
      BY <2>5 DEF Bounded
    <3>4. reachable => ~x.track /\ ~x.batch /\ x.mask = {} /\ x.opt = "passive"
      BY <2>2, <3>3, ViewFields
    <3>5. x.registered = TRUE /\ (reachable => x.track = FALSE /\ x.batch = FALSE)
      BY <2>2, <3>4, ViewFields
    <3> QED BY <1>1, <3>1, <3>2, <3>4, <3>5 DEF Bounded
  <2> QED BY <2>4, <2>5
<1>9. CASE updateSubscription
  <2> DEFINE h == [handler EXCEPT !.mSubscriptionMask = m.mask]
  <2>1. handler.registered /\ m.type = "UPDATE_CALLBACKS" /\ SendNothing(h)
    BY <1>9 DEF updateSubscription, Request, Receive, m
  <2>2. /\ h \in Handler /\ h.registered = handler.registered /\ h.mSessionId = handler.mSessionId
        /\ h.mBatchingId = handler.mBatchingId /\ h.refused = handler.refused
        /\ h.mOptions = handler.mOptions /\ h.mSubscriptionMask = m.mask
    BY <1>1, <2>1, RequestFields DEF Handler, Callbacks
  <2>3. x.track = v.track /\ x.batch = v.batch /\ x.opt = v.opt /\ x.mask = m.mask
    BY <1>4, <2>1, ViewFields DEF Handled
  <2> HIDE DEF h
  <2> QED BY <1>5, <1>6, <2>1, <2>2, <2>3
<1>10. CASE startTracking
  <2>1. handler.registered /\ m.type = "START_TRACKING" /\ m.opt \in Options
    BY <1>1, <1>10, RequestFields DEF startTracking, Request, Receive, m
  <2>2. /\ x.track /\ x.batch = v.batch /\ x.mask = v.mask
        /\ x.opt = IF v.track THEN v.opt ELSE m.opt
    BY <1>4, <2>1, ViewFields DEF Handled
  <2>3. CASE handler.mSessionId
    <3>1. SendNothing(handler)
      BY <1>10, <2>3 DEF startTracking
    <3>2. x.opt = v.opt /\ x.track = v.track
      BY <1>6, <2>2, <2>3, ViewFields
    <3> QED BY <1>1, <1>5, <1>6, <2>1, <2>2, <3>1, <3>2
  <2>4. CASE ~handler.mSessionId
    <3>1. PICK ok \in StartResults :
             SendNothing([handler EXCEPT !.mOptions = m.opt,
                                         !.mSessionId = ok,
                                         !.calls = IF ok THEN Append(@, m.start) ELSE @,
                                         !.mPendingMessages = Append(@, "START_TRACKING"),
                                         !.refused = @ \/ ~ok])
      BY <1>10, <2>4 DEF startTracking, m
    <3> DEFINE h == [handler EXCEPT !.mOptions = m.opt,
                                    !.mSessionId = ok,
                                    !.calls = IF ok THEN Append(@, m.start) ELSE @,
                                    !.mPendingMessages = Append(@, "START_TRACKING"),
                                    !.refused = @ \/ ~ok]
    <3>2. /\ h.registered = handler.registered /\ h.mSessionId = ok
          /\ h.mBatchingId = handler.mBatchingId /\ h.refused = (handler.refused \/ ~ok)
          /\ h.mOptions = m.opt /\ h.mSubscriptionMask = handler.mSubscriptionMask
      BY <1>1 DEF Handler
    <3>3. handler' = h /\ reachable' = reachable
      BY <3>1 DEF SendNothing
    <3>4. ok \in BOOLEAN
      BY StartResultsAssumption
    <3> HIDE DEF h
    <3>5. SendNothing(h)
      BY <3>1 DEF h
    <3>6. h.registered /\ (h.mSessionId => x.track) /\ (h.mBatchingId => x.batch)
      BY <1>6, <2>1, <2>2, <3>2
    <3>7. ASSUME reachable, ~h.refused
          PROVE  x.track = h.mSessionId /\ x.batch = h.mBatchingId /\ x.opt = h.mOptions
      <4>1. ~handler.refused /\ ok
        BY <3>2, <3>7
      <4>2. v.track = FALSE /\ v.batch = handler.mBatchingId
        BY <1>2, <1>6, <2>4, <3>7, <4>1
      <4>3. h.mSessionId = TRUE /\ x.track = TRUE
        BY <2>2, <3>2, <3>4, <4>1, ViewFields
      <4> QED BY <2>2, <3>2, <4>2, <4>3
    <3>8. reachable => x.mask = h.mSubscriptionMask
      BY <1>6, <2>2, <3>2
    <3> QED BY <1>5, <2>1, <3>5, <3>6, <3>7, <3>8
  <2> QED BY <2>3, <2>4
<1>11. CASE stopTracking
  <2> DEFINE h == [handler EXCEPT !.mSubscriptionMask = @ \ TrackCbs,
                                  !.mSessionId = FALSE,
                                  !.calls = IF handler.mSessionId THEN Append(@, 0) ELSE @]
  <2>1. handler.registered /\ m.type = "STOP_TRACKING" /\ SendNothing(h)
    BY <1>11 DEF stopTracking, Request, Receive, m
  <2>2. /\ h.registered = handler.registered /\ h.mSessionId = FALSE
        /\ h.mBatchingId = handler.mBatchingId /\ h.refused = handler.refused
        /\ h.mOptions = handler.mOptions
        /\ h.mSubscriptionMask = handler.mSubscriptionMask \ TrackCbs
    BY <1>1 DEF Handler
  <2>3. x.track = FALSE /\ x.batch = v.batch /\ x.opt = v.opt /\ x.mask = v.mask \ TrackCbs
    BY <1>4, <2>1, ViewFields DEF Handled
  <2> HIDE DEF h
  <2> QED BY <1>5, <1>6, <2>1, <2>2, <2>3
<1>12. CASE updateTrackingOptions
  <2> DEFINE g == [handler EXCEPT !.mPendingMessages = Append(@, "UPDATE_TRACKING")]
             h == IF ~handler.mSessionId THEN g
                  ELSE [g EXCEPT !.mOptions = m.opt, !.calls = Append(@, m.start)]
  <2>1. handler.registered /\ m.type = "UPDATE_TRACKING" /\ SendNothing(h)
    BY <1>12 DEF updateTrackingOptions, Request, Receive, m
  <2>2. /\ h.registered = handler.registered /\ h.mSessionId = handler.mSessionId
        /\ h.mBatchingId = handler.mBatchingId /\ h.refused = handler.refused
        /\ h.mOptions = (IF handler.mSessionId THEN m.opt ELSE handler.mOptions)
        /\ h.mSubscriptionMask = handler.mSubscriptionMask
    BY <1>1 DEF Handler
  <2>3. /\ x.track = v.track /\ x.batch = v.batch /\ x.mask = v.mask
        /\ x.opt = IF v.track THEN m.opt ELSE v.opt
    BY <1>4, <2>1, ViewFields DEF Handled
  <2> HIDE DEF h
  <2> QED BY <1>5, <1>6, <2>1, <2>2, <2>3
<1>13. CASE stopBatching
  <2> DEFINE h == [handler EXCEPT !.mBatchingMode = "none",
                                  !.mBatchingId = FALSE,
                                  !.calls = IF handler.mBatchingId THEN Append(@, 0) ELSE @,
                                  !.mPendingMessages = Append(@, "STOP_BATCHING")]
  <2>1. handler.registered /\ m.type = "STOP_BATCHING" /\ SendNothing(h)
    BY <1>13 DEF stopBatching, Request, Receive, m
  <2>2. /\ h.registered = handler.registered /\ h.mSessionId = handler.mSessionId
        /\ h.mBatchingId = FALSE /\ h.refused = handler.refused
        /\ h.mOptions = handler.mOptions
        /\ h.mSubscriptionMask = handler.mSubscriptionMask
    BY <1>1 DEF Handler
  <2>3. x.batch = FALSE /\ x.track = v.track /\ x.opt = v.opt /\ x.mask = v.mask
    BY <1>4, <2>1, ViewFields DEF Handled
  <2> HIDE DEF h
  <2> QED BY <1>5, <1>6, <2>1, <2>2, <2>3
<1>14. CASE startBatching
  <2> DEFINE Started(h) == [h EXCEPT !.mBatchingMode = m.opt,
                                     !.mPendingMessages = Append(@, "START_BATCHING")]
             begun == [handler EXCEPT !.mBatchingId = TRUE,
                                      !.mBatchOptions = m.opt,
                                      !.calls = Append(@, m.start),
                                      !.trip = FALSE]
             failed == [handler EXCEPT !.mBatchOptions = m.opt, !.refused = TRUE]
  <2>1. handler.registered /\ m.type = "START_BATCHING"
    BY <1>14 DEF startBatching, Request, Receive, m
  <2>2. x.batch = TRUE /\ x.track = v.track /\ x.opt = v.opt /\ x.mask = v.mask
    BY <1>4, <2>1, ViewFields DEF Handled
  <2>3. \/ handler.mBatchingId /\ SendNothing(Started(handler))
        \/ ~handler.mBatchingId /\ SendNothing(Started(begun))
        \/ ~handler.mBatchingId /\ SendNothing(failed)
    BY <1>14 DEF startBatching, m
  <2>4. CASE handler.mBatchingId /\ SendNothing(Started(handler))
    <3> DEFINE h == Started(handler)
    <3>1. /\ h.registered = handler.registered /\ h.mSessionId = handler.mSessionId
          /\ h.mBatchingId = handler.mBatchingId /\ h.refused = handler.refused
          /\ h.mOptions = handler.mOptions
          /\ h.mSubscriptionMask = handler.mSubscriptionMask
      BY <1>1 DEF Handler
    <3> HIDE DEF h
    <3>2. SendNothing(h) /\ handler.mBatchingId = TRUE
      BY <1>2, <2>4 DEF h
    <3> QED BY <1>5, <1>6, <2>1, <2>2, <3>1, <3>2
  <2>5. CASE ~handler.mBatchingId /\ SendNothing(Started(begun))
    <3> DEFINE h == Started(begun)
    <3>1. /\ h.registered = handler.registered /\ h.mSessionId = handler.mSessionId
          /\ h.mBatchingId = TRUE /\ h.refused = handler.refused
          /\ h.mOptions = handler.mOptions
          /\ h.mSubscriptionMask = handler.mSubscriptionMask
      BY <1>1 DEF Handler
    <3> HIDE DEF h
    <3>2. SendNothing(h)
      BY <2>5 DEF h
    <3> QED BY <1>5, <1>6, <2>1, <2>2, <3>1, <3>2
  <2>6. CASE ~handler.mBatchingId /\ SendNothing(failed)
    <3>1. /\ failed.registered = handler.registered /\ failed.mSessionId = handler.mSessionId
          /\ failed.mBatchingId = handler.mBatchingId /\ failed.refused = TRUE
          /\ failed.mSubscriptionMask = handler.mSubscriptionMask
      BY <1>1 DEF Handler
    <3> HIDE DEF failed
    <3> QED BY <1>5, <1>6, <2>1, <2>2, <2>6, <3>1
  <2> QED BY <2>3, <2>4, <2>5, <2>6
<1> QED
  BY <1>7, <1>8, <1>9, <1>10, <1>11, <1>12, <1>13, <1>14 DEF DaemonRequest

\* A callback of the API leaves what counts of the handler as it is.
LEMMA CallbackBounded ==
  ASSUME TypeOK, NEW v \in View, Bounded(v), EngineCallback, up
  PROVE  Bounded(v)'
<1>1. handler \in Handler /\ reachable \in BOOLEAN /\ UNCHANGED <<toDaemon, up, crashes>>
  BY DEF TypeOK, EngineCallback, onCapabilitiesCallback, onResponseCb, onBatchingStatusCb
<1>2. up'
  BY <1>1
<1>3. ASSUME NEW h, h.registered = handler.registered, h.mSessionId = handler.mSessionId,
             h.mBatchingId = handler.mBatchingId, h.refused = handler.refused,
             h.mOptions = handler.mOptions,
             h.mSubscriptionMask = handler.mSubscriptionMask,
             handler.registered,
             SendNothing(h) \/ \E msg : SendTo(h, msg)
      PROVE  Bounded(v)'
  <2>1. \/ handler' = h /\ reachable' = reachable
        \/ handler' = NoHandler /\ reachable' = FALSE
    BY <1>3 DEF SendNothing, SendTo
  <2>2. CASE handler' = h /\ reachable' = reachable
    BY <1>2, <1>3, <2>2 DEF Bounded
  <2> QED BY <1>2, <2>1, <2>2, PurgedBounded
<1>4. CASE onCapabilitiesCallback
  <2> DEFINE h == [handler EXCEPT !.mCapabilityMask = TRUE]
  <2>1. /\ h.registered = handler.registered /\ h.mSessionId = handler.mSessionId
        /\ h.mBatchingId = handler.mBatchingId /\ h.refused = handler.refused
        /\ h.mOptions = handler.mOptions
        /\ h.mSubscriptionMask = handler.mSubscriptionMask
    BY <1>1 DEF Handler
  <2>2. SendTo(h, [type |-> "CAPABILITIES"]) /\ handler.registered
    BY <1>4 DEF onCapabilitiesCallback
  <2> HIDE DEF h
  <2> QED BY <1>3, <2>1, <2>2
<1>5. CASE onResponseCb
  <2> DEFINE g == [handler EXCEPT !.calls = Tail(@)]
             h == [g EXCEPT !.mPendingMessages = Tail(@)]
  <2>1. /\ g.registered = handler.registered /\ g.mSessionId = handler.mSessionId
        /\ g.mBatchingId = handler.mBatchingId /\ g.refused = handler.refused
        /\ g.mOptions = handler.mOptions
        /\ g.mSubscriptionMask = handler.mSubscriptionMask
    BY <1>1 DEF Handler
  <2>2. /\ h.registered = handler.registered /\ h.mSessionId = handler.mSessionId
        /\ h.mBatchingId = handler.mBatchingId /\ h.refused = handler.refused
        /\ h.mOptions = handler.mOptions
        /\ h.mSubscriptionMask = handler.mSubscriptionMask
    BY <1>1 DEF Handler
  <2>3. SendNothing(g) \/ \E msg : SendTo(h, msg)
    BY <1>5 DEF onResponseCb
  <2>4. handler.registered
    BY <1>5 DEF onResponseCb, Bounded, NoHandler
  <2> HIDE DEF g, h
  <2> QED BY <1>3, <2>1, <2>2, <2>3, <2>4
<1>6. CASE onBatchingStatusCb
  <2> DEFINE h == [handler EXCEPT !.trip = TRUE]
  <2>1. /\ h.registered = handler.registered /\ h.mSessionId = handler.mSessionId
        /\ h.mBatchingId = handler.mBatchingId /\ h.refused = handler.refused
        /\ h.mOptions = handler.mOptions
        /\ h.mSubscriptionMask = handler.mSubscriptionMask
    BY <1>1 DEF Handler
  <2>2. SendNothing(h) \/ \E msg : SendTo(h, msg)
    BY <1>6 DEF onBatchingStatusCb
  <2>3. handler.registered
    BY <1>6 DEF onBatchingStatusCb, Bounded, NoHandler
  <2> HIDE DEF h
  <2> QED BY <1>3, <2>1, <2>2, <2>3
<1> QED BY <1>4, <1>5, <1>6 DEF EngineCallback

\* What the daemon sends is no announcement of a run, and capabilities are sent by the
\* handler of a registered client.
LEMMA DaemonSends ==
  ASSUME TypeOK, NEW v \in View, Bounded(v), up, DaemonRequest \/ EngineCallback
  PROVE  \/ inbox' = inbox /\ (reachable' => reachable)
         \/ \E msg \in Indications :
               /\ inbox' = Append(inbox, msg) /\ reachable' = reachable
               /\ msg.type # "HAL_READY"
               /\ msg.type = "CAPABILITIES" => handler.registered
<1> DEFINE Sent ==
             \/ inbox' = inbox /\ (reachable' => reachable)
             \/ \E msg \in Indications :
                   /\ inbox' = Append(inbox, msg) /\ reachable' = reachable
                   /\ msg.type # "HAL_READY"
                   /\ msg.type = "CAPABILITIES" => handler.registered
<1>1. ASSUME NEW h, SendNothing(h)
      PROVE  Sent
  BY <1>1 DEF SendNothing
<1>2. ASSUME NEW h, NEW msg \in Indications, SendTo(h, msg), msg.type # "HAL_READY",
             msg.type = "CAPABILITIES" => handler.registered
      PROVE  Sent
  BY <1>2 DEF SendTo
<1> SUFFICES Sent
  OBVIOUS
<1> HIDE DEF Sent
<1> DEFINE capabilities == [type |-> "CAPABILITIES"]
           completed == [type |-> "TRIP_COMPLETED"]
<1>3. /\ capabilities \in Indications /\ capabilities.type # "HAL_READY"
      /\ completed \in Indications /\ completed.type \notin {"HAL_READY", "CAPABILITIES"}
  BY IndicationKinds
<1>4. CASE newClient
  <2>1. handler.mCapabilityMask => handler.registered
    BY DEF Bounded, NoHandler
  <2>2. \/ SendTo(handler, capabilities) /\ handler.registered
        \/ \E h : SendNothing(h)
    BY <1>4, <2>1 DEF newClient
  <2> HIDE DEF capabilities
  <2> QED BY <1>1, <1>2, <1>3, <2>2
<1>5. CASE onCapabilitiesCallback
  <2>1. handler.registered /\ \E h : SendTo(h, capabilities)
    BY <1>5 DEF onCapabilitiesCallback
  <2> HIDE DEF capabilities
  <2> QED BY <1>2, <1>3, <2>1
<1>6. CASE onBatchingStatusCb
  <2>1. \E h : SendTo(h, completed) \/ SendNothing(h)
    BY <1>6 DEF onBatchingStatusCb
  <2> HIDE DEF completed
  <2> QED BY <1>1, <1>2, <1>3, <2>1
<1>7. CASE onResponseCb
  <2> DEFINE answer == [type |-> "RESPONSE", to |-> Head(handler.mPendingMessages),
                        start |-> Head(handler.calls)]
             Pending == {"START_TRACKING", "UPDATE_TRACKING", "START_BATCHING", "STOP_BATCHING"}
  <2>1. /\ handler.calls \in Seq(0..MaxStarts) /\ handler.calls # <<>>
        /\ handler.mPendingMessages \in Seq(Pending)
    BY <1>7 DEF onResponseCb, TypeOK, Handler
  <2>2. \/ \E h : SendNothing(h)
        \/ handler.mPendingMessages # <<>> /\ \E h : SendTo(h, answer)
    BY <1>7 DEF onResponseCb
  <2>3. handler.mPendingMessages # <<>> => answer \in Indications
    <3>1. Head(handler.calls) \in 0..MaxStarts
      BY <2>1, HeadTailProperties
    <3>2. handler.mPendingMessages # <<>> => Head(handler.mPendingMessages) \in Pending
      <4> HIDE DEF Pending
      <4> QED BY <2>1, HeadTailProperties
    <3> QED BY <3>1, <3>2, IndicationKinds
  <2>4. answer.type \notin {"HAL_READY", "CAPABILITIES"}
    OBVIOUS
  <2> HIDE DEF answer
  <2> QED BY <1>1, <1>2, <2>2, <2>3, <2>4
<1>8. CASE unknownClient
  BY <1>8 DEF unknownClient, Sent
<1>9. CASE updateSubscription \/ startTracking \/ stopTracking \/ updateTrackingOptions
           \/ startBatching \/ stopBatching
  <2>1. \E h : SendNothing(h)
    BY <1>9 DEF updateSubscription, startTracking, stopTracking, updateTrackingOptions,
                startBatching, stopBatching
  <2> QED BY <1>1, <2>1
<1> QED
  BY <1>4, <1>5, <1>6, <1>7, <1>8, <1>9 DEF DaemonRequest, EngineCallback

LEMMA DaemonKeeps ==
  ASSUME IInv, DaemonRequest \/ EngineCallback, UNCHANGED clientVars
  PROVE  IInv'
<1>1. PICK v \in View, w \in View : Link(v, w)
  BY DEF IInv
<1>2. LeadsTo(v, toDaemon, w) /\ Bounded(v) /\ Serves(w) /\ Ordered(w)
      /\ TypeOK /\ Sessions /\ OneRun(inbox) /\ Unserved
  BY <1>1 DEF Link, IInv
<1>3. TypeOK' /\ Sessions'
  BY <1>2, DaemonKeepsTypes DEF DaemonStep, Sessions, clientVars
<1>4. /\ toDaemon \in Seq(Requests) /\ inbox \in Seq(Indications) /\ mHalRegistered \in BOOLEAN
      /\ handler.registered \in BOOLEAN
  BY <1>2 DEF TypeOK, ClientTypes, Handler
<1>5. up /\ up' = up
  <2>1. CASE DaemonRequest
    BY <2>1, RequestReceived
  <2>2. CASE EngineCallback
    <3>1. up' = up /\ handler # NoHandler
      BY <2>2 DEF EngineCallback, onCapabilitiesCallback, onResponseCb, onBatchingStatusCb, NoHandler
    <3>2. up
      BY <1>2, <3>1 DEF Bounded
    <3> QED BY <3>1, <3>2
  <2> QED BY <2>1, <2>2
<1>6. handler.registered => w.registered
  BY <1>2, <1>4, LeadsToEnds DEF Bounded
<1>7. \E x \in View : LeadsTo(x, toDaemon', w) /\ Bounded(x)'
  <2>1. CASE DaemonRequest
    <3>1. toDaemon # <<>> /\ toDaemon' = Tail(toDaemon)
      BY <2>1, RequestReceived
    <3>2. LeadsTo(After(v, Head(toDaemon)), toDaemon', w)
      BY <1>2, <1>4, <3>1, LeadsToTail
    <3>3. toDaemon' \in Seq(Requests)
      BY <1>4, <3>1, RequestTaken
    <3>4. After(v, Head(toDaemon)) \in View
      BY <3>2, <3>3, LeadsToEnds
    <3>5. PICK x \in View : x = After(v, Head(toDaemon))
      BY <3>4
    <3>6. Bounded(x)'
      BY <1>2, <2>1, <3>5, RequestBounded
    <3> QED BY <3>2, <3>5, <3>6
  <2>2. CASE EngineCallback
    <3>1. toDaemon' = toDaemon
      BY <2>2 DEF EngineCallback, onCapabilitiesCallback, onResponseCb, onBatchingStatusCb
    <3>2. Bounded(v)'
      BY <1>2, <1>5, <2>2, CallbackBounded
    <3> QED BY <1>2, <3>1, <3>2
  <2> QED BY <2>1, <2>2
<1>8. UNCHANGED <<mHalRegistered, mSessionId, mLocationOptions, mBatchingId>>
  BY DEF clientVars
<1>9. Serves(w)' /\ Ordered(w)' /\ OneRun(inbox')
  <2>1. CASE inbox' = inbox /\ (reachable' => reachable)
    <3>1. Serves(w)'
      BY <1>2, <1>5, <1>8, <2>1 DEF Serves, Exact
    <3>2. Ordered(w)'
      BY <1>2, <1>5, <1>8, <2>1 DEF Ordered
    <3> QED BY <1>2, <2>1, <3>1, <3>2
  <2>2. ASSUME NEW msg \in Indications, inbox' = Append(inbox, msg), reachable' = reachable,
               msg.type # "HAL_READY", msg.type = "CAPABILITIES" => handler.registered
        PROVE  Serves(w)' /\ Ordered(w)' /\ OneRun(inbox')
    <3>1. w.registered \in BOOLEAN
      BY ViewFields
    <3>2. /\ HalReady(inbox') <=> HalReady(inbox)
          /\ OneRun(inbox')
          /\ Announced(inbox, w.registered) => Announced(inbox', w.registered)
          /\ Renewed(inbox', w.registered, mHalRegistered)
      BY <1>2, <1>4, <1>6, <2>2, <3>1, AppendedKeeps DEF Ordered
    <3>3. Serves(w)'
      BY <1>2, <1>5, <1>8, <2>2, <3>2 DEF Serves, Exact
    <3>4. Ordered(w)'
      BY <1>2, <1>5, <1>8, <2>2, <3>2 DEF Ordered
    <3> QED BY <3>2, <3>3, <3>4
  <2> QED BY <1>2, <1>5, <2>1, <2>2, DaemonSends
<1>10. Unserved'
  BY <1>5 DEF Unserved
<1> QED BY <1>3, <1>7, <1>9, <1>10 DEF IInv, Link

\* The daemon crashes, but not while its client registers.
LEMMA CrashKeeps ==
  ASSUME IInv, Crash, ~StillRegisters, UNCHANGED clientVars
  PROVE  IInv'
<1>1. TypeOK /\ Sessions /\ OneRun(inbox) /\ inbox \in Seq(Indications)
  BY DEF IInv, TypeOK
<1>2. TypeOK' /\ Sessions'
  BY <1>1, DaemonKeepsTypes DEF DaemonStep, Sessions, clientVars
<1>3. /\ up' = FALSE /\ toDaemon' = <<>> /\ handler' = NoHandler
      /\ UNCHANGED <<inbox, reachable, mHalRegistered>>
  BY DEF Crash, clientVars
<1>4. NoView \in View /\ LeadsTo(NoView, toDaemon', NoView)
  BY <1>3, NoViewTyped, LeadsToNothing
<1>5. Bounded(NoView)'
  BY <1>3 DEF Bounded, NoHandler, NoView
<1>6. Serves(NoView)'
  BY <1>3, NoViewServes
<1>7. \/ ~mHalRegistered /\ None(inbox, "CAPABILITIES")
      \/ None(inbox, "REGISTER") /\ None(inbox, "HAL_READY")
  <2>1. \A i \in 1..Len(inbox) : inbox[i] \in Range(inbox)
    BY <1>1, LenProperties DEF Range
  <2> QED BY <2>1 DEF StillRegisters, None, NoneBefore, Is
<1>8. Unserved'
  BY <1>3, <1>7 DEF Unserved
<1>9. Renewed(inbox, FALSE, mHalRegistered)
  <2>1. ASSUME NEW i \in 1..Len(inbox), NEW type, None(inbox, type)
        PROVE  NoneBefore(inbox, i, type)
    BY <1>1, <2>1, LenProperties DEF None, NoneBefore
  <2> QED BY <1>7, <2>1 DEF Renewed, None, NoneBefore
<1>10. Ordered(NoView)'
  <2>1. NoView.registered = FALSE
    BY DEF NoView
  <2> QED BY <1>3, <1>9, <2>1 DEF Ordered
<1> QED BY <1>1, <1>2, <1>3, <1>4, <1>5, <1>6, <1>8, <1>10 DEF IInv, Link

\* The daemon starts again and tells its client, if it finds its socket.
LEMMA ListenerKeeps ==
  ASSUME IInv, onListenerReady, UNCHANGED clientVars
  PROVE  IInv'
<1>1. PICK v \in View, w \in View : Link(v, w)
  BY DEF IInv
<1>2. LeadsTo(v, toDaemon, w) /\ Bounded(v) /\ Serves(w) /\ Ordered(w)
      /\ TypeOK /\ Sessions /\ OneRun(inbox) /\ Unserved /\ ~up
  BY <1>1 DEF Link, IInv, onListenerReady
<1>3. TypeOK' /\ Sessions'
  BY <1>2, DaemonKeepsTypes DEF DaemonStep, Sessions, clientVars
<1>4. /\ inbox \in Seq(Indications) /\ mHalRegistered \in BOOLEAN /\ reachable \in BOOLEAN
      /\ up' = TRUE /\ UNCHANGED <<toDaemon, reachable, handler, mHalRegistered>>
      /\ inbox' = IF reachable THEN Append(inbox, [type |-> "HAL_READY"]) ELSE inbox
  BY <1>2 DEF TypeOK, ClientTypes, onListenerReady, clientVars
<1>5. v = NoView /\ w = NoView /\ handler = NoHandler
  BY <1>2, DaemonDown DEF Bounded
<1>6. LeadsTo(v, toDaemon', w)
  BY <1>2, <1>4
<1>7. Bounded(v)'
  BY <1>4, <1>5 DEF Bounded, NoHandler, NoView
<1>8. Unserved'
  BY <1>4 DEF Unserved
<1>9. CASE ~reachable
  <2>1. inbox' = inbox
    BY <1>4, <1>9
  <2>2. Serves(w)'
    BY <1>4, <1>5, <1>9 DEF Serves, NoView
  <2>3. Ordered(w)'
    BY <1>2, <1>4, <1>9, <2>1 DEF Ordered
  <2> QED BY <1>2, <1>3, <1>6, <1>7, <1>8, <2>1, <2>2, <2>3 DEF IInv, Link
<1>10. CASE reachable
  <2> DEFINE msg == [type |-> "HAL_READY"]
  <2>1. msg \in Indications /\ msg.type = "HAL_READY" /\ inbox' = Append(inbox, msg)
    BY <1>4, <1>10, IndicationKinds
  <2> HIDE DEF msg
  <2>2. w.registered = FALSE
    BY <1>5 DEF NoView
  <2>3. Renewed(inbox, w.registered, mHalRegistered)
    BY <1>2 DEF Ordered
  <2>4. \/ ~mHalRegistered /\ None(inbox, "CAPABILITIES")
        \/ None(inbox, "REGISTER") /\ None(inbox, "HAL_READY")
    BY <1>2 DEF Unserved
  <2>5. /\ HalReady(inbox') /\ OneRun(inbox')
        /\ Announced(inbox', w.registered)
        /\ Renewed(inbox', w.registered, mHalRegistered)
    BY <1>2, <1>4, <2>1, <2>2, <2>3, <2>4, HalReadyAppended
  <2>6. Serves(w)'
    BY <1>5, <2>5 DEF Serves, NoView
  <2>7. Ordered(w)'
    BY <1>4, <2>5 DEF Ordered
  <2> QED BY <1>3, <1>6, <1>7, <1>8, <2>5, <2>6, <2>7 DEF IInv, Link
<1> QED BY <1>4, <1>9, <1>10

LEMMA InitIInv == Init => IInv
<1> SUFFICES ASSUME Init PROVE IInv
  OBVIOUS
<1>1. /\ handler = NoHandler /\ toDaemon = <<>> /\ inbox = <<[type |-> "REGISTER"]>>
      /\ mHalRegistered = FALSE /\ mSessionId = FALSE /\ mBatchingId = FALSE
  BY DEF Init, ClientInit
<1>2. Len(inbox) = 1 /\ Is(inbox, 1, "REGISTER")
  BY <1>1 DEF Is
<1>3. \A i \in 1..Len(inbox) : ~Is(inbox, i, "HAL_READY") /\ ~Is(inbox, i, "CAPABILITIES")
  BY <1>2 DEF Is
<1>4. /\ OneRun(inbox) /\ None(inbox, "CAPABILITIES")
      /\ Announced(inbox, NoView.registered)
      /\ Renewed(inbox, NoView.registered, mHalRegistered)
  BY <1>3 DEF OneRun, None, NoneBefore, Announced, Renewed
<1>5. Unserved /\ Sessions
  BY <1>1, <1>4 DEF Unserved, Sessions
<1>6. NoView \in View /\ LeadsTo(NoView, toDaemon, NoView)
  BY <1>1, NoViewTyped, LeadsToNothing
<1>7. Bounded(NoView)
  BY <1>1 DEF Bounded, NoHandler, NoView
<1>8. Serves(NoView) /\ Ordered(NoView)
  BY <1>1, <1>4 DEF Serves, Ordered, NoView
<1> QED BY <1>4, <1>5, <1>6, <1>7, <1>8, InitTypes DEF IInv, Link

LEMMA GeofencesKeep ==
  ASSUME IInv, GeofenceStep, UNCHANGED handler
  PROVE  IInv'
<1>1. TypeOK /\ TypeOK'
  BY ClientKeepsTypes DEF IInv, ClientStep
<1>2. UNCHANGED <<toDaemon, inbox, reachable, up, crashes, mHalRegistered, mSessionId,
                  mLocationOptions, mBatchingId, mBatchingOptions, mCallbacksMask, starts, told>>
  BY <1>1, OnlyTheFlagMoves DEF TypeOK, ClientTypes, linkVars, sessionVars
<1>3. Sessions' /\ OneRun(inbox') /\ Unserved'
  BY <1>2 DEF IInv, Sessions, Unserved
<1>4. PICK v \in View, w \in View : Link(v, w)
  BY DEF IInv
<1>5. Bounded(v)' /\ Serves(w)' /\ Ordered(w)' /\ LeadsTo(v, toDaemon', w)
  BY <1>2, <1>4 DEF Link, Bounded, Serves, Exact, Ordered
<1> QED BY <1>1, <1>3, <1>5 DEF IInv, Link

LEMMA StepKeepsIInv ==
  ASSUME IInv, [CalmNext]_vars
  PROVE  IInv'
<1>1. CASE ClientStep
  BY <1>1, ClientCallKeeps, ClientTaskKeeps, GeofencesKeep DEF ClientStep
<1>2. CASE DaemonStep /\ (Crash => ~StillRegisters)
  BY <1>2, DaemonKeeps, CrashKeeps, ListenerKeeps DEF DaemonStep
<1>3. CASE UNCHANGED vars
  <2>1. UNCHANGED <<toDaemon, inbox, reachable, up, crashes, handler>> /\ UNCHANGED clientVars
    BY <1>3 DEF vars, linkVars
  <2>2. TypeOK'
    BY <1>3, NextKeepsTypes DEF IInv
  <2>3. Sessions' /\ OneRun(inbox') /\ Unserved'
    BY <2>1 DEF IInv, Sessions, Unserved, clientVars
  <2>4. PICK v \in View, w \in View : Link(v, w)
    BY DEF IInv
  <2>5. Bounded(v)' /\ Serves(w)' /\ Ordered(w)' /\ LeadsTo(v, toDaemon', w)
    BY <2>1, <2>4 DEF Link, Bounded, Serves, Exact, Ordered, clientVars
  <2> QED BY <2>2, <2>3, <2>5 DEF IInv, Link
<1> QED BY <1>1, <1>2, <1>3 DEF CalmNext, Next

-----------------------------------------------------------------------------
(* What the invariant gives *)

\* Nothing on either socket: what the daemon was told is what it does, and that is what
\* the client wants.
LEMMA SettledView ==
  ASSUME IInv, Settled
  PROVE  \E v \in View : Bounded(v) /\ Exact(v)
<1>1. PICK v \in View, w \in View : Link(v, w)
  BY DEF IInv
<1>2. toDaemon \in Seq(Requests) /\ toDaemon = <<>>
  BY DEF IInv, TypeOK, Settled
<1>3. w = v
  BY <1>1, <1>2, LeadsToEnds DEF Link
<1>4. Len(inbox) = 0
  BY EmptySeq DEF Settled
<1>5. ~HalReady(inbox)
  BY <1>4 DEF HalReady
<1> QED BY <1>1, <1>3, <1>5 DEF Link, Serves, Settled

LEMMA IInvAgrees == IInv => SessionsAgree
<1> SUFFICES ASSUME IInv, Settled, ~handler.refused
             PROVE  /\ handler.mSessionId <=> mSessionId /\ mLocationOptions # "passive"
                    /\ handler.mSessionId => handler.mOptions = mLocationOptions
                    /\ handler.mBatchingId <=> mBatchingId
  BY DEF SessionsAgree
<1>1. PICK v \in View : Bounded(v) /\ Exact(v)
  BY SettledView
<1>2. v.track = handler.mSessionId /\ v.batch = handler.mBatchingId /\ v.opt = handler.mOptions
  BY <1>1 DEF Bounded, Settled
<1> QED BY <1>1, <1>2 DEF Exact

LEMMA IInvOneKind == IInv => OneKindOfSession
<1> SUFFICES ASSUME IInv
             PROVE  ~(handler.mSessionId /\ handler.mBatchingId)
  BY DEF OneKindOfSession
<1>1. PICK v \in View, w \in View : Link(v, w)
  BY DEF IInv
<1> QED BY <1>1, ViewFields DEF Link, Bounded

LEMMA IInvSubscribed ==
  ASSUME "passive" \notin TrackOptions
  PROVE  IInv => SubscriptionsAgree
<1> SUFFICES ASSUME IInv, Settled, mSessionId
             PROVE  TrackCbs \subseteq handler.mSubscriptionMask
  BY DEF SubscriptionsAgree
<1>1. PICK v \in View : Bounded(v) /\ Exact(v)
  BY SettledView
<1>2. v.mask = handler.mSubscriptionMask
  BY <1>1 DEF Bounded, Settled
<1> QED BY <1>1, <1>2 DEF Exact

\* The invariant holds of every number of crashes, each of which finds the client
\* registered or not yet told that it is (LocationClientApiImpl.cpp:3306-3351).
THEOREM CalmInvariant == CalmSpec => []IInv
  BY InitIInv, StepKeepsIInv, PTL DEF CalmSpec

-----------------------------------------------------------------------------
(* With one crash at most, no registration is disturbed: before the first   *)
(* crash the client registers once, with a daemon that knows nothing of it. *)

Registered(q) == \A i \in 1..Len(q) : q[i].type \notin {"HAL_READY", "REGISTER"}

FirstRun ==
    crashes = 0 =>
        /\ up
        /\ \/ Registered(inbox)
           \/ /\ inbox = <<[type |-> "REGISTER"]>>
              /\ toDaemon = <<>>
              /\ handler = NoHandler
              /\ ~mHalRegistered /\ ~mBatchingId

\* A registered client's inbox is sent neither message in the first run.
LEMMA RegisteredStays ==
  ASSUME inbox \in Seq(Indications), Registered(inbox)
  PROVE  /\ \A type : Take(type) => Registered(inbox')
         /\ \A type : TakeAndPost(type, "STOP_BATCHING") => Registered(inbox')
         /\ \A m \in Indications :
               inbox' = Append(inbox, m) /\ m.type \notin {"HAL_READY", "REGISTER"} =>
                   Registered(inbox')
<1>1. ASSUME NEW type, Take(type)
      PROVE  Registered(inbox')
  <2>1. /\ Len(inbox) \in Nat /\ Len(inbox') = Len(inbox) - 1
        /\ \A i \in 1..Len(inbox') : inbox'[i] = inbox[i + 1]
    BY <1>1, InboxTaken
  <2>2. \A i \in 1..Len(inbox') : i + 1 \in 1..Len(inbox)
    BY <2>1
  <2> QED BY <2>1, <2>2 DEF Registered
<1>2. ASSUME NEW type, TakeAndPost(type, "STOP_BATCHING")
      PROVE  Registered(inbox')
  <2>1. /\ Len(inbox) \in Nat /\ Len(inbox') = Len(inbox)
        /\ \E k \in 1..Len(inbox) :
               /\ inbox'[k] = [type |-> "STOP_BATCHING"]
               /\ \A i \in 1..(k - 1) : inbox'[i] = inbox[i + 1]
               /\ \A i \in (k + 1)..Len(inbox) : inbox'[i] = inbox[i]
    BY <1>2, InboxPosted
  <2>2. PICK k \in 1..Len(inbox) :
               /\ inbox'[k] = [type |-> "STOP_BATCHING"]
               /\ \A i \in 1..(k - 1) : inbox'[i] = inbox[i + 1]
               /\ \A i \in (k + 1)..Len(inbox) : inbox'[i] = inbox[i]
    BY <2>1
  <2>3. ASSUME NEW i \in 1..Len(inbox)
        PROVE  inbox'[i].type \notin {"HAL_READY", "REGISTER"}
    <3>1. CASE i = k
      BY <2>2, <3>1
    <3>2. CASE i < k
      <4>1. i \in 1..(k - 1) /\ i + 1 \in 1..Len(inbox)
        BY <2>1, <3>2
      <4> QED BY <2>2, <4>1 DEF Registered
    <3>3. CASE i > k
      <4>1. i \in (k + 1)..Len(inbox)
        BY <2>1, <3>3
      <4> QED BY <2>2, <4>1 DEF Registered
    <3> QED BY <2>1, <3>1, <3>2, <3>3
  <2> QED BY <2>1, <2>3 DEF Registered
<1>3. ASSUME NEW m \in Indications, inbox' = Append(inbox, m),
             m.type \notin {"HAL_READY", "REGISTER"}
      PROVE  Registered(inbox')
  <2>1. /\ Len(inbox) \in Nat /\ Len(inbox') = Len(inbox) + 1
        /\ \A i \in 1..Len(inbox) : inbox'[i] = inbox[i]
        /\ inbox'[Len(inbox) + 1] = m
    BY <1>3, AppendProperties, LenProperties
  <2>2. \A i \in 1..Len(inbox') : i \in 1..Len(inbox) \/ i = Len(inbox) + 1
    BY <2>1
  <2> QED BY <1>3, <2>1, <2>2 DEF Registered
<1> QED BY <1>1, <1>2, <1>3

LEMMA RegisteredDaemon ==
  ASSUME TypeOK, Registered(inbox), up, DaemonRequest \/ EngineCallback
  PROVE  Registered(inbox')
<1>1. inbox \in Seq(Indications) /\ handler \in Handler
  BY DEF TypeOK
<1> DEFINE Quiet == {m \in Indications : m.type \notin {"HAL_READY", "REGISTER"}}
<1>2. ASSUME NEW h, NEW m \in Quiet, SendTo(h, m)
      PROVE  Registered(inbox')
  BY <1>1, <1>2, RegisteredStays DEF SendTo
<1>3. ASSUME NEW h, SendNothing(h)
      PROVE  Registered(inbox')
  BY <1>3 DEF SendNothing
<1>4. [type |-> "CAPABILITIES"] \in Quiet /\ [type |-> "TRIP_COMPLETED"] \in Quiet
  BY IndicationKinds
<1>5. CASE DaemonRequest
  <2>1. \/ \E h : SendNothing(h)
        \/ SendTo(handler, [type |-> "CAPABILITIES"])
        \/ inbox' = inbox
    <3>1. CASE newClient
      BY <3>1 DEF newClient
    <3>2. CASE unknownClient \/ updateSubscription \/ startTracking \/ stopTracking
      BY <3>2 DEF unknownClient, updateSubscription, startTracking, stopTracking, SendNothing
    <3>3. CASE updateTrackingOptions \/ startBatching \/ stopBatching
      BY <3>3 DEF updateTrackingOptions, startBatching, stopBatching, SendNothing
    <3> QED BY <1>5, <3>1, <3>2, <3>3 DEF DaemonRequest
  <2> QED BY <1>2, <1>3, <1>4, <2>1
<1>6. CASE onCapabilitiesCallback
  BY <1>2, <1>4, <1>6 DEF onCapabilitiesCallback
<1>7. CASE onBatchingStatusCb
  BY <1>2, <1>3, <1>4, <1>7 DEF onBatchingStatusCb
<1>8. CASE onResponseCb
  <2> DEFINE answer == [type |-> "RESPONSE", to |-> Head(handler.mPendingMessages),
                        start |-> Head(handler.calls)]
             Pending == {"START_TRACKING", "UPDATE_TRACKING", "START_BATCHING", "STOP_BATCHING"}
  <2>1. /\ handler.calls \in Seq(0..MaxStarts) /\ handler.calls # <<>>
        /\ handler.mPendingMessages \in Seq(Pending)
    BY <1>1, <1>8 DEF onResponseCb, Handler
  <2>2. CASE handler.mPendingMessages = <<>>
    BY <1>3, <1>8, <2>2 DEF onResponseCb
  <2>3. CASE handler.mPendingMessages # <<>>
    <3>1. Head(handler.calls) \in 0..MaxStarts /\ Head(handler.mPendingMessages) \in Pending
      BY <2>1, <2>3, HeadTailProperties
    <3>2. answer \in Quiet
      BY <3>1, IndicationKinds
    <3>3. \E h : SendTo(h, answer)
      BY <1>8, <2>3 DEF onResponseCb
    <3> QED BY <1>2, <3>2, <3>3
  <2> QED BY <2>2, <2>3
<1> QED BY <1>5, <1>6, <1>7, <1>8 DEF EngineCallback

LEMMA FirstRunInit == Init => FirstRun
  BY DEF Init, ClientInit, FirstRun

\* Before the client has registered, its task has one message and nothing is sent.
LEMMA FirstRegistration ==
  ASSUME TypeOK, up, inbox = <<[type |-> "REGISTER"]>>, toDaemon = <<>>, handler = NoHandler,
         ~mHalRegistered, ~mBatchingId, Next, ~Crash
  PROVE  /\ up'
         /\ \/ Registered(inbox')
            \/ /\ inbox' = <<[type |-> "REGISTER"]>>
               /\ toDaemon' = <<>>
               /\ handler' = NoHandler
               /\ ~mHalRegistered' /\ ~mBatchingId'
<1>1. inbox # <<>> /\ Head(inbox).type = "REGISTER" /\ Tail(inbox) = <<>>
  BY HeadTailProperties, EmptySeq
<1>2. toDaemon \o <<>> = <<>>
  BY ConcatEmptySeq, EmptySeq
<1>3. CASE ClientCall /\ UNCHANGED handler
  <2>1. CASE \E o \in TrackOptions : startPositionSession(o)
    BY <1>2, <1>3, <2>1 DEF startPositionSession, Send
  <2>2. CASE stopPositionSession
    BY <1>2, <1>3, <2>2 DEF stopPositionSession, Send
  <2>3. CASE \E mode \in BatchModes : startBatchingSession(mode)
    <3>1. PICK mode \in BatchModes : startBatchingSession(mode)
      BY <2>3
    <3>2. ~mBatchingId' /\ ~mHalRegistered' /\ UNCHANGED <<up, inbox>>
      BY <3>1 DEF startBatchingSession
    <3>3. toDaemon' = <<>>
      BY <1>2, <3>1 DEF startBatchingSession, Send
    <3> QED BY <1>3, <3>2, <3>3
  <2>4. CASE stopBatchingSession
    BY <2>4 DEF stopBatchingSession
  <2> QED BY <1>3, <2>1, <2>2, <2>3, <2>4 DEF ClientCall
<1>4. CASE ClientTask /\ UNCHANGED handler
  <2>1. inbox' = <<>> /\ UNCHANGED up
    BY <1>1, <1>4
    DEF ClientTask, ClientRegisterReq, onHalReady, capabilitesCallback, onResponse,
        onTripCompleted, Take, TakeAndPost
  <2>2. Registered(inbox')
    BY <2>1, EmptySeq DEF Registered
  <2> QED BY <2>1, <2>2
<1>5. CASE DaemonStep
  <2>1. ~DaemonRequest
    BY DEF DaemonRequest, unknownClient, newClient, updateSubscription, startTracking,
           stopTracking, updateTrackingOptions, startBatching, stopBatching, Request, Receive
  <2>2. ~EngineCallback
    BY DEF EngineCallback, onCapabilitiesCallback, onResponseCb, onBatchingStatusCb, NoHandler
  <2> QED BY <1>5, <2>1, <2>2 DEF DaemonStep, onListenerReady
<1>6. CASE GeofenceStep /\ UNCHANGED handler
  BY <1>6, OnlyTheFlagMoves DEF TypeOK, ClientTypes, linkVars, sessionVars
<1> QED BY <1>3, <1>4, <1>5, <1>6 DEF Next, ClientStep

LEMMA RegisteredClient ==
  ASSUME TypeOK, Registered(inbox), ClientStep
  PROVE  Registered(inbox')
<1>1. inbox \in Seq(Indications)
  BY DEF TypeOK
<1>2. ~Take("REGISTER") /\ ~TakeAndPost("HAL_READY", "REGISTER")
  <2>1. ASSUME NEW type, inbox # <<>>, Head(inbox).type = type
        PROVE  type \notin {"REGISTER", "HAL_READY"}
    <3>1. Head(inbox) = inbox[1] /\ 1 \in 1..Len(inbox)
      BY <1>1, <2>1, HeadTailProperties, EmptySeq, LenProperties
    <3> QED BY <2>1, <3>1 DEF Registered
  <2> QED BY <2>1 DEF Take, TakeAndPost
<1>3. CASE ClientCall
  BY <1>3
  DEF ClientCall, startPositionSession, stopPositionSession, startBatchingSession,
      stopBatchingSession
<1>4. CASE ClientTask
  <2>1. \/ \E type : Take(type)
        \/ \E type : TakeAndPost(type, "STOP_BATCHING")
    BY <1>2, <1>4
    DEF ClientTask, ClientRegisterReq, onHalReady, capabilitesCallback, onResponse,
        onTripCompleted
  <2> QED BY <1>1, <2>1, RegisteredStays
<1>5. CASE GeofenceStep
  BY <1>5, OnlyTheFlagMoves DEF TypeOK, ClientTypes, linkVars, Registered
<1> QED BY <1>3, <1>4, <1>5 DEF ClientStep

LEMMA FirstRunStays ==
  ASSUME TypeOK, FirstRun, [Next]_vars
  PROVE  FirstRun'
<1>0. GeofenceStep => UNCHANGED <<up, crashes>>
  BY OnlyTheFlagMoves DEF TypeOK, ClientTypes, linkVars
<1> SUFFICES ASSUME crashes' = 0
             PROVE  FirstRun'
  BY DEF FirstRun
<1>1. CASE UNCHANGED vars
  BY <1>1 DEF vars, linkVars, clientVars, FirstRun, Registered
<1>2. CASE Next
  <2>1. ~Crash
    BY DEF Crash, TypeOK
  <2>2. crashes = 0
    BY <1>0, <1>2, <2>1
    DEF Next, ClientStep, ClientCall, ClientTask, startPositionSession, stopPositionSession,
        startBatchingSession, stopBatchingSession, StopBatchingReq, ClientRegisterReq,
        onHalReady, capabilitesCallback, onResponse, onTripCompleted, DaemonStep,
        DaemonRequest, unknownClient, newClient, updateSubscription, startTracking,
        stopTracking, updateTrackingOptions, startBatching, stopBatching, Request, Receive,
        EngineCallback, onCapabilitiesCallback, onResponseCb, onBatchingStatusCb,
        onListenerReady
  <2>3. CASE Registered(inbox)
    <3>1. up
      BY <2>2 DEF FirstRun
    <3>2. ~onListenerReady
      BY <3>1 DEF onListenerReady
    <3>3. Registered(inbox')
      BY <1>2, <2>1, <2>3, <3>1, <3>2, RegisteredClient, RegisteredDaemon DEF Next, DaemonStep
    <3>4. up'
      BY <1>0, <1>2, <2>1, <3>1
      DEF Next, ClientStep, ClientCall, ClientTask, startPositionSession, stopPositionSession,
          startBatchingSession, stopBatchingSession, StopBatchingReq, ClientRegisterReq,
          onHalReady, capabilitesCallback, onResponse, onTripCompleted, DaemonStep,
          DaemonRequest, unknownClient, newClient, updateSubscription, startTracking,
          stopTracking, updateTrackingOptions, startBatching, stopBatching, Request, Receive,
          EngineCallback, onCapabilitiesCallback, onResponseCb, onBatchingStatusCb,
          onListenerReady
    <3> QED BY <3>3, <3>4 DEF FirstRun
  <2>4. CASE ~Registered(inbox)
    BY <1>2, <2>1, <2>2, <2>4, FirstRegistration DEF FirstRun
  <2> QED BY <2>3, <2>4
<1> QED BY <1>1, <1>2

\* The one crash is that of the first run.
LEMMA OneCrashIsCalm ==
  ASSUME MaxCrashes =< 1, TypeOK, FirstRun, [Next]_vars
  PROVE  [CalmNext]_vars
<1> SUFFICES ASSUME Crash
             PROVE  ~StillRegisters
  BY DEF CalmNext
<1>1. crashes = 0
  BY LinkBounds DEF Crash, TypeOK
<1>2. CASE Registered(inbox)
  <2>1. \A m \in Range(inbox) : \E i \in 1..Len(inbox) : m = inbox[i]
    BY LenProperties DEF Range, TypeOK
  <2> QED BY <1>2, <2>1 DEF Registered, StillRegisters
<1>3. CASE inbox = <<[type |-> "REGISTER"]>> /\ ~mHalRegistered
  <2>1. Range(inbox) = {[type |-> "REGISTER"]}
    BY <1>3 DEF Range
  <2> QED BY <1>3, <2>1 DEF StillRegisters
<1> QED BY <1>1, <1>2, <1>3 DEF FirstRun

LEMMA OneCrashCalmSpec ==
  ASSUME MaxCrashes =< 1
  PROVE  Spec => CalmSpec
<1>1. Init => TypeOK /\ FirstRun
  BY InitTypes, FirstRunInit
<1>2. TypeOK /\ FirstRun /\ [Next]_vars => (TypeOK /\ FirstRun)' /\ [CalmNext]_vars
  BY NextKeepsTypes, FirstRunStays, OneCrashIsCalm
<1> QED BY <1>1, <1>2, PTL DEF Spec, CalmSpec

-----------------------------------------------------------------------------
(* The theorems *)

\* Whenever client and daemon have settled, they agree on the session and its options,
\* however often the daemon crashed and however many requests, callbacks and purges
\* came between, if no crash hit the client while it registered
\* (LocationClientApiImpl.cpp:2185-2591, 3306-3345, LocHalDaemonClientHandler.cpp:261-338).
THEOREM CalmSessionsAgree == CalmSpec => []SessionsAgree
  BY CalmInvariant, IInvAgrees, PTL

\* And with no such assumption if the daemon crashes once.
THEOREM OneCrashSessionsAgree ==
  ASSUME MaxCrashes =< 1
  PROVE  Spec => []SessionsAgree
  BY OneCrashCalmSpec, CalmSessionsAgree, PTL

\* The daemon never runs two sessions for one client, although the client sends the
\* start of the second before the stop of the first is answered
\* (LocationClientApiImpl.cpp:2291-2295, 2520-2524).
THEOREM CalmOneKindOfSession == CalmSpec => []OneKindOfSession
  BY CalmInvariant, IInvOneKind, PTL

\* And with no such assumption if the daemon crashes once.
THEOREM OneCrashOneKindOfSession ==
  ASSUME MaxCrashes =< 1
  PROVE  Spec => []OneKindOfSession
  BY OneCrashCalmSpec, CalmOneKindOfSession, PTL

\* Whenever client and daemon have settled, the daemon reports to a tracking session,
\* the callbacks replaced by the client and dropped by the daemon
\* (LocationClientApiImpl.cpp:2077-2167, 2373-2402, LocHalDaemonClientHandler.cpp:290-296).
\* Options of a session that only listens are left out: the stop that is sent when a running
\* session takes them drops its callbacks too.
THEOREM CalmSubscriptionsAgree ==
  ASSUME "passive" \notin TrackOptions
  PROVE  CalmSpec => []SubscriptionsAgree
  BY CalmInvariant, IInvSubscribed, PTL

\* And with no such assumption on the crashes if the daemon crashes once.
THEOREM OneCrashSubscriptionsAgree ==
  ASSUME MaxCrashes =< 1, "passive" \notin TrackOptions
  PROVE  Spec => []SubscriptionsAgree
  BY OneCrashCalmSpec, CalmSubscriptionsAgree, PTL
=============================================================================
