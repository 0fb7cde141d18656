--------------------------- MODULE EngineBusyProofs ---------------------------
(***************************************************************************)
(* Proofs about EngineBusy for any number of refusals and reports, for the *)
(* master and for the others.                                              *)
(***************************************************************************)
EXTENDS EngineBusy, SequenceTheorems, TLAPS

EngineReport ==
    [event : {"ENGINE_STATE"}, on : BOOLEAN]
    \cup [event : {"POWER_STATE"}, power : PowerStates]

ReportsAreTyped == engineReports \in Seq(EngineReport)

\* What LocApiV02 knows of its mask and what the engine has, where refused requests of
\* the registration itself were.
MasksAgree(known, engine, refused) ==
    /\ known \subseteq Events /\ engine \subseteq Events
    /\ "ENGINE_STATE" \in known => "ENGINE_STATE" \in engine
    /\ refused = 0 => known \subseteq engine /\ engine \ known \subseteq {"ENGINE_STATE"}

\* What waits hears of the engine.
Woken(power, waiting, refused, engine) ==
    power = "RESUME" /\ waiting > 0 /\ refused = 0 => "ENGINE_STATE" \in engine

IInv == BusyTypeOK /\ ReportsAreTyped /\ CachedRequestsAreWoken

-----------------------------------------------------------------------------
(* The mask *)

LEMMA MaskIsOfEvents ==
  ASSUME NEW asked, NEW inSession, NEW power, NEW waiting
  PROVE  adjustLocClientEventMask(asked, inSession, power, waiting) \subseteq Events
  BY DEF adjustLocClientEventMask, Events, Asked

\* Requests that wait ask for the engine's state, unless the device is suspended.
LEMMA WaitingIsInMask ==
  ASSUME NEW asked, NEW inSession, NEW power, NEW waiting, power # "SUSPENDED", waiting > 0
  PROVE  "ENGINE_STATE" \in adjustLocClientEventMask(asked, inSession, power, waiting)
  BY DEF adjustLocClientEventMask

\* After a registration the masks agree, and what waits is woken, if nothing of it was refused.
LEMMA ToldAgrees ==
  ASSUME NEW mask, mask \subseteq Events, NEW power, NEW waiting \in Nat, NEW own \in Nat,
         MasksAgree(mQmiMask, engineMask, ownRefused),
         MaskRegistered(mask, own),
         power # "SUSPENDED" /\ waiting > 0 => "ENGINE_STATE" \in mask
  PROVE  /\ MasksAgree(mask, EngineTold(mask, power, waiting, own), ownRefused')
         /\ Woken(power, waiting + own, ownRefused', EngineTold(mask, power, waiting, own))
<1>1. /\ own \in 0..OwnRequests(mask)
      /\ ownRefused' = IF mask = mQmiMask THEN ownRefused ELSE own
  BY DEF MaskRegistered
<1>2. CASE mask = mQmiMask
  <2>1. OwnRequests(mask) = 0
    BY <1>2 DEF OwnRequests
  <2>2. own = 0
    BY <1>1, <2>1
  <2> QED BY <1>1, <1>2, <2>2 DEF EngineTold, MasksAgree, Woken
<1>3. CASE mask # mQmiMask /\ own = 0
  BY <1>1, <1>3 DEF EngineTold, MasksAgree, Woken
<1>4. CASE mask # mQmiMask /\ own # 0
  <2>1. ownRefused' # 0
    BY <1>1, <1>4
  <2>2. \/ EngineTold(mask, power, waiting, own) = mask
        \/ EngineTold(mask, power, waiting, own) = mQmiMask \cup {"ENGINE_STATE"}
    BY <1>4 DEF EngineTold, AfterRefusal
  <2>3. mQmiMask \cup {"ENGINE_STATE"} \subseteq Events
    BY DEF MasksAgree, Events, Asked
  <2> HIDE DEF EngineTold
  <2> QED BY <2>1, <2>2, <2>3 DEF MasksAgree, Woken
<1> QED BY <1>2, <1>3, <1>4

LEMMA RegisterAgrees ==
  ASSUME NEW asked, NEW inSession, NEW power, NEW waiting \in Nat, NEW own \in Nat,
         MasksAgree(mQmiMask, engineMask, ownRefused),
         registerEventMask(asked, inSession, power, waiting, own)
  PROVE  /\ MasksAgree(mQmiMask, engineMask, ownRefused)'
         /\ Woken(power, waiting + own, ownRefused', engineMask')
<1> DEFINE mask == adjustLocClientEventMask(asked, inSession, power, waiting)
<1>1. /\ MaskRegistered(mask, own) /\ mQmiMask' = mask
      /\ engineMask' = EngineTold(mask, power, waiting, own)
  BY DEF registerEventMask, MaskRegistered
<1>2. mask \subseteq Events
  BY MaskIsOfEvents
<1>3. power # "SUSPENDED" /\ waiting > 0 => "ENGINE_STATE" \in mask
  BY WaitingIsInMask
<1> HIDE DEF mask
<1>4. /\ MasksAgree(mask, EngineTold(mask, power, waiting, own), ownRefused')
      /\ Woken(power, waiting + own, ownRefused', EngineTold(mask, power, waiting, own))
  BY <1>1, <1>2, <1>3, ToldAgrees
<1> QED BY <1>1, <1>4 DEF MasksAgree

\* A request that is refused outside a registration is woken, and the masks still agree.
LEMMA RefusalAgrees ==
  ASSUME NEW known, NEW engine, NEW power, NEW waiting \in Nat, NEW refused,
         MasksAgree(known, engine, refused), Woken(power, waiting, refused, engine)
  PROVE  /\ MasksAgree(known, AfterRefusal(known, engine, power, waiting), refused)
         /\ Woken(power, waiting + 1, refused, AfterRefusal(known, engine, power, waiting))
<1>1. CASE power = "RESUME" /\ waiting = 0 /\ "ENGINE_STATE" \notin known
  BY <1>1 DEF AfterRefusal, MasksAgree, Woken, Events, Asked
<1>2. CASE ~(power = "RESUME" /\ waiting = 0 /\ "ENGINE_STATE" \notin known)
  <2>1. AfterRefusal(known, engine, power, waiting) = engine
    BY <1>2 DEF AfterRefusal
  <2>2. Woken(power, waiting + 1, refused, engine)
    BY <1>2 DEF Woken, MasksAgree
  <2> QED BY <2>1, <2>2
<1> QED BY <1>1, <1>2

-----------------------------------------------------------------------------
(* The parts of the invariant *)

Counts == refusals \in 0..MaxRefusals /\ mResenders \in 0..refusals

Flags ==
    /\ opened \in BOOLEAN /\ mMask \subseteq Asked /\ ownRefused \in OwnRefusals
    /\ mInSession \in BOOLEAN /\ engineOn \in BOOLEAN
    /\ mPlatformPowerState \in PowerStates

Queued == ReportsAreTyped /\ Len(engineReports) =< MaxEngineReports

Agreed == MasksAgree(mQmiMask, engineMask, ownRefused)

LEMMA Parts == IInv <=> Flags /\ Counts /\ Queued /\ Agreed /\ CachedRequestsAreWoken
  BY DEF IInv, BusyTypeOK, Flags, Counts, Queued, Agreed, MasksAgree

LEMMA PartsPrime == IInv' <=> Flags' /\ Counts' /\ Queued' /\ Agreed' /\ CachedRequestsAreWoken'
  BY DEF IInv, BusyTypeOK, Flags, Counts, Queued, Agreed, MasksAgree

LEMMA InitParts == BusyInit => IInv
<1> SUFFICES ASSUME BusyInit PROVE IInv
  OBVIOUS
<1>1. <<>> \in Seq(EngineReport) /\ Len(<<>>) = 0
  OBVIOUS
<1>2. Flags
  <2>1. ownRefused \in OwnRefusals
    BY DEF BusyInit, OwnRefusals
  <2>2. mMask \subseteq Asked /\ mPlatformPowerState \in PowerStates
    BY DEF BusyInit, PowerStates
  <2>3. opened \in BOOLEAN /\ mInSession \in BOOLEAN /\ engineOn \in BOOLEAN
    BY DEF BusyInit
  <2> QED BY <2>1, <2>2, <2>3 DEF Flags
<1>3. Queued
  BY <1>1, EngineBounds DEF BusyInit, Queued, ReportsAreTyped
<1>4. Counts
  BY EngineBounds DEF BusyInit, Counts
<1>5. Agreed /\ CachedRequestsAreWoken
  BY DEF BusyInit, Agreed, MasksAgree, CachedRequestsAreWoken
<1> QED BY <1>2, <1>3, <1>4, <1>5, Parts

LEMMA RequestsCount ==
  ASSUME Counts, NEW n \in Nat, NEW waiting \in 0..refusals, CacheRequests(n, waiting)
  PROVE  Counts'
  BY EngineBounds DEF Counts, CacheRequests

LEMMA RegisteredIsTyped ==
  ASSUME Flags, NEW mask, NEW own \in OwnRefusals, MaskRegistered(mask, own)
  PROVE  ownRefused' \in OwnRefusals
  BY DEF Flags, MaskRegistered

\* A step that registers the events for what is asked for, a session and the power state.
LEMMA RegistrationKeeps ==
  ASSUME IInv, NEW waiting \in 0..refusals, NEW refused \in 0..1, NEW own \in OwnRefusals,
         registerEventMask(mMask', mInSession', mPlatformPowerState', waiting + refused, own),
         CacheRequests(own + refused, waiting),
         Queued', mMask' \subseteq Asked, mInSession' \in BOOLEAN, opened' \in BOOLEAN,
         engineOn' \in BOOLEAN, mPlatformPowerState' \in PowerStates
  PROVE  IInv'
<1> USE Parts
<1>1. Counts'
  BY RequestsCount DEF OwnRefusals
<1>2. Agreed' /\ Woken(mPlatformPowerState', (waiting + refused) + own, ownRefused', engineMask')
  <2>1. waiting + refused \in Nat /\ own \in Nat
    BY DEF OwnRefusals, Counts
  <2>2. \A asked, inSession, power :
          registerEventMask(asked, inSession, power, waiting + refused, own)
          => Agreed' /\ Woken(power, (waiting + refused) + own, ownRefused', engineMask')
    BY <2>1, RegisterAgrees DEF Agreed
  <2> QED BY <2>2
<1>3. mResenders' = (waiting + refused) + own
  BY DEF CacheRequests, OwnRefusals, Counts
<1>4. Flags'
  BY RegisteredIsTyped DEF Flags, registerEventMask, OwnRefusals
<1>5. CachedRequestsAreWoken'
  BY <1>2, <1>3 DEF CachedRequestsAreWoken, Woken
<1> QED BY <1>1, <1>2, <1>4, <1>5, PartsPrime

-----------------------------------------------------------------------------
(* The calls of the adapter *)

LEMMA SendKeeps == ASSUME IInv, locSyncSendReq PROVE IInv'
<1> USE Parts
<1>1. /\ opened /\ CacheRequests(1, mResenders)
      /\ engineMask' = AfterRefusal(mQmiMask, engineMask, mPlatformPowerState, mResenders)
      /\ UNCHANGED <<opened, mMask, mInSession, mPlatformPowerState, mQmiMask, engineOn,
                     engineReports, ownRefused>>
  BY DEF locSyncSendReq
<1>2. mResenders \in Nat /\ mResenders \in 0..refusals
  BY DEF Counts
<1>3. Counts' /\ mResenders' = mResenders + 1
  BY <1>1, <1>2, RequestsCount DEF CacheRequests
<1>4. Flags' /\ Queued'
  BY <1>1 DEF Flags, Queued, ReportsAreTyped
<1>5. Woken(mPlatformPowerState, mResenders, ownRefused, engineMask)
  BY <1>1 DEF CachedRequestsAreWoken, Woken
<1>6. /\ MasksAgree(mQmiMask, engineMask', ownRefused)
      /\ Woken(mPlatformPowerState, mResenders + 1, ownRefused, engineMask')
  BY <1>1, <1>2, <1>5, RefusalAgrees DEF Agreed
<1>7. Agreed' /\ CachedRequestsAreWoken'
  BY <1>1, <1>3, <1>6 DEF Agreed, MasksAgree, CachedRequestsAreWoken, Woken
<1> QED BY <1>3, <1>4, <1>7, PartsPrime

LEMMA StartKeeps ==
  ASSUME IInv, NEW own \in OwnRefusals, NEW refused \in 0..1,
         startTimeBasedTracking(own, refused)
  PROVE  IInv'
<1> USE Parts
<1> DEFINE mask == adjustLocClientEventMask(mMask, TRUE, mPlatformPowerState, mResenders)
           engine == EngineTold(mask, mPlatformPowerState, mResenders, own)
<1>1. /\ opened /\ mInSession' = TRUE /\ MaskRegistered(mask, own) /\ mQmiMask' = mask
      /\ engineMask' = IF refused = 0 THEN engine
                       ELSE AfterRefusal(mask, engine, mPlatformPowerState, mResenders + own)
      /\ CacheRequests(own + refused, mResenders)
      /\ UNCHANGED <<opened, mMask, mPlatformPowerState, engineOn, engineReports>>
  BY DEF startTimeBasedTracking, MaskRegistered
<1>2. mResenders \in Nat /\ mResenders \in 0..refusals /\ own \in Nat /\ refused \in Nat
  BY DEF Counts, OwnRefusals
<1>3. Counts' /\ mResenders' = (mResenders + own) + refused
  BY <1>1, <1>2, RequestsCount DEF CacheRequests
<1>4. Flags' /\ Queued'
  BY <1>1, <1>2, RegisteredIsTyped DEF Flags, Queued, ReportsAreTyped
<1>5. mask \subseteq Events
  BY MaskIsOfEvents
<1>6. mPlatformPowerState # "SUSPENDED" /\ mResenders > 0 => "ENGINE_STATE" \in mask
  BY WaitingIsInMask
<1> HIDE DEF mask
<1>7. /\ MasksAgree(mask, engine, ownRefused')
      /\ Woken(mPlatformPowerState, mResenders + own, ownRefused', engine)
  BY <1>1, <1>2, <1>5, <1>6, ToldAgrees DEF Agreed
<1> HIDE DEF engine
<1>8. /\ MasksAgree(mask, engineMask', ownRefused')
      /\ Woken(mPlatformPowerState, (mResenders + own) + refused, ownRefused', engineMask')
  <2>1. CASE refused = 0
    BY <1>1, <1>2, <1>7, <2>1
  <2>2. CASE refused = 1
    <3>1. mResenders + own \in Nat
      BY <1>2
    <3> QED BY <1>1, <1>7, <2>2, <3>1, RefusalAgrees
  <2> QED BY <2>1, <2>2
<1>9. Agreed' /\ CachedRequestsAreWoken'
  BY <1>1, <1>3, <1>8 DEF Agreed, MasksAgree, CachedRequestsAreWoken, Woken
<1> QED BY <1>3, <1>4, <1>9, PartsPrime

\* A registration within a step that takes no report.
LEMMA CallKeeps ==
  ASSUME IInv, NEW refused \in 0..1, NEW own \in OwnRefusals,
         registerEventMask(mMask', mInSession', mPlatformPowerState', mResenders + refused, own),
         CacheRequests(own + refused, mResenders),
         mMask' \subseteq Asked, mInSession' \in BOOLEAN, opened' \in BOOLEAN,
         UNCHANGED <<mPlatformPowerState, engineOn, engineReports>>
  PROVE  IInv'
<1>1. /\ mResenders \in 0..refusals /\ Queued' /\ engineOn' \in BOOLEAN
      /\ mPlatformPowerState' \in PowerStates
  BY Parts DEF Counts, Queued, ReportsAreTyped, Flags
<1> QED BY <1>1, RegistrationKeeps

LEMMA StopKeeps ==
  ASSUME IInv, NEW own \in OwnRefusals, stopTimeBasedTracking(own)
  PROVE  IInv'
<1>1. /\ mInSession' = FALSE
      /\ registerEventMask(mMask, FALSE, mPlatformPowerState, mResenders, own)
      /\ CacheRequests(own, mResenders)
      /\ UNCHANGED <<opened, mMask, mPlatformPowerState, engineOn, engineReports>>
  BY DEF stopTimeBasedTracking
<1>2. mResenders + 0 = mResenders /\ own + 0 = own
  BY Parts DEF Counts, OwnRefusals
<1>3. /\ registerEventMask(mMask', mInSession', mPlatformPowerState', mResenders + 0, own)
      /\ CacheRequests(own + 0, mResenders)
  BY <1>1, <1>2
<1>4. mMask' \subseteq Asked /\ mInSession' \in BOOLEAN /\ opened' \in BOOLEAN
  BY <1>1, Parts DEF Flags
<1>5. 0 \in 0..1
  OBVIOUS
<1> QED BY <1>1, <1>3, <1>4, <1>5, CallKeeps

LEMMA OpenKeeps ==
  ASSUME IInv, NEW asked \in SUBSET Asked, NEW own \in OwnRefusals, NEW refused \in 0..1,
         openClient(asked, own, refused)
  PROVE  IInv'
<1>1. /\ opened' = TRUE /\ mMask' = asked
      /\ registerEventMask(asked, mInSession, mPlatformPowerState, mResenders + refused, own)
      /\ CacheRequests(own + refused, mResenders)
      /\ UNCHANGED <<mInSession, mPlatformPowerState, engineOn, engineReports>>
  BY DEF openClient
<1>2. registerEventMask(mMask', mInSession', mPlatformPowerState', mResenders + refused, own)
  BY <1>1
<1>3. mMask' \subseteq Asked /\ mInSession' \in BOOLEAN /\ opened' \in BOOLEAN
  BY <1>1, Parts DEF Flags
<1> QED BY <1>1, <1>2, <1>3, CallKeeps

LEMMA ReopenKeeps ==
  ASSUME IInv, NEW asked \in SUBSET Asked, NEW own \in OwnRefusals, reopenClient(asked, own)
  PROVE  IInv'
<1>1. /\ mMask' = asked
      /\ registerEventMask(asked, mInSession, mPlatformPowerState, mResenders, own)
      /\ CacheRequests(own, mResenders)
      /\ UNCHANGED <<opened, mInSession, mPlatformPowerState, engineOn, engineReports>>
  BY DEF reopenClient
<1>2. mResenders + 0 = mResenders /\ own + 0 = own
  BY Parts DEF Counts, OwnRefusals
<1>3. /\ registerEventMask(mMask', mInSession', mPlatformPowerState', mResenders + 0, own)
      /\ CacheRequests(own + 0, mResenders)
  BY <1>1, <1>2
<1>4. mMask' \subseteq Asked /\ mInSession' \in BOOLEAN /\ opened' \in BOOLEAN
  BY <1>1, Parts DEF Flags
<1>5. 0 \in 0..1
  OBVIOUS
<1> QED BY <1>1, <1>3, <1>4, <1>5, CallKeeps

LEMMA CloseKeeps == ASSUME IInv, closeClient PROVE IInv'
<1> USE Parts
<1>1. /\ opened' = FALSE /\ mMask' = {} /\ mInSession' = FALSE
      /\ mQmiMask' = {} /\ engineMask' = {}
      /\ UNCHANGED <<mPlatformPowerState, mResenders, engineOn, engineReports, refusals,
                     ownRefused>>
  BY DEF closeClient, retryVars
<1>2. Flags' /\ Counts' /\ Queued'
  BY <1>1 DEF Flags, Counts, Queued, ReportsAreTyped
<1>3. Agreed' /\ CachedRequestsAreWoken'
  BY <1>1 DEF Agreed, MasksAgree, CachedRequestsAreWoken
<1> QED BY <1>2, <1>3, PartsPrime

-----------------------------------------------------------------------------
(* The engine and the task *)

LEMMA ReportKeeps ==
  ASSUME Queued, Len(engineReports) < MaxEngineReports, NEW r \in EngineReport, Report(r)
  PROVE  Queued'
<1>1. /\ Append(engineReports, r) \in Seq(EngineReport)
      /\ Len(Append(engineReports, r)) = Len(engineReports) + 1
  BY AppendProperties DEF Queued, ReportsAreTyped
<1>2. Len(engineReports) \in Nat
  BY LenProperties DEF Queued, ReportsAreTyped
<1> QED BY <1>1, <1>2, EngineBounds DEF Report, Queued, ReportsAreTyped

LEMMA EngineKeeps ==
  ASSUME IInv, EngineTurns \/ \E power \in PowerStates \ {"UNKNOWN"} : PowerChanges(power)
  PROVE  IInv'
<1> USE Parts
<1>1. /\ UNCHANGED <<opened, mMask, mInSession, mPlatformPowerState, mQmiMask,
                     mResenders, engineMask, refusals, ownRefused>>
      /\ engineOn' = engineOn \/ engineOn' = ~engineOn
      /\ Len(engineReports) < MaxEngineReports
  BY DEF EngineTurns, PowerChanges, adapterVars, retryVars
<1>2. CASE EngineTurns
  <2>1. [event |-> "ENGINE_STATE", on |-> engineOn'] \in EngineReport
    BY <1>1 DEF EngineReport, Flags
  <2> QED BY <1>1, <1>2, <2>1, ReportKeeps, PartsPrime
          DEF EngineTurns, Flags, Counts, Agreed, MasksAgree, CachedRequestsAreWoken
<1>3. ASSUME NEW power \in PowerStates \ {"UNKNOWN"}, PowerChanges(power) PROVE IInv'
  <2>1. [event |-> "POWER_STATE", power |-> power] \in EngineReport
    BY DEF EngineReport
  <2> QED BY <1>1, <1>3, <2>1, ReportKeeps, PartsPrime
          DEF PowerChanges, Flags, Counts, Agreed, MasksAgree, CachedRequestsAreWoken
<1> QED BY <1>2, <1>3

LEMMA TakeKeeps ==
  ASSUME Queued, NEW event, TakeReport(event)
  PROVE  /\ Queued'
         /\ Head(engineReports) \in EngineReport /\ Head(engineReports).event = event
<1>1. /\ Head(engineReports) \in EngineReport
      /\ Tail(engineReports) \in Seq(EngineReport)
      /\ Len(Tail(engineReports)) = Len(engineReports) - 1
  BY HeadTailProperties DEF Queued, ReportsAreTyped, TakeReport
<1>2. Len(engineReports) \in Nat
  BY LenProperties DEF Queued, ReportsAreTyped
<1> QED BY <1>1, <1>2, EngineBounds DEF Queued, ReportsAreTyped, TakeReport

\* Nothing of the mask changes.
LEMMA UntoldKeeps ==
  ASSUME IInv, NEW waiting \in 0..refusals, Queued',
         opened' => waiting = mResenders /\ UNCHANGED mPlatformPowerState,
         mResenders' = waiting, mPlatformPowerState' \in PowerStates,
         UNCHANGED <<opened, mMask, mInSession, mQmiMask, engineMask, engineOn, refusals,
                     ownRefused>>
  PROVE  IInv'
<1> USE Parts
<1>1. Flags' /\ Counts' /\ Agreed'
  BY DEF Flags, Counts, Agreed, MasksAgree
<1>2. CachedRequestsAreWoken'
  BY DEF CachedRequestsAreWoken
<1> QED BY <1>1, <1>2, PartsPrime

LEMMA EngineStateKeeps ==
  ASSUME IInv, NEW own \in OwnRefusals, reportEngineState(own)
  PROVE  IInv'
<1> USE Parts
<1>1. /\ TakeReport("ENGINE_STATE")
      /\ UNCHANGED <<opened, mMask, mInSession, mPlatformPowerState, engineOn>>
  BY DEF reportEngineState
<1>2. Queued' /\ mPlatformPowerState' \in PowerStates
  BY <1>1, TakeKeeps DEF Flags
<1>3. 0 \in 0..refusals /\ mResenders \in 0..refusals
  BY DEF Counts
<1>4. CASE UNCHANGED <<mQmiMask, mResenders, engineMask, retryVars>>
  BY <1>1, <1>2, <1>3, <1>4, UntoldKeeps DEF retryVars
<1>5. CASE CacheRequests(own, 0) /\ ~opened /\ own = 0
           /\ UNCHANGED <<mQmiMask, engineMask, ownRefused>>
  <2>1. mResenders' = 0 /\ UNCHANGED refusals
    BY <1>5 DEF CacheRequests, Counts
  <2> QED BY <1>1, <1>2, <1>3, <1>5, <2>1, UntoldKeeps
<1>6. CASE CacheRequests(own, 0) /\ opened
           /\ registerEventMask(mMask, mInSession, mPlatformPowerState, 0, own)
  <2>1. own + 0 = own /\ 0 + 0 = 0 /\ 0 \in 0..1
    BY DEF OwnRefusals
  <2>2. /\ registerEventMask(mMask', mInSession', mPlatformPowerState', 0 + 0, own)
        /\ CacheRequests(own + 0, 0)
    BY <1>1, <1>6, <2>1
  <2>3. /\ mMask' \subseteq Asked /\ mInSession' \in BOOLEAN /\ opened' \in BOOLEAN
        /\ engineOn' \in BOOLEAN
    BY <1>1 DEF Flags
  <2> QED BY <1>2, <1>3, <2>1, <2>2, <2>3, RegistrationKeeps
<1> QED BY <1>4, <1>5, <1>6 DEF reportEngineState

LEMMA PowerStateKeeps ==
  ASSUME IInv, NEW own \in OwnRefusals, reportPowerStateChangeInfo(own)
  PROVE  IInv'
<1> USE Parts
<1>1. /\ TakeReport("POWER_STATE")
      /\ mPlatformPowerState' = Head(engineReports).power
      /\ CacheRequests(own, mResenders)
      /\ UNCHANGED <<opened, mMask, mInSession, engineOn>>
      /\ \/ /\ opened
            /\ registerEventMask(mMask, mInSession, mPlatformPowerState', mResenders, own)
         \/ ~opened /\ own = 0 /\ UNCHANGED <<mQmiMask, engineMask, ownRefused>>
  BY DEF reportPowerStateChangeInfo
<1>2. /\ Queued' /\ Head(engineReports) \in EngineReport
      /\ Head(engineReports).event = "POWER_STATE"
  BY <1>1, TakeKeeps
<1>3. mPlatformPowerState' \in PowerStates
  BY <1>1, <1>2 DEF EngineReport
<1>4. mResenders \in 0..refusals
  BY DEF Counts
<1>5. CASE ~opened /\ own = 0 /\ UNCHANGED <<mQmiMask, engineMask, ownRefused>>
  <2>1. UNCHANGED <<mResenders, refusals>>
    BY <1>1, <1>5 DEF CacheRequests, Counts
  <2> QED BY <1>1, <1>2, <1>3, <1>4, <1>5, <2>1, UntoldKeeps
<1>6. CASE opened /\ registerEventMask(mMask, mInSession, mPlatformPowerState', mResenders, own)
  <2>1. own + 0 = own /\ mResenders + 0 = mResenders /\ 0 \in 0..1
    BY DEF OwnRefusals, Counts
  <2>2. /\ registerEventMask(mMask', mInSession', mPlatformPowerState', mResenders + 0, own)
        /\ CacheRequests(own + 0, mResenders)
    BY <1>1, <1>6, <2>1
  <2>3. /\ mMask' \subseteq Asked /\ mInSession' \in BOOLEAN /\ opened' \in BOOLEAN
        /\ engineOn' \in BOOLEAN
    BY <1>1 DEF Flags
  <2> QED BY <1>2, <1>3, <1>4, <2>1, <2>2, <2>3, RegistrationKeeps
<1> QED BY <1>1, <1>5, <1>6

LEMMA NextIInv == IInv /\ [BusyNext]_busyVars => IInv'
<1> SUFFICES ASSUME IInv, [BusyNext]_busyVars PROVE IInv'
  OBVIOUS
<1>1. CASE AdapterCall
  BY <1>1, SendKeeps, StartKeeps, StopKeeps, OpenKeeps, ReopenKeeps, CloseKeeps DEF AdapterCall
<1>2. CASE AdapterTask
  BY <1>2, EngineStateKeeps, PowerStateKeeps DEF AdapterTask
<1>3. CASE EngineTurns \/ \E power \in PowerStates \ {"UNKNOWN"} : PowerChanges(power)
  BY <1>3, EngineKeeps
<1>4. CASE UNCHANGED busyVars
  <2>1. UNCHANGED <<opened, mMask, mInSession, mPlatformPowerState, mQmiMask, mResenders,
                    engineMask, engineOn, engineReports, refusals, ownRefused>>
    BY <1>4 DEF busyVars, adapterVars, engineVars, retryVars
  <2> QED BY <2>1, Parts, PartsPrime
          DEF Flags, Counts, Queued, ReportsAreTyped, Agreed, MasksAgree,
              CachedRequestsAreWoken
<1> QED BY <1>1, <1>2, <1>3, <1>4 DEF BusyNext

\* The adapter's idea of the registered events and the engine's differ in the engine's state
\* at most, in every state that opening, closing, sessions, refusals and reports lead to,
\* unless the last registration had a request of its own refused; even then the engine's
\* state is not taken to be reported when it is not (LocApiV02.cpp:583-616, 9207-9212).
THEOREM MasksAreTyped == BusySpec => []BusyTypeOK
<1>1. IInv => BusyTypeOK
  BY DEF IInv
<1> QED BY <1>1, InitParts, NextIInv, PTL DEF BusySpec

\* While the device is awake, cached requests wait only where the engine reports its state,
\* unless the last registration had a request of its own refused
\* (LocApiV02.cpp:711-724, 5161-5171, 9205-9236).
THEOREM RequestsAreWoken == BusySpec => []CachedRequestsAreWoken
<1>1. IInv => CachedRequestsAreWoken
  BY DEF IInv
<1> QED BY <1>1, InitParts, NextIInv, PTL DEF BusySpec
=============================================================================
