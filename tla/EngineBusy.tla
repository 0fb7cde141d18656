----------------------------- MODULE EngineBusy -----------------------------
(***************************************************************************)
(* Requests that the engine refuses because it is busy, and the event mask *)
(* that decides whether LocApiV02 hears that it no longer is               *)
(* (loc_api/loc_api_v02/LocApiV02.cpp).  All of it runs on one task,       *)
(* LocMsgTask: an action is one of its messages, and what the engine       *)
(* reports is posted to it.                                                *)
(*                                                                         *)
(* Registering an event mask succeeds as long as the client is open.       *)
(* Which messages the adapter sends does not matter, only how many of them *)
(* were refused and wait.  mEngineOn is left out: without __ANDROID__ it   *)
(* does not touch the mask.                                                *)
(***************************************************************************)
EXTENDS Naturals, Sequences, FiniteSets

CONSTANTS
    IsMaster,         \* is this the master's LocApiV02?
    MaxRefusals,      \* bound: requests refused
    MaxEngineReports  \* bound: reports of the engine that wait in the task's queue

ASSUME EngineBounds == IsMaster \in BOOLEAN /\ MaxRefusals \in Nat /\ MaxEngineReports \in Nat

VARIABLES
    opened,              \* is clientHandle valid?
    mMask,               \* the reports the adapters ask for
    mInSession,
    mPlatformPowerState,
    mQmiMask,            \* the events LocApiV02 takes itself to be registered for
    mResenders,          \* how many refused requests wait to be sent again
    engineMask,          \* the events the engine reports to this client
    engineOn,
    engineReports,       \* reports posted to the task
    refusals,            \* history: how many requests were refused so far
    ownRefused           \* history: how many requests that the last registration sent itself were refused

adapterVars == <<opened, mMask, mInSession, mPlatformPowerState, mQmiMask, mResenders>>
engineVars == <<engineMask, engineOn, engineReports>>
retryVars == <<refusals, ownRefused>>
busyVars == <<adapterVars, engineVars, retryVars>>

\* What the adapters may ask for: the status of the engine, requests for Wi-Fi scans, and
\* polynomials of the satellites.  The other events of a session, like positions, stand for
\* one; the power state is always registered for.
Asked == {"ENGINE_STATE", "WIFI", "POLYNOMIAL"}
Events == Asked \cup {"SESSION", "POWER_STATE"}
PowerStates == {"UNKNOWN", "RESUME", "SUSPENDED"}

BusyInit ==
    /\ opened = FALSE
    /\ mMask = {}
    /\ mInSession = FALSE
    /\ mPlatformPowerState = "UNKNOWN"
    /\ mQmiMask = {}
    /\ mResenders = 0
    /\ engineMask = {}
    /\ engineOn \in BOOLEAN
    /\ engineReports = <<>>
    /\ refusals = 0
    /\ ownRefused = 0

-----------------------------------------------------------------------------
(* Requests *)

\* n requests are refused by a busy engine and cached behind the waiting ones.
CacheRequests(n, waiting) ==
    /\ n > 0 => engineOn
    /\ refusals + n =< MaxRefusals
    /\ refusals' = refusals + n
    /\ mResenders' = waiting + n

\* The engine's mask after a request was refused.  If nothing else waits, the engine's state
\* is registered for directly, on top of the mask known; mQmiMask is not told.
AfterRefusal(known, engine, power, waiting) ==
    IF power = "RESUME" /\ waiting = 0 /\ "ENGINE_STATE" \notin known
    THEN known \cup {"ENGINE_STATE"} ELSE engine

\* A request of the adapter that is refused; one that is not changes nothing here.
locSyncSendReq ==
    /\ opened
    /\ CacheRequests(1, mResenders)
    /\ engineMask' = AfterRefusal(mQmiMask, engineMask, mPlatformPowerState, mResenders)
    /\ UNCHANGED <<opened, mMask, mInSession, mPlatformPowerState, mQmiMask, engineOn,
                   engineReports, ownRefused>>

-----------------------------------------------------------------------------
(* The event mask *)

\* Variant: a cached request does not ask for the engine's state.
AdjustForSession(asked, inSession, power, waiting) ==
    {"POWER_STATE"}
    \cup (asked \cap {"WIFI"})
    \cup (IF inSession THEN {"SESSION"} \cup (asked \cap {"POLYNOMIAL"}) ELSE {})
    \cup (IF inSession /\ power # "SUSPENDED" THEN asked \cap {"ENGINE_STATE"} ELSE {})

\* The mask for what is asked for, a session, a power state and the requests that wait to be
\* sent again.
adjustLocClientEventMask(asked, inSession, power, waiting) ==
    {"POWER_STATE"}
    \cup (asked \cap {"WIFI"})
    \cup (IF inSession THEN {"SESSION"} \cup (asked \cap {"POLYNOMIAL"}) ELSE {})
    \cup (IF power = "SUSPENDED" THEN {}
          ELSE IF waiting > 0 THEN {"ENGINE_STATE"}
          ELSE IF inSession THEN asked \cap {"ENGINE_STATE"} ELSE {})

\* How many requests the registration of mask sends itself, while mQmiMask is still the mask
\* registered before: one when Wi-Fi requests are newly asked for, and one of the master when
\* the polynomials are turned on or off.
OwnRequests(mask) ==
    (IF "WIFI" \in mask \ mQmiMask THEN 1 ELSE 0)
    + (IF IsMaster /\ ("POLYNOMIAL" \in mask) # ("POLYNOMIAL" \in mQmiMask) THEN 1 ELSE 0)

\* The engine's mask after that registration, when own of its own requests were refused, the
\* first of them behind waiting others.
EngineTold(mask, power, waiting, own) ==
    IF mask = mQmiMask THEN engineMask
    ELSE IF own = 0 THEN mask
    ELSE AfterRefusal(mQmiMask, mask, power, waiting)

\* What registering mask does to what LocApiV02 knows.
MaskRegistered(mask, own) ==
    /\ own \in 0..OwnRequests(mask)
    /\ mQmiMask' = mask
    /\ ownRefused' = IF mask = mQmiMask THEN ownRefused ELSE own

\* The mask is registered if it is a new one, and own of its own requests are refused.
registerEventMask(asked, inSession, power, waiting, own) ==
    LET mask == adjustLocClientEventMask(asked, inSession, power, waiting) IN
    /\ MaskRegistered(mask, own)
    /\ engineMask' = EngineTold(mask, power, waiting, own)

-----------------------------------------------------------------------------
(* The calls of the adapter *)

\* The mask is registered first; then the operation mode is set, which may be refused too.
startTimeBasedTracking(own, refused) ==
    LET mask == adjustLocClientEventMask(mMask, TRUE, mPlatformPowerState, mResenders)
        engine == EngineTold(mask, mPlatformPowerState, mResenders, own)
    IN
    /\ opened
    /\ mInSession' = TRUE
    /\ MaskRegistered(mask, own)
    /\ engineMask' = IF refused = 0 THEN engine
                     ELSE AfterRefusal(mask, engine, mPlatformPowerState, mResenders + own)
    /\ CacheRequests(own + refused, mResenders)
    /\ UNCHANGED <<opened, mMask, mPlatformPowerState, engineOn, engineReports>>

\* A stop that cannot be sent changes nothing.
stopTimeBasedTracking(own) ==
    /\ opened /\ mInSession
    /\ mInSession' = FALSE
    /\ registerEventMask(mMask, FALSE, mPlatformPowerState, mResenders, own)
    /\ CacheRequests(own, mResenders)
    /\ UNCHANGED <<opened, mMask, mPlatformPowerState, engineOn, engineReports>>

\* Open: the engine is asked for its features, which may be refused, before the events are
\* registered.
openClient(asked, own, refused) ==
    /\ ~opened
    /\ opened' = TRUE
    /\ mMask' = asked
    /\ registerEventMask(asked, mInSession, mPlatformPowerState, mResenders + refused, own)
    /\ CacheRequests(own + refused, mResenders)
    /\ UNCHANGED <<mInSession, mPlatformPowerState, engineOn, engineReports>>

\* The mask of an open client is replaced.
reopenClient(asked, own) ==
    /\ opened
    /\ mMask' = asked
    /\ registerEventMask(asked, mInSession, mPlatformPowerState, mResenders, own)
    /\ CacheRequests(own, mResenders)
    /\ UNCHANGED <<opened, mInSession, mPlatformPowerState, engineOn, engineReports>>

\* Variant: what was registered last is still taken to be registered.
KeepsMask ==
    /\ opened
    /\ opened' = FALSE
    /\ mMask' = {}
    /\ mInSession' = FALSE
    /\ engineMask' = {}
    /\ UNCHANGED <<mPlatformPowerState, mQmiMask, mResenders, engineOn, engineReports, retryVars>>

\* Close: what is cached stays.
closeClient ==
    /\ opened
    /\ opened' = FALSE
    /\ mMask' = {}
    /\ mQmiMask' = {}
    /\ mInSession' = FALSE
    /\ engineMask' = {}
    /\ UNCHANGED <<mPlatformPowerState, mResenders, engineOn, engineReports, retryVars>>

-----------------------------------------------------------------------------
(* The engine and what it reports *)

Report(r) == engineReports' = IF r.event \in engineMask THEN Append(engineReports, r)
                              ELSE engineReports

EngineTurns ==
    /\ Len(engineReports) < MaxEngineReports
    /\ engineOn' = ~engineOn
    /\ Report([event |-> "ENGINE_STATE", on |-> engineOn'])
    /\ UNCHANGED <<adapterVars, engineMask, retryVars>>

PowerChanges(power) ==
    /\ opened
    /\ Len(engineReports) < MaxEngineReports
    /\ Report([event |-> "POWER_STATE", power |-> power])
    /\ UNCHANGED <<adapterVars, engineMask, engineOn, retryVars>>

TakeReport(event) ==
    /\ engineReports # <<>>
    /\ Head(engineReports).event = event
    /\ engineReports' = Tail(engineReports)

\* Variant: what is cached is sent again when the next session starts.
KeepsResenders(own) ==
    /\ TakeReport("ENGINE_STATE")
    /\ own = 0
    /\ UNCHANGED <<adapterVars, engineMask, engineOn, retryVars>>

\* The engine is off: all cached requests are sent again, whatever becomes of them, and
\* the events are registered anew.
reportEngineState(own) ==
    /\ TakeReport("ENGINE_STATE")
    /\ IF Head(engineReports).on
       THEN own = 0 /\ UNCHANGED <<mQmiMask, mResenders, engineMask, retryVars>>
       ELSE /\ CacheRequests(own, 0)
            /\ IF opened
               THEN registerEventMask(mMask, mInSession, mPlatformPowerState, 0, own)
               ELSE own = 0 /\ UNCHANGED <<mQmiMask, engineMask, ownRefused>>
    /\ UNCHANGED <<opened, mMask, mInSession, mPlatformPowerState, engineOn>>

\* The events are registered anew for the new state, if the client is open.
reportPowerStateChangeInfo(own) ==
    LET power == Head(engineReports).power IN
    /\ TakeReport("POWER_STATE")
    /\ mPlatformPowerState' = power
    /\ CacheRequests(own, mResenders)
    /\ IF opened
       THEN registerEventMask(mMask, mInSession, power, mResenders, own)
       ELSE own = 0 /\ UNCHANGED <<mQmiMask, engineMask, ownRefused>>
    /\ UNCHANGED <<opened, mMask, mInSession, engineOn>>

-----------------------------------------------------------------------------
OwnRefusals == 0..2   \* requests of a registration that are refused

AdapterCall ==
    \/ locSyncSendReq
    \/ \E own \in OwnRefusals :
          \/ stopTimeBasedTracking(own)
          \/ \E refused \in 0..1 : startTimeBasedTracking(own, refused)
          \/ \E asked \in SUBSET Asked :
                \/ reopenClient(asked, own)
                \/ \E refused \in 0..1 : openClient(asked, own, refused)
    \/ closeClient

AdapterTask ==
    \E own \in OwnRefusals : reportEngineState(own) \/ reportPowerStateChangeInfo(own)

BusyNext ==
    \/ AdapterCall
    \/ AdapterTask
    \/ EngineTurns
    \/ \E power \in PowerStates \ {"UNKNOWN"} : PowerChanges(power)

BusySpec == BusyInit /\ [][BusyNext]_busyVars

\* The task runs, and the engine is turned on and off again and again: strongly fair, for
\* reports of the power state may fill the bounded queue time and again.
BusyFairSpec == BusySpec /\ WF_busyVars(AdapterTask) /\ SF_busyVars(EngineTurns)

-----------------------------------------------------------------------------
(* Properties *)

\* The state keeps its types.  What LocApiV02 takes the engine to report is what it reports,
\* or all of that but the engine's state, unless a request was refused while that mask was
\* being registered; and the engine's state is never taken to be reported when it is not
\* (LocApiV02.cpp:583-616, 9207-9212).
BusyTypeOK ==
    /\ {opened, mInSession, engineOn} \subseteq BOOLEAN
    /\ mMask \subseteq Asked
    /\ mPlatformPowerState \in PowerStates
    /\ refusals \in 0..MaxRefusals
    /\ mResenders \in 0..refusals
    /\ ownRefused \in OwnRefusals
    /\ Len(engineReports) =< MaxEngineReports
    /\ mQmiMask \subseteq Events
    /\ engineMask \subseteq Events
    /\ "ENGINE_STATE" \in mQmiMask => "ENGINE_STATE" \in engineMask
    /\ ownRefused = 0 => /\ mQmiMask \subseteq engineMask
                         /\ engineMask \ mQmiMask \subseteq {"ENGINE_STATE"}

\* While the device is awake and requests wait to be sent again, the engine reports its
\* state, which is what they wait for: whether they were refused in a session or out of it,
\* before a suspension, during one, or before the client was closed and opened again.  The
\* exception is a request that was refused while the mask was being registered, until the
\* mask is registered again (LocApiV02.cpp:583-616, 711-724, 5161-5171, 9205-9236).
CachedRequestsAreWoken ==
    opened /\ mPlatformPowerState = "RESUME" /\ mResenders > 0 /\ ownRefused = 0
        => "ENGINE_STATE" \in engineMask

\* Once the device stays awake and the client open, every cached request is sent again, if
\* no registration has its own requests refused any more, or if sessions begin and end again
\* and again (LocApiV02.cpp:583-616, 5161-5171).
RequestsAreSentAgain ==
    /\ <>[](opened /\ mPlatformPowerState = "RESUME")
    /\ <>[](ownRefused = 0) \/ ([]<>mInSession /\ []<>~mInSession)
    => []<>(mResenders = 0)

\* What LocApiV02.cpp:714-715 says of a suspended device: the engine's state is not
\* registered for, to avoid waking it up.
SuspendedIsNotWoken == mPlatformPowerState = "SUSPENDED" => "ENGINE_STATE" \notin engineMask

\* What LocApiV02.cpp:5167-5169 says of the engine's state: it can be unregistered once the
\* queue of refused requests has been flushed, and not while one waits.
UnregisteredWhenFlushed ==
    opened /\ mPlatformPowerState = "RESUME" /\ mResenders > 0
        => "ENGINE_STATE" \in engineMask

\* What LocApiV02.cpp:5157-5158 says of registerEventMask: a mask that has changed is
\* registered with the modem.
NewMaskIsRegistered == mQmiMask \subseteq engineMask
=============================================================================
