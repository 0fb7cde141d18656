\* Two callers, two ids and two slots, a second call of each meets the late answers of the
\* first; a local integration API client and a client API client on QRTR, or one of them
\* registered twice; three refusals to the adapter.
CONSTANTS
    Handles = {h1}
    NoHandle = NoHandle
    NoInd = NoInd
    NoPtr = NoPtr
    NoPayload = NoPayload
    NoScan = NoScan
    Threads = {t1, t2}
    IndIds = {i1, i2}
    BufferSize = 2
    MaxCalls = 2
    SpuriousWakeups = TRUE
    Clients = {int1, eap1}
    IntClients = {int1}
    EapClients = {eap1}
    MaxHandlers = 2
    MaxReqs = 2
    IsMaster = TRUE
    MaxRefusals = 3
    MaxEngineReports = 2
SPECIFICATION ThreadsSpec
SYMMETRY SyncSymmetry
CHECK_DEADLOCK FALSE
INVARIANTS
    SyncTypeOK
    SlotsAreAccountedFor
    NoLostWakeup
    PayloadsAreDelivered
    SuccessWasAnswered
    TypeOK
    RegistryIsLive
    ConfigAnsweredOnce
    EnergyIsQueried
    XtraReportedWhileRegistered
    BusyTypeOK
    CachedRequestsAreWoken
PROPERTIES
    NoWriteAfterReturn
    CallsAreServed
