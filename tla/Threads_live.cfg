\* Two callers for one slot, one of which may find the buffer full, without spurious
\* wakeups; the maintenance against clients that die, register again and deregister; three
\* refusals to the adapter.  No symmetry: a property is temporal.
CONSTANTS
    Handles = {h1}
    NoHandle = NoHandle
    NoInd = NoInd
    NoPtr = NoPtr
    NoPayload = NoPayload
    NoScan = NoScan
    Threads = {t1, t2}
    IndIds = {i1}
    BufferSize = 1
    MaxCalls = 2
    SpuriousWakeups = FALSE
    Clients = {cli1, int1}
    IntClients = {int1}
    EapClients = {}
    MaxHandlers = 3
    MaxReqs = 1
    IsMaster = TRUE
    MaxRefusals = 3
    MaxEngineReports = 2
SPECIFICATION ThreadsFairSpec
CHECK_DEADLOCK FALSE
PROPERTIES
    EveryCallReturns
    DeadClientsAreRemoved
    RequestsAreSentAgain
