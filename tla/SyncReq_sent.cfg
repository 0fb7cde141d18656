\* A full buffer, for the status the caller gets.
CONSTANTS
    Handles = {h1}
    NoHandle = NoHandle
    NoInd = NoInd
    NoPtr = NoPtr
    NoPayload = NoPayload
    NoScan = NoScan
    Threads = {t1, t2}
    IndIds = {i1}
    BufferSize = 1
    MaxCalls = 1
    SpuriousWakeups = FALSE
SPECIFICATION SyncSpec
CHECK_DEADLOCK FALSE
INVARIANTS
    SuccessWasSent
