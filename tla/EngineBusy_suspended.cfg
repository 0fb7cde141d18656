\* One request that is refused is enough.
CONSTANTS
    IsMaster = TRUE
    MaxRefusals = 2
    MaxEngineReports = 1
SPECIFICATION BusySpec
CHECK_DEADLOCK FALSE
INVARIANTS
    SuspendedIsNotWoken
