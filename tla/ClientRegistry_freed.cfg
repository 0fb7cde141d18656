\* Two clients are enough to meet it.
CONSTANTS
    Clients = {c1, i1}
    IntClients = {i1}
    EapClients = {}
    MaxHandlers = 2
    MaxReqs = 1
SPECIFICATION Spec
CHECK_DEADLOCK FALSE
INVARIANTS
    NoUseAfterFree
