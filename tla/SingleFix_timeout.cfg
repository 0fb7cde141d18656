\* The timeout message names a client, not a request.
CONSTANTS
    Clients = {c1, c2}
    MaxReqs = 3
    MaxQoS = 2
SPECIFICATION Spec
SYMMETRY ClientSymmetry
CHECK_DEADLOCK FALSE
INVARIANTS
    TimeoutIsItsOwn
