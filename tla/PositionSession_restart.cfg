\* A daemon that starts twice while the client registers.
CONSTANTS
    TrackOptions = {o1}
    BatchModes = {}
    MaxStarts = 1
    MaxCrashes = 2
    Lossy = FALSE
    Geofences = FALSE
    StartResults = {TRUE}
SPECIFICATION Spec
CHECK_DEADLOCK FALSE
INVARIANTS
    SessionsAgree
