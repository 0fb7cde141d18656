\* A session that only listens.
CONSTANTS
    TrackOptions = {o1, "passive"}
    BatchModes = {}
    MaxStarts = 1
    MaxCrashes = 0
    Lossy = FALSE
    Geofences = FALSE
    StartResults = {TRUE}
SPECIFICATION FairSpec
CHECK_DEADLOCK FALSE
PROPERTIES
    StartIsAnswered
