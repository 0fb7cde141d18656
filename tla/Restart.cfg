\* A configuration that is cached, ones that are not, and registrations for xtra updates;
\* two geofences and one request about one of them; sessions and their updates; one crash.
CONSTANTS
    Types = {"CONSTELLATION_SECONDARY_BAND", "MIN_GPS_WEEK", "MAP_MATCHED_FEEDBACK",
             "REGISTER_XTRA_STATUS_UPDATE"}
    MaxConfigs = 2
    MaxRestarts = 1
    GfOptions = {"a"}
    GfResults = {TRUE}
    MaxGeofences = 2
    MaxGfRequests = 1
    MaxBreaches = 0
    MaxGfCrashes = 1
    TrackOptions = {o1, o2}
    BatchModes = {}
    MaxStarts = 3
    MaxCrashes = 1
    Lossy = FALSE
    Geofences = TRUE
    StartResults = {TRUE}
SPECIFICATION RestartFairSpec
CHECK_DEADLOCK FALSE
INVARIANT
    RestartTypeOK
PROPERTIES
    EveryConfigIsTold
    AddIsAnswered
    StartIsAnswered
    SessionIsServed
