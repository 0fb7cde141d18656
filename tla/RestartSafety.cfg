\* Three starts: a session, its update and one of the other kind; the two configurations
\* that share one validity flag, a request whose answer is credited to another type, that
\* type, and registrations for xtra updates; two geofences, one request about one of them
\* and one breach on its way; one crash.
CONSTANTS
    TrackOptions = {o1, o2}
    BatchModes = {"ROUTINE", "TRIP"}
    MaxStarts = 3
    MaxCrashes = 1
    Lossy = TRUE
    Geofences = FALSE
    StartResults = {TRUE, FALSE}
    Types = {"CONSTELLATIONS", "CONSTELLATION_SECONDARY_BAND", "MAP_MATCHED_FEEDBACK",
             "odcpi", "REGISTER_XTRA_STATUS_UPDATE"}
    MaxConfigs = 2
    MaxRestarts = 1
    GfOptions = {"a", "b"}
    GfResults = {TRUE, FALSE}
    MaxGeofences = 2
    MaxGfRequests = 1
    MaxBreaches = 1
    MaxGfCrashes = 1
SPECIFICATION RestartSpec
SYMMETRY OptionsSymmetry
CHECK_DEADLOCK FALSE
INVARIANTS
    SessionsAgree
    OneKindOfSession
    SubscriptionsAgree
    EveryConfigIsAccounted
    ConfigsAreRestored
    XtraToldOncePerRegistration
    KnownGeofencesOnly
    GeofencesAgree
    BreachesAreReported
