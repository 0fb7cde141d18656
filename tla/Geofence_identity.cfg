\* Two geofences and one crash.
CONSTANTS
    GfOptions = {"a"}
    GfResults = {TRUE}
    MaxGeofences = 2
    MaxGfRequests = 1
    MaxBreaches = 0
    MaxGfCrashes = 1
SPECIFICATION GfSpec
CHECK_DEADLOCK FALSE
INVARIANTS
    GeofencesKeepTheirIdentity
