\* Two clients, three requests: replacement, cancellation and stale timeouts all
\* happen, and a location may meet the accuracy or not.  No symmetry: one of the
\* properties is temporal.
CONSTANTS
    Clients = {c1, c2}
    MaxReqs = 3
    MaxQoS = 1
SPECIFICATION FairSpec
CHECK_DEADLOCK FALSE
INVARIANTS
    TypeOK
    NetworkSessionIsExact
    TrackingSessionIsExact
    LastLocationIsOfThisSession
    RequestIsTimed
    AnsweredAtMostOnce
PROPERTIES
    NoSilentDrop
    FixesAreServed
    EveryRequestEnds
