---------------------------- MODULE RestartProofs ----------------------------
(***************************************************************************)
(* MCRestart implements each of the three specifications it is made of, so *)
(* what is proved of a session, of configurations and of geofences holds   *)
(* of every behaviour the runs explore.                                    *)
(***************************************************************************)
EXTENDS MCRestart, PositionSessionProofs, IntegrationConfigProofs, GeofenceProofs

\* The part that moves makes a step of its own specification, the others none.
LEMMA StepOfAPart ==
  ASSUME [RestartNext]_restartVars
  PROVE  [Next]_vars /\ [ConfigNext]_configVars /\ [GfNext]_gfVars
  BY DEF RestartNext, restartVars, OthersStay

\* A session, configurations and geofences of one client, of which one moves, behave as
\* PositionSession, IntegrationConfig and Geofence allow.
THEOREM RestartImplementsItsParts ==
  RestartSpec => Spec /\ ConfigSpec /\ GfSpec
<1>1. RestartInit => Init /\ ConfigInit /\ GfInit
  BY DEF RestartInit
<1>2. [RestartNext]_restartVars => [Next]_vars
  BY StepOfAPart
<1>3. [RestartNext]_restartVars => [ConfigNext]_configVars
  BY StepOfAPart
<1>4. [RestartNext]_restartVars => [GfNext]_gfVars
  BY StepOfAPart
<1> QED BY <1>1, <1>2, <1>3, <1>4, PTL DEF RestartSpec, Spec, ConfigSpec, GfSpec

\* The state of a client's session, configurations and geofences and of the daemon that
\* serves them keeps its types through the daemon's crashes.
THEOREM RestartKeepsTypes == RestartSpec => []RestartTypeOK
<1>1. TypeOK /\ ConfigTypeOK /\ GfTypeOK => RestartTypeOK
  BY DEF RestartTypeOK
<1> QED BY <1>1, RestartImplementsItsParts, TypeCorrect, ConfigsAreTyped, GeofencesAreTyped, PTL

\* The composition keeps what the runs of its parts check: a configuration request is told
\* once or still pending, a daemon that has been started again gets the cached
\* configurations back, xtra is reported once per registration, nobody is told of a geofence
\* it does not have, and the geofences of the client, the daemon and the engine are the same
\* when nothing is under way, but for the troubles these properties except.
THEOREM RestartIsSafe ==
  RestartSpec => /\ []EveryConfigIsAccounted /\ []ConfigsAreRestored
                     /\ []XtraToldOncePerRegistration
                     /\ []KnownGeofencesOnly /\ []GeofencesAgree /\ []BreachesAreReported
BY RestartImplementsItsParts, ConfigsAreAccounted, ConfigurationsAreRestored, XtraIsToldOnce,
   OnlyKnownGeofencesAreTold, GeofencesMatch, ClientsAreSubscribed, PTL

\* The daemon crashes once at most, or never while the client still registers: then a
\* client that has settled with the daemon is served as it believes to be.
THEOREM RestartServesSessions ==
  ASSUME MaxCrashes =< 1
  PROVE  RestartSpec => []SessionsAgree /\ []OneKindOfSession
BY RestartImplementsItsParts, OneCrashSessionsAgree, OneCrashOneKindOfSession, PTL
=============================================================================
