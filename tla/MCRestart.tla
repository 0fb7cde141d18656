------------------------------ MODULE MCRestart ------------------------------
(* What clients of the daemon are owed when it crashes: the session of         *)
(* PositionSession, the configurations of IntegrationConfig and the geofences  *)
(* of Geofence.  A behaviour is one of one of them, chosen at the beginning;   *)
(* the others stay as they are.  Sessions and geofences of one client share    *)
(* the flag mPositionSessionResponseCbPending, so each part has the steps of   *)
(* the other on it as steps of its environment: GeofenceStep in the session,   *)
(* SessionMovesFlag in the geofences.  Nothing else is shared: the callback    *)
(* mask has a bit of its own for the breaches, and the API of the              *)
(* configurations is another client of the daemon.                             *)
EXTENDS PositionSession, IntegrationConfig, Geofence

VARIABLE part   \* the part that moves

restartVars == <<part, vars, configVars, gfVars>>

RestartInit ==
    /\ part \in {"session", "config", "geofence"}
    /\ Init /\ ConfigInit /\ GfInit
    /\ part # "session" => up
    /\ part # "config" => service = "ready"
    /\ part # "geofence" => gfUp

OthersStay ==
    /\ UNCHANGED part
    /\ part # "session" => UNCHANGED vars
    /\ part # "config" => UNCHANGED configVars
    /\ part # "geofence" => UNCHANGED gfVars

RestartNext ==
    /\ \/ part = "session" /\ Next
       \/ part = "config" /\ ConfigNext
       \/ part = "geofence" /\ GfNext
    /\ OthersStay

ClientTasks ==
    /\ \/ part = "session" /\ ClientTask /\ UNCHANGED handler
       \/ part = "config" /\ ApiTask
       \/ part = "geofence" /\ GfTask
    /\ OthersStay

DaemonReceives ==
    /\ \/ part = "session" /\ DaemonRequest /\ UNCHANGED clientVars
       \/ part = "config" /\ ServiceTask
       \/ part = "geofence" /\ GfService
    /\ OthersStay

EngineAnswers ==
    /\ \/ part = "session" /\ onResponseCb /\ UNCHANGED clientVars
       \/ part = "config" /\ \E m \in mConfigReqs : EndConfigReq(m)
       \/ part = "geofence" /\ (onAddedGeofences \/ onChangedGeofence)
    /\ OthersStay

EngineReportsCapabilities ==
    /\ \/ part = "session" /\ onCapabilitiesCallback /\ UNCHANGED clientVars
       \/ part = "geofence" /\ GfCapabilitiesCb
    /\ OthersStay

RestartSpec == RestartInit /\ [][RestartNext]_restartVars

\* The fairness of PositionSession, IntegrationConfig and Geofence: a part that does not
\* move has no step, so weak fairness of the disjunctions is that of each part.
RestartFairSpec ==
    /\ RestartSpec
    /\ WF_restartVars(ClientTasks)
    /\ WF_restartVars(DaemonReceives)
    /\ WF_restartVars(EngineAnswers)
    /\ WF_restartVars(EngineReportsCapabilities)
    /\ WF_restartVars(part = "session" /\ onListenerReady /\ UNCHANGED clientVars /\ OthersStay)

\* The state keeps its types, in every part.
RestartTypeOK == TypeOK /\ ConfigTypeOK /\ GfTypeOK

\* The options of a session are only compared, so they may be exchanged where no liveness
\* is checked.
OptionsSymmetry == Permutations(TrackOptions)
=============================================================================
