------------------------------ MODULE MCThreads ------------------------------
(* Threads of the processes against each other: the callers and the callback   *)
(* thread of SyncReq, the threads of the daemon in ClientRegistry, and the     *)
(* adapter's task against the engine in EngineBusy.  They share no state, so a *)
(* behaviour is one of one of them, chosen at the beginning; the others stay   *)
(* as they are.                                                                *)
EXTENDS SyncReq, ClientRegistry, EngineBusy, TLC

VARIABLE part   \* the part that moves

threadsVars == <<part, syncVars, vars, busyVars>>

SyncSymmetry == Permutations(Threads) \cup Permutations(IndIds)

ThreadsInit ==
    /\ part \in {"sync", "registry", "engine"}
    /\ SyncInit /\ Init /\ BusyInit
    /\ part # "engine" => engineOn

OthersStay ==
    /\ UNCHANGED part
    /\ part # "sync" => UNCHANGED syncVars
    /\ part # "registry" => UNCHANGED vars
    /\ part # "engine" => UNCHANGED busyVars

ThreadsNext ==
    /\ \/ part = "sync" /\ SyncNext
       \/ part = "registry" /\ Next
       \/ part = "engine" /\ BusyNext
    /\ OthersStay

ThreadsSpec == ThreadsInit /\ [][ThreadsNext]_threadsVars

ServingThread ==
    /\ \/ part = "sync" /\ (ProcessIndSlot \/ ProcessIndEnd)
       \/ part = "registry" /\ fault = "none" /\ MaintStep
       \/ part = "engine" /\ AdapterTask
    /\ OthersStay

\* The fairness of SyncReq, ClientRegistry and EngineBusy: a part that does not move has no
\* step, so weak fairness of the disjunction is that of each part.
ThreadsFairSpec ==
    /\ ThreadsSpec
    /\ \A t \in Threads : WF_threadsVars(part = "sync" /\ ThreadStep(t) /\ OthersStay)
    /\ WF_threadsVars(ServingThread)
    /\ SF_threadsVars(part = "engine" /\ EngineTurns /\ OthersStay)
=============================================================================
