----------------------------- MODULE SyncCalls -----------------------------
(***************************************************************************)
(* What loc_sync_send_req promises its callers, without slots, locks and   *)
(* the scan: calls, the indications on their way, and who is given them.   *)
(* SyncReq implements it.                                                  *)
(*                                                                         *)
(* An indication of the right kind is given to a call in one step, whoever *)
(* it answers; it is given to one caller only, never to one that has       *)
(* returned, and it is never dropped while its own call waits unanswered.  *)
(***************************************************************************)
EXTENDS Naturals

CONSTANTS Threads, Handles, IndIds, SpuriousWakeups, NoPayload, NoRequest

VARIABLES
    phase,        \* where the call of a thread is: idle, asking, waiting, ending
    request,      \* its arguments
    count,        \* calls a thread has made
    answered,     \* has the call been told of an indication?
    payload,      \* what the caller was given
    result,       \* the status the call returns
    outstanding   \* indications sent by the engine that nobody has taken

callVars == <<phase, request, count, answered, payload, result, outstanding>>

Request == [handle : Handles, ind : IndIds, wantsPayload : BOOLEAN]

\* The indication that answers the current call of t.
AnswerTo(t) ==
    [handle |-> request[t].handle, ind |-> request[t].ind, by |-> t, nth |-> count[t]]

\* As far as the library can tell, m is for the call of t.
IsFor(m, t) ==
    /\ phase[t] # "idle"
    /\ m.handle = request[t].handle /\ m.ind = request[t].ind

\* m answers the current call of t, which still waits for anything to arrive.
IsAwaited(m, t) ==
    m.by = t /\ m.nth = count[t] /\ phase[t] = "waiting" /\ ~answered[t]

CallInit ==
    /\ phase = [t \in Threads |-> "idle"]
    /\ request = [t \in Threads |-> NoRequest]
    /\ count = [t \in Threads |-> 0]
    /\ answered = [t \in Threads |-> FALSE]
    /\ payload = [t \in Threads |-> NoPayload]
    /\ result = [t \in Threads |-> "INTERNAL"]
    /\ outstanding = {}

-----------------------------------------------------------------------------
Moves(t, from, to) == phase[t] = from /\ phase' = [phase EXCEPT ![t] = to]

Begin(t, r) ==
    /\ Moves(t, "idle", "asking")
    /\ request' = [request EXCEPT ![t] = r]
    /\ count' = [count EXCEPT ![t] = count[t] + 1]
    /\ answered' = [answered EXCEPT ![t] = FALSE]
    /\ payload' = [payload EXCEPT ![t] = NoPayload]
    /\ result' = [result EXCEPT ![t] = "SUCCESS"]
    /\ UNCHANGED outstanding

\* Too many calls: this one returns without having been sent.
Refuse(t) ==
    /\ Moves(t, "asking", "idle")
    /\ UNCHANGED <<request, count, answered, payload, result, outstanding>>

\* A request that could not be sent may have reached the engine all the same.
Ask(t) ==
    /\ \/ /\ Moves(t, "asking", "waiting")
          /\ outstanding' = outstanding \cup {AnswerTo(t)}
          /\ UNCHANGED result
       \/ /\ Moves(t, "asking", "ending")
          /\ outstanding' = outstanding \/ outstanding' = outstanding \cup {AnswerTo(t)}
          /\ result' = [result EXCEPT ![t] = "SEND_FAILED"]
    /\ UNCHANGED <<request, count, answered, payload>>

\* A wait ends with an answer, or at its timeout.
Wake(t) ==
    /\ Moves(t, "waiting", "ending")
    /\ answered[t] \/ SpuriousWakeups
    /\ UNCHANGED <<request, count, answered, payload, result, outstanding>>

GiveUp(t) ==
    /\ Moves(t, "waiting", "ending")
    /\ result' = [result EXCEPT ![t] = "TIMEOUT"]
    /\ UNCHANGED <<request, count, answered, payload, outstanding>>

Return(t) ==
    /\ Moves(t, "ending", "idle")
    /\ UNCHANGED <<request, count, answered, payload, result, outstanding>>

-----------------------------------------------------------------------------
\* The one caller that is given an indication has it to itself.
Deliver(m, t) ==
    /\ IsFor(m, t) /\ request[t].wantsPayload
    /\ outstanding' = outstanding \ {m}
    /\ payload' = [payload EXCEPT ![t] = m]
    /\ answered' = [answered EXCEPT ![t] = TRUE]
    /\ UNCHANGED <<phase, request, count, result>>

\* A call without a payload is told, and the indication is there for others.
Notify(m, t) ==
    /\ IsFor(m, t) /\ ~request[t].wantsPayload
    /\ answered' = [answered EXCEPT ![t] = TRUE]
    /\ UNCHANGED <<phase, request, count, payload, result, outstanding>>

Drop(m) ==
    /\ \A t \in Threads : ~IsAwaited(m, t)
    /\ outstanding' = outstanding \ {m}
    /\ UNCHANGED <<phase, request, count, answered, payload, result>>

CallNext ==
    \/ \E t \in Threads :
          \/ \E r \in Request : Begin(t, r)
          \/ Refuse(t) \/ Ask(t) \/ Wake(t) \/ GiveUp(t) \/ Return(t)
    \/ \E m \in outstanding :
          \/ \E t \in Threads : Deliver(m, t) \/ Notify(m, t)
          \/ Drop(m)

CallSpec == CallInit /\ [][CallNext]_callVars
=============================================================================
