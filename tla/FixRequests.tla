----------------------------- MODULE FixRequests -----------------------------
(***************************************************************************)
(* What the daemon promises the clients that ask for single-shot fixes,    *)
(* without maps, sessions, timers and messages: the requests, which of     *)
(* them wait, and what has been said about each.  SingleFix implements it. *)
(*                                                                         *)
(* A request waits until it is answered, its client sends the next one of  *)
(* its kind, or its client goes; after that nothing is said about it, also *)
(* if the client comes back.  A location serves every request it is good   *)
(* enough for, in one step, and no other.                                  *)
(***************************************************************************)
EXTENDS Integers, Sequences

CONSTANTS Clients, MaxReqs, MaxQoS

VARIABLES
    registered,   \* the clients that can be answered
    requests,     \* the requests received, in order
    waiting,      \* those not settled yet
    told          \* what was said about each

fixVars == <<registered, requests, waiting, told>>

Locations == -1..MaxQoS   \* accuracies; -1 is a location without a position
Positions == 0..MaxQoS

\* The requests of c of a kind that still wait.
WaitingOf(c, kind) == {r \in waiting : requests[r].client = c /\ requests[r].kind = kind}

\* Those a position is good enough for.
Satisfied(kind, position) ==
    {r \in waiting : /\ requests[r].kind = kind
                     /\ kind = "FUSED" => position < requests[r].horQoS}

\* The clients of the requests S that are there are told.
Tell(S, answer) ==
    told' = [r \in 1..MaxReqs |-> IF r \in S /\ requests'[r].client \in registered
                                  THEN Append(told[r], answer) ELSE told[r]]

Says(error, location) == [error |-> error, location |-> location]

FixInit ==
    /\ registered = {}
    /\ requests = <<>>
    /\ waiting = {}
    /\ told = [r \in 1..MaxReqs |-> <<>>]

-----------------------------------------------------------------------------
Come(c) ==
    /\ registered' = registered \cup {c}
    /\ UNCHANGED <<requests, waiting, told>>

\* Nothing of a client is left when it goes.
Go(c) ==
    /\ registered' = registered \ {c}
    /\ waiting' = waiting \ (WaitingOf(c, "TERRESTRIAL") \cup WaitingOf(c, "FUSED"))
    /\ UNCHANGED <<requests, told>>

Receive(c, kind, q) ==
    /\ Len(requests) < MaxReqs
    /\ requests' = Append(requests, [client |-> c, kind |-> kind, horQoS |-> q])
    /\ UNCHANGED registered

\* A request replaces the one before it; q = 0 asks for no fused fix any more.
Ask(c, kind, q) ==
    /\ Receive(c, kind, q)
    /\ waiting' = (waiting \ WaitingOf(c, kind))
                  \cup (IF kind = "FUSED" /\ q = 0 THEN {} ELSE {Len(requests')})
    /\ UNCHANGED told

\* No consent: the request is answered at once, and one that waits stays.
Refuse(c) ==
    /\ Receive(c, "TERRESTRIAL", 0)
    /\ Tell({Len(requests')}, Says("NOT_SUPPORTED", -1))
    /\ UNCHANGED waiting

\* Everybody a position is good enough for is told, and nobody else.
Serve(kind, position) ==
    /\ waiting' = waiting \ Satisfied(kind, position)
    /\ Tell(Satisfied(kind, position), Says("SUCCESS", position))
    /\ UNCHANGED <<registered, requests>>

\* A request that has waited is told so, with what is known: nothing, of a terrestrial one.
TimeOut(r, location) ==
    /\ r \in waiting
    /\ waiting' = waiting \ {r}
    /\ requests[r].kind = "TERRESTRIAL" => location = -1
    /\ Tell({r}, Says("TIMEOUT", location))
    /\ UNCHANGED <<registered, requests>>

FixNext ==
    \/ \E c \in Clients :
          \/ Come(c) \/ Go(c) \/ Refuse(c) \/ Ask(c, "TERRESTRIAL", 0)
          \/ \E q \in 0..MaxQoS : Ask(c, "FUSED", q)
    \/ \E kind \in {"TERRESTRIAL", "FUSED"}, position \in Positions : Serve(kind, position)
    \/ \E r \in waiting, location \in Locations : TimeOut(r, location)

FixSpec == FixInit /\ [][FixNext]_fixVars
=============================================================================
