----------------------------- MODULE SessionLink -----------------------------
(***************************************************************************)
(* What a LocationClientApi client and the location HAL daemon share: the  *)
(* two datagram sockets, the vocabulary of the session messages            *)
(* (location_api_msg_proto/src/LocationApiMsg.h), and whether the daemon   *)
(* is there at all.                                                        *)
(*                                                                         *)
(* Every accepted start call of the application has a number.  Requests,   *)
(* engine calls and responses carry it as a ghost, the code has nothing    *)
(* like it: it lets a property ask whose answer an answer is.              *)
(***************************************************************************)
EXTENDS Naturals, Sequences, SequencesExt

CONSTANTS
    TrackOptions,  \* options of a tracking session; "passive": interval and distance 0
    BatchModes,    \* batching modes the application uses
    MaxStarts,     \* bound: accepted start calls
    MaxCrashes,    \* bound: crashes of the daemon
    Lossy,         \* may the client's socket be full when the daemon sends?
    Geofences      \* does the client use geofences as well?

ASSUME BatchModesAssumption == BatchModes \subseteq {"ROUTINE", "TRIP"}
ASSUME LinkBounds == MaxStarts \in Nat /\ MaxCrashes \in Nat
ASSUME LinkSwitches == {Lossy, Geofences} \subseteq BOOLEAN

VARIABLES
    toDaemon,   \* messages on the daemon's socket
    inbox,      \* the client's socket and the queue of its LcaMsgTask, as one
    reachable,  \* does the client's socket still have its name?
    up,         \* is the daemon running?
    crashes     \* crashes so far

linkVars == <<toDaemon, inbox, reachable, up, crashes>>

-----------------------------------------------------------------------------

Options == TrackOptions \cup {"passive"}

\* The callbacks of a tracking session, and those of a batching session in a mode.
TrackCbs == {"TRACKING"}
BatchCbs(mode) == IF mode = "TRIP" THEN {"BATCHING", "BATCHING_STATUS"} ELSE {"BATCHING"}

Requests ==
         [type : {"REGISTER", "STOP_TRACKING", "STOP_BATCHING"}]
    \cup [type : {"UPDATE_CALLBACKS"},
          mask : SUBSET (TrackCbs \cup {"BATCHING", "BATCHING_STATUS"})]
    \cup [type : {"START_TRACKING", "UPDATE_TRACKING"}, opt : Options, start : 0..MaxStarts]
    \cup [type : {"START_BATCHING"}, opt : BatchModes \cup {"none"}, start : 0..MaxStarts]

\* REGISTER and STOP_BATCHING are messages the client's task posts to itself.
Indications ==
         [type : {"HAL_READY", "CAPABILITIES", "TRIP_COMPLETED", "REGISTER", "STOP_BATCHING"}]
    \cup [type : {"RESPONSE"},
          to : {"START_TRACKING", "UPDATE_TRACKING", "START_BATCHING", "STOP_BATCHING"},
          start : 0..MaxStarts]

\* The client sends; with no daemon behind the socket the message is lost, and the
\* client does not look at the result.
Send(msgs) == toDaemon' = IF up THEN toDaemon \o msgs ELSE toDaemon

\* The client's task takes its next message ...
Take(type) ==
    /\ inbox # <<>>
    /\ Head(inbox).type = type
    /\ inbox' = Tail(inbox)

\* ... and may post one to itself, which overtakes what is still on the socket.
TakeAndPost(type, posted) ==
    /\ inbox # <<>>
    /\ Head(inbox).type = type
    /\ \E k \in 1..Len(inbox) : inbox' = InsertAt(Tail(inbox), k, [type |-> posted])
=============================================================================
