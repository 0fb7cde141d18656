------------------------------ MODULE SyncReq ------------------------------
(***************************************************************************)
(* The synchronous request layer of Loc API v02                            *)
(* (loc_api/loc_api_v02/loc_api_sync_req.cpp).  A thread that wants the    *)
(* answer of the location engine allocates one of BufferSize slots, fills  *)
(* it with the indication it waits for, sends the request and sleeps on    *)
(* the slot's condition variable.  The QMI callback thread runs            *)
(* loc_sync_process_ind, which scans the slots and wakes the one it finds. *)
(*                                                                         *)
(* Two locks are involved.  loc_sync_call_mutex is held by alloc, by free  *)
(* and for the whole of a scan: it is free exactly when scan = NoScan.  A  *)
(* slot's sync_req_lock is held for one slot at a time by the scan, by     *)
(* select and by the two ends of the wait, so each of those is one step.   *)
(* A scan of N slots is N + 2 steps and other threads run in between.      *)
(***************************************************************************)
EXTENDS Naturals, FiniteSets

CONSTANTS
    Threads,           \* threads that call loc_sync_send_req
    Handles,           \* open locClient handles
    IndIds,            \* indication ids that are waited for
    BufferSize,        \* LOC_SYNC_REQ_BUFFER_SIZE (8 in the code)
    MaxCalls,          \* bound: calls made by one thread
    SpuriousWakeups,   \* may pthread_cond_timedwait return 0 unsignalled?
    NoHandle,          \* LOC_CLIENT_INVALID_HANDLE_VALUE
    NoInd,             \* recv_ind_id of a free slot (0)
    NoPtr,             \* a NULL payload pointer
    NoPayload,         \* a buffer nothing was copied to
    NoScan             \* loc_sync_process_ind is not running

ASSUME BufferAssumption == BufferSize \in Nat \ {0}
ASSUME CallsAssumption  == MaxCalls \in Nat
ASSUME SpuriousAssumption == SpuriousWakeups \in BOOLEAN
ASSUME NullAssumption ==
    /\ NoHandle \notin Handles
    /\ NoInd \notin IndIds
    /\ NoPtr \notin Threads

\* The size of the buffer is the only bound on the number of callers in progress.
Slots == 1..BufferSize

VARIABLES
    in_use,       \* loc_sync_array.in_use
    slot_in_use,  \* loc_sync_array.slot_in_use
    slots,        \* loc_sync_array.slots: the fields somebody reads
    signalled,    \* slots whose condition variable was signalled, not yet woken
    scan,         \* the running loc_sync_process_ind, or NoScan
    net,          \* indications the engine has sent and nobody has processed
    pc,           \* where each thread is in loc_sync_send_req
    call,         \* the arguments of a thread's current or last call
    calls,        \* how many calls a thread has made
    sel,          \* select_id; 0 when the buffer was full
    status,       \* the status a thread returns or has returned
    hit,          \* history: an indication has matched this call's slot
    unsignalled,  \* history: threads whose wait has ended for no reason
    buf           \* what *ind_payload_ptr of the current call holds

slotVars   == <<in_use, slot_in_use, slots, signalled>>
threadVars == <<pc, call, calls, sel, status, hit, unsignalled, buf>>
syncVars   == <<slotVars, scan, net, threadVars>>

-----------------------------------------------------------------------------
(* State *)

\* loc_sync_req_data_s_type; ind_is_selected and req_id are written, never read.
\* The pointer names the thread whose buffer it points to.
Slot == [client_handle        : Handles \cup {NoHandle},
         recv_ind_id          : IndIds \cup {NoInd},
         ind_is_waiting       : BOOLEAN,
         ind_has_arrived      : BOOLEAN,
         recv_ind_payload_ptr : Threads \cup {NoPtr}]

FreeSlot == [client_handle        |-> NoHandle,
             recv_ind_id          |-> NoInd,
             ind_is_waiting       |-> FALSE,
             ind_has_arrived      |-> FALSE,
             recv_ind_payload_ptr |-> NoPtr]

\* An indication answers call number nth of thread by; the code sees only the
\* handle and the id.
Indication == [handle : Handles, ind : IndIds, by : Threads, nth : Nat]

Call == [handle : Handles, ind : IndIds, wantsPayload : BOOLEAN]

NoCall == [handle |-> NoHandle, ind |-> NoInd, wantsPayload |-> FALSE]

Scan == [msg : Indication, pos : 1..(BufferSize + 1), consumed : BOOLEAN,
         in_use : BOOLEAN]

ASSUME ScanAssumption == NoScan \notin Scan

PCs == {"idle", "alloc", "select", "send", "wait", "blocked", "free"}

Statuses == {"SUCCESS", "TIMEOUT", "INTERNAL", "SEND_FAILED"}

\* The calls that own a slot.
HoldsSlot(t) == pc[t] \in {"select", "send", "wait", "blocked", "free"}

mutexIsFree == scan = NoScan

-----------------------------------------------------------------------------
(* loc_sync_req_init, and threads that have not called yet. *)
SyncInit ==
    /\ in_use = FALSE
    /\ slot_in_use = [s \in Slots |-> FALSE]
    /\ slots = [s \in Slots |-> FreeSlot]
    /\ signalled = {}
    /\ scan = NoScan
    /\ net = {}
    /\ pc = [t \in Threads |-> "idle"]
    /\ call = [t \in Threads |-> NoCall]
    /\ calls = [t \in Threads |-> 0]
    /\ sel = [t \in Threads |-> 0]
    /\ status = [t \in Threads |-> "INTERNAL"]
    /\ hit = [t \in Threads |-> FALSE]
    /\ unsignalled = {}
    /\ buf = [t \in Threads |-> NoPayload]

-----------------------------------------------------------------------------
(* The calling threads *)

\* Entry of loc_sync_send_req: status starts as eLOC_CLIENT_SUCCESS.
loc_sync_send_req(t, c) ==
    /\ pc[t] = "idle"
    /\ calls[t] < MaxCalls
    /\ pc' = [pc EXCEPT ![t] = "alloc"]
    /\ call' = [call EXCEPT ![t] = c]
    /\ calls' = [calls EXCEPT ![t] = calls[t] + 1]
    /\ status' = [status EXCEPT ![t] = "SUCCESS"]
    /\ sel' = [sel EXCEPT ![t] = 0]
    /\ hit' = [hit EXCEPT ![t] = FALSE]
    /\ unsignalled' = unsignalled \ {t}
    /\ buf' = [buf EXCEPT ![t] = NoPayload]
    /\ UNCHANGED <<slotVars, scan, net>>

\* The lowest free slot; a full buffer makes loc_sync_send_req return at once
\* with the status it started with.
loc_alloc_slot(t) ==
    /\ pc[t] = "alloc"
    /\ mutexIsFree
    /\ \/ \E s \in Slots :
             /\ ~slot_in_use[s]
             /\ \A r \in Slots : r < s => slot_in_use[r]
             /\ slot_in_use' = [slot_in_use EXCEPT ![s] = TRUE]
             /\ in_use' = TRUE
             /\ sel' = [sel EXCEPT ![t] = s]
             /\ pc' = [pc EXCEPT ![t] = "select"]
       \/ /\ \A s \in Slots : slot_in_use[s]
          /\ pc' = [pc EXCEPT ![t] = "idle"]
          /\ UNCHANGED <<slot_in_use, in_use, sel>>
    /\ UNCHANGED <<slots, signalled, scan, net, call, calls, status, hit, unsignalled, buf>>

\* Under sync_req_lock only: the scan may be running.
loc_sync_select_ind(t) ==
    /\ pc[t] = "select"
    /\ slots' = [slots EXCEPT ![sel[t]] =
                   [client_handle        |-> call[t].handle,
                    recv_ind_id          |-> call[t].ind,
                    ind_is_waiting       |-> FALSE,
                    ind_has_arrived      |-> FALSE,
                    recv_ind_payload_ptr |-> IF call[t].wantsPayload THEN t ELSE NoPtr]]
    /\ pc' = [pc EXCEPT ![t] = "send"]
    /\ UNCHANGED <<in_use, slot_in_use, signalled, scan, net, call, calls, sel, status,
                   hit, unsignalled, buf>>

\* The indication with which the engine answers the current call of t.
Answer(t) == [handle |-> call[t].handle, ind |-> call[t].ind, by |-> t, nth |-> calls[t]]

\* The engine accepts the request, and may answer at any later time or never.
\* A failed send (the acknowledgement timed out, say) may have reached the
\* engine all the same.
locClientSendReq(t) ==
    /\ pc[t] = "send"
    /\ \/ /\ net' = net \cup {Answer(t)}
          /\ pc' = [pc EXCEPT ![t] = "wait"]
          /\ UNCHANGED status
       \/ /\ net' = net \/ net' = net \cup {Answer(t)}
          /\ pc' = [pc EXCEPT ![t] = "free"]
          /\ status' = [status EXCEPT ![t] = "SEND_FAILED"]
    /\ UNCHANGED <<slotVars, scan, call, calls, sel, hit, unsignalled, buf>>

\* Variant: the wait does not look at ind_has_arrived first.
WaitIgnoresArrival(t) ==
    /\ pc[t] = "wait"
    /\ slots' = [slots EXCEPT ![sel[t]].ind_is_waiting = TRUE]
    /\ pc' = [pc EXCEPT ![t] = "blocked"]
    /\ UNCHANGED <<in_use, slot_in_use, signalled, scan, net, call, calls, sel, status,
                   hit, unsignalled, buf>>

\* Up to pthread_cond_timedwait, which releases sync_req_lock.
loc_sync_wait_for_ind(t) ==
    /\ pc[t] = "wait"
    /\ \/ /\ slots[sel[t]].ind_has_arrived \/ slots[sel[t]].ind_is_waiting
          /\ status' = [status EXCEPT ![t] = IF slots[sel[t]].ind_has_arrived
                                             THEN "SUCCESS"
                                             ELSE "INTERNAL"]   \* -EBUSY
          /\ pc' = [pc EXCEPT ![t] = "free"]
          /\ UNCHANGED slots
       \/ /\ ~slots[sel[t]].ind_has_arrived
          /\ ~slots[sel[t]].ind_is_waiting
          /\ slots' = [slots EXCEPT ![sel[t]].ind_is_waiting = TRUE]
          /\ pc' = [pc EXCEPT ![t] = "blocked"]
          /\ UNCHANGED status
    /\ UNCHANGED <<in_use, slot_in_use, signalled, scan, net, call, calls, sel,
                   hit, unsignalled, buf>>

\* pthread_cond_timedwait returns 0: signalled, or for no reason at all.
WakeUp(t) ==
    /\ pc[t] = "blocked"
    /\ sel[t] \in signalled \/ SpuriousWakeups
    /\ slots' = [slots EXCEPT ![sel[t]].ind_is_waiting = FALSE]
    /\ signalled' = signalled \ {sel[t]}
    /\ unsignalled' = IF sel[t] \in signalled THEN unsignalled ELSE unsignalled \cup {t}
    /\ pc' = [pc EXCEPT ![t] = "free"]
    /\ UNCHANGED <<in_use, slot_in_use, scan, net, call, calls, sel, status, hit, buf>>

\* Variant: a timed out wait returns without loc_free_slot.
TimeOutKeepsSlot(t) ==
    /\ pc[t] = "blocked"
    /\ slots' = [slots EXCEPT ![sel[t]].ind_is_waiting = FALSE]
    /\ signalled' = signalled \ {sel[t]}
    /\ status' = [status EXCEPT ![t] = "TIMEOUT"]
    /\ pc' = [pc EXCEPT ![t] = "idle"]
    /\ UNCHANGED <<in_use, slot_in_use, scan, net, call, calls, sel, hit, unsignalled, buf>>

\* Variant: the return code of pthread_cond_timedwait is not looked at.
TimeOutUnnoticed(t) ==
    /\ pc[t] = "blocked"
    /\ slots' = [slots EXCEPT ![sel[t]].ind_is_waiting = FALSE]
    /\ signalled' = signalled \ {sel[t]}
    /\ pc' = [pc EXCEPT ![t] = "free"]
    /\ UNCHANGED <<in_use, slot_in_use, scan, net, call, calls, sel, status,
                   hit, unsignalled, buf>>

\* Variant: pthread_cond_wait in place of pthread_cond_timedwait.
WaitWithoutTimeout(t) == pc[t] = "blocked" /\ FALSE /\ UNCHANGED syncVars

\* It returns ETIMEDOUT, possibly when a signal is on its way.
TimeOut(t) ==
    /\ pc[t] = "blocked"
    /\ slots' = [slots EXCEPT ![sel[t]].ind_is_waiting = FALSE]
    /\ signalled' = signalled \ {sel[t]}
    /\ status' = [status EXCEPT ![t] = "TIMEOUT"]
    /\ pc' = [pc EXCEPT ![t] = "free"]
    /\ UNCHANGED <<in_use, slot_in_use, scan, net, call, calls, sel, hit, unsignalled, buf>>

\* Variant: the slot is released with its handle, id and pointer left in place.
FreeKeepsFields(t) ==
    /\ pc[t] = "free"
    /\ mutexIsFree
    /\ slot_in_use' = [slot_in_use EXCEPT ![sel[t]] = FALSE]
    /\ in_use' = (in_use /\ \E s \in Slots \ {sel[t]} : slot_in_use[s])
    /\ pc' = [pc EXCEPT ![t] = "idle"]
    /\ UNCHANGED <<slots, signalled, scan, net, call, calls, sel, status,
                   hit, unsignalled, buf>>

\* Variant: the array is marked unused although other slots are in use.
FreeClearsInUse(t) ==
    /\ pc[t] = "free"
    /\ mutexIsFree
    /\ slot_in_use' = [slot_in_use EXCEPT ![sel[t]] = FALSE]
    /\ slots' = [slots EXCEPT ![sel[t]] = FreeSlot]
    /\ in_use' = FALSE
    /\ pc' = [pc EXCEPT ![t] = "idle"]
    /\ UNCHANGED <<signalled, scan, net, call, calls, sel, status, hit, unsignalled, buf>>

\* The slot is cleared, and the array is unused when it was the last one.
loc_free_slot(t) ==
    /\ pc[t] = "free"
    /\ mutexIsFree
    /\ slot_in_use' = [slot_in_use EXCEPT ![sel[t]] = FALSE]
    /\ slots' = [slots EXCEPT ![sel[t]] = FreeSlot]
    /\ in_use' = (in_use /\ \E s \in Slots \ {sel[t]} : slot_in_use[s])
    /\ pc' = [pc EXCEPT ![t] = "idle"]
    /\ UNCHANGED <<signalled, scan, net, call, calls, sel, status, hit, unsignalled, buf>>

-----------------------------------------------------------------------------
(* loc_sync_process_ind, on the QMI callback thread *)

\* Variant: the loop starts one slot too early.
ScanStartsBelow(m) ==
    /\ m \in net
    /\ mutexIsFree
    /\ net' = net \ {m}
    /\ scan' = [msg |-> m, pos |-> 0, consumed |-> FALSE, in_use |-> FALSE]
    /\ UNCHANGED <<slotVars, threadVars>>

\* An indication that finds the array unused is dropped.
ProcessIndBegin(m) ==
    /\ m \in net
    /\ mutexIsFree
    /\ net' = net \ {m}
    /\ scan' = IF in_use
               THEN [msg |-> m, pos |-> 1, consumed |-> FALSE, in_use |-> FALSE]
               ELSE NoScan
    /\ UNCHANGED <<slotVars, threadVars>>

\* slot s is the one the indication is for, as far as the code can tell.
Matches(s, m) ==
    /\ slot_in_use[s]
    /\ slots[s].client_handle = m.handle
    /\ slots[s].recv_ind_id = m.ind
    /\ ~slots[s].ind_has_arrived

\* Variant: the loop goes on after the payload has been copied.
ScanNeverConsumes ==
    /\ scan # NoScan
    /\ scan.pos \in Slots
    /\ LET s     == scan.pos
           found == Matches(s, scan.msg)
       IN  /\ scan' = [scan EXCEPT !.pos = s + 1, !.in_use = scan.in_use \/ slot_in_use[s]]
           /\ buf' = [t \in Threads |-> IF found /\ slots[s].recv_ind_payload_ptr = t
                                        THEN scan.msg ELSE buf[t]]
           /\ hit' = [t \in Threads |-> hit[t] \/ (found /\ HoldsSlot(t) /\ sel[t] = s)]
           /\ signalled' = IF found /\ slots[s].ind_is_waiting
                           THEN signalled \cup {s} ELSE signalled
           /\ slots' = IF found /\ ~slots[s].ind_is_waiting
                       THEN [slots EXCEPT ![s].ind_has_arrived = TRUE] ELSE slots
    /\ UNCHANGED <<in_use, slot_in_use, net, pc, call, calls, sel, status, unsignalled>>

\* One turn of the loop, with the slot's lock held.  A waiting thread is signalled, a
\* thread that does not wait yet finds ind_has_arrived.  Only a copied payload ends the
\* loop early.  That there is a payload is tested too, and always so: locClientIndCb passes
\* a buffer of the size of the indication (loc_api_v02_client.cpp:1130-1142).
ProcessIndSlot ==
    /\ scan # NoScan
    /\ scan.pos \in Slots
    /\ ~scan.consumed
    /\ LET s     == scan.pos
           m     == scan.msg
           ptr   == slots[s].recv_ind_payload_ptr
           found == Matches(s, m)
       IN  /\ scan' = [msg |-> m, pos |-> s + 1, consumed |-> found /\ ptr # NoPtr,
                       in_use |-> scan.in_use \/ slot_in_use[s]]
           /\ buf' = [t \in Threads |-> IF found /\ ptr = t THEN m ELSE buf[t]]
           /\ hit' = [t \in Threads |-> hit[t] \/ (found /\ HoldsSlot(t) /\ sel[t] = s)]
           /\ signalled' = IF found /\ slots[s].ind_is_waiting
                           THEN signalled \cup {s} ELSE signalled
           /\ slots' = IF found /\ ~slots[s].ind_is_waiting
                       THEN [slots EXCEPT ![s].ind_has_arrived = TRUE] ELSE slots
    /\ UNCHANGED <<in_use, slot_in_use, net, pc, call, calls, sel, status, unsignalled>>

ProcessIndEnd ==
    /\ scan # NoScan
    /\ scan.consumed \/ scan.pos \notin Slots
    /\ in_use' = (in_use /\ scan.in_use)
    /\ scan' = NoScan
    /\ UNCHANGED <<slot_in_use, slots, signalled, net, threadVars>>

-----------------------------------------------------------------------------
ThreadStep(t) ==
    \/ loc_alloc_slot(t)
    \/ loc_sync_select_ind(t)
    \/ locClientSendReq(t)
    \/ loc_sync_wait_for_ind(t)
    \/ WakeUp(t)
    \/ TimeOut(t)
    \/ loc_free_slot(t)

SyncNext ==
    \/ \E t \in Threads : ThreadStep(t) \/ \E c \in Call : loc_sync_send_req(t, c)
    \/ \E m \in net : ProcessIndBegin(m)
    \/ ProcessIndSlot
    \/ ProcessIndEnd

SyncSpec == SyncInit /\ [][SyncNext]_syncVars

\* A thread in a call runs on, a wait ends at its timeout at the latest, and a
\* scan that has begun is finished by the callback thread.
Fairness ==
    /\ \A t \in Threads : WF_syncVars(ThreadStep(t))
    /\ WF_syncVars(ProcessIndSlot \/ ProcessIndEnd)

SyncFairSpec == SyncSpec /\ Fairness

-----------------------------------------------------------------------------
(* Properties *)

SyncTypeOK ==
    /\ in_use \in BOOLEAN
    /\ slot_in_use \in [Slots -> BOOLEAN]
    /\ slots \in [Slots -> Slot]
    /\ signalled \subseteq Slots
    /\ scan \in Scan \cup {NoScan}
    /\ net \subseteq Indication
    /\ pc \in [Threads -> PCs]
    /\ call \in [Threads -> Call \cup {NoCall}]
    /\ \A t \in Threads : pc[t] # "idle" => call[t] \in Call
    /\ calls \in [Threads -> Nat]
    /\ sel \in [Threads -> Slots \cup {0}]
    /\ status \in [Threads -> Statuses]
    /\ hit \in [Threads -> BOOLEAN]
    /\ unsignalled \subseteq Threads
    /\ buf \in [Threads -> Indication \cup {NoPayload}]

\* A slot belongs to at most one call and a slot that is in use belongs to one.
SlotOwnership ==
    /\ \A t \in Threads : HoldsSlot(t) => sel[t] \in Slots /\ slot_in_use[sel[t]]
    /\ \A t, u \in Threads :
          HoldsSlot(t) /\ HoldsSlot(u) /\ sel[t] = sel[u] => t = u
    /\ \A s \in Slots : slot_in_use[s] => \E t \in Threads : HoldsSlot(t) /\ sel[t] = s

\* in_use, which makes loc_sync_process_ind drop an indication unseen, says exactly whether
\* some slot is in use, in the middle of a scan too.
InUseIsExact == in_use <=> \E s \in Slots : slot_in_use[s]

\* loc_alloc_slot never hands out a slot whose owner has not been through loc_free_slot, no
\* path leaks a slot, and a scan that ran meanwhile does not make the array look unused.
SlotsAreAccountedFor == SlotOwnership /\ InUseIsExact

\* No wakeup is lost: once an indication has matched a call's slot, the call
\* has ind_has_arrived before it when it has not started to wait, and a signal
\* pending when it sleeps.
NoLostWakeup ==
    \A t \in Threads :
        /\ hit[t] /\ pc[t] \in {"send", "wait"} => slots[sel[t]].ind_has_arrived
        /\ hit[t] /\ pc[t] = "blocked" => sel[t] \in signalled

\* The payload of one indication is copied to one caller: loc_sync_process_ind stops at the
\* first slot that takes it.
PayloadGoesToOneCaller ==
    \A t, u \in Threads : buf[t] # NoPayload /\ buf[t] = buf[u] => t = u

\* A caller's buffer holds an indication of the id it asked for, on its own handle.
PayloadIsOfTheKindAskedFor ==
    \A t \in Threads : buf[t] # NoPayload =>
        buf[t].handle = call[t].handle /\ buf[t].ind = call[t].ind

\* A payload reaches one caller, one that asked for its id on its handle, whatever the slot
\* held before and however late the indication is (loc_sync_process_ind).
PayloadsAreDelivered == PayloadGoesToOneCaller /\ PayloadIsOfTheKindAskedFor

\* memcpy never writes through a pointer whose owner has returned: buffers are
\* on the callers' stacks.
NoWriteAfterReturn ==
    [][\A t \in Threads : pc[t] = "idle" /\ pc'[t] = "idle" => buf'[t] = buf[t]]_syncVars

\* A call that got a slot and has waited for its answer.
HasSucceeded(t) == status[t] = "SUCCESS" /\ pc[t] \in {"free", "idle"} /\ sel[t] # 0

\* A call that got a slot and returns eLOC_CLIENT_SUCCESS was matched by an indication,
\* unless pthread_cond_timedwait returned for no reason (loc_api_sync_req.cpp:418-450).
SuccessWasAnswered == \A t \in Threads : HasSucceeded(t) => hit[t] \/ t \in unsignalled

\* A thread is woken "to check it" (loc_api_sync_req.cpp:205), so however its wait ended a
\* call that returns eLOC_CLIENT_SUCCESS has an answer.
SuccessWasChecked == \A t \in Threads : HasSucceeded(t) => hit[t]

\* eLOC_CLIENT_SUCCESS, "Request was successful" (loc_api_v02_client.h), is
\* returned only for a request that was given a slot and sent.
SuccessWasSent ==
    \A t \in Threads : status[t] = "SUCCESS" /\ pc[t] = "idle" => sel[t] # 0

\* Every call of loc_sync_send_req returns.
EveryCallReturns == \A t \in Threads : pc[t] # "idle" ~> pc[t] = "idle"

-----------------------------------------------------------------------------
(* The abstract calls *)

PhaseOf(p) ==
    CASE p = "idle" -> "idle"
      [] p \in {"alloc", "select", "send"} -> "asking"
      [] p \in {"wait", "blocked"} -> "waiting"
      [] p = "free" -> "ending"

\* What a scan holds until it has handed it over.
Scanned == IF scan = NoScan \/ scan.consumed THEN {} ELSE {scan.msg}

Calls == INSTANCE SyncCalls WITH
             phase <- [t \in Threads |-> PhaseOf(pc[t])],
             request <- call, count <- calls, answered <- hit, payload <- buf,
             result <- status, outstanding <- net \cup Scanned, NoRequest <- NoCall

\* The slots implement the abstract calls: however the scan interleaves with calls that
\* begin, time out and return, an indication is given to one caller that is still there, and
\* is never dropped while its own call waits unanswered (loc_sync_process_ind).
CallsAreServed == Calls!CallSpec
=============================================================================
