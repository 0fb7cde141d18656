--------------------------- MODULE SyncReqProofs ---------------------------
(***************************************************************************)
(* Proofs about SyncReq for any number of threads, handles, ids, slots and *)
(* calls: its invariants, and that it implements SyncCalls.                *)
(***************************************************************************)
EXTENDS SyncReq, TLAPS

(* The inductive invariant, part by part. *)

\* The call is past loc_sync_select_ind and its slot carries its arguments.
Selected(t) == pc[t] \in {"send", "wait", "blocked", "free"}

\* What the fields of a slot say about its owner.
SlotContents ==
    /\ \A t \in Threads : pc[t] = "alloc" => sel[t] = 0
    /\ \A s \in Slots : ~slot_in_use[s] => slots[s] = FreeSlot
    /\ \A t \in Threads : pc[t] = "select" => slots[sel[t]] = FreeSlot
    /\ \A t \in Threads : Selected(t) =>
          /\ slots[sel[t]].client_handle = call[t].handle
          /\ slots[sel[t]].recv_ind_id = call[t].ind
          /\ slots[sel[t]].recv_ind_payload_ptr = IF call[t].wantsPayload THEN t ELSE NoPtr
          /\ slots[sel[t]].ind_is_waiting <=> pc[t] = "blocked"

\* A signal is pending only for a sleeping thread, ind_has_arrived and hit agree.
Wakeups ==
    /\ \A s \in signalled : \E t \in Threads : pc[t] = "blocked" /\ sel[t] = s
    /\ \A t \in Threads : pc[t] \in {"alloc", "select"} => ~hit[t]
    /\ \A t \in Threads : Selected(t) /\ slots[sel[t]].ind_has_arrived => hit[t]
    /\ \A t \in Threads : pc[t] = "blocked" /\ sel[t] \in signalled => hit[t]

\* What the scan knows about the slots it has passed; slot_in_use does not
\* change while it holds loc_sync_call_mutex.
ScanCounts ==
    scan # NoScan =>
        /\ scan.in_use <=> \E s \in Slots : s < scan.pos /\ slot_in_use[s]
        /\ scan.consumed => scan.in_use

\* The indication m answers a request that has been sent.
WasSent(m) ==
    /\ m.nth \leq calls[m.by]
    /\ m.nth = calls[m.by] => pc[m.by] \in {"wait", "blocked", "free", "idle"}

\* An indication is in one place: on its way, in the scan or in a buffer.
IndicationsAreUnique ==
    /\ \A m \in net : WasSent(m)
    /\ \A m \in net : scan # NoScan => scan.msg # m
    /\ \A m \in net, t \in Threads : buf[t] # NoPayload => buf[t] # m
    /\ scan # NoScan => WasSent(scan.msg)
    /\ scan # NoScan /\ ~scan.consumed =>
          \A t \in Threads : buf[t] # NoPayload => buf[t] # scan.msg
    /\ \A t \in Threads : buf[t] # NoPayload => WasSent(buf[t])

Payloads ==
    /\ PayloadIsOfTheKindAskedFor
    /\ IndicationsAreUnique
    /\ PayloadGoesToOneCaller

IInv ==
    /\ SyncTypeOK
    /\ SlotOwnership
    /\ SlotContents
    /\ ScanCounts
    /\ InUseIsExact
    /\ Wakeups
    /\ NoLostWakeup
    /\ Payloads

-----------------------------------------------------------------------------
(* Type correctness *)

LEMMA FreeSlotType == FreeSlot \in Slot
  BY DEF FreeSlot, Slot

LEMMA SlotUpdateType ==
  ASSUME NEW f \in [Slots -> Slot], NEW s, NEW b \in BOOLEAN
  PROVE  /\ [f EXCEPT ![s].ind_is_waiting = b] \in [Slots -> Slot]
         /\ [f EXCEPT ![s].ind_has_arrived = b] \in [Slots -> Slot]
  BY ZenonT(30) DEF Slot

LEMMA InitType == SyncInit => SyncTypeOK
<1> SUFFICES ASSUME SyncInit PROVE SyncTypeOK
  OBVIOUS
<1>1. slots \in [Slots -> Slot]
  BY FreeSlotType DEF SyncInit
<1>2. call \in [Threads -> Call \cup {NoCall}]
  BY DEF SyncInit
<1>3. sel \in [Threads -> Slots \cup {0}] /\ slot_in_use \in [Slots -> BOOLEAN]
  BY DEF SyncInit
<1>4. pc \in [Threads -> PCs] /\ status \in [Threads -> Statuses]
  BY DEF SyncInit, PCs, Statuses
<1>5. calls \in [Threads -> Nat] /\ hit \in [Threads -> BOOLEAN]
  BY DEF SyncInit
<1>6. buf \in [Threads -> Indication \cup {NoPayload}]
  BY DEF SyncInit
<1> QED
  BY <1>1, <1>2, <1>3, <1>4, <1>5, <1>6 DEF SyncInit, SyncTypeOK

LEMMA NextType == SyncTypeOK /\ [SyncNext]_syncVars => SyncTypeOK'
<1> SUFFICES ASSUME SyncTypeOK, [SyncNext]_syncVars PROVE SyncTypeOK'
  OBVIOUS
<1> USE DEF SyncTypeOK
<1>1. ASSUME NEW t \in Threads, NEW c \in Call, loc_sync_send_req(t, c) PROVE SyncTypeOK'
  BY <1>1 DEF loc_sync_send_req, slotVars, PCs, Statuses
<1>2. ASSUME NEW t \in Threads, loc_alloc_slot(t) PROVE SyncTypeOK'
  <2>1. slot_in_use' \in [Slots -> BOOLEAN] /\ in_use' \in BOOLEAN
    BY <1>2 DEF loc_alloc_slot
  <2>2. sel' \in [Threads -> Slots \cup {0}] /\ pc' \in [Threads -> PCs]
    BY <1>2 DEF loc_alloc_slot, PCs
  <2>3. \A u \in Threads : pc'[u] # "idle" => call'[u] \in Call
    BY <1>2 DEF loc_alloc_slot, PCs
  <2> QED BY <1>2, <2>1, <2>2, <2>3 DEF loc_alloc_slot
<1>3. ASSUME NEW t \in Threads, loc_sync_select_ind(t) PROVE SyncTypeOK'
  <2>1. call[t].handle \in Handles \cup {NoHandle} /\ call[t].ind \in IndIds \cup {NoInd}
    BY DEF Call, NoCall
  <2>2. slots' \in [Slots -> Slot]
    BY <1>3, <2>1 DEF loc_sync_select_ind, Slot
  <2> QED BY <1>3, <2>2 DEF loc_sync_select_ind, PCs
<1>4. ASSUME NEW t \in Threads, locClientSendReq(t) PROVE SyncTypeOK'
  <2>1. Answer(t) \in Indication
    BY <1>4 DEF locClientSendReq, Call, Indication, Answer
  <2>2. net' = net \/ net' = net \cup {Answer(t)}
    BY <1>4 DEF locClientSendReq
  <2>3. net' \subseteq Indication
    BY <2>1, <2>2
  <2> QED BY <1>4, <2>3 DEF locClientSendReq, slotVars, PCs, Statuses
<1>5. ASSUME NEW t \in Threads, loc_sync_wait_for_ind(t) PROVE SyncTypeOK'
  <2>1. slots' = slots \/ slots' = [slots EXCEPT ![sel[t]].ind_is_waiting = TRUE]
    BY <1>5 DEF loc_sync_wait_for_ind
  <2>2. slots' \in [Slots -> Slot]
    <3>1. CASE slots' = slots
      BY <3>1
    <3>2. CASE slots' = [slots EXCEPT ![sel[t]].ind_is_waiting = TRUE]
      BY <3>2, SlotUpdateType
    <3> QED BY <2>1, <3>1, <3>2
  <2>3. pc' \in [Threads -> PCs] /\ status' \in [Threads -> Statuses]
    BY <1>5 DEF loc_sync_wait_for_ind, PCs, Statuses
  <2>4. \A u \in Threads : pc'[u] # "idle" => call'[u] \in Call
    BY <1>5 DEF loc_sync_wait_for_ind
  <2> QED BY <1>5, <2>2, <2>3, <2>4 DEF loc_sync_wait_for_ind
<1>6. ASSUME NEW t \in Threads, WakeUp(t) PROVE SyncTypeOK'
  <2>1. slots' \in [Slots -> Slot]
    BY <1>6, SlotUpdateType DEF WakeUp
  <2> QED BY <1>6, <2>1 DEF WakeUp, PCs
<1>7. ASSUME NEW t \in Threads, TimeOut(t) PROVE SyncTypeOK'
  <2>1. slots' \in [Slots -> Slot]
    BY <1>7, SlotUpdateType DEF TimeOut
  <2> QED BY <1>7, <2>1 DEF TimeOut, PCs, Statuses
<1>8. ASSUME NEW t \in Threads, loc_free_slot(t) PROVE SyncTypeOK'
  BY <1>8, FreeSlotType DEF loc_free_slot, PCs
<1>9. ASSUME NEW m \in net, ProcessIndBegin(m) PROVE SyncTypeOK'
  <2>1. scan' \in Scan \cup {NoScan}
    BY <1>9, BufferAssumption DEF ProcessIndBegin, Scan
  <2> QED BY <1>9, <2>1 DEF ProcessIndBegin, slotVars, threadVars
<1>10. ASSUME ProcessIndSlot PROVE SyncTypeOK'
  <2>1. scan \in Scan /\ scan.pos \in Slots /\ scan.msg \in Indication
    BY <1>10 DEF ProcessIndSlot, Scan
  <2>2. scan.pos + 1 \in 1..(BufferSize + 1)
    BY <2>1, BufferAssumption DEF Slots
  <2>3. scan' \in Scan
    BY <1>10, <2>1, <2>2 DEF ProcessIndSlot, Scan
  <2>4. slots' \in [Slots -> Slot]
    BY <1>10, SlotUpdateType DEF ProcessIndSlot
  <2>5. buf' \in [Threads -> Indication \cup {NoPayload}]
    BY <1>10, <2>1 DEF ProcessIndSlot
  <2>6. hit' \in [Threads -> BOOLEAN] /\ signalled' \subseteq Slots
    BY <1>10, <2>1 DEF ProcessIndSlot
  <2> QED BY <1>10, <2>3, <2>4, <2>5, <2>6 DEF ProcessIndSlot
<1>11. ASSUME ProcessIndEnd PROVE SyncTypeOK'
  BY <1>11 DEF ProcessIndEnd, threadVars
<1>12. ASSUME UNCHANGED syncVars PROVE SyncTypeOK'
  BY <1>12 DEF syncVars, slotVars, threadVars
<1> QED
  BY <1>1, <1>2, <1>3, <1>4, <1>5, <1>6, <1>7, <1>8, <1>9, <1>10, <1>11, <1>12
  DEF SyncNext, ThreadStep

\* The type invariant of the slots, the scan and the callers.
THEOREM TypeCorrect == SyncSpec => []SyncTypeOK
  BY InitType, NextType, PTL DEF SyncSpec

-----------------------------------------------------------------------------
(* Safety *)

LEMMA NextOwnership == SyncTypeOK /\ SlotOwnership /\ [SyncNext]_syncVars => SlotOwnership'
<1> SUFFICES ASSUME SyncTypeOK, SlotOwnership, [SyncNext]_syncVars PROVE SlotOwnership'
  OBVIOUS
<1> USE DEF SyncTypeOK, SlotOwnership, HoldsSlot
<1>1. ASSUME NEW t \in Threads, NEW c \in Call, loc_sync_send_req(t, c) PROVE SlotOwnership'
  BY <1>1 DEF loc_sync_send_req, slotVars
<1>2. ASSUME NEW t \in Threads, loc_alloc_slot(t) PROVE SlotOwnership'
  <2>1. CASE pc' = [pc EXCEPT ![t] = "idle"] /\ UNCHANGED <<slot_in_use, sel>>
    BY <1>2, <2>1 DEF loc_alloc_slot
  <2>2. ASSUME NEW s \in Slots, ~slot_in_use[s],
               slot_in_use' = [slot_in_use EXCEPT ![s] = TRUE],
               sel' = [sel EXCEPT ![t] = s], pc' = [pc EXCEPT ![t] = "select"]
        PROVE  SlotOwnership'
    <3>1. HoldsSlot(t)' /\ sel'[t] = s /\ slot_in_use'[s]
      BY <2>2
    <3>2. ASSUME NEW u \in Threads, u # t
          PROVE  /\ HoldsSlot(u)' <=> HoldsSlot(u)
                 /\ sel'[u] = sel[u]
                 /\ HoldsSlot(u) => sel[u] # s
      BY <2>2, <3>2
    <3>3. \A r \in Slots : r # s => slot_in_use'[r] = slot_in_use[r]
      BY <2>2
    <3>4. ASSUME NEW u \in Threads, HoldsSlot(u)'
          PROVE  sel'[u] \in Slots /\ slot_in_use'[sel'[u]]
      BY <3>1, <3>2, <3>3, <3>4
    <3>5. ASSUME NEW u \in Threads, NEW w \in Threads, HoldsSlot(u)', HoldsSlot(w)',
                 sel'[u] = sel'[w]
          PROVE  u = w
      BY <3>1, <3>2, <3>5
    <3>6. ASSUME NEW r \in Slots, slot_in_use'[r]
          PROVE  \E u \in Threads : HoldsSlot(u)' /\ sel'[u] = r
      <4>1. CASE r = s
        BY <3>1, <4>1
      <4>2. CASE r # s
        <5>1. PICK u \in Threads : HoldsSlot(u) /\ sel[u] = r
          BY <3>3, <3>6, <4>2
        <5>2. u # t
          BY <1>2, <5>1 DEF loc_alloc_slot
        <5> QED BY <3>2, <5>1, <5>2
      <4> QED BY <4>1, <4>2
    <3> QED BY <3>4, <3>5, <3>6
  <2> QED BY <1>2, <2>1, <2>2 DEF loc_alloc_slot
<1>3. ASSUME NEW t \in Threads, loc_sync_select_ind(t) PROVE SlotOwnership'
  BY <1>3 DEF loc_sync_select_ind
<1>4. ASSUME NEW t \in Threads, locClientSendReq(t) PROVE SlotOwnership'
  BY <1>4 DEF locClientSendReq, slotVars
<1>5. ASSUME NEW t \in Threads, loc_sync_wait_for_ind(t) PROVE SlotOwnership'
  BY <1>5 DEF loc_sync_wait_for_ind
<1>6. ASSUME NEW t \in Threads, WakeUp(t) PROVE SlotOwnership'
  BY <1>6 DEF WakeUp
<1>7. ASSUME NEW t \in Threads, TimeOut(t) PROVE SlotOwnership'
  BY <1>7 DEF TimeOut
<1>8. ASSUME NEW t \in Threads, loc_free_slot(t) PROVE SlotOwnership'
  BY <1>8 DEF loc_free_slot
<1>9. ASSUME NEW m \in net, ProcessIndBegin(m) PROVE SlotOwnership'
  BY <1>9 DEF ProcessIndBegin, slotVars, threadVars
<1>10. ASSUME ProcessIndSlot PROVE SlotOwnership'
  BY <1>10 DEF ProcessIndSlot
<1>11. ASSUME ProcessIndEnd PROVE SlotOwnership'
  BY <1>11 DEF ProcessIndEnd, threadVars
<1>12. ASSUME UNCHANGED syncVars PROVE SlotOwnership'
  BY <1>12 DEF syncVars, slotVars, threadVars
<1> QED
  BY <1>1, <1>2, <1>3, <1>4, <1>5, <1>6, <1>7, <1>8, <1>9, <1>10, <1>11, <1>12
  DEF SyncNext, ThreadStep

LEMMA NextInUse == SyncTypeOK /\ SlotOwnership /\ ScanCounts /\ InUseIsExact /\ [SyncNext]_syncVars => (ScanCounts /\ InUseIsExact)'
<1> SUFFICES ASSUME SyncTypeOK, SlotOwnership, ScanCounts, InUseIsExact, [SyncNext]_syncVars PROVE (ScanCounts /\ InUseIsExact)'
  OBVIOUS
<1> USE DEF ScanCounts, InUseIsExact, mutexIsFree, SyncTypeOK
<1>1. ASSUME NEW t \in Threads, NEW c \in Call, loc_sync_send_req(t, c) PROVE (ScanCounts /\ InUseIsExact)'
  BY <1>1 DEF loc_sync_send_req, slotVars
<1>2. ASSUME NEW t \in Threads, loc_alloc_slot(t) PROVE (ScanCounts /\ InUseIsExact)'
  BY <1>2 DEF loc_alloc_slot
<1>3. ASSUME NEW t \in Threads, loc_sync_select_ind(t) PROVE (ScanCounts /\ InUseIsExact)'
  BY <1>3 DEF loc_sync_select_ind
<1>4. ASSUME NEW t \in Threads, locClientSendReq(t) PROVE (ScanCounts /\ InUseIsExact)'
  BY <1>4 DEF locClientSendReq, slotVars
<1>5. ASSUME NEW t \in Threads, loc_sync_wait_for_ind(t) PROVE (ScanCounts /\ InUseIsExact)'
  BY <1>5 DEF loc_sync_wait_for_ind
<1>6. ASSUME NEW t \in Threads, WakeUp(t) PROVE (ScanCounts /\ InUseIsExact)'
  BY <1>6 DEF WakeUp
<1>7. ASSUME NEW t \in Threads, TimeOut(t) PROVE (ScanCounts /\ InUseIsExact)'
  BY <1>7 DEF TimeOut
<1>8. ASSUME NEW t \in Threads, loc_free_slot(t) PROVE (ScanCounts /\ InUseIsExact)'
  BY <1>8 DEF loc_free_slot
<1>9. ASSUME NEW m \in net, ProcessIndBegin(m) PROVE (ScanCounts /\ InUseIsExact)'
  <2>1. CASE in_use
    <3>1. scan' = [msg |-> m, pos |-> 1, consumed |-> FALSE, in_use |-> FALSE]
      BY <1>9, <2>1 DEF ProcessIndBegin
    <3>2. \A s \in Slots : ~(s < 1)
      BY BufferAssumption DEF Slots
    <3> QED BY <1>9, <3>1, <3>2 DEF ProcessIndBegin, slotVars
  <2>2. CASE ~in_use
    BY <1>9, <2>2 DEF ProcessIndBegin, slotVars
  <2> QED BY <2>1, <2>2
<1>10. ASSUME ProcessIndSlot PROVE (ScanCounts /\ InUseIsExact)'
  <2>1. scan # NoScan /\ scan.pos \in Slots /\ slot_in_use' = slot_in_use /\ in_use' = in_use
    BY <1>10 DEF ProcessIndSlot
  <2>2. scan'.pos = scan.pos + 1 /\ (scan'.in_use <=> scan.in_use \/ slot_in_use[scan.pos])
    BY <1>10 DEF ProcessIndSlot
  <2>3. scan'.consumed => slot_in_use[scan.pos]
    BY <1>10 DEF ProcessIndSlot, Matches
  <2>4. \A s \in Slots : s < scan.pos + 1 <=> s < scan.pos \/ s = scan.pos
    BY <2>1 DEF Slots
  <2> QED BY <2>1, <2>2, <2>3, <2>4
<1>11. ASSUME ProcessIndEnd PROVE (ScanCounts /\ InUseIsExact)'
  <2>1. scan # NoScan /\ scan' = NoScan /\ slot_in_use' = slot_in_use
    BY <1>11 DEF ProcessIndEnd
  <2>2. in_use' <=> in_use /\ scan.in_use
    BY <1>11 DEF ProcessIndEnd
  <2>3. scan.consumed \/ scan.pos = BufferSize + 1
    BY <1>11, BufferAssumption DEF ProcessIndEnd, Scan, Slots
  <2>4. scan.pos = BufferSize + 1 => \A s \in Slots : s < scan.pos
    BY BufferAssumption DEF Slots
  <2> QED BY <2>1, <2>2, <2>3, <2>4
<1>12. ASSUME UNCHANGED syncVars PROVE (ScanCounts /\ InUseIsExact)'
  BY <1>12 DEF syncVars, slotVars, threadVars
<1> QED
  BY <1>1, <1>2, <1>3, <1>4, <1>5, <1>6, <1>7, <1>8, <1>9, <1>10, <1>11, <1>12
  DEF SyncNext, ThreadStep

LEMMA NextContents == SyncTypeOK /\ SlotOwnership /\ SlotContents /\ [SyncNext]_syncVars => SlotContents'
<1> SUFFICES ASSUME SyncTypeOK, SlotOwnership, SlotContents, [SyncNext]_syncVars PROVE SlotContents'
  OBVIOUS
<1> USE DEF SyncTypeOK, SlotOwnership, HoldsSlot, Selected, SlotContents
<1>1. ASSUME NEW t \in Threads, NEW c \in Call, loc_sync_send_req(t, c) PROVE SlotContents'
  BY <1>1 DEF loc_sync_send_req, slotVars
<1>2. ASSUME NEW t \in Threads, loc_alloc_slot(t) PROVE SlotContents'
  BY <1>2 DEF loc_alloc_slot
<1>3. ASSUME NEW t \in Threads, loc_sync_select_ind(t) PROVE SlotContents'
  BY <1>3 DEF loc_sync_select_ind
<1>4. ASSUME NEW t \in Threads, locClientSendReq(t) PROVE SlotContents'
  BY <1>4 DEF locClientSendReq, slotVars
<1>5. ASSUME NEW t \in Threads, loc_sync_wait_for_ind(t) PROVE SlotContents'
  <2>1. sel[t] \in Slots /\ \A u \in Threads : u # t /\ HoldsSlot(u) => sel[u] # sel[t]
    BY <1>5 DEF loc_sync_wait_for_ind
  <2>2. CASE slots' = slots /\ pc' = [pc EXCEPT ![t] = "free"] /\ slots[sel[t]].ind_has_arrived
    BY <1>5, <2>2 DEF loc_sync_wait_for_ind
  <2>3. CASE slots' = [slots EXCEPT ![sel[t]].ind_is_waiting = TRUE] /\ pc' = [pc EXCEPT ![t] = "blocked"]
    <3>1. \A s \in Slots : s # sel[t] => slots'[s] = slots[s]
      BY <2>3
    <3>2. /\ slots'[sel[t]].client_handle = slots[sel[t]].client_handle
          /\ slots'[sel[t]].recv_ind_id = slots[sel[t]].recv_ind_id
          /\ slots'[sel[t]].recv_ind_payload_ptr = slots[sel[t]].recv_ind_payload_ptr
          /\ slots'[sel[t]].ind_is_waiting
      BY <2>1, <2>3 DEF Slot
    <3> QED BY <1>5, <2>1, <2>3, <3>1, <3>2 DEF loc_sync_wait_for_ind
  <2> QED BY <1>5, <2>2, <2>3 DEF loc_sync_wait_for_ind
<1>6. ASSUME NEW t \in Threads, WakeUp(t) PROVE SlotContents'
  BY <1>6 DEF WakeUp
<1>7. ASSUME NEW t \in Threads, TimeOut(t) PROVE SlotContents'
  BY <1>7 DEF TimeOut
<1>8. ASSUME NEW t \in Threads, loc_free_slot(t) PROVE SlotContents'
  BY <1>8 DEF loc_free_slot
<1>9. ASSUME NEW m \in net, ProcessIndBegin(m) PROVE SlotContents'
  BY <1>9 DEF ProcessIndBegin, slotVars, threadVars
<1>10. ASSUME ProcessIndSlot PROVE SlotContents'
  <2>1. scan \in Scan /\ scan.pos \in Slots /\ scan.msg \in Indication
    BY <1>10 DEF ProcessIndSlot, Scan
  <2>2. \A s \in Slots : /\ slots'[s].client_handle = slots[s].client_handle
                         /\ slots'[s].recv_ind_id = slots[s].recv_ind_id
                         /\ slots'[s].recv_ind_payload_ptr = slots[s].recv_ind_payload_ptr
                         /\ slots'[s].ind_is_waiting = slots[s].ind_is_waiting
    BY <1>10, <2>1 DEF ProcessIndSlot, Slot
  <2>3. \A s \in Slots : slots[s].client_handle = NoHandle => slots'[s] = slots[s]
    BY <1>10, <2>1, NullAssumption DEF ProcessIndSlot, Matches, Indication
  <2>4. FreeSlot.client_handle = NoHandle
    BY DEF FreeSlot
  <2> QED BY <1>10, <2>2, <2>3, <2>4, SMTT(20) DEF ProcessIndSlot
<1>11. ASSUME ProcessIndEnd PROVE SlotContents'
  BY <1>11 DEF ProcessIndEnd, threadVars
<1>12. ASSUME UNCHANGED syncVars PROVE SlotContents'
  BY <1>12 DEF syncVars, slotVars, threadVars
<1> QED
  BY <1>1, <1>2, <1>3, <1>4, <1>5, <1>6, <1>7, <1>8, <1>9, <1>10, <1>11, <1>12
  DEF SyncNext, ThreadStep

LEMMA NextWakeups == SyncTypeOK /\ SlotOwnership /\ SlotContents /\ Wakeups /\ NoLostWakeup /\ [SyncNext]_syncVars => (Wakeups /\ NoLostWakeup)'
<1> SUFFICES ASSUME SyncTypeOK, SlotOwnership, SlotContents, Wakeups, NoLostWakeup, [SyncNext]_syncVars PROVE (Wakeups /\ NoLostWakeup)'
  OBVIOUS
<1> USE DEF SyncTypeOK, SlotOwnership, HoldsSlot, Selected, SlotContents, Wakeups, NoLostWakeup
<1>1. ASSUME NEW t \in Threads, NEW c \in Call, loc_sync_send_req(t, c) PROVE (Wakeups /\ NoLostWakeup)'
  BY <1>1 DEF loc_sync_send_req, slotVars
<1>2. ASSUME NEW t \in Threads, loc_alloc_slot(t) PROVE (Wakeups /\ NoLostWakeup)'
  BY <1>2 DEF loc_alloc_slot
<1>3. ASSUME NEW t \in Threads, loc_sync_select_ind(t) PROVE (Wakeups /\ NoLostWakeup)'
  BY <1>3 DEF loc_sync_select_ind
<1>4. ASSUME NEW t \in Threads, locClientSendReq(t) PROVE (Wakeups /\ NoLostWakeup)'
  BY <1>4 DEF locClientSendReq, slotVars
<1>5. ASSUME NEW t \in Threads, loc_sync_wait_for_ind(t) PROVE (Wakeups /\ NoLostWakeup)'
  <2>1. sel[t] \in Slots /\ \A u \in Threads : u # t /\ HoldsSlot(u) => sel[u] # sel[t]
    BY <1>5 DEF loc_sync_wait_for_ind
  <2>2. CASE slots' = slots /\ pc' = [pc EXCEPT ![t] = "free"]
    BY <1>5, <2>1, <2>2 DEF loc_sync_wait_for_ind
  <2>3. CASE /\ slots' = [slots EXCEPT ![sel[t]].ind_is_waiting = TRUE]
             /\ pc' = [pc EXCEPT ![t] = "blocked"]
             /\ ~slots[sel[t]].ind_has_arrived
    <3>1. \A s \in Slots : slots'[s].ind_has_arrived = slots[s].ind_has_arrived
      BY <2>1, <2>3 DEF Slot
    <3> QED BY <1>5, <2>1, <2>3, <3>1 DEF loc_sync_wait_for_ind
  <2> QED BY <1>5, <2>2, <2>3 DEF loc_sync_wait_for_ind
<1>6. ASSUME NEW t \in Threads, WakeUp(t) PROVE (Wakeups /\ NoLostWakeup)'
  BY <1>6 DEF WakeUp
<1>7. ASSUME NEW t \in Threads, TimeOut(t) PROVE (Wakeups /\ NoLostWakeup)'
  BY <1>7 DEF TimeOut
<1>8. ASSUME NEW t \in Threads, loc_free_slot(t) PROVE (Wakeups /\ NoLostWakeup)'
  BY <1>8 DEF loc_free_slot
<1>9. ASSUME NEW m \in net, ProcessIndBegin(m) PROVE (Wakeups /\ NoLostWakeup)'
  BY <1>9 DEF ProcessIndBegin, slotVars, threadVars
<1>10. ASSUME ProcessIndSlot PROVE (Wakeups /\ NoLostWakeup)'
  <2> DEFINE p == scan.pos
             found == Matches(p, scan.msg)
  <2>1. scan \in Scan /\ p \in Slots /\ scan.msg \in Indication
    BY <1>10 DEF ProcessIndSlot, Scan
  <2>2. \A s \in Slots : slots'[s].ind_has_arrived
                         <=> slots[s].ind_has_arrived \/ (found /\ s = p /\ ~slots[p].ind_is_waiting)
    BY <1>10, <2>1 DEF ProcessIndSlot, Slot
  <2>3. signalled' = IF found /\ slots[p].ind_is_waiting THEN signalled \cup {p} ELSE signalled
    BY <1>10 DEF ProcessIndSlot
  <2>4. \A t \in Threads : hit'[t] <=> hit[t] \/ (found /\ HoldsSlot(t) /\ sel[t] = p)
    BY <1>10 DEF ProcessIndSlot
  <2>5. found => slot_in_use[p] /\ slots[p].client_handle # NoHandle
    BY <2>1, NullAssumption DEF Matches, Indication
  <2>6. FreeSlot.client_handle = NoHandle
    BY DEF FreeSlot
  <2>7. pc' = pc /\ sel' = sel
    BY <1>10 DEF ProcessIndSlot
  <2> HIDE DEF p, found
  <2>8. found => \E t \in Threads : Selected(t) /\ sel[t] = p
    BY <2>1, <2>5, <2>6
  <2>9. Wakeups'
    BY <2>1, <2>2, <2>3, <2>4, <2>5, <2>6, <2>7, <2>8
  <2>10. NoLostWakeup'
    BY <2>1, <2>2, <2>3, <2>4, <2>5, <2>6, <2>7, <2>8
  <2> QED BY <2>9, <2>10
<1>11. ASSUME ProcessIndEnd PROVE (Wakeups /\ NoLostWakeup)'
  BY <1>11 DEF ProcessIndEnd, threadVars
<1>12. ASSUME UNCHANGED syncVars PROVE (Wakeups /\ NoLostWakeup)'
  BY <1>12 DEF syncVars, slotVars, threadVars
<1> QED
  BY <1>1, <1>2, <1>3, <1>4, <1>5, <1>6, <1>7, <1>8, <1>9, <1>10, <1>11, <1>12
  DEF SyncNext, ThreadStep

LEMMA NextPayload == SyncTypeOK /\ SlotOwnership /\ SlotContents /\ Payloads /\ [SyncNext]_syncVars => Payloads'
<1> SUFFICES ASSUME SyncTypeOK, SlotOwnership, SlotContents, Payloads, [SyncNext]_syncVars PROVE Payloads'
  OBVIOUS
<1>a. \A m \in Indication : m.by \in Threads /\ m.nth \in Nat
  BY DEF Indication
<1>b. /\ scan # NoScan => scan.msg \in Indication
      /\ \A t \in Threads : buf[t] # NoPayload => buf[t] \in Indication
  BY DEF SyncTypeOK, Scan
<1> USE DEF SyncTypeOK, SlotOwnership, HoldsSlot, Selected, SlotContents, Payloads, WasSent,
            PayloadIsOfTheKindAskedFor, IndicationsAreUnique, PayloadGoesToOneCaller
<1>1. ASSUME NEW t \in Threads, NEW c \in Call, loc_sync_send_req(t, c) PROVE Payloads'
  <2>1. \A m \in Indication : WasSent(m) => WasSent(m)'
    <3> SUFFICES ASSUME NEW m \in Indication, WasSent(m) PROVE WasSent(m)'
      OBVIOUS
    <3>1. calls[m.by] \in Nat /\ calls'[m.by] \in Nat
      BY <1>1, <1>a DEF loc_sync_send_req
    <3>2. CASE m.by = t
      BY <1>1, <1>a, <3>1, <3>2 DEF loc_sync_send_req
    <3>3. CASE m.by # t
      BY <1>1, <1>a, <3>3 DEF loc_sync_send_req
    <3> QED BY <3>2, <3>3
  <2>2. PayloadIsOfTheKindAskedFor' /\ PayloadGoesToOneCaller'
    BY <1>1 DEF loc_sync_send_req
  <2>3. IndicationsAreUnique'
    <3>1. net' = net /\ scan' = scan /\ \A u \in Threads : buf'[u] # NoPayload => buf'[u] = buf[u]
      BY <1>1 DEF loc_sync_send_req
    <3> HIDE DEF WasSent
    <3> QED BY <1>b, <2>1, <3>1
  <2> QED BY <2>2, <2>3
<1>2. ASSUME NEW t \in Threads, loc_alloc_slot(t) PROVE Payloads'
  <2>1. \A m \in Indication : WasSent(m) => WasSent(m)'
    BY <1>2, <1>a DEF loc_alloc_slot
  <2>2. PayloadIsOfTheKindAskedFor' /\ PayloadGoesToOneCaller'
    BY <1>2 DEF loc_alloc_slot
  <2>3. IndicationsAreUnique'
    BY <1>2, <1>b, <2>1 DEF loc_alloc_slot
  <2> QED BY <2>2, <2>3
<1>3. ASSUME NEW t \in Threads, loc_sync_select_ind(t) PROVE Payloads'
  BY <1>3 DEF loc_sync_select_ind
<1>4. ASSUME NEW t \in Threads, locClientSendReq(t) PROVE Payloads'
  <2>1. \A m \in net : m # Answer(t)
    BY <1>4 DEF locClientSendReq, Answer
  <2>2. scan # NoScan => scan.msg # Answer(t)
    BY <1>4 DEF locClientSendReq, Answer
  <2>3. \A u \in Threads : buf[u] # NoPayload => buf[u] # Answer(t)
    BY <1>4 DEF locClientSendReq, Answer
  <2>4. Answer(t).by = t /\ Answer(t).nth = calls[t]
    BY DEF Answer
  <2>5. calls[t] \in Nat /\ (pc'[t] = "wait" \/ pc'[t] = "free")
    BY <1>4 DEF locClientSendReq
  <2>6. \A u \in Threads : u # t => pc'[u] = pc[u]
    BY <1>4 DEF locClientSendReq
  <2>7. net' = net \/ net' = net \cup {Answer(t)}
    BY <1>4 DEF locClientSendReq
  <2>8. scan' = scan /\ buf' = buf /\ call' = call /\ calls' = calls
    BY <1>4 DEF locClientSendReq
  <2>9. \A m \in Indication : WasSent(m) => WasSent(m)'
    BY <1>4, <1>a, <2>5, <2>6, <2>8 DEF locClientSendReq
  <2>10. \A m \in {Answer(t)} : WasSent(m)'
    BY <2>4, <2>5, <2>8
  <2>11. PayloadIsOfTheKindAskedFor' /\ PayloadGoesToOneCaller'
    BY <2>8
  <2>12. IndicationsAreUnique'
    <3> HIDE DEF WasSent
    <3> QED BY <1>b, <2>1, <2>2, <2>3, <2>7, <2>8, <2>9, <2>10
  <2> QED BY <2>11, <2>12
<1>5. ASSUME NEW t \in Threads, loc_sync_wait_for_ind(t) PROVE Payloads'
  <2>1. \A m \in Indication : WasSent(m) => WasSent(m)'
    BY <1>5, <1>a DEF loc_sync_wait_for_ind
  <2>2. PayloadIsOfTheKindAskedFor' /\ PayloadGoesToOneCaller'
    BY <1>5 DEF loc_sync_wait_for_ind
  <2>3. IndicationsAreUnique'
    BY <1>5, <1>b, <2>1 DEF loc_sync_wait_for_ind
  <2> QED BY <2>2, <2>3
<1>6. ASSUME NEW t \in Threads, WakeUp(t) PROVE Payloads'
  BY <1>6 DEF WakeUp
<1>7. ASSUME NEW t \in Threads, TimeOut(t) PROVE Payloads'
  BY <1>7 DEF TimeOut
<1>8. ASSUME NEW t \in Threads, loc_free_slot(t) PROVE Payloads'
  BY <1>8 DEF loc_free_slot
<1>9. ASSUME NEW m \in net, ProcessIndBegin(m) PROVE Payloads'
  BY <1>9 DEF ProcessIndBegin, slotVars, threadVars
<1>10. ASSUME ProcessIndSlot PROVE Payloads'
  <2> DEFINE p == scan.pos
             found == Matches(p, scan.msg)
             ptr == slots[p].recv_ind_payload_ptr
  <2>1. scan \in Scan /\ p \in Slots /\ scan.msg \in Indication /\ ~scan.consumed /\ scan # NoScan
    BY <1>10 DEF ProcessIndSlot, Scan
  <2>2. /\ scan'.msg = scan.msg
        /\ scan'.consumed <=> found /\ ptr # NoPtr
    BY <1>10 DEF ProcessIndSlot
  <2>3. \A t \in Threads : buf'[t] = IF found /\ ptr = t THEN scan.msg ELSE buf[t]
    BY <1>10 DEF ProcessIndSlot
  <2>4. pc' = pc /\ call' = call /\ calls' = calls /\ net' = net
    BY <1>10 DEF ProcessIndSlot
  <2>5. found => /\ slot_in_use[p] /\ slots[p].client_handle # NoHandle
                 /\ slots[p].client_handle = scan.msg.handle
                 /\ slots[p].recv_ind_id = scan.msg.ind
    BY <2>1, NullAssumption DEF Matches, Indication
  <2>6. FreeSlot.client_handle = NoHandle
    BY DEF FreeSlot
  <2> HIDE DEF p, found
  <2>7. found => \E t \in Threads : Selected(t) /\ sel[t] = p
    BY <2>1, <2>5, <2>6
  <2> HIDE DEF ptr
  <2>8. \A t \in Threads : found /\ ptr = t =>
                             scan.msg.handle = call[t].handle /\ scan.msg.ind = call[t].ind
    BY <2>1, <2>5, <2>7, NullAssumption DEF ptr
  <2>9. PayloadIsOfTheKindAskedFor'
    BY <2>3, <2>4, <2>8
  <2>10. \A m : WasSent(m)' <=> WasSent(m)
    BY <2>4
  <2>11. IndicationsAreUnique'
    BY <2>1, <2>2, <2>3, <2>4, <2>10, NullAssumption
  <2>12. PayloadGoesToOneCaller'
    BY <2>1, <2>2, <2>3, <2>4, NullAssumption
  <2> QED BY <2>9, <2>11, <2>12
<1>11. ASSUME ProcessIndEnd PROVE Payloads'
  BY <1>11 DEF ProcessIndEnd, threadVars
<1>12. ASSUME UNCHANGED syncVars PROVE Payloads'
  BY <1>12 DEF syncVars, slotVars, threadVars
<1> QED
  BY <1>1, <1>2, <1>3, <1>4, <1>5, <1>6, <1>7, <1>8, <1>9, <1>10, <1>11, <1>12
  DEF SyncNext, ThreadStep

LEMMA InitIInv == SyncInit => IInv
<1> SUFFICES ASSUME SyncInit PROVE IInv
  OBVIOUS
<1>1. SyncTypeOK
  BY InitType
<1>2. SlotOwnership /\ InUseIsExact /\ ScanCounts
  BY DEF SyncInit, SlotOwnership, HoldsSlot, InUseIsExact, ScanCounts
<1>3. SlotContents /\ Wakeups /\ NoLostWakeup
  BY DEF SyncInit, SlotContents, Selected, Wakeups, NoLostWakeup
<1>4. Payloads
  BY DEF SyncInit, Payloads, PayloadIsOfTheKindAskedFor, IndicationsAreUnique, PayloadGoesToOneCaller
<1> QED BY <1>1, <1>2, <1>3, <1>4 DEF IInv

\* The inductive invariant holds of the slots, the scan and the callers of
\* loc_sync_send_req.
THEOREM Inductive == SyncSpec => []IInv
<1>1. IInv /\ [SyncNext]_syncVars => IInv'
  BY NextType, NextOwnership, NextContents, NextInUse, NextWakeups, NextPayload DEF IInv
<1> QED BY InitIInv, <1>1, PTL DEF SyncSpec

\* loc_alloc_slot and loc_free_slot: slots have one owner, none is leaked and
\* in_use is exact.
THEOREM SlotsAreOwned == SyncSpec => []SlotsAreAccountedFor
<1>1. IInv => SlotsAreAccountedFor
  BY DEF IInv, SlotsAreAccountedFor
<1> QED BY Inductive, <1>1, PTL

\* loc_sync_wait_for_ind against loc_sync_process_ind: a call whose slot was
\* matched does not sleep without a signal.
THEOREM NoWakeupIsLost == SyncSpec => []NoLostWakeup
<1>1. IInv => NoLostWakeup
  BY DEF IInv
<1> QED BY Inductive, <1>1, PTL

\* loc_sync_process_ind copies a payload to one caller, and to one that asked
\* for that id on that handle.
THEOREM PayloadsAreDeliveredRight == SyncSpec => []PayloadsAreDelivered
<1>1. IInv => PayloadsAreDelivered
  BY DEF IInv, Payloads, PayloadsAreDelivered
<1> QED BY Inductive, <1>1, PTL

\* The memcpy of loc_sync_process_ind never writes to the buffer of a caller
\* that has returned from loc_sync_send_req.
THEOREM BuffersOutliveWrites == SyncSpec => NoWriteAfterReturn
<1> DEFINE Safe == \A t \in Threads : pc[t] = "idle" /\ pc'[t] = "idle" => buf'[t] = buf[t]
<1>1. ASSUME IInv, [SyncNext]_syncVars PROVE [Safe]_syncVars
  <2> USE <1>1 DEF IInv, SyncTypeOK
  <2>1. ASSUME NEW t \in Threads, NEW c \in Call, loc_sync_send_req(t, c) PROVE Safe
    BY <2>1 DEF loc_sync_send_req
  <2>2. ASSUME NEW t \in Threads, ThreadStep(t) PROVE buf' = buf
    BY <2>2 DEF ThreadStep, loc_alloc_slot, loc_sync_select_ind, locClientSendReq,
                loc_sync_wait_for_ind, WakeUp, TimeOut, loc_free_slot
  <2>3. ASSUME NEW m \in net, ProcessIndBegin(m) PROVE buf' = buf
    BY <2>3 DEF ProcessIndBegin, threadVars
  <2>4. ASSUME ProcessIndSlot PROVE Safe
    <3>1. scan \in Scan /\ scan.pos \in Slots /\ scan.msg \in Indication
      BY <2>4 DEF ProcessIndSlot, Scan
    <3>2. Matches(scan.pos, scan.msg) =>
             slot_in_use[scan.pos] /\ slots[scan.pos].client_handle # NoHandle
      BY <3>1, NullAssumption DEF Matches, Indication
    <3>3. FreeSlot.client_handle = NoHandle
      BY DEF FreeSlot
    <3>4. Matches(scan.pos, scan.msg) => \E u \in Threads : Selected(u) /\ sel[u] = scan.pos
      BY <3>1, <3>2, <3>3 DEF SlotOwnership, HoldsSlot, SlotContents, Selected
    <3>5. \A t \in Threads : Matches(scan.pos, scan.msg) /\ slots[scan.pos].recv_ind_payload_ptr = t
                             => Selected(t)
      BY <3>4, NullAssumption DEF SlotContents
    <3> QED BY <2>4, <3>5 DEF ProcessIndSlot, Selected
  <2>5. ASSUME ProcessIndEnd PROVE buf' = buf
    BY <2>5 DEF ProcessIndEnd, threadVars
  <2> QED BY <2>1, <2>2, <2>3, <2>4, <2>5 DEF SyncNext
<1>2. IInv /\ [SyncNext]_syncVars => [Safe]_syncVars
  BY <1>1
<1>3. NoWriteAfterReturn <=> [][Safe]_syncVars
  BY DEF NoWriteAfterReturn
<1> QED BY Inductive, <1>2, <1>3, PTL DEF SyncSpec

\* A call that was given a slot and returns eLOC_CLIENT_SUCCESS was matched by an
\* indication, whether or not there are spurious wakeups, unless one ended its own wait.
THEOREM SuccessIsAnswered == SyncSpec => []SuccessWasAnswered
<1>1. SyncInit => SuccessWasAnswered
  BY DEF SyncInit, SuccessWasAnswered, HasSucceeded
<1>2. ASSUME IInv, SuccessWasAnswered, [SyncNext]_syncVars PROVE SuccessWasAnswered'
  <2> USE <1>2 DEF IInv, SyncTypeOK, SuccessWasAnswered, HasSucceeded
  <2>1. ASSUME NEW t \in Threads, NEW c \in Call, loc_sync_send_req(t, c) PROVE SuccessWasAnswered'
    BY <2>1 DEF loc_sync_send_req
  <2>2. ASSUME NEW t \in Threads, loc_alloc_slot(t) PROVE SuccessWasAnswered'
    <3>1. CASE pc'[t] = "select"
      BY <2>2, <3>1 DEF loc_alloc_slot
    <3>2. CASE sel' = sel
      BY <2>2, <3>2 DEF loc_alloc_slot, SlotContents
    <3> QED BY <2>2, <3>1, <3>2 DEF loc_alloc_slot
  <2>3. ASSUME NEW t \in Threads, loc_sync_select_ind(t) PROVE SuccessWasAnswered'
    BY <2>3 DEF loc_sync_select_ind
  <2>4. ASSUME NEW t \in Threads, locClientSendReq(t) PROVE SuccessWasAnswered'
    BY <2>4 DEF locClientSendReq
  <2>5. ASSUME NEW t \in Threads, loc_sync_wait_for_ind(t) PROVE SuccessWasAnswered'
    <3>1. \A u \in Threads : u # t => pc'[u] = pc[u] /\ status'[u] = status[u]
      BY <2>5 DEF loc_sync_wait_for_ind
    <3>2. sel' = sel /\ hit' = hit /\ unsignalled' = unsignalled
      BY <2>5 DEF loc_sync_wait_for_ind
    <3>3. status'[t] = "SUCCESS" /\ pc'[t] \in {"free", "idle"} => slots[sel[t]].ind_has_arrived
      BY <2>5 DEF loc_sync_wait_for_ind
    <3>4. slots[sel[t]].ind_has_arrived => hit[t]
      BY <2>5 DEF loc_sync_wait_for_ind, Wakeups, Selected
    <3> QED BY <3>1, <3>2, <3>3, <3>4
  <2>6. ASSUME NEW t \in Threads, WakeUp(t) PROVE SuccessWasAnswered'
    BY <2>6 DEF WakeUp, Wakeups
  <2>7. ASSUME NEW t \in Threads, TimeOut(t) PROVE SuccessWasAnswered'
    BY <2>7 DEF TimeOut
  <2>8. ASSUME NEW t \in Threads, loc_free_slot(t) PROVE SuccessWasAnswered'
    BY <2>8 DEF loc_free_slot
  <2>9. ASSUME NEW m \in net, ProcessIndBegin(m) PROVE SuccessWasAnswered'
    BY <2>9 DEF ProcessIndBegin, threadVars
  <2>10. ASSUME ProcessIndSlot PROVE SuccessWasAnswered'
    BY <2>10 DEF ProcessIndSlot
  <2>11. ASSUME ProcessIndEnd PROVE SuccessWasAnswered'
    BY <2>11 DEF ProcessIndEnd, threadVars
  <2>12. ASSUME UNCHANGED syncVars PROVE SuccessWasAnswered'
    BY <2>12 DEF syncVars, threadVars
  <2> QED
    BY <2>1, <2>2, <2>3, <2>4, <2>5, <2>6, <2>7, <2>8, <2>9, <2>10, <2>11, <2>12 DEF SyncNext, ThreadStep
<1>3. IInv /\ SuccessWasAnswered /\ [SyncNext]_syncVars => SuccessWasAnswered'
  BY <1>2
<1> QED BY Inductive, <1>1, <1>3, PTL DEF SyncSpec

-----------------------------------------------------------------------------
(* SyncReq implements SyncCalls: each step of the slots and the scan is a step *)
(* of the abstract calls or none.                                              *)

\* An indication that answers a current call is of the kind that call asked for.
Answers(m) ==
    m.nth = calls[m.by] => m.handle = call[m.by].handle /\ m.ind = call[m.by].ind

AnswersMatch ==
    /\ \A m \in net : Answers(m)
    /\ scan # NoScan => Answers(scan.msg)

\* The scan has not passed the slot of a call that waits, unanswered, for what it carries.
ScanMissesNobody ==
    scan # NoScan /\ ~scan.consumed =>
        \A t \in Threads :
            /\ scan.msg.by = t /\ scan.msg.nth = calls[t]
            /\ pc[t] \in {"wait", "blocked"} /\ ~hit[t]
            => scan.pos \leq sel[t]

\* Nothing has gone wrong yet.
Undecided == \A t \in Threads : pc[t] \in {"alloc", "select", "send", "wait", "blocked"}
                                => status[t] = "SUCCESS"

RInv == IInv /\ AnswersMatch /\ ScanMissesNobody /\ Undecided

-----------------------------------------------------------------------------
LEMMA InitRInv == SyncInit => RInv
  BY InitIInv DEF SyncInit, RInv, AnswersMatch, ScanMissesNobody, Undecided

LEMMA NextAnswers ==
  ASSUME IInv, AnswersMatch, [SyncNext]_syncVars
  PROVE  AnswersMatch'
<1> USE DEF IInv, SyncTypeOK, AnswersMatch, Answers
<1>1. \A m \in net : m \in Indication /\ m.by \in Threads /\ WasSent(m)
  BY DEF Indication, Payloads, IndicationsAreUnique
<1>2. scan # NoScan => scan.msg \in Indication /\ scan.msg.by \in Threads /\ WasSent(scan.msg)
  BY DEF Scan, Indication, Payloads, IndicationsAreUnique
<1>3. ASSUME NEW t \in Threads, NEW c \in Call, loc_sync_send_req(t, c) PROVE AnswersMatch'
  <2>1. ASSUME NEW m, m.by \in Threads, WasSent(m), Answers(m) PROVE Answers(m)'
    BY <1>3, <2>1 DEF loc_sync_send_req, WasSent
  <2> QED BY <1>1, <1>2, <1>3, <2>1 DEF loc_sync_send_req
<1>4. ASSUME NEW t \in Threads, locClientSendReq(t) PROVE AnswersMatch'
  <2>1. Answers(Answer(t))
    BY DEF Answer
  <2>2. UNCHANGED <<call, calls, scan>>
    BY <1>4 DEF locClientSendReq
  <2>3. \A m \in net' : m \in net \/ m = Answer(t)
    BY <1>4 DEF locClientSendReq
  <2> QED BY <2>1, <2>2, <2>3
<1>5. ASSUME NEW t \in Threads,
             \/ loc_alloc_slot(t) \/ loc_sync_select_ind(t) \/ loc_sync_wait_for_ind(t)
             \/ WakeUp(t) \/ TimeOut(t) \/ loc_free_slot(t)
      PROVE  UNCHANGED <<call, calls, net, scan>>
  BY <1>5 DEF loc_alloc_slot, loc_sync_select_ind, loc_sync_wait_for_ind, WakeUp, TimeOut,
              loc_free_slot
<1>6. ASSUME NEW m \in net, ProcessIndBegin(m) PROVE AnswersMatch'
  BY <1>6 DEF ProcessIndBegin, threadVars
<1>7. ASSUME ProcessIndSlot PROVE AnswersMatch'
  BY <1>7 DEF ProcessIndSlot
<1>8. ASSUME ProcessIndEnd PROVE AnswersMatch'
  BY <1>8 DEF ProcessIndEnd, threadVars
<1>9. ASSUME UNCHANGED syncVars PROVE AnswersMatch'
  BY <1>9 DEF syncVars, threadVars
<1> QED BY <1>3, <1>4, <1>5, <1>6, <1>7, <1>8, <1>9 DEF SyncNext, ThreadStep

LEMMA NextMissesNobody ==
  ASSUME RInv, [SyncNext]_syncVars
  PROVE  ScanMissesNobody'
<1> USE DEF RInv, IInv, SyncTypeOK, ScanMissesNobody
<1>1. scan # NoScan => /\ scan \in Scan
                       /\ scan.msg \in Indication /\ scan.msg.by \in Threads
                       /\ WasSent(scan.msg) /\ Answers(scan.msg)
  BY DEF Scan, Indication, Payloads, IndicationsAreUnique, AnswersMatch
<1>2. ASSUME NEW t \in Threads, NEW c \in Call, loc_sync_send_req(t, c) PROVE ScanMissesNobody'
  BY <1>2 DEF loc_sync_send_req
<1>3. ASSUME NEW t \in Threads, loc_alloc_slot(t) PROVE ScanMissesNobody'
  <2>1. UNCHANGED <<scan, calls, hit>> /\ pc'[t] \in {"select", "idle"}
    BY <1>3 DEF loc_alloc_slot
  <2>2. \A u \in Threads \ {t} : pc'[u] = pc[u] /\ sel'[u] = sel[u]
    BY <1>3 DEF loc_alloc_slot
  <2> QED BY <2>1, <2>2
<1>4. ASSUME NEW t \in Threads, loc_sync_select_ind(t) PROVE ScanMissesNobody'
  BY <1>4 DEF loc_sync_select_ind
<1>5. ASSUME NEW t \in Threads, locClientSendReq(t) PROVE ScanMissesNobody'
  <2>1. UNCHANGED <<scan, calls, hit, sel>> /\ pc[t] = "send"
    BY <1>5 DEF locClientSendReq
  <2>2. \A u \in Threads \ {t} : pc'[u] = pc[u]
    BY <1>5 DEF locClientSendReq
  <2>3. scan # NoScan /\ scan.msg.by = t => scan.msg.nth # calls[t]
    BY <1>1, <2>1 DEF WasSent
  <2> QED BY <2>1, <2>2, <2>3
<1>6. ASSUME NEW t \in Threads, loc_sync_wait_for_ind(t) PROVE ScanMissesNobody'
  BY <1>6 DEF loc_sync_wait_for_ind
<1>7. ASSUME NEW t \in Threads, WakeUp(t) \/ TimeOut(t) PROVE ScanMissesNobody'
  BY <1>7 DEF WakeUp, TimeOut
<1>8. ASSUME NEW t \in Threads, loc_free_slot(t) PROVE ScanMissesNobody'
  BY <1>8 DEF loc_free_slot
<1>9. ASSUME NEW m \in net, ProcessIndBegin(m) PROVE ScanMissesNobody'
  <2>1. scan' # NoScan => scan'.pos = 1
    BY <1>9 DEF ProcessIndBegin
  <2>2. \A t \in Threads : pc[t] \in {"wait", "blocked"} => sel[t] \in Slots
    BY DEF SlotOwnership, HoldsSlot
  <2>3. UNCHANGED <<pc, sel>>
    BY <1>9 DEF ProcessIndBegin, threadVars
  <2> QED BY <2>1, <2>2, <2>3, BufferAssumption DEF Slots
<1>10. ASSUME ProcessIndSlot PROVE ScanMissesNobody'
  <2> SUFFICES ASSUME NEW t \in Threads, scan.msg.by = t, scan.msg.nth = calls[t],
                      pc[t] \in {"wait", "blocked"}, ~hit'[t]
               PROVE  scan'.pos \leq sel[t]
    BY <1>10 DEF ProcessIndSlot
  <2>1. scan # NoScan /\ scan.pos \in Slots /\ ~scan.consumed /\ scan'.pos = scan.pos + 1
    BY <1>10 DEF ProcessIndSlot
  <2>2. ~hit[t] /\ ~(Matches(scan.pos, scan.msg) /\ HoldsSlot(t) /\ sel[t] = scan.pos)
    BY <1>10 DEF ProcessIndSlot
  <2>3. scan.pos \leq sel[t]
    BY <2>1, <2>2
  <2>4. HoldsSlot(t) /\ Selected(t) /\ sel[t] \in Slots /\ slot_in_use[sel[t]]
    BY DEF SlotOwnership, HoldsSlot, Selected
  <2>5. ~slots[sel[t]].ind_has_arrived
    BY <2>2, <2>4 DEF Wakeups
  <2>6. Matches(sel[t], scan.msg)
    BY <1>1, <2>1, <2>4, <2>5 DEF Matches, SlotContents, Answers
  <2>7. sel[t] # scan.pos
    BY <2>2, <2>4, <2>6
  <2> QED BY <2>1, <2>3, <2>4, <2>7, BufferAssumption DEF Slots
<1>11. ASSUME ProcessIndEnd PROVE ScanMissesNobody'
  BY <1>11 DEF ProcessIndEnd
<1>12. ASSUME UNCHANGED syncVars PROVE ScanMissesNobody'
  BY <1>12 DEF syncVars, threadVars
<1> QED
  BY <1>2, <1>3, <1>4, <1>5, <1>6, <1>7, <1>8, <1>9, <1>10, <1>11, <1>12
  DEF SyncNext, ThreadStep

LEMMA NextUndecided ==
  ASSUME SyncTypeOK, Undecided, [SyncNext]_syncVars
  PROVE  Undecided'
<1> USE DEF SyncTypeOK, Undecided
<1>1. ASSUME NEW t \in Threads, NEW c \in Call, loc_sync_send_req(t, c) PROVE Undecided'
  BY <1>1 DEF loc_sync_send_req
<1>2. ASSUME NEW t \in Threads, ThreadStep(t) PROVE Undecided'
  BY <1>2 DEF ThreadStep, loc_alloc_slot, loc_sync_select_ind, locClientSendReq,
              loc_sync_wait_for_ind, WakeUp, TimeOut, loc_free_slot
<1>3. ASSUME (\E m \in net : ProcessIndBegin(m)) \/ ProcessIndSlot \/ ProcessIndEnd
             \/ UNCHANGED syncVars
      PROVE  UNCHANGED <<pc, status>>
  BY <1>3 DEF ProcessIndBegin, ProcessIndSlot, ProcessIndEnd, threadVars, syncVars
<1> QED BY <1>1, <1>2, <1>3 DEF SyncNext

LEMMA NextRInv == RInv /\ [SyncNext]_syncVars => RInv'
<1> SUFFICES ASSUME RInv, [SyncNext]_syncVars PROVE RInv'
  OBVIOUS
<1>1. IInv'
  BY NextType, NextOwnership, NextContents, NextInUse, NextWakeups, NextPayload DEF IInv, RInv
<1>2. AnswersMatch'
  BY NextAnswers DEF RInv
<1>3. ScanMissesNobody'
  BY NextMissesNobody
<1>4. Undecided'
  BY NextUndecided DEF RInv, IInv
<1> QED BY <1>1, <1>2, <1>3, <1>4 DEF RInv

-----------------------------------------------------------------------------
(* Every step is a step of the abstract calls or none. *)

Phases == [t \in Threads |-> PhaseOf(pc[t])]
Outstanding == net \cup Scanned

AbstractStep == Calls!CallNext \/ UNCHANGED Calls!callVars

LEMMA PhaseMoves ==
  ASSUME NEW f \in [Threads -> PCs], NEW g \in [Threads -> PCs], NEW t \in Threads, NEW p,
         g = [f EXCEPT ![t] = p]
  PROVE  [u \in Threads |-> PhaseOf(g[u])]
           = [[u \in Threads |-> PhaseOf(f[u])] EXCEPT ![t] = PhaseOf(p)]
  OBVIOUS

LEMMA Requests == Calls!Request = Call
  BY DEF Calls!Request, Call

LEMMA BeginRefines ==
  ASSUME RInv, RInv', NEW t \in Threads, NEW c \in Call, loc_sync_send_req(t, c)
  PROVE  Calls!Begin(t, c)
<1> USE DEF RInv, IInv, SyncTypeOK
<1>1. pc' = [pc EXCEPT ![t] = "alloc"] /\ pc[t] = "idle"
  BY DEF loc_sync_send_req
<1>2. Phases' = [Phases EXCEPT ![t] = PhaseOf("alloc")] /\ Phases[t] = PhaseOf("idle")
  BY <1>1, PhaseMoves DEF Phases
<1>3. Outstanding' = Outstanding
  BY DEF loc_sync_send_req, Outstanding, Scanned
<1>4. PhaseOf("alloc") = "asking" /\ PhaseOf("idle") = "idle"
  BY DEF PhaseOf
<1> QED
  BY <1>2, <1>3, <1>4 DEF loc_sync_send_req, Calls!Begin, Calls!Moves, Phases, Outstanding

LEMMA AskRefines ==
  ASSUME RInv, RInv', NEW t \in Threads, locClientSendReq(t)
  PROVE  Calls!Ask(t)
<1> USE DEF RInv, IInv, SyncTypeOK
<1>1. pc[t] = "send" /\ pc' = [pc EXCEPT ![t] = pc'[t]]
  BY DEF locClientSendReq
<1>2. Phases' = [Phases EXCEPT ![t] = PhaseOf(pc'[t])] /\ Phases[t] = PhaseOf("send")
  BY <1>1, PhaseMoves DEF Phases
<1>3. Scanned' = Scanned
  BY DEF locClientSendReq, Scanned
<1>4. Calls!AnswerTo(t) = Answer(t)
  BY DEF Calls!AnswerTo, Answer
<1>5. CASE pc'[t] = "wait"
  <2>1. net' = net \cup {Answer(t)} /\ UNCHANGED status
    BY <1>5 DEF locClientSendReq
  <2>2. Outstanding' = Outstanding \cup {Answer(t)}
    BY <1>3, <2>1 DEF Outstanding
  <2> QED BY <1>2, <1>4, <1>5, <2>1, <2>2
          DEF locClientSendReq, Calls!Ask, Calls!Moves, Phases, Outstanding, PhaseOf
<1>6. CASE pc'[t] = "free"
  <2>1. /\ net' = net \/ net' = net \cup {Answer(t)}
        /\ status' = [status EXCEPT ![t] = "SEND_FAILED"]
    BY <1>6 DEF locClientSendReq
  <2>2. Outstanding' = Outstanding \/ Outstanding' = Outstanding \cup {Answer(t)}
    BY <1>3, <2>1 DEF Outstanding
  <2> QED BY <1>2, <1>4, <1>6, <2>1, <2>2
          DEF locClientSendReq, Calls!Ask, Calls!Moves, Phases, Outstanding, PhaseOf
<1> QED BY <1>5, <1>6 DEF locClientSendReq

\* The steps of a caller inside the library.
LEMMA CallerRefines ==
  ASSUME RInv, RInv', NEW t \in Threads,
         \/ loc_alloc_slot(t) \/ loc_sync_select_ind(t) \/ loc_sync_wait_for_ind(t)
         \/ WakeUp(t) \/ TimeOut(t) \/ loc_free_slot(t)
  PROVE  \/ Calls!Refuse(t) \/ Calls!Wake(t) \/ Calls!GiveUp(t) \/ Calls!Return(t)
         \/ UNCHANGED Calls!callVars
<1> USE DEF RInv, IInv, SyncTypeOK
<1>1. pc' = [pc EXCEPT ![t] = pc'[t]] /\ UNCHANGED <<call, calls, hit, buf, net, scan>>
  BY DEF loc_alloc_slot, loc_sync_select_ind, loc_sync_wait_for_ind, WakeUp, TimeOut,
         loc_free_slot
<1>2. Phases' = [Phases EXCEPT ![t] = PhaseOf(pc'[t])] /\ Phases[t] = PhaseOf(pc[t])
  BY <1>1, PhaseMoves DEF Phases
<1>3. Outstanding' = Outstanding
  BY <1>1 DEF Outstanding, Scanned
<1>4. CASE PhaseOf(pc'[t]) = PhaseOf(pc[t]) /\ UNCHANGED status
  <2>1. Phases' = Phases
    BY <1>2, <1>4 DEF Phases
  <2> QED BY <1>1, <1>3, <1>4, <2>1 DEF Calls!callVars, Phases, Outstanding
<1>5. CASE loc_alloc_slot(t)
  BY <1>1, <1>2, <1>3, <1>4, <1>5, ZenonT(30)
  DEF loc_alloc_slot, PhaseOf, Calls!Refuse, Calls!Moves, Phases, Outstanding
<1>6. CASE loc_sync_select_ind(t)
  BY <1>1, <1>4, <1>6 DEF loc_sync_select_ind, PhaseOf
<1>7. CASE loc_sync_wait_for_ind(t)
  <2>1. pc[t] = "wait" /\ ~slots[sel[t]].ind_is_waiting
    BY <1>7 DEF loc_sync_wait_for_ind, SlotContents, Selected
  <2>2. CASE pc'[t] = "blocked"
    BY <1>4, <1>7, <2>1, <2>2 DEF loc_sync_wait_for_ind, PhaseOf
  <2>3. CASE pc'[t] = "free"
    <3>1. slots[sel[t]].ind_has_arrived
      BY <1>7, <2>1, <2>3 DEF loc_sync_wait_for_ind
    <3>2. hit[t]
      BY <2>1, <3>1 DEF Wakeups, Selected
    <3>3. status[t] = "SUCCESS" /\ status' = status
      BY <1>7, <2>1, <3>1 DEF Undecided, loc_sync_wait_for_ind
    <3>4. PhaseOf("wait") = "waiting" /\ PhaseOf("free") = "ending"
      BY DEF PhaseOf
    <3> QED BY <1>1, <1>2, <1>3, <2>1, <2>3, <3>2, <3>3, <3>4
            DEF Calls!Wake, Calls!Moves, Phases, Outstanding
  <2> QED BY <1>7, <2>2, <2>3 DEF loc_sync_wait_for_ind
<1>8. CASE WakeUp(t)
  <2>1. hit[t] \/ SpuriousWakeups
    BY <1>8 DEF WakeUp, Wakeups
  <2> QED BY <1>1, <1>2, <1>3, <1>8, <2>1
          DEF WakeUp, PhaseOf, Calls!Wake, Calls!Moves, Phases, Outstanding
<1>9. CASE TimeOut(t)
  BY <1>1, <1>2, <1>3, <1>9
  DEF TimeOut, PhaseOf, Calls!GiveUp, Calls!Moves, Phases, Outstanding
<1>10. CASE loc_free_slot(t)
  BY <1>1, <1>2, <1>3, <1>10
  DEF loc_free_slot, PhaseOf, Calls!Return, Calls!Moves, Phases, Outstanding
<1> QED BY <1>5, <1>6, <1>7, <1>8, <1>9, <1>10

\* An indication found while no slot is in use is dropped: nobody waits.
LEMMA BeginScanRefines ==
  ASSUME RInv, RInv', NEW m \in net, ProcessIndBegin(m)
  PROVE  Calls!Drop(m) \/ UNCHANGED Calls!callVars
<1> USE DEF RInv, IInv, SyncTypeOK
<1>1. UNCHANGED <<pc, call, calls, hit, buf, status>> /\ net' = net \ {m} /\ scan = NoScan
  BY DEF ProcessIndBegin, threadVars, mutexIsFree
<1>2. Phases' = Phases
  BY <1>1 DEF Phases
<1>3. Scanned = {} /\ Outstanding = net
  BY <1>1 DEF Outstanding, Scanned
<1>4. CASE in_use
  <2>1. scan' = [msg |-> m, pos |-> 1, consumed |-> FALSE, in_use |-> FALSE]
    BY <1>4 DEF ProcessIndBegin
  <2>2. scan' \in Scan
    BY <2>1, BufferAssumption DEF Scan
  <2>3. Scanned' = {m}
    BY <2>1, <2>2, ScanAssumption DEF Scanned
  <2>4. Outstanding' = Outstanding
    BY <1>1, <1>3, <2>3 DEF Outstanding
  <2> QED BY <1>1, <1>2, <2>4 DEF Calls!callVars, Phases, Outstanding
<1>5. CASE ~in_use
  <2>1. scan' = NoScan
    BY <1>5 DEF ProcessIndBegin
  <2>2. Outstanding' = Outstanding \ {m}
    BY <1>1, <1>3, <2>1 DEF Outstanding, Scanned
  <2>3. \A t \in Threads : pc[t] \notin {"wait", "blocked"}
    BY <1>5 DEF InUseIsExact, SlotOwnership, HoldsSlot
  <2>4. \A t \in Threads : Phases[t] # "waiting"
    BY <2>3 DEF Phases, PhaseOf, PCs
  <2> QED BY <1>1, <1>2, <2>2, <2>4 DEF Calls!Drop, Calls!IsAwaited, Phases, Outstanding
<1> QED BY <1>4, <1>5

\* A turn of the loop hands the indication over, tells a call that wants no payload, or
\* finds that the slot is not the one.
LEMMA ScanSlotRefines ==
  ASSUME RInv, RInv', ProcessIndSlot
  PROVE  \/ \E t \in Threads : Calls!Deliver(scan.msg, t) \/ Calls!Notify(scan.msg, t)
         \/ UNCHANGED Calls!callVars
<1> USE DEF RInv, IInv, SyncTypeOK
<1>1. /\ scan # NoScan /\ scan \in Scan /\ scan.pos \in Slots /\ ~scan.consumed
      /\ UNCHANGED <<pc, call, calls, sel, status, net>>
  BY DEF ProcessIndSlot
<1> DEFINE m == scan.msg
           ptr == slots[scan.pos].recv_ind_payload_ptr
           found == Matches(scan.pos, m)
<1>2. /\ scan' = [msg |-> m, pos |-> scan.pos + 1, consumed |-> found /\ ptr # NoPtr,
                  in_use |-> scan.in_use \/ slot_in_use[scan.pos]]
      /\ buf' = [t \in Threads |-> IF found /\ ptr = t THEN m ELSE buf[t]]
      /\ hit' = [t \in Threads |-> hit[t] \/ (found /\ HoldsSlot(t) /\ sel[t] = scan.pos)]
  BY DEF ProcessIndSlot
<1>3. Phases' = Phases
  BY <1>1 DEF Phases
<1>4. Scanned = {m} /\ m \notin net
  BY <1>1 DEF Scanned, IndicationsAreUnique, Payloads
<1>5. scan' \in Scan /\ scan' # NoScan
  <2>1. m \in Indication /\ scan.in_use \in BOOLEAN /\ scan.pos + 1 \in 1..(BufferSize + 1)
    BY <1>1, BufferAssumption DEF Scan, Slots
  <2>2. (found /\ ptr # NoPtr) \in BOOLEAN /\ (scan.in_use \/ slot_in_use[scan.pos]) \in BOOLEAN
    BY DEF Matches
  <2>3. scan' \in Scan
    BY <1>2, <2>1, <2>2 DEF Scan
  <2> QED BY <2>3, ScanAssumption
<1>6. Scanned' = IF found /\ ptr # NoPtr THEN {} ELSE {m}
  BY <1>2, <1>5 DEF Scanned
<1>7. CASE ~found
  <2>1. Outstanding' = Outstanding
    BY <1>1, <1>4, <1>6, <1>7 DEF Outstanding
  <2>2. hit' = hit /\ buf' = buf
    BY <1>2, <1>7
  <2> QED BY <1>1, <1>3, <2>1, <2>2 DEF Calls!callVars, Phases, Outstanding
<1>8. CASE found
  <2>1. slot_in_use[scan.pos] /\ m \in Indication
    BY <1>1, <1>8 DEF Matches, Scan
  <2>2. PICK t \in Threads : HoldsSlot(t) /\ sel[t] = scan.pos
    BY <1>1, <2>1 DEF SlotOwnership
  <2>3. slots[scan.pos].client_handle # NoHandle
    BY <1>8, <2>1, NullAssumption DEF Matches, Indication
  <2>4. Selected(t)
    BY <2>2, <2>3 DEF SlotContents, FreeSlot, HoldsSlot, Selected
  <2>5. /\ m.handle = call[t].handle /\ m.ind = call[t].ind
        /\ ptr = IF call[t].wantsPayload THEN t ELSE NoPtr
    BY <1>8, <2>2, <2>4 DEF SlotContents, Matches
  <2>6. Phases[t] # "idle"
    BY <2>4 DEF Phases, PhaseOf, Selected
  <2>7. Calls!IsFor(m, t)
    BY <2>5, <2>6 DEF Calls!IsFor, Phases
  <2>8. \A u \in Threads : HoldsSlot(u) /\ sel[u] = scan.pos => u = t
    BY <2>2 DEF SlotOwnership
  <2>9. hit' = [hit EXCEPT ![t] = TRUE]
    BY <1>2, <1>8, <2>2, <2>8
  <2>10. CASE call[t].wantsPayload
    <3>1. ptr = t /\ ptr # NoPtr
      BY <2>5, <2>10, NullAssumption
    <3>2. buf' = [buf EXCEPT ![t] = m]
      BY <1>2, <1>8, <3>1
    <3>3. Outstanding' = Outstanding \ {m}
      BY <1>1, <1>4, <1>6, <1>8, <3>1 DEF Outstanding
    <3>4. Calls!Deliver(m, t)
      BY <1>1, <1>3, <2>7, <2>9, <2>10, <3>2, <3>3 DEF Calls!Deliver, Phases, Outstanding
    <3> QED BY <3>4
  <2>11. CASE ~call[t].wantsPayload
    <3>1. ptr = NoPtr
      BY <2>5, <2>11
    <3>2. buf' = buf
      BY <1>2, <3>1, NullAssumption
    <3>3. Outstanding' = Outstanding
      BY <1>1, <1>4, <1>6, <3>1 DEF Outstanding
    <3>4. Calls!Notify(m, t)
      BY <1>1, <1>3, <2>7, <2>9, <2>11, <3>2, <3>3 DEF Calls!Notify, Phases, Outstanding
    <3> QED BY <3>4
  <2> QED BY <2>10, <2>11
<1> QED BY <1>7, <1>8

\* A scan that ends with nothing handed over has passed every slot.
LEMMA EndScanRefines ==
  ASSUME RInv, RInv', ProcessIndEnd
  PROVE  \/ scan.msg \in Outstanding /\ Calls!Drop(scan.msg)
         \/ UNCHANGED Calls!callVars
<1> USE DEF RInv, IInv, SyncTypeOK
<1>1. /\ scan # NoScan /\ scan \in Scan /\ scan' = NoScan
      /\ UNCHANGED <<pc, call, calls, sel, status, hit, buf, net>>
  BY DEF ProcessIndEnd, threadVars
<1>2. Phases' = Phases
  BY <1>1 DEF Phases
<1>3. Outstanding' = net
  BY <1>1 DEF Outstanding, Scanned
<1>4. CASE scan.consumed
  <2>1. Outstanding' = Outstanding
    BY <1>3, <1>4 DEF Outstanding, Scanned
  <2> QED BY <1>1, <1>2, <2>1 DEF Calls!callVars, Phases, Outstanding
<1>5. CASE ~scan.consumed
  <2>1. Scanned = {scan.msg} /\ scan.msg \notin net
    BY <1>1, <1>5 DEF Scanned, IndicationsAreUnique, Payloads
  <2>2. Outstanding' = Outstanding \ {scan.msg} /\ scan.msg \in Outstanding
    BY <1>3, <2>1 DEF Outstanding
  <2>3. scan.pos \in 1..(BufferSize + 1) /\ scan.pos \notin Slots
    BY <1>1, <1>5 DEF Scan, ProcessIndEnd
  <2>4. \A t \in Threads : pc[t] \in {"wait", "blocked"} => sel[t] \in Slots
    BY DEF SlotOwnership, HoldsSlot
  <2>5. ASSUME NEW t \in Threads, pc[t] \in {"wait", "blocked"},
               scan.msg.by = t, scan.msg.nth = calls[t], ~hit[t]
        PROVE  FALSE
    <3>1. scan.pos \leq sel[t]
      BY <1>1, <1>5, <2>5 DEF ScanMissesNobody
    <3>2. sel[t] \in Slots
      BY <2>4, <2>5
    <3> QED BY <2>3, <3>1, <3>2, BufferAssumption DEF Slots
  <2>6. \A t \in Threads : Phases[t] = "waiting" => pc[t] \in {"wait", "blocked"}
    BY DEF Phases, PhaseOf, PCs
  <2>7. \A t \in Threads : ~Calls!IsAwaited(scan.msg, t)
    BY <2>5, <2>6 DEF Calls!IsAwaited, Phases
  <2> QED BY <1>1, <1>2, <2>2, <2>7 DEF Calls!Drop, Phases, Outstanding
<1> QED BY <1>4, <1>5

LEMMA InitRefines == SyncInit => Calls!CallInit
<1> SUFFICES ASSUME SyncInit PROVE Calls!CallInit
  OBVIOUS
<1>1. PhaseOf("idle") = "idle"
  BY DEF PhaseOf
<1>2. Phases = [t \in Threads |-> "idle"]
  BY <1>1 DEF SyncInit, Phases
<1>3. Outstanding = {}
  BY DEF SyncInit, Outstanding, Scanned
<1> QED BY <1>2, <1>3 DEF SyncInit, Calls!CallInit, Phases, Outstanding

LEMMA StepRefines ==
  ASSUME RInv, RInv', [SyncNext]_syncVars
  PROVE  [Calls!CallNext]_(Calls!callVars)
<1>1. ASSUME NEW t \in Threads, NEW c \in Call, loc_sync_send_req(t, c)
      PROVE  Calls!CallNext
  BY <1>1, BeginRefines, Requests DEF Calls!CallNext
<1>2. ASSUME NEW t \in Threads, locClientSendReq(t) PROVE Calls!CallNext
  BY <1>2, AskRefines DEF Calls!CallNext
<1>3. ASSUME NEW t \in Threads,
             \/ loc_alloc_slot(t) \/ loc_sync_select_ind(t) \/ loc_sync_wait_for_ind(t)
             \/ WakeUp(t) \/ TimeOut(t) \/ loc_free_slot(t)
      PROVE  Calls!CallNext \/ UNCHANGED Calls!callVars
  BY <1>3, CallerRefines DEF Calls!CallNext
<1>4. ASSUME NEW m \in net, ProcessIndBegin(m)
      PROVE  Calls!CallNext \/ UNCHANGED Calls!callVars
  <2>1. m \in Outstanding
    BY DEF Outstanding
  <2> QED BY <1>4, <2>1, BeginScanRefines DEF Calls!CallNext, Outstanding
<1>5. ASSUME ProcessIndSlot PROVE Calls!CallNext \/ UNCHANGED Calls!callVars
  <2>1. scan.msg \in Outstanding
    BY <1>5 DEF ProcessIndSlot, Outstanding, Scanned
  <2> QED BY <1>5, <2>1, ScanSlotRefines DEF Calls!CallNext, Outstanding
<1>6. ASSUME ProcessIndEnd PROVE Calls!CallNext \/ UNCHANGED Calls!callVars
  BY <1>6, EndScanRefines DEF Calls!CallNext, Outstanding
<1>7. ASSUME UNCHANGED syncVars PROVE UNCHANGED Calls!callVars
  <2>1. UNCHANGED <<net, scan, pc, call, calls, hit, buf, status>>
    BY <1>7 DEF syncVars, threadVars
  <2>2. Phases' = Phases /\ Outstanding' = Outstanding
    BY <2>1 DEF Phases, Outstanding, Scanned
  <2> QED BY <2>1, <2>2 DEF Calls!callVars, Phases, Outstanding
<1> QED BY <1>1, <1>2, <1>3, <1>4, <1>5, <1>6, <1>7 DEF SyncNext, ThreadStep

\* loc_sync_send_req and loc_sync_process_ind implement the abstract calls: an indication is
\* given to one caller that is still there and asked for its kind, and none is dropped while
\* the call it answers waits unanswered.
THEOREM SlotsImplementCalls == SyncSpec => CallsAreServed
<1>1. SyncInit => RInv /\ Calls!CallInit
  BY InitRInv, InitRefines
<1>2. RInv /\ [SyncNext]_syncVars => RInv'
  BY NextRInv
<1>3. RInv /\ RInv' /\ [SyncNext]_syncVars => [Calls!CallNext]_(Calls!callVars)
  BY StepRefines
<1> QED BY <1>1, <1>2, <1>3, PTL DEF SyncSpec, CallsAreServed, Calls!CallSpec
=============================================================================
