-------------------------- MODULE SchedulerProofs --------------------------
(***************************************************************************)
(* Theorems about Scheduler, for any number of requests and slots, any     *)
(* prompts and any chunk size.  Each invariant is proved from the one      *)
(* before it: types, then who owns a slot, then who dispatches.            *)
(***************************************************************************)
EXTENDS Scheduler, TLAPS

USE SchedulerAssumption

KVRows == [Slots -> [0..(CtxCap - 1) -> Nobody]]

(* TypeOK is not inductive on its own.  seen grows by the length of a chunk,  *)
(* a natural number because prefill never passes the prompt, and a pending    *)
(* names a slot because a thread has one all the way from Claim to ClearClaim. *)
PrefillBound == \A r \in Requests : prefill_start[r] <= PromptLen[r]

SlotHeld == \A r \in Requests : slot[r] = None <=> pc[r] \in {"idle", "done"}

TypeInv == TypeOK /\ PrefillBound /\ SlotHeld

-----------------------------------------------------------------------------
(* A chunk ends inside the prompt, not before its start. *)
LEMMA ChunkEndBounds ==
  ASSUME NEW r \in Requests, TypeInv
  PROVE  /\ ChunkEnd(r) \in Nat
         /\ prefill_start[r] <= ChunkEnd(r)
         /\ ChunkEnd(r) <= PromptLen[r]
BY DEF ChunkEnd, TypeInv, TypeOK, PrefillBound

(* Writing rows keeps the shape of the KV cache. *)
LEMMA WrittenType ==
  ASSUME NEW kv \in KVRows, NEW s, NEW i, NEW j, NEW q \in Nobody
  PROVE  Written(kv, s, i, j, q) \in KVRows
BY DEF Written, KVRows

(* A batched forward writes rows on behalf of the requests of its batch. *)
LEMMA DecodedType ==
  ASSUME NEW r \in Requests, NEW ok \in BOOLEAN, TypeInv
  PROVE  Decoded(r, ok) \in KVRows
<1>1. Batch(r) \subseteq PendingDecode
  BY DEF Batch, TypeInv, TypeOK
<1>2. ASSUME NEW s \in Slots, NEW k,
             \E p \in Batch(r) : p.slot = s /\ p.position = k
      PROVE  RowOwner(r, s, k) \in Nobody
  <2>1. (CHOOSE p \in Batch(r) : p.slot = s /\ p.position = k) \in Batch(r)
    BY <1>2
  <2> QED BY <2>1, <1>1 DEF RowOwner, PendingDecode, Nobody
<1>3. ASSUME NEW s \in Slots
      PROVE  Decoded(r, ok)[s] \in [0..(CtxCap - 1) -> Nobody]
  <2>1. rows[s] \in [0..(CtxCap - 1) -> Nobody] /\ None \in Nobody
    BY DEF TypeInv, TypeOK, Nobody
  <2>2. DOMAIN rows[s] = 0..(CtxCap - 1)
    BY <2>1
  <2>3. ASSUME NEW k \in DOMAIN rows[s]
        PROVE  (IF \E p \in Batch(r) : p.slot = s /\ p.position = k
                THEN IF ok THEN RowOwner(r, s, k) ELSE None
                ELSE rows[s][k]) \in Nobody
    BY <2>1, <2>2, <1>2
  <2> QED BY <2>2, <2>3 DEF Decoded
<1>4. Decoded(r, ok) = [s \in Slots |-> Decoded(r, ok)[s]]
  BY DEF Decoded
<1> QED
  BY <1>3, <1>4 DEF KVRows

LEMMA ConsumedType ==
  ASSUME NEW r \in Requests, TypeInv
  PROVE  Consumed(r) \in [Slots -> Nat]
BY DEF Consumed, TypeInv, TypeOK

(* A capture stores a snapshot or nothing. *)
LEMMA CaptureType ==
  ASSUME NEW r \in Requests, NEW n \in Nat, NEW full \in BOOLEAN, TypeInv,
         Capture(r, n, full)
  PROVE  snaps' \subseteq Snapshot
<1>1. SnapshotOf(r, slot[r], n, full) \in Snapshot
  BY DEF SnapshotOf, Snapshot
<1> QED BY <1>1 DEF Capture, TypeInv, TypeOK

(* A thread that goes from one place of its service to another keeps its slot. *)
LEMMA GotoType ==
  ASSUME TypeInv, NEW r \in Requests, slot[r] # None, slot' = slot,
         \E place \in Places \ {"idle", "done"} : Goto(r, place)
  PROVE  pc' \in [Requests -> Places] /\ SlotHeld'
<1>1. slot[r] \in Slots /\ pc[r] \notin {"idle", "done"}
  BY DEF TypeInv, TypeOK, SlotHeld
<1> QED BY <1>1 DEF Goto, TypeInv, TypeOK, SlotHeld

(* The start of a prefill keeps the types when it begins inside the prompt. *)
LEMMA StartPrefillType ==
  ASSUME TypeInv, NEW r \in Requests, CanStart(r),
         NEW place \in Places \ {"idle", "done"}, NEW start \in 0..PromptLen[r],
         StartPrefill(r, place, start), rows' \in KVRows, seen' \in [Slots -> Nat]
  PROVE  TypeInv'
<1>1. pc' \in [Requests -> Places] /\ SlotHeld'
  BY GotoType DEF StartPrefill, CanStart, claims, TypeInv, SlotHeld
<1>2. /\ prefill_start' \in [Requests -> Nat]
      /\ restored_at' \in [Requests -> Nat]
      /\ PrefillBound'
  BY DEF StartPrefill, TypeInv, TypeOK, PrefillBound
<1> QED
  BY <1>1, <1>2 DEF StartPrefill, TypeInv, TypeOK, KVRows,
                    claims, locks, queue, vars, prompt, device

(* A new token keeps the types. *)
LEMMA NextTokenType ==
  ASSUME TypeInv, NEW r \in Requests, slot[r] # None, slot' = slot, NextToken(r)
  PROVE  /\ pc' \in [Requests -> Places] /\ SlotHeld'
         /\ produced' \in [Requests -> Nat]
<1>1. produced' \in [Requests -> Nat]
  BY DEF NextToken, TypeInv, TypeOK
<1>2. \E place \in Places \ {"idle", "done"} : Goto(r, place)
  BY DEF NextToken, Places
<1> QED BY <1>1, <1>2, GotoType

(* So does one decode step, failed or not. *)
LEMMA DecodeOneType ==
  ASSUME TypeInv, NEW r \in Requests, slot[r] \in Slots, DecodeOne(r) \/ DecodeOneFails(r)
  PROVE  rows' \in KVRows /\ seen' \in [Slots -> Nat]
<1>1. rows \in KVRows /\ seen \in [Slots -> Nat] /\ r \in Nobody /\ None \in Nobody
  BY DEF TypeInv, TypeOK, KVRows, Nobody
<1>2. CASE DecodeOne(r)
  BY <1>1, <1>2, WrittenType DEF DecodeOne
<1>3. CASE DecodeOneFails(r)
  BY <1>1, <1>3, WrittenType DEF DecodeOneFails
<1> QED BY <1>2, <1>3

-----------------------------------------------------------------------------
(* The initial state has its types and no prefill under way. *)
LEMMA TypeInit == Init => TypeInv
BY DEF Init, TypeInv, TypeOK, PrefillBound, SlotHeld, Places, Nobody

(* Every step of a thread keeps the types, the prefill within its prompt and *)
(* the slot with its thread.                                                 *)
LEMMA TypeStep ==
  ASSUME TypeInv, NEW r \in Requests, Step(r)
  PROVE  TypeInv'
<1> USE DEF TypeInv, TypeOK, PrefillBound, Nobody,
            vars, claims, queue, locks, prompt, device
<1>chunk. /\ ChunkEnd(r) \in Nat
          /\ prefill_start[r] <= ChunkEnd(r)
          /\ ChunkEnd(r) <= PromptLen[r]
  BY ChunkEndBounds
<1>slot. pc[r] \notin {"idle", "done"} => slot[r] \in Slots /\ slot[r] # None
  BY DEF SlotHeld
<1>empty. <<>> \in Seq(PendingDecode)
  OBVIOUS
<1>1. CASE Claim(r)
  <2>1. pc' \in [Requests -> Places] /\ SlotHeld'
    BY <1>1 DEF Claim, Goto, Places, SlotHeld
  <2>2. /\ slot' \in [Requests -> Slots \cup {None}]
        /\ slot_in_use' \in [Slots -> BOOLEAN]
    BY <1>1 DEF Claim
  <2> QED BY <1>1, <2>1, <2>2 DEF Claim
<1>2. CASE StartCold(r)
  <2>1. rows' \in KVRows /\ seen' \in [Slots -> Nat]
    BY <1>2 DEF StartCold, KVRows
  <2>2. 0 \in 0..PromptLen[r] /\ "prefill" \in Places \ {"idle", "done"}
    BY DEF Places
  <2> QED BY <1>2, <2>1, <2>2, StartPrefillType DEF StartCold
<1>3. CASE StartWarm(r)
  <2>1. PICK e \in snaps :
          /\ Usable(r, e)
          /\ rows' = Written(rows, slot[r], 0, e.n, IF e.exact THEN r ELSE None)
          /\ seen' = [seen EXCEPT ![slot[r]] = IF e.exact THEN e.n ELSE 0]
          /\ StartPrefill(r, IF e.n = PromptLen[r] THEN "first" ELSE "prefill", e.n)
    BY <1>3 DEF StartWarm
  <2>2. e.n \in 0..PromptLen[r] /\ e.exact \in BOOLEAN
    BY <2>1 DEF Usable, Snapshot
  <2>3. rows' \in KVRows
    BY <2>1, WrittenType DEF KVRows
  <2>4. seen' \in [Slots -> Nat]
    <3>1. (IF e.exact THEN e.n ELSE 0) \in Nat
      BY <2>2
    <3> QED BY <2>1, <3>1
  <2>5. (IF e.n = PromptLen[r] THEN "first" ELSE "prefill") \in Places \ {"idle", "done"}
    BY DEF Places
  <2> QED BY <1>3, <2>1, <2>2, <2>3, <2>4, <2>5, StartPrefillType DEF StartWarm
<1>4. CASE StartAfterFailedRestore(r)
  <2>1. PICK e \in snaps :
          /\ rows' = Written(rows, slot[r], 0, e.n, None)
          /\ seen' = [seen EXCEPT ![slot[r]] = 0]
          /\ StartPrefill(r, "prefill", 0)
    BY <1>4 DEF StartAfterFailedRestore
  <2>2. rows' \in KVRows
    BY <2>1, WrittenType DEF KVRows
  <2>3. seen' \in [Slots -> Nat]
    BY <2>1
  <2>4. 0 \in 0..PromptLen[r] /\ "prefill" \in Places \ {"idle", "done"}
    BY DEF Places
  <2> QED BY <1>4, <2>1, <2>2, <2>3, <2>4, StartPrefillType DEF StartAfterFailedRestore
<1>5. CASE StartFails(r)
  <2>1. 0 \in 0..PromptLen[r] /\ "exit" \in Places \ {"idle", "done"}
    BY DEF Places
  <2> QED BY <1>5, <2>1, StartPrefillType DEF StartFails, KVRows
<1>6. CASE LockChunk(r)
  <2>1. pc' \in [Requests -> Places] /\ SlotHeld'
    BY <1>6, <1>slot, GotoType DEF LockChunk, Places
  <2>2. snaps' \subseteq Snapshot
    BY <1>6, CaptureType DEF LockChunk, CaptureBoundary
  <2> QED BY <1>6, <2>1, <2>2 DEF LockChunk
<1>7. CASE TakeDispatcher(r)
  <2>1. pc' \in [Requests -> Places] /\ SlotHeld'
    BY <1>7, <1>slot, GotoType DEF TakeDispatcher, Places
  <2> QED BY <1>7, <2>1 DEF TakeDispatcher
<1>8. CASE DrainMixed(r)
  <2>1. pc' \in [Requests -> Places] /\ SlotHeld'
    BY <1>8, <1>slot, GotoType DEF DrainMixed, Places
  <2>2. drained' \in [Requests -> Seq(PendingDecode)]
    BY <1>8, <1>empty DEF DrainMixed
  <2>3. batched_pending' \in Seq(PendingDecode)
    BY <1>8, <1>empty DEF DrainMixed
  <2> QED BY <1>8, <2>1, <2>2, <2>3 DEF DrainMixed
<1>9. CASE RePush(r)
  <2>1. pc' \in [Requests -> Places] /\ SlotHeld'
    BY <1>9, <1>slot, GotoType DEF RePush, Places
  <2>2. drained' \in [Requests -> Seq(PendingDecode)]
    BY <1>9, <1>empty DEF RePush
  <2>3. batched_pending' \in Seq(PendingDecode)
    BY <1>9, <1>empty DEF RePush
  <2> QED BY <1>9, <2>1, <2>2, <2>3 DEF RePush
<1>10. CASE DropDispatcher(r)
  <2>1. pc' \in [Requests -> Places] /\ SlotHeld'
    BY <1>10, <1>slot, GotoType DEF DropDispatcher, Places
  <2> QED BY <1>10, <2>1 DEF DropDispatcher
<1>11. CASE PureChunk(r)
  <2>1. pc' \in [Requests -> Places] /\ SlotHeld'
    BY <1>11, <1>slot, GotoType DEF PureChunk, Places
  <2>2. rows' \in KVRows
    BY <1>11, WrittenType DEF PureChunk, KVRows
  <2>3. seen' \in [Slots -> Nat]
    BY <1>11, <1>chunk, <1>slot DEF PureChunk
  <2>4. prefill_start' \in [Requests -> Nat] /\ PrefillBound'
    BY <1>11, <1>chunk DEF PureChunk
  <2> QED BY <1>11, <2>1, <2>2, <2>3, <2>4 DEF PureChunk, KVRows
<1>12. CASE PureChunkFails(r)
  <2>1. pc' \in [Requests -> Places] /\ SlotHeld'
    BY <1>12, <1>slot, GotoType DEF PureChunkFails, Places
  <2>2. rows' \in KVRows
    BY <1>12, WrittenType DEF PureChunkFails, KVRows
  <2> QED BY <1>12, <2>1, <2>2 DEF PureChunkFails, KVRows
<1>13. CASE LockNext(r)
  <2>1. pc' \in [Requests -> Places] /\ SlotHeld'
    BY <1>13, <1>slot, GotoType DEF LockNext, Places
  <2>2. locked' \in [Requests -> Nat]
    BY <1>13 DEF LockNext
  <2> QED BY <1>13, <2>1, <2>2 DEF LockNext
<1>14. CASE DispatchBatch(r)
  <2>1. pc' \in [Requests -> Places] /\ SlotHeld'
    BY <1>14, <1>slot, GotoType DEF DispatchBatch, Places
  <2>2. rows' \in KVRows
    BY <1>14, DecodedType DEF DispatchBatch, KVRows
  <2>3. seen' \in [Slots -> Nat]
    BY <1>14, ConsumedType DEF DispatchBatch
  <2>4. reply' \in [Requests -> {"empty", "ok", "err", "closed"}]
    BY <1>14 DEF DispatchBatch, Answer
  <2> QED BY <1>14, <2>1, <2>2, <2>3, <2>4 DEF DispatchBatch, KVRows
<1>15. CASE DispatchBatchFails(r)
  <2>1. pc' \in [Requests -> Places] /\ SlotHeld'
    BY <1>15, <1>slot, GotoType DEF DispatchBatchFails, Places
  <2>2. rows' \in KVRows
    BY <1>15, DecodedType DEF DispatchBatchFails, KVRows
  <2>3. reply' \in [Requests -> {"empty", "ok", "err", "closed"}]
    BY <1>15 DEF DispatchBatchFails, Answer
  <2>4. inflight' \in [Slots -> Nobody]
    BY <1>15 DEF DispatchBatchFails, Unlocked
  <2>5. drained' \in [Requests -> Seq(PendingDecode)]
    BY <1>15, <1>empty DEF DispatchBatchFails
  <2>6. locked' \in [Requests -> Nat]
    BY <1>15 DEF DispatchBatchFails
  <2> QED BY <1>15, <2>1, <2>2, <2>3, <2>4, <2>5, <2>6 DEF DispatchBatchFails, KVRows
<1>16. CASE UnlockBatch(r)
  <2>1. pc' \in [Requests -> Places] /\ SlotHeld'
    BY <1>16, <1>slot, GotoType DEF UnlockBatch, Places
  <2>2. inflight' \in [Slots -> Nobody]
    BY <1>16 DEF UnlockBatch, Unlocked
  <2>3. drained' \in [Requests -> Seq(PendingDecode)]
    BY <1>16, <1>empty DEF UnlockBatch, Unbatch
  <2>4. locked' \in [Requests -> Nat]
    BY <1>16 DEF UnlockBatch, Unbatch
  <2> QED BY <1>16, <2>1, <2>2, <2>3, <2>4 DEF UnlockBatch
<1>17. CASE DispatchMixed(r)
  <2> DEFINE chunk == Written(rows, slot[r], prefill_start[r], ChunkEnd(r), r)
  <2>1. pc' \in [Requests -> Places] /\ SlotHeld'
    BY <1>17, <1>slot, GotoType DEF DispatchMixed, Places
  <2>2. Decoded(r, TRUE) \in KVRows /\ chunk \in KVRows
    BY DecodedType, WrittenType DEF KVRows
  <2>3. rows' \in KVRows
    BY <1>17, <2>2 DEF DispatchMixed, KVRows
  <2>4. Consumed(r) \in [Slots -> Nat]
    BY ConsumedType
  <2>5. seen' \in [Slots -> Nat]
    <3>1. slot[r] \in Slots
      BY <1>17, <1>slot DEF DispatchMixed
    <3>2. Consumed(r)[slot[r]] \in Nat
      BY <2>4, <3>1
    <3>3. ChunkEnd(r) - prefill_start[r] \in Nat
      BY <1>chunk
    <3>4. Consumed(r)[slot[r]] + (ChunkEnd(r) - prefill_start[r]) \in Nat
      BY <3>2, <3>3
    <3> QED BY <1>17, <2>4, <3>4 DEF DispatchMixed
  <2>6. reply' \in [Requests -> {"empty", "ok", "err", "closed"}]
    BY <1>17 DEF DispatchMixed, Answer
  <2> QED BY <1>17, <2>1, <2>3, <2>5, <2>6 DEF DispatchMixed, KVRows
<1>18. CASE DispatchMixedFails(r)
  <2>1. pc' \in [Requests -> Places] /\ SlotHeld'
    BY <1>18, <1>slot, GotoType DEF DispatchMixedFails, Places
  <2>2. rows' \in KVRows
    BY <1>18, DecodedType DEF DispatchMixedFails, KVRows
  <2>3. reply' \in [Requests -> {"empty", "ok", "err", "closed"}]
    BY <1>18 DEF DispatchMixedFails, Answer
  <2>4. inflight' \in [Slots -> Nobody]
    BY <1>18 DEF DispatchMixedFails, Unlocked
  <2>5. drained' \in [Requests -> Seq(PendingDecode)]
    BY <1>18, <1>empty DEF DispatchMixedFails
  <2>6. locked' \in [Requests -> Nat]
    BY <1>18 DEF DispatchMixedFails
  <2> QED BY <1>18, <2>1, <2>2, <2>3, <2>4, <2>5, <2>6 DEF DispatchMixedFails, KVRows
<1>19. CASE UnlockMixed(r)
  <2>1. pc' \in [Requests -> Places] /\ SlotHeld'
    BY <1>19, <1>slot, GotoType DEF UnlockMixed, Places
  <2>2. inflight' \in [Slots -> Nobody]
    BY <1>19 DEF UnlockMixed, Unlocked
  <2>3. prefill_start' \in [Requests -> Nat] /\ PrefillBound'
    BY <1>19, <1>chunk DEF UnlockMixed
  <2>4. drained' \in [Requests -> Seq(PendingDecode)]
    BY <1>19, <1>empty DEF UnlockMixed, Unbatch
  <2>5. locked' \in [Requests -> Nat]
    BY <1>19 DEF UnlockMixed, Unbatch
  <2> QED BY <1>19, <2>1, <2>2, <2>3, <2>4, <2>5 DEF UnlockMixed
<1>20. CASE FirstToken(r)
  <2>1. snaps' \subseteq Snapshot
    BY <1>20, CaptureType DEF FirstToken
  <2>2. /\ pc' \in [Requests -> Places] /\ SlotHeld'
        /\ produced' \in [Requests -> Nat]
    BY <1>20, <1>slot, NextTokenType, GotoType DEF FirstToken, Places
  <2> QED BY <1>20, <2>1, <2>2 DEF FirstToken
<1>21. CASE DecodeDirect(r)
  <2>1. rows' \in KVRows /\ seen' \in [Slots -> Nat]
    BY <1>21, <1>slot, DecodeOneType DEF DecodeDirect
  <2>2. /\ pc' \in [Requests -> Places] /\ SlotHeld'
        /\ produced' \in [Requests -> Nat]
    BY <1>21, <1>slot, NextTokenType, GotoType DEF DecodeDirect, Places
  <2> QED BY <1>21, <2>1, <2>2 DEF DecodeDirect, KVRows
<1>22. CASE CheckOthers(r)
  <2>1. pc' \in [Requests -> Places] /\ SlotHeld'
    BY <1>22, <1>slot, GotoType DEF CheckOthers, Places
  <2> QED BY <1>22, <2>1 DEF CheckOthers
<1>23. CASE DecodeFast(r)
  <2>1. rows' \in KVRows /\ seen' \in [Slots -> Nat]
    BY <1>23, <1>slot, DecodeOneType DEF DecodeFast
  <2>2. /\ pc' \in [Requests -> Places] /\ SlotHeld'
        /\ produced' \in [Requests -> Nat]
    BY <1>23, <1>slot, NextTokenType, GotoType DEF DecodeFast, Places
  <2> QED BY <1>23, <2>1, <2>2 DEF DecodeFast, KVRows
<1>24. CASE Push(r)
  <2>1. pc' \in [Requests -> Places] /\ SlotHeld'
    BY <1>24, <1>slot, GotoType DEF Push, Places
  <2>2. [req |-> r, slot |-> slot[r], position |-> DecodePosition(r)] \in PendingDecode
    BY <1>24, <1>slot DEF Push, PendingDecode, DecodePosition
  <2>3. batched_pending' \in Seq(PendingDecode)
    BY <1>24, <2>2 DEF Push
  <2> QED BY <1>24, <2>1, <2>2, <2>3 DEF Push
<1>25. CASE TryLead(r)
  <2>1. pc' \in [Requests -> Places] /\ SlotHeld'
    BY <1>25, <1>slot, GotoType DEF TryLead, Places
  <2> QED BY <1>25, <2>1 DEF TryLead
<1>26. CASE DrainOrStepDown(r)
  <2>1. pc' \in [Requests -> Places] /\ SlotHeld'
    BY <1>26, <1>slot, GotoType DEF DrainOrStepDown, Places
  <2>2. drained' \in [Requests -> Seq(PendingDecode)]
    BY <1>26, <1>empty DEF DrainOrStepDown
  <2>3. batched_pending' \in Seq(PendingDecode)
    BY <1>26, <1>empty DEF DrainOrStepDown
  <2> QED BY <1>26, <2>1, <2>2, <2>3 DEF DrainOrStepDown
<1>27. CASE Receive(r)
  <2>1. /\ pc' \in [Requests -> Places] /\ SlotHeld'
        /\ produced' \in [Requests -> Nat]
    BY <1>27, <1>slot, NextTokenType, GotoType DEF Receive, Places
  <2>2. reply' \in [Requests -> {"empty", "ok", "err", "closed"}]
    BY <1>27 DEF Receive
  <2> QED BY <1>27, <2>1, <2>2 DEF Receive
<1>28. CASE ReleasePages(r)
  <2>1. pc' \in [Requests -> Places] /\ SlotHeld'
    BY <1>28, <1>slot, GotoType DEF ReleasePages, Places
  <2> QED BY <1>28, <2>1 DEF ReleasePages
<1>29. CASE ClearClaim(r)
  <2>1. pc' \in [Requests -> Places] /\ SlotHeld'
    BY <1>29 DEF ClearClaim, Goto, Places, SlotHeld
  <2> QED BY <1>29, <2>1 DEF ClearClaim
<1> QED
  BY <1>1, <1>2, <1>3, <1>4, <1>5, <1>6, <1>7, <1>8, <1>9, <1>10, <1>11, <1>12,
     <1>13, <1>14, <1>15, <1>16, <1>17, <1>18, <1>19, <1>20, <1>21, <1>22, <1>23, <1>24,
     <1>25, <1>26, <1>27, <1>28, <1>29
  DEF Step, Prefill, Dispatch, Decode

(* A step that changes nothing keeps the types. *)
LEMMA TypeStutter == TypeInv /\ UNCHANGED vars => TypeInv'
BY DEF vars, claims, queue, locks, prompt, device, TypeInv, TypeOK, PrefillBound, SlotHeld

(* Type correctness of the scheduler, with what makes it inductive. *)
THEOREM TypeInvariant == Spec => []TypeInv
<1>1. TypeInv /\ [Next]_vars => TypeInv'
  BY TypeStep, TypeStutter DEF Next, AllServed
<1> QED BY TypeInit, <1>1, PTL DEF Spec

(* Every variable has its type in every reachable state. *)
THEOREM TypeCorrect == Spec => []TypeOK
<1>1. TypeInv => TypeOK
  BY DEF TypeInv
<1> QED BY TypeInvariant, <1>1, PTL

-----------------------------------------------------------------------------
(* Only Claim and ClearClaim touch the claims. *)
LEMMA ClaimsChange ==
  ASSUME NEW r \in Requests, Step(r)
  PROVE  Claim(r) \/ ClearClaim(r) \/ UNCHANGED claims
BY DEF Step, Prefill, Dispatch, Decode, claims, StartPrefill,
       StartCold, StartWarm, StartAfterFailedRestore, StartFails, LockChunk,
       TakeDispatcher, DrainMixed, RePush, DropDispatcher, PureChunk, PureChunkFails,
       LockNext, DispatchBatch, DispatchBatchFails, UnlockBatch, DispatchMixed,
       DispatchMixedFails, UnlockMixed, FirstToken, DecodeDirect, CheckOthers,
       DecodeFast, Push, TryLead, DrainOrStepDown, Receive, ReleasePages

(* claim_slot_blocking takes a free slot and release_slot gives up the own   *)
(* one, so the claim flags and the owners stay in step.                      *)
LEMMA OwnersStep ==
  ASSUME TypeInv, SlotsHaveOneOwner, NEW r \in Requests, Step(r)
  PROVE  SlotsHaveOneOwner'
<1>1. CASE Claim(r)
  <2>1. PICK s \in Slots :
          /\ ~slot_in_use[s]
          /\ slot_in_use' = [slot_in_use EXCEPT ![s] = TRUE]
          /\ slot' = [slot EXCEPT ![r] = s]
    BY <1>1 DEF Claim
  <2>2. \A q \in Requests : slot[q] # s
    BY <2>1 DEF SlotsHaveOneOwner
  <2>3. slot[r] = None
    BY <1>1 DEF Claim, TypeInv, SlotHeld
  <2>4. /\ slot'[r] = s /\ slot_in_use'[s] = TRUE
        /\ \A q \in Requests \ {r} : slot'[q] = slot[q]
        /\ \A t \in Slots \ {s} : slot_in_use'[t] = slot_in_use[t]
    BY <2>1 DEF TypeInv, TypeOK
  <2>5. ASSUME NEW p \in Requests, NEW q \in Requests, p # q, slot'[p] # None
        PROVE  slot'[p] # slot'[q]
    BY <2>2, <2>4, <2>5 DEF SlotsHaveOneOwner
  <2>6. ASSUME NEW t \in Slots
        PROVE  slot_in_use'[t] = (\E q \in Requests : slot'[q] = t)
    <3>1. CASE t = s
      BY <3>1, <2>4
    <3>2. CASE t # s
      <4>1. slot_in_use[t] = (\E q \in Requests : slot[q] = t)
        BY DEF SlotsHaveOneOwner
      <4>2. (\E q \in Requests : slot[q] = t) <=> (\E q \in Requests : slot'[q] = t)
        BY <2>3, <2>4, <3>2
      <4> QED BY <2>4, <3>2, <4>1, <4>2
    <3> QED BY <3>1, <3>2
  <2> QED BY <2>5, <2>6 DEF SlotsHaveOneOwner
<1>2. CASE ClearClaim(r)
  <2>1. slot[r] \in Slots
    BY <1>2 DEF ClearClaim, TypeInv, TypeOK, SlotHeld
  <2>2. \A q \in Requests \ {r} : slot[q] # slot[r]
    BY <2>1 DEF SlotsHaveOneOwner
  <2> QED BY <1>2, <2>1, <2>2 DEF ClearClaim, SlotsHaveOneOwner, TypeInv, TypeOK
<1>3. CASE UNCHANGED claims
  BY <1>3 DEF claims, SlotsHaveOneOwner
<1> QED BY <1>1, <1>2, <1>3, ClaimsChange

(* No two requests ever share a slot of the inflight pool, and a slot is     *)
(* marked in use exactly while a request owns it.                            *)
THEOREM OneOwner == Spec => []SlotsHaveOneOwner
<1>1. Init => SlotsHaveOneOwner
  BY DEF Init, SlotsHaveOneOwner
<1>2. TypeInv /\ SlotsHaveOneOwner /\ [Next]_vars => SlotsHaveOneOwner'
  <2>1. SlotsHaveOneOwner /\ UNCHANGED vars => SlotsHaveOneOwner'
    BY DEF vars, claims, SlotsHaveOneOwner
  <2> QED BY <2>1, OwnersStep DEF Next, AllServed
<1> QED BY TypeInvariant, <1>1, <1>2, PTL DEF Spec


-----------------------------------------------------------------------------
(* Who holds batched_dispatcher is decided by where the threads are. *)
Dispatching(r) ==
  pc[r] \in {"mixed", "repush", "drop", "lock", "dispatch", "unlock", "leader"}

Locking(r) == pc[r] \in {"lock", "dispatch", "unlock"}

DispatcherInv == \A r \in Requests : Dispatching(r) <=> dispatcher = r

(* A thread has drained pendings only while it dispatches or re-pushes them, *)
(* and has locked no more slots than it has pendings.                        *)
DrainedFor(r) ==
  /\ drained[r] # <<>> => Locking(r) \/ pc[r] = "repush"
  /\ locked[r] <= Len(drained[r])
  /\ pc[r] = "lock" => locked[r] < Len(drained[r])
  /\ ~Locking(r) => locked[r] = 0

DrainedInv == \A r \in Requests : DrainedFor(r)

(* The chunk loop is entered and kept only with prompt tokens left. *)
ChunkingFor(r) ==
  pc[r] \in {"prefill", "chunk", "mixed", "repush", "drop", "pure"} => Prefilling(r)

ChunkingInv == \A r \in Requests : ChunkingFor(r)

(* Where a thread may hold the mutex of its own slot. *)
HoldsOwn(r) ==
  \/ pc[r] \in {"chunk", "mixed", "repush", "drop", "pure"}
  \/ Locking(r) /\ Prefilling(r)
  \/ pc[r] \in {"decode", "exit"} /\ r \in Direct

(* A slot mutex is held by the owner of the slot, or by a thread that has    *)
(* locked it for a pending of its batch.                                     *)
HeldFor(s, r) ==
  \/ slot[r] = s /\ HoldsOwn(r)
  \/ Locking(r) /\ \E i \in 1..locked[r] : drained[r][i].slot = s

HolderInv == \A s \in Slots, r \in Requests : inflight[s] = r => HeldFor(s, r)

DispatchInv == DispatcherInv /\ DrainedInv /\ ChunkingInv /\ HolderInv

LEMMA DispatchInit == Init => DispatchInv
BY DEF Init, DispatchInv, DispatcherInv, DrainedInv, DrainedFor, HolderInv,
       ChunkingInv, ChunkingFor, Dispatching, Locking

(* A step of r leaves what other threads do and own alone. *)
LEMMA OthersKeep ==
  ASSUME TypeInv, NEW r \in Requests, Step(r), NEW q \in Requests, q # r
  PROVE  /\ pc'[q] = pc[q] /\ slot'[q] = slot[q] /\ drained'[q] = drained[q]
         /\ locked'[q] = locked[q] /\ prefill_start'[q] = prefill_start[q]
<1> USE DEF TypeInv, TypeOK, Goto, claims, queue, locks, prompt, device
<1>1. CASE Claim(r) \/ ClearClaim(r)
  BY <1>1 DEF Claim, ClearClaim
<1>2. CASE StartCold(r) \/ StartWarm(r) \/ StartAfterFailedRestore(r) \/ StartFails(r)
  BY <1>2 DEF StartCold, StartWarm, StartAfterFailedRestore, StartFails, StartPrefill
<1>3. CASE LockChunk(r) \/ TakeDispatcher(r) \/ DrainMixed(r) \/ RePush(r)
  BY <1>3 DEF LockChunk, TakeDispatcher, DrainMixed, RePush
<1>4. CASE DropDispatcher(r) \/ PureChunk(r) \/ PureChunkFails(r)
  BY <1>4 DEF DropDispatcher, PureChunk, PureChunkFails
<1>5. CASE LockNext(r) \/ DispatchBatch(r) \/ DispatchBatchFails(r) \/ UnlockBatch(r)
  BY <1>5 DEF LockNext, DispatchBatch, DispatchBatchFails, UnlockBatch, Unbatch
<1>6. CASE DispatchMixed(r) \/ DispatchMixedFails(r) \/ UnlockMixed(r)
  BY <1>6 DEF DispatchMixed, DispatchMixedFails, UnlockMixed, Unbatch
<1>7. CASE FirstToken(r) \/ DecodeDirect(r) \/ CheckOthers(r) \/ DecodeFast(r)
  BY <1>7 DEF FirstToken, DecodeDirect, CheckOthers, DecodeFast, NextToken
<1>8. CASE Push(r) \/ TryLead(r) \/ DrainOrStepDown(r)
  BY <1>8 DEF Push, TryLead, DrainOrStepDown
<1>9. CASE Receive(r) \/ ReleasePages(r)
  BY <1>9 DEF Receive, NextToken, ReleasePages
<1> QED BY <1>1, <1>2, <1>3, <1>4, <1>5, <1>6, <1>7, <1>8, <1>9
  DEF Step, Prefill, Dispatch, Decode

(* How a step of r moves the dispatcher, and the slot mutexes. *)
DispatcherMove(r) ==
  \/ dispatcher' = dispatcher /\ (Dispatching(r)' <=> Dispatching(r))
  \/ dispatcher = None /\ dispatcher' = r /\ Dispatching(r)'
  \/ Dispatching(r) /\ dispatcher' = None /\ ~Dispatching(r)'

HolderMove(r) ==
  \A s \in Slots :
    /\ inflight'[s] \in {None, inflight[s], r}
    /\ inflight'[s] = r => HeldFor(s, r)'

(* A slot a thread has locked for its batch is a slot of the batch, so that  *)
(* dropping the guards of the batch drops it.                                *)
LEMMA LockedInBatch ==
  ASSUME TypeInv, DispatchInv, NEW r \in Requests, NEW i \in 1..locked[r]
  PROVE  drained[r][i].slot \in BatchSlots(r)
<1>1. i \in DOMAIN drained[r]
  BY DEF TypeInv, TypeOK, DispatchInv, DrainedInv, DrainedFor
<1> QED BY <1>1 DEF BatchSlots, Batch

(* The dispatcher, the drained pendings and the mutexes after a step of r,   *)
(* action by action.                                                         *)
LEMMA DispatchMoves ==
  ASSUME TypeInv, DispatchInv, NEW r \in Requests, Step(r)
  PROVE  DispatcherMove(r) /\ DrainedFor(r)' /\ ChunkingFor(r)' /\ HolderMove(r)
<1> USE DEF Goto, claims, queue, locks, prompt, device
<1>self. /\ pc[r] \in Places /\ pc' \in [Requests -> Places]
         /\ r # None
  BY TypeStep DEF TypeInv, TypeOK
<1>dispatcher. Dispatching(r) <=> dispatcher = r
  BY DEF DispatchInv, DispatcherInv
<1>drained. DrainedFor(r)
  BY DEF DispatchInv, DrainedInv
<1>chunking. ChunkingFor(r)
  BY DEF DispatchInv, ChunkingInv
<1>inbatch. \A s \in Slots \ BatchSlots(r) :
              inflight[s] = r => slot[r] = s /\ HoldsOwn(r)
  BY LockedInBatch DEF DispatchInv, HolderInv, HeldFor
<1>holder. \A s \in Slots : inflight[s] = r => HeldFor(s, r)
  BY DEF DispatchInv, HolderInv
<1>types. TypeOK /\ TypeOK'
  BY TypeStep DEF TypeInv
<1>1. CASE Claim(r)
  <2>1. DispatcherMove(r)
    BY <1>1, <1>types, <1>dispatcher DEF Claim, TypeOK, DispatcherMove, Dispatching
  <2>2. DrainedFor(r)'
    BY <1>1, <1>types, <1>drained DEF Claim, TypeOK, DrainedFor, Locking
  <2>3. HolderMove(r)
    BY <1>1, <1>types, <1>drained, <1>holder
    DEF Claim, TypeOK, DrainedFor, HolderMove, HeldFor, HoldsOwn,
        Locking, Prefilling
  <2>4. ChunkingFor(r)'
    BY <1>1, <1>types, <1>chunking DEF Claim, TypeOK, ChunkingFor, Prefilling
  <2> QED BY <2>1, <2>2, <2>3, <2>4
<1>2. CASE StartCold(r)
  <2>1. DispatcherMove(r)
    BY <1>2, <1>types, <1>dispatcher DEF StartCold, StartPrefill, CanStart, TypeOK, DispatcherMove, Dispatching
  <2>2. DrainedFor(r)'
    BY <1>2, <1>types, <1>drained DEF StartCold, StartPrefill, CanStart, TypeOK, DrainedFor, Locking
  <2>3. HolderMove(r)
    BY <1>2, <1>types, <1>drained, <1>holder
    DEF StartCold, StartPrefill, CanStart, TypeOK, DrainedFor, HolderMove, HeldFor, HoldsOwn,
        Locking, Prefilling
  <2>4. ChunkingFor(r)'
    BY <1>2, <1>types, <1>chunking DEF StartCold, StartPrefill, CanStart, TypeOK, ChunkingFor, Prefilling
  <2> QED BY <2>1, <2>2, <2>3, <2>4
<1>3. CASE StartWarm(r)
  <2>1. DispatcherMove(r)
    BY <1>3, <1>types, <1>dispatcher DEF StartWarm, StartPrefill, CanStart, TypeOK, DispatcherMove, Dispatching
  <2>2. DrainedFor(r)'
    BY <1>3, <1>types, <1>drained DEF StartWarm, StartPrefill, CanStart, TypeOK, DrainedFor, Locking
  <2>3. HolderMove(r)
    BY <1>3, <1>types, <1>drained, <1>holder
    DEF StartWarm, StartPrefill, CanStart, TypeOK, DrainedFor, HolderMove, HeldFor, HoldsOwn,
        Locking, Prefilling
  <2>4. ChunkingFor(r)'
    BY <1>3, <1>types, <1>chunking DEF StartWarm, StartPrefill, CanStart, Usable, Snapshot, TypeOK, ChunkingFor, Prefilling
  <2> QED BY <2>1, <2>2, <2>3, <2>4
<1>4. CASE StartAfterFailedRestore(r)
  <2>1. DispatcherMove(r)
    BY <1>4, <1>types, <1>dispatcher DEF StartAfterFailedRestore, StartPrefill, CanStart, TypeOK, DispatcherMove, Dispatching
  <2>2. DrainedFor(r)'
    BY <1>4, <1>types, <1>drained DEF StartAfterFailedRestore, StartPrefill, CanStart, TypeOK, DrainedFor, Locking
  <2>3. HolderMove(r)
    BY <1>4, <1>types, <1>drained, <1>holder
    DEF StartAfterFailedRestore, StartPrefill, CanStart, TypeOK, DrainedFor, HolderMove, HeldFor, HoldsOwn,
        Locking, Prefilling
  <2>4. ChunkingFor(r)'
    BY <1>4, <1>types, <1>chunking DEF StartAfterFailedRestore, StartPrefill, CanStart, TypeOK, ChunkingFor, Prefilling
  <2> QED BY <2>1, <2>2, <2>3, <2>4
<1>5. CASE StartFails(r)
  <2>1. DispatcherMove(r)
    BY <1>5, <1>types, <1>dispatcher DEF StartFails, StartPrefill, CanStart, TypeOK, DispatcherMove, Dispatching
  <2>2. DrainedFor(r)'
    BY <1>5, <1>types, <1>drained DEF StartFails, StartPrefill, CanStart, TypeOK, DrainedFor, Locking
  <2>3. HolderMove(r)
    BY <1>5, <1>types, <1>drained, <1>holder
    DEF StartFails, StartPrefill, CanStart, TypeOK, DrainedFor, HolderMove, HeldFor, HoldsOwn,
        Locking, Prefilling
  <2>4. ChunkingFor(r)'
    BY <1>5, <1>types, <1>chunking DEF StartFails, StartPrefill, CanStart, TypeOK, ChunkingFor, Prefilling
  <2> QED BY <2>1, <2>2, <2>3, <2>4
<1>6. CASE LockChunk(r)
  <2>1. DispatcherMove(r)
    BY <1>6, <1>types, <1>dispatcher DEF LockChunk, TypeOK, DispatcherMove, Dispatching
  <2>2. DrainedFor(r)'
    BY <1>6, <1>types, <1>drained DEF LockChunk, TypeOK, DrainedFor, Locking
  <2>3. HolderMove(r)
    BY <1>6, <1>types, <1>drained, <1>holder
    DEF LockChunk, TypeOK, DrainedFor, HolderMove, HeldFor, HoldsOwn,
        Locking, Prefilling
  <2>4. ChunkingFor(r)'
    BY <1>6, <1>types, <1>chunking DEF LockChunk, TypeOK, ChunkingFor, Prefilling
  <2> QED BY <2>1, <2>2, <2>3, <2>4
<1>7. CASE TakeDispatcher(r)
  <2>1. DispatcherMove(r)
    BY <1>7, <1>types, <1>dispatcher DEF TakeDispatcher, TypeOK, DispatcherMove, Dispatching
  <2>2. DrainedFor(r)'
    BY <1>7, <1>types, <1>drained DEF TakeDispatcher, TypeOK, DrainedFor, Locking
  <2>3. HolderMove(r)
    BY <1>7, <1>types, <1>drained, <1>holder
    DEF TakeDispatcher, TypeOK, DrainedFor, HolderMove, HeldFor, HoldsOwn,
        Locking, Prefilling
  <2>4. ChunkingFor(r)'
    BY <1>7, <1>types, <1>chunking DEF TakeDispatcher, TypeOK, ChunkingFor, Prefilling
  <2> QED BY <2>1, <2>2, <2>3, <2>4
<1>8. CASE DrainMixed(r)
  <2>1. DispatcherMove(r)
    BY <1>8, <1>types, <1>dispatcher DEF DrainMixed, TypeOK, DispatcherMove, Dispatching
  <2>2. DrainedFor(r)'
    BY <1>8, <1>types, <1>drained DEF DrainMixed, TypeOK, DrainedFor, Locking
  <2>3. HolderMove(r)
    BY <1>8, <1>types, <1>drained, <1>holder, <1>chunking
    DEF DrainMixed, TypeOK, DrainedFor, HolderMove, HeldFor, HoldsOwn, ChunkingFor,
        Locking, Prefilling
  <2>4. ChunkingFor(r)'
    BY <1>8, <1>types, <1>chunking DEF DrainMixed, TypeOK, ChunkingFor, Prefilling
  <2> QED BY <2>1, <2>2, <2>3, <2>4
<1>9. CASE RePush(r)
  <2>1. DispatcherMove(r)
    BY <1>9, <1>types, <1>dispatcher DEF RePush, TypeOK, DispatcherMove, Dispatching
  <2>2. DrainedFor(r)'
    BY <1>9, <1>types, <1>drained DEF RePush, TypeOK, DrainedFor, Locking
  <2>3. HolderMove(r)
    BY <1>9, <1>types, <1>drained, <1>holder
    DEF RePush, TypeOK, DrainedFor, HolderMove, HeldFor, HoldsOwn,
        Locking, Prefilling
  <2>4. ChunkingFor(r)'
    BY <1>9, <1>types, <1>chunking DEF RePush, TypeOK, ChunkingFor, Prefilling
  <2> QED BY <2>1, <2>2, <2>3, <2>4
<1>10. CASE DropDispatcher(r)
  <2>1. DispatcherMove(r)
    BY <1>10, <1>types, <1>dispatcher DEF DropDispatcher, TypeOK, DispatcherMove, Dispatching
  <2>2. DrainedFor(r)'
    BY <1>10, <1>types, <1>drained DEF DropDispatcher, TypeOK, DrainedFor, Locking
  <2>3. HolderMove(r)
    BY <1>10, <1>types, <1>drained, <1>holder
    DEF DropDispatcher, TypeOK, DrainedFor, HolderMove, HeldFor, HoldsOwn,
        Locking, Prefilling
  <2>4. ChunkingFor(r)'
    BY <1>10, <1>types, <1>chunking DEF DropDispatcher, TypeOK, ChunkingFor, Prefilling
  <2> QED BY <2>1, <2>2, <2>3, <2>4
<1>11. CASE PureChunk(r)
  <2>1. DispatcherMove(r)
    BY <1>11, <1>types, <1>dispatcher DEF PureChunk, TypeOK, DispatcherMove, Dispatching
  <2>2. DrainedFor(r)'
    BY <1>11, <1>types, <1>drained DEF PureChunk, TypeOK, DrainedFor, Locking
  <2>3. HolderMove(r)
    BY <1>11, <1>types, <1>drained, <1>holder
    DEF PureChunk, TypeOK, DrainedFor, HolderMove, HeldFor, HoldsOwn,
        Locking, Prefilling
  <2>4. ChunkingFor(r)'
    BY <1>11, <1>types, <1>chunking DEF PureChunk, TypeOK, ChunkingFor, Prefilling
  <2> QED BY <2>1, <2>2, <2>3, <2>4
<1>12. CASE PureChunkFails(r)
  <2>1. DispatcherMove(r)
    BY <1>12, <1>types, <1>dispatcher DEF PureChunkFails, TypeOK, DispatcherMove, Dispatching
  <2>2. DrainedFor(r)'
    BY <1>12, <1>types, <1>drained DEF PureChunkFails, TypeOK, DrainedFor, Locking
  <2>3. HolderMove(r)
    BY <1>12, <1>types, <1>drained, <1>holder
    DEF PureChunkFails, TypeOK, DrainedFor, HolderMove, HeldFor, HoldsOwn,
        Locking, Prefilling
  <2>4. ChunkingFor(r)'
    BY <1>12, <1>types, <1>chunking DEF PureChunkFails, TypeOK, ChunkingFor, Prefilling
  <2> QED BY <2>1, <2>2, <2>3, <2>4
<1>13. CASE LockNext(r)
  <2>1. DispatcherMove(r)
    BY <1>13, <1>types, <1>dispatcher DEF LockNext, TypeOK, DispatcherMove, Dispatching
  <2>2. DrainedFor(r)'
    BY <1>13, <1>types, <1>drained DEF LockNext, TypeOK, DrainedFor, Locking
  <2>3. HolderMove(r)
    BY <1>13, <1>types, <1>drained, <1>holder
    DEF LockNext, TypeOK, DrainedFor, HolderMove, HeldFor, HoldsOwn,
        Locking, Prefilling
  <2>4. ChunkingFor(r)'
    BY <1>13, <1>types, <1>chunking DEF LockNext, TypeOK, ChunkingFor, Prefilling
  <2> QED BY <2>1, <2>2, <2>3, <2>4
<1>14. CASE DispatchBatch(r)
  <2>1. DispatcherMove(r)
    BY <1>14, <1>types, <1>dispatcher DEF DispatchBatch, TypeOK, DispatcherMove, Dispatching
  <2>2. DrainedFor(r)'
    BY <1>14, <1>types, <1>drained DEF DispatchBatch, TypeOK, DrainedFor, Locking
  <2>3. HolderMove(r)
    BY <1>14, <1>types, <1>drained, <1>holder
    DEF DispatchBatch, TypeOK, DrainedFor, HolderMove, HeldFor, HoldsOwn,
        Locking, Prefilling
  <2>4. ChunkingFor(r)'
    BY <1>14, <1>types, <1>chunking DEF DispatchBatch, TypeOK, ChunkingFor, Prefilling
  <2> QED BY <2>1, <2>2, <2>3, <2>4
<1>15. CASE DispatchBatchFails(r)
  <2>1. DispatcherMove(r)
    BY <1>15, <1>types, <1>dispatcher DEF DispatchBatchFails, TypeOK, DispatcherMove, Dispatching
  <2>2. DrainedFor(r)'
    BY <1>15, <1>types, <1>drained DEF DispatchBatchFails, TypeOK, DrainedFor, Locking
  <2>3. HolderMove(r)
    BY <1>15, <1>types, <1>drained, <1>holder, <1>inbatch
    DEF DispatchBatchFails, Unlocked, TypeOK, DrainedFor, HolderMove, HeldFor, HoldsOwn,
        Locking, Prefilling
  <2>4. ChunkingFor(r)'
    BY <1>15, <1>types, <1>chunking DEF DispatchBatchFails, TypeOK, ChunkingFor, Prefilling
  <2> QED BY <2>1, <2>2, <2>3, <2>4
<1>16. CASE UnlockBatch(r)
  <2>1. DispatcherMove(r)
    BY <1>16, <1>types, <1>dispatcher DEF UnlockBatch, Unbatch, TypeOK, DispatcherMove, Dispatching
  <2>2. DrainedFor(r)'
    BY <1>16, <1>types, <1>drained DEF UnlockBatch, Unbatch, TypeOK, DrainedFor, Locking
  <2>3. HolderMove(r)
    BY <1>16, <1>types, <1>drained, <1>holder, <1>inbatch
    DEF UnlockBatch, Unbatch, Unlocked, TypeOK, DrainedFor, HolderMove, HeldFor, HoldsOwn,
        Locking, Prefilling
  <2>4. ChunkingFor(r)'
    BY <1>16, <1>types, <1>chunking DEF UnlockBatch, Unbatch, TypeOK, ChunkingFor, Prefilling
  <2> QED BY <2>1, <2>2, <2>3, <2>4
<1>17. CASE DispatchMixed(r)
  <2>1. DispatcherMove(r)
    BY <1>17, <1>types, <1>dispatcher DEF DispatchMixed, TypeOK, DispatcherMove, Dispatching
  <2>2. DrainedFor(r)'
    BY <1>17, <1>types, <1>drained DEF DispatchMixed, TypeOK, DrainedFor, Locking
  <2>3. HolderMove(r)
    BY <1>17, <1>types, <1>drained, <1>holder
    DEF DispatchMixed, TypeOK, DrainedFor, HolderMove, HeldFor, HoldsOwn,
        Locking, Prefilling
  <2>4. ChunkingFor(r)'
    BY <1>17, <1>types, <1>chunking DEF DispatchMixed, TypeOK, ChunkingFor, Prefilling
  <2> QED BY <2>1, <2>2, <2>3, <2>4
<1>18. CASE DispatchMixedFails(r)
  <2>1. DispatcherMove(r)
    BY <1>18, <1>types, <1>dispatcher DEF DispatchMixedFails, TypeOK, DispatcherMove, Dispatching
  <2>2. DrainedFor(r)'
    BY <1>18, <1>types, <1>drained DEF DispatchMixedFails, TypeOK, DrainedFor, Locking
  <2>3. HolderMove(r)
    BY <1>18, <1>types, <1>drained, <1>holder, <1>inbatch
    DEF DispatchMixedFails, Unlocked, TypeOK, DrainedFor, HolderMove, HeldFor, HoldsOwn,
        Locking, Prefilling
  <2>4. ChunkingFor(r)'
    BY <1>18, <1>types, <1>chunking DEF DispatchMixedFails, TypeOK, ChunkingFor, Prefilling
  <2> QED BY <2>1, <2>2, <2>3, <2>4
<1>19. CASE UnlockMixed(r)
  <2>1. DispatcherMove(r)
    BY <1>19, <1>types, <1>dispatcher DEF UnlockMixed, Unbatch, TypeOK, DispatcherMove, Dispatching
  <2>2. DrainedFor(r)'
    BY <1>19, <1>types, <1>drained DEF UnlockMixed, Unbatch, TypeOK, DrainedFor, Locking
  <2>3. HolderMove(r)
    BY <1>19, <1>types, <1>drained, <1>holder, <1>inbatch
    DEF UnlockMixed, Unbatch, Unlocked, TypeOK, DrainedFor, HolderMove, HeldFor, HoldsOwn,
        Locking, Prefilling
  <2>4. ChunkingFor(r)'
    BY <1>19, <1>types, <1>chunking DEF UnlockMixed, Unbatch, TypeOK, ChunkingFor, Prefilling
  <2> QED BY <2>1, <2>2, <2>3, <2>4
<1>20. CASE FirstToken(r)
  <2>1. DispatcherMove(r)
    BY <1>20, <1>types, <1>dispatcher DEF FirstToken, NextToken, KeepsGuard, TypeOK, DispatcherMove, Dispatching
  <2>2. DrainedFor(r)'
    BY <1>20, <1>types, <1>drained DEF FirstToken, NextToken, KeepsGuard, TypeOK, DrainedFor, Locking
  <2>3. HolderMove(r)
    BY <1>20, <1>types, <1>drained, <1>holder
    DEF FirstToken, NextToken, KeepsGuard, TypeOK, DrainedFor, HolderMove, HeldFor, HoldsOwn,
        Locking, Prefilling
  <2>4. ChunkingFor(r)'
    BY <1>20, <1>types, <1>chunking DEF FirstToken, NextToken, KeepsGuard, TypeOK, ChunkingFor, Prefilling
  <2> QED BY <2>1, <2>2, <2>3, <2>4
<1>21. CASE DecodeDirect(r)
  <2>1. DispatcherMove(r)
    BY <1>21, <1>types, <1>dispatcher DEF DecodeDirect, NextToken, TypeOK, DispatcherMove, Dispatching
  <2>2. DrainedFor(r)'
    BY <1>21, <1>types, <1>drained DEF DecodeDirect, NextToken, TypeOK, DrainedFor, Locking
  <2>3. HolderMove(r)
    BY <1>21, <1>types, <1>drained, <1>holder
    DEF DecodeDirect, NextToken, TypeOK, DrainedFor, HolderMove, HeldFor, HoldsOwn,
        Locking, Prefilling
  <2>4. ChunkingFor(r)'
    BY <1>21, <1>types, <1>chunking DEF DecodeDirect, NextToken, TypeOK, ChunkingFor, Prefilling
  <2> QED BY <2>1, <2>2, <2>3, <2>4
<1>22. CASE CheckOthers(r)
  <2>1. DispatcherMove(r)
    BY <1>22, <1>types, <1>dispatcher DEF CheckOthers, TypeOK, DispatcherMove, Dispatching
  <2>2. DrainedFor(r)'
    BY <1>22, <1>types, <1>drained DEF CheckOthers, TypeOK, DrainedFor, Locking
  <2>3. HolderMove(r)
    BY <1>22, <1>types, <1>drained, <1>holder
    DEF CheckOthers, TypeOK, DrainedFor, HolderMove, HeldFor, HoldsOwn,
        Locking, Prefilling
  <2>4. ChunkingFor(r)'
    BY <1>22, <1>types, <1>chunking DEF CheckOthers, TypeOK, ChunkingFor, Prefilling
  <2> QED BY <2>1, <2>2, <2>3, <2>4
<1>23. CASE DecodeFast(r)
  <2>1. DispatcherMove(r)
    BY <1>23, <1>types, <1>dispatcher DEF DecodeFast, NextToken, TypeOK, DispatcherMove, Dispatching
  <2>2. DrainedFor(r)'
    BY <1>23, <1>types, <1>drained DEF DecodeFast, NextToken, TypeOK, DrainedFor, Locking
  <2>3. HolderMove(r)
    BY <1>23, <1>types, <1>drained, <1>holder
    DEF DecodeFast, NextToken, TypeOK, DrainedFor, HolderMove, HeldFor, HoldsOwn,
        Locking, Prefilling
  <2>4. ChunkingFor(r)'
    BY <1>23, <1>types, <1>chunking DEF DecodeFast, NextToken, TypeOK, ChunkingFor, Prefilling
  <2> QED BY <2>1, <2>2, <2>3, <2>4
<1>24. CASE Push(r)
  <2>1. DispatcherMove(r)
    BY <1>24, <1>types, <1>dispatcher DEF Push, TypeOK, DispatcherMove, Dispatching
  <2>2. DrainedFor(r)'
    BY <1>24, <1>types, <1>drained DEF Push, TypeOK, DrainedFor, Locking
  <2>3. HolderMove(r)
    BY <1>24, <1>types, <1>drained, <1>holder
    DEF Push, TypeOK, DrainedFor, HolderMove, HeldFor, HoldsOwn,
        Locking, Prefilling
  <2>4. ChunkingFor(r)'
    BY <1>24, <1>types, <1>chunking DEF Push, TypeOK, ChunkingFor, Prefilling
  <2> QED BY <2>1, <2>2, <2>3, <2>4
<1>25. CASE TryLead(r)
  <2>1. DispatcherMove(r)
    BY <1>25, <1>types, <1>dispatcher DEF TryLead, TypeOK, DispatcherMove, Dispatching
  <2>2. DrainedFor(r)'
    BY <1>25, <1>types, <1>drained DEF TryLead, TypeOK, DrainedFor, Locking
  <2>3. HolderMove(r)
    BY <1>25, <1>types, <1>drained, <1>holder
    DEF TryLead, TypeOK, DrainedFor, HolderMove, HeldFor, HoldsOwn,
        Locking, Prefilling
  <2>4. ChunkingFor(r)'
    BY <1>25, <1>types, <1>chunking DEF TryLead, TypeOK, ChunkingFor, Prefilling
  <2> QED BY <2>1, <2>2, <2>3, <2>4
<1>26. CASE DrainOrStepDown(r)
  <2>1. DispatcherMove(r)
    BY <1>26, <1>types, <1>dispatcher DEF DrainOrStepDown, TypeOK, DispatcherMove, Dispatching
  <2>2. DrainedFor(r)'
    BY <1>26, <1>types, <1>drained DEF DrainOrStepDown, TypeOK, DrainedFor, Locking
  <2>3. HolderMove(r)
    BY <1>26, <1>types, <1>drained, <1>holder
    DEF DrainOrStepDown, TypeOK, DrainedFor, HolderMove, HeldFor, HoldsOwn,
        Locking, Prefilling
  <2>4. ChunkingFor(r)'
    BY <1>26, <1>types, <1>chunking DEF DrainOrStepDown, TypeOK, ChunkingFor, Prefilling
  <2> QED BY <2>1, <2>2, <2>3, <2>4
<1>27. CASE Receive(r)
  <2>1. DispatcherMove(r)
    BY <1>27, <1>types, <1>dispatcher DEF Receive, NextToken, TypeOK, DispatcherMove, Dispatching
  <2>2. DrainedFor(r)'
    BY <1>27, <1>types, <1>drained DEF Receive, NextToken, TypeOK, DrainedFor, Locking
  <2>3. HolderMove(r)
    BY <1>27, <1>types, <1>drained, <1>holder
    DEF Receive, NextToken, TypeOK, DrainedFor, HolderMove, HeldFor, HoldsOwn,
        Locking, Prefilling
  <2>4. ChunkingFor(r)'
    BY <1>27, <1>types, <1>chunking DEF Receive, NextToken, TypeOK, ChunkingFor, Prefilling
  <2> QED BY <2>1, <2>2, <2>3, <2>4
<1>28. CASE ReleasePages(r)
  <2>1. DispatcherMove(r)
    BY <1>28, <1>types, <1>dispatcher DEF ReleasePages, TypeOK, DispatcherMove, Dispatching
  <2>2. DrainedFor(r)'
    BY <1>28, <1>types, <1>drained DEF ReleasePages, TypeOK, DrainedFor, Locking
  <2>3. HolderMove(r)
    BY <1>28, <1>types, <1>drained, <1>holder
    DEF ReleasePages, TypeOK, DrainedFor, HolderMove, HeldFor, HoldsOwn,
        Locking, Prefilling
  <2>4. ChunkingFor(r)'
    BY <1>28, <1>types, <1>chunking DEF ReleasePages, TypeOK, ChunkingFor, Prefilling
  <2> QED BY <2>1, <2>2, <2>3, <2>4
<1>29. CASE ClearClaim(r)
  <2>1. DispatcherMove(r)
    BY <1>29, <1>types, <1>dispatcher DEF ClearClaim, TypeOK, DispatcherMove, Dispatching
  <2>2. DrainedFor(r)'
    BY <1>29, <1>types, <1>drained DEF ClearClaim, TypeOK, DrainedFor, Locking
  <2>3. HolderMove(r)
    BY <1>29, <1>types, <1>drained, <1>holder
    DEF ClearClaim, TypeOK, DrainedFor, HolderMove, HeldFor, HoldsOwn,
        Locking, Prefilling
  <2>4. ChunkingFor(r)'
    BY <1>29, <1>types, <1>chunking DEF ClearClaim, TypeOK, ChunkingFor, Prefilling
  <2> QED BY <2>1, <2>2, <2>3, <2>4
<1> QED
  BY <1>1, <1>2, <1>3, <1>4, <1>5, <1>6, <1>7, <1>8, <1>9, <1>10, <1>11, <1>12,
     <1>13, <1>14, <1>15, <1>16, <1>17, <1>18, <1>19, <1>20, <1>21, <1>22, <1>23, <1>24,
     <1>25, <1>26, <1>27, <1>28, <1>29
  DEF Step, Prefill, Dispatch, Decode


(* So the invariant is kept: the others keep what they had. *)
LEMMA DispatchStep ==
  ASSUME TypeInv, DispatchInv, NEW r \in Requests, Step(r)
  PROVE  DispatchInv'
<1>moves. DispatcherMove(r) /\ DrainedFor(r)' /\ ChunkingFor(r)' /\ HolderMove(r)
  BY DispatchMoves
<1>inv. DispatcherInv /\ DrainedInv /\ ChunkingInv /\ HolderInv
  BY DEF DispatchInv
<1>1. ASSUME NEW q \in Requests \ {r}
      PROVE  /\ Dispatching(q)' <=> Dispatching(q)
             /\ DrainedFor(q)' <=> DrainedFor(q)
             /\ ChunkingFor(q)' <=> ChunkingFor(q)
             /\ \A s \in Slots : HeldFor(s, q)' <=> HeldFor(s, q)
  <2>1. /\ pc'[q] = pc[q] /\ slot'[q] = slot[q] /\ drained'[q] = drained[q]
        /\ locked'[q] = locked[q] /\ prefill_start'[q] = prefill_start[q]
    BY OthersKeep
  <2> QED BY <2>1 DEF Dispatching, DrainedFor, ChunkingFor, HeldFor, HoldsOwn,
                      Locking, Prefilling
<1>2. DispatcherInv'
  <2>1. r # None /\ \A q \in Requests : q # None
    OBVIOUS
  <2> QED BY <2>1, <1>1, <1>moves, <1>inv DEF DispatcherMove, DispatcherInv
<1>3. DrainedInv'
  BY <1>1, <1>moves, <1>inv DEF DrainedInv
<1>4. ChunkingInv'
  BY <1>1, <1>moves, <1>inv DEF ChunkingInv
<1>5. HolderInv'
  BY <1>1, <1>moves, <1>inv DEF HolderMove, HolderInv
<1> QED BY <1>2, <1>3, <1>4, <1>5 DEF DispatchInv

LEMMA DispatchStutter == DispatchInv /\ UNCHANGED vars => DispatchInv'
BY DEF vars, claims, queue, locks, prompt, DispatchInv, DispatcherInv, DrainedInv,
       DrainedFor, ChunkingInv, ChunkingFor, HolderInv, HeldFor, HoldsOwn, Dispatching,
       Locking, Prefilling

THEOREM DispatchInvariant == Spec => []DispatchInv
<1>1. TypeInv /\ DispatchInv /\ [Next]_vars => DispatchInv'
  BY DispatchStep, DispatchStutter DEF Next, AllServed
<1> QED BY TypeInvariant, DispatchInit, <1>1, PTL DEF Spec

(* At most one thread has a drained batch, the one that holds                *)
(* batched_dispatcher, and nobody else ever holds the mutex of a slot that   *)
(* is not its own: two leaders cannot wait for each other's slots.           *)
THEOREM SingleDispatcher == Spec => []OneDispatcher
<1>1. TypeInv /\ DispatchInv => OneDispatcher
  <2> SUFFICES ASSUME TypeInv, DispatchInv PROVE OneDispatcher
    OBVIOUS
  <2>1. ASSUME NEW r \in Requests, drained[r] # <<>>
        PROVE  dispatcher = r
    BY <2>1 DEF DispatchInv, DispatcherInv, DrainedInv, DrainedFor, Dispatching, Locking
  <2>2. ASSUME NEW s \in Slots, inflight[s] # None, slot[inflight[s]] # s
        PROVE  inflight[s] = dispatcher
    <3>1. inflight[s] \in Requests
      BY <2>2 DEF TypeInv, TypeOK, Nobody
    <3>2. Locking(inflight[s])
      BY <2>2, <3>1 DEF DispatchInv, HolderInv, HeldFor
    <3> QED BY <3>1, <3>2 DEF DispatchInv, DispatcherInv, Dispatching, Locking
  <2> QED BY <2>1, <2>2 DEF OneDispatcher
<1> QED BY TypeInvariant, DispatchInvariant, <1>1, PTL

=============================================================================
