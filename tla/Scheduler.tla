----------------------------- MODULE Scheduler -----------------------------
(***************************************************************************)
(* The request scheduler of the inference server: crates/server/src/       *)
(* routes.rs and routes/decode_loop.rs.  Every completion request runs on  *)
(* a blocking thread of its own.  It claims one slot of the inflight pool  *)
(* for its whole life, prefills its prompt chunk by chunk, and then        *)
(* decodes one token at a time.                                            *)
(*                                                                         *)
(* Requests decode in one of two ways.  A Direct one (a streaming request, *)
(* or one in JSON or logprobs mode) keeps the mutex of its slot and        *)
(* forwards alone.  Any other one lets the mutex go and, unless it is the  *)
(* only active request, pushes a PendingDecode on batched_pending; the     *)
(* thread that wins batched_dispatcher becomes the leader, drains the      *)
(* queue, locks the slots of the batch one by one, runs one batched        *)
(* forward and answers every pending.  With MixedOn a prefilling thread    *)
(* takes the dispatcher too, and carries the pendings in its own forward.  *)
(*                                                                         *)
(* What the device holds is abstracted to who wrote what: rows[s][i] is    *)
(* the request whose token produced KV row i of slot s (None when the      *)
(* contents are unknown) and seen[s] is the number of tokens the recurrent *)
(* (GDN) state of slot s has consumed since its last reset.                *)
(***************************************************************************)
EXTENDS Integers, Sequences, FiniteSets

CONSTANTS
  Requests,     (* request threads, one completion each                    *)
  Direct,       (* those that decode with the slot mutex held              *)
  Slots,        (* the inflight pool                                       *)
  None,         (* no request, no slot                                     *)
  ChunkTokens,  (* --prefill-chunk-tokens                                  *)
  PromptLen,    (* tokens in the prompt of each request                    *)
  MaxTokens,    (* max_tokens of each request                              *)
  CtxCap,       (* KV rows of a slot (max_seq_len)                         *)
  MixedOn,      (* Model::supports_mixed_batch                             *)
  Paged         (* whether the KV cache is paged (--paged-kv-pages)        *)

ASSUME SchedulerAssumption ==
  /\ Direct \subseteq Requests
  /\ None \notin Requests \cup Slots
  /\ ChunkTokens \in Nat \ {0}
  /\ PromptLen \in [Requests -> Nat \ {0}]
  /\ MaxTokens \in [Requests -> Nat \ {0}]
  /\ CtxCap \in Nat \ {0}
  /\ MixedOn \in BOOLEAN
  /\ Paged \in BOOLEAN

VARIABLES
  pc,               (* where each request thread is                        *)
  slot,             (* slot_idx of each request, None while it has none    *)
  slot_in_use,      (* the claim flag of each slot                         *)
  inflight,         (* who holds the mutex of each slot, or None           *)
  dispatcher,       (* who holds batched_dispatcher, or None               *)
  batched_pending,  (* the queue of PendingDecodes                         *)
  drained,          (* the pendings a dispatching thread took              *)
  locked,           (* how many slots of its drained batch it has locked   *)
  reply,            (* what is in the response channel of each request     *)
  prefill_start,    (* tokens of the prompt each request has prefilled     *)
  restored_at,      (* where its prefill began after the prefix cache      *)
  produced,         (* tokens it has generated                             *)
  rows,             (* who wrote each KV row of each slot                  *)
  seen,             (* tokens in the recurrent state of each slot          *)
  snaps             (* the snapshots in the prefix cache                   *)

claims  == <<slot, slot_in_use>>
queue   == <<batched_pending, drained, locked, reply>>
locks   == <<inflight, dispatcher>>
prompt  == <<prefill_start, restored_at>>
device  == <<rows, seen>>
vars    == <<pc, claims, locks, queue, prompt, produced, device, snaps>>

Nobody  == Requests \cup {None}

(* One queued decode: the slot it is for and its KV write row. *)
PendingDecode == [req : Requests, slot : Slots, position : Nat]

(* What prefix_cache_insert_* stored: the state after n tokens, with the   *)
(* logits of the last one (full) or without, and whether rows and          *)
(* recurrent state were exactly those of the first n tokens of the prompt. *)
Snapshot == [n : Nat, full : BOOLEAN, exact : BOOLEAN]

Places == {"idle", "claimed", "prefill", "chunk", "mixed", "repush", "drop",
           "pure", "lock", "dispatch", "unlock", "first", "decode", "fast",
           "push", "lead", "leader", "wait", "exit", "release", "done"}

-----------------------------------------------------------------------------
Goto(r, place) == pc' = [pc EXCEPT ![r] = place]

(* The prefill chunk request r is at, and how it ends. *)
Prefilling(r) == prefill_start[r] < PromptLen[r]

ChunkEnd(r) ==
  IF prefill_start[r] + ChunkTokens <= PromptLen[r]
  THEN prefill_start[r] + ChunkTokens
  ELSE PromptLen[r]

(* The last two full-chunk boundaries strictly inside the prompt. *)
CaptureBoundaries(r) ==
  {b \in 1..(PromptLen[r] - 1) :
      b % ChunkTokens = 0 /\ b + 2 * ChunkTokens >= PromptLen[r]}

(* The KV write row of the decode step that follows the produced-th token: *)
(* prompt_ids.len() + step, where step counts from 1.                      *)
DecodePosition(r) == PromptLen[r] + produced[r]

(* Rows i..j-1 of slot s written on behalf of r. *)
Written(kv, s, i, j, r) ==
  [kv EXCEPT ![s] = [k \in DOMAIN kv[s] |-> IF k \in i..(j - 1) THEN r ELSE kv[s][k]]]

(* The state of slot s after n tokens, as a snapshot for request r. *)
SnapshotOf(r, s, n, full) ==
  [n |-> n, full |-> full,
   exact |-> seen[s] = n /\ \A i \in 0..(n - 1) : rows[s][i] = r]

(* prefix_cache_try_capture_full and _insert_intermediate are best effort:  *)
(* the cache may be off, the prompt too short or the snapshot may fail.     *)
(* Paged pools refuse snapshots.                                            *)
Capture(r, n, full) ==
  \/ snaps' = snaps
  \/ ~Paged /\ snaps' = snaps \cup {SnapshotOf(r, slot[r], n, full)}

-----------------------------------------------------------------------------
(* claim_slot_blocking: the compare_exchange that succeeds. *)
Claim(r) ==
  /\ pc[r] = "idle"
  /\ \E s \in Slots :
       /\ ~slot_in_use[s]
       /\ slot_in_use' = [slot_in_use EXCEPT ![s] = TRUE]
       /\ slot' = [slot EXCEPT ![r] = s]
  /\ Goto(r, "claimed")
  /\ UNCHANGED <<locks, queue, prompt, produced, device, snaps>>

(* The first critical section of chunked_prefill_pp: under the slot mutex,  *)
(* reset_for_next_request and then prefix_cache_try_restore.                *)
StartPrefill(r, place, start) ==
  /\ prefill_start' = [prefill_start EXCEPT ![r] = start]
  /\ restored_at' = [restored_at EXCEPT ![r] = start]
  /\ Goto(r, place)
  /\ UNCHANGED <<claims, locks, queue, produced, snaps>>

CanStart(r) == pc[r] = "claimed" /\ inflight[slot[r]] = None

(* Mutant: the recurrent state of the previous request is kept. *)
StartColdNoReset(r) ==
  /\ CanStart(r)
  /\ UNCHANGED device
  /\ StartPrefill(r, "prefill", 0)

(* No usable entry: the recurrent state is zeroed, KV rows are left as they *)
(* are.                                                                     *)
StartCold(r) ==
  /\ CanStart(r)
  /\ seen' = [seen EXCEPT ![slot[r]] = 0]
  /\ UNCHANGED rows
  /\ StartPrefill(r, "prefill", 0)

(* The prompts of all requests are prefixes of one conversation, so an      *)
(* entry is a usable hit when it is the whole prompt with its logits, or a  *)
(* chunk boundary inside it.                                                *)
Usable(r, e) ==
  \/ e.n = PromptLen[r] /\ e.full
  \/ e.n < PromptLen[r] /\ e.n % ChunkTokens = 0

(* Mutant: the restored prefix is prefilled again. *)
StartWarmFromZero(r) ==
  /\ CanStart(r)
  /\ \E e \in snaps :
       /\ Usable(r, e)
       /\ rows' = Written(rows, slot[r], 0, e.n, r)
       /\ seen' = [seen EXCEPT ![slot[r]] = e.n]
       /\ StartPrefill(r, "prefill", 0)

StartWarm(r) ==
  /\ CanStart(r)
  /\ \E e \in snaps :
       /\ Usable(r, e)
       /\ rows' = Written(rows, slot[r], 0, e.n, IF e.exact THEN r ELSE None)
       /\ seen' = [seen EXCEPT ![slot[r]] = IF e.exact THEN e.n ELSE 0]
       /\ StartPrefill(r, IF e.n = PromptLen[r] THEN "first" ELSE "prefill", e.n)

(* restore_slot fails half way: the slot is reset again and prefilled cold. *)
StartAfterFailedRestore(r) ==
  /\ CanStart(r)
  /\ \E e \in snaps :
       /\ Usable(r, e)
       /\ rows' = Written(rows, slot[r], 0, e.n, None)
       /\ seen' = [seen EXCEPT ![slot[r]] = 0]
       /\ StartPrefill(r, "prefill", 0)

(* The reset itself fails: the request ends with an error. *)
StartFails(r) ==
  /\ CanStart(r)
  /\ UNCHANGED device
  /\ StartPrefill(r, "exit", 0)

-----------------------------------------------------------------------------
(* The restored boundary itself is skipped: its entry was just hit. *)
AtBoundary(r) ==
  prefill_start[r] > restored_at[r] /\ prefill_start[r] \in CaptureBoundaries(r)

(* Mutant: files the state under the end of the chunk about to run. *)
CaptureChunkEnd(r) ==
  IF AtBoundary(r) THEN Capture(r, ChunkEnd(r), FALSE) ELSE UNCHANGED snaps

CaptureBoundary(r) ==
  IF AtBoundary(r) THEN Capture(r, prefill_start[r], FALSE) ELSE UNCHANGED snaps

(* The chunk loop of chunked_prefill_pp.  The mutex is taken for one chunk; *)
(* the committed state at its start may be captured.                        *)
LockChunk(r) ==
  /\ pc[r] = "prefill"
  /\ inflight[slot[r]] = None
  /\ inflight' = [inflight EXCEPT ![slot[r]] = r]
  /\ CaptureBoundary(r)
  /\ Goto(r, IF MixedOn THEN "chunk" ELSE "pure")
  /\ UNCHANGED <<claims, dispatcher, queue, prompt, produced, device>>

(* batched_dispatcher.lock(), with the slot mutex held. *)
TakeDispatcher(r) ==
  /\ pc[r] = "chunk"
  /\ dispatcher = None
  /\ dispatcher' = r
  /\ Goto(r, "mixed")
  /\ UNCHANGED <<claims, inflight, queue, prompt, produced, device, snaps>>

(* std::mem::take of the queue, and what it leads to: nothing to carry, a   *)
(* batch that does not fit beside the chunk, or a mixed forward.            *)
DrainMixed(r) ==
  /\ pc[r] = "mixed"
  /\ drained' = [drained EXCEPT ![r] = batched_pending]
  /\ batched_pending' = <<>>
  /\ Goto(r, IF batched_pending = <<>> THEN "drop"
             ELSE IF (ChunkEnd(r) - prefill_start[r]) + Len(batched_pending) > ChunkTokens
                  THEN "repush"
                  ELSE "lock")
  /\ UNCHANGED <<claims, locks, locked, reply, prompt, produced, device, snaps>>

(* Mutant: what arrived meanwhile is overwritten. *)
RePushOverwrites(r) ==
  /\ pc[r] = "repush"
  /\ batched_pending' = drained[r]
  /\ drained' = [drained EXCEPT ![r] = <<>>]
  /\ Goto(r, "drop")
  /\ UNCHANGED <<claims, locks, locked, reply, prompt, produced, device, snaps>>

(* The drained pendings go back to the queue behind what arrived meanwhile. *)
RePush(r) ==
  /\ pc[r] = "repush"
  /\ batched_pending' = batched_pending \o drained[r]
  /\ drained' = [drained EXCEPT ![r] = <<>>]
  /\ Goto(r, "drop")
  /\ UNCHANGED <<claims, locks, locked, reply, prompt, produced, device, snaps>>

DropDispatcher(r) ==
  /\ pc[r] = "drop"
  /\ dispatcher' = None
  /\ Goto(r, "pure")
  /\ UNCHANGED <<claims, inflight, queue, prompt, produced, device, snaps>>

(* forward_prefill_logits of the chunk, then the end of the guard's scope. *)
PureChunk(r) ==
  /\ pc[r] = "pure"
  /\ ChunkEnd(r) <= CtxCap
  /\ rows' = Written(rows, slot[r], prefill_start[r], ChunkEnd(r), r)
  /\ seen' = [seen EXCEPT ![slot[r]] = @ + (ChunkEnd(r) - prefill_start[r])]
  /\ prefill_start' = [prefill_start EXCEPT ![r] = ChunkEnd(r)]
  /\ inflight' = [inflight EXCEPT ![slot[r]] = None]
  /\ Goto(r, IF ChunkEnd(r) < PromptLen[r] THEN "prefill" ELSE "first")
  /\ UNCHANGED <<claims, dispatcher, queue, restored_at, produced, snaps>>

PureChunkFails(r) ==
  /\ pc[r] = "pure"
  /\ rows' = Written(rows, slot[r], prefill_start[r], ChunkEnd(r), None)
  /\ inflight' = [inflight EXCEPT ![slot[r]] = None]
  /\ Goto(r, "exit")
  /\ UNCHANGED <<claims, dispatcher, queue, prompt, produced, seen, snaps>>

-----------------------------------------------------------------------------
(* Dispatch of a drained batch, by a leader (dispatch_batched_pending) or by *)
(* a prefilling thread (dispatch_mixed_with_pending).                        *)
Batch(r) == {drained[r][i] : i \in DOMAIN drained[r]}
InBatch(r, q) == \E p \in Batch(r) : p.req = q
BatchSlots(r) == {p.slot : p \in Batch(r)}

(* blocking_lock on the slot of the next pending. *)
LockNext(r) ==
  LET next == drained[r][locked[r] + 1].slot
  IN /\ pc[r] = "lock"
     /\ inflight[next] = None
     /\ inflight' = [inflight EXCEPT ![next] = r]
     /\ locked' = [locked EXCEPT ![r] = @ + 1]
     /\ Goto(r, IF locked[r] + 1 = Len(drained[r]) THEN "dispatch" ELSE "lock")
     /\ UNCHANGED <<claims, dispatcher, batched_pending, drained, reply,
                    prompt, produced, device, snaps>>

(* Every row is checked against the context cap before anything is written. *)
BatchFits(r) == \A p \in Batch(r) : p.position < CtxCap

(* Mutant: every row of the batch goes into the slot of the dispatcher. *)
DecodedInOwnSlot(r, ok) ==
  [s \in Slots |->
     [k \in DOMAIN rows[s] |->
        IF s = slot[r] /\ \E p \in Batch(r) : p.position = k
        THEN (CHOOSE p \in Batch(r) : p.position = k).req
        ELSE rows[s][k]]]

(* The request of the pending that writes row k of slot s. *)
RowOwner(r, s, k) == (CHOOSE p \in Batch(r) : p.slot = s /\ p.position = k).req

(* The KV rows after the decodes of the batch: one per pending, in the slot  *)
(* of its session, or of unknown contents when the forward failed.           *)
Decoded(r, ok) ==
  [s \in Slots |->
     [k \in DOMAIN rows[s] |->
        IF \E p \in Batch(r) : p.slot = s /\ p.position = k
        THEN IF ok THEN RowOwner(r, s, k) ELSE None
        ELSE rows[s][k]]]

Consumed(r) == [s \in Slots |-> IF s \in BatchSlots(r) THEN seen[s] + 1 ELSE seen[s]]

Answer(r, what) == reply' = [q \in Requests |-> IF InBatch(r, q) THEN what ELSE reply[q]]

(* Mutant: the table of guards shrinks to the ones released. *)
UnlockedOnly(S) == [s \in S |-> None]

Unlocked(S) == [s \in Slots |-> IF s \in S THEN None ELSE inflight[s]]

(* forward_decode_batched (or one token when alone), then the answers; the   *)
(* guards are still held.                                                    *)
DispatchBatch(r) ==
  /\ pc[r] = "dispatch" /\ ~Prefilling(r)
  /\ BatchFits(r)
  /\ rows' = Decoded(r, TRUE)
  /\ seen' = Consumed(r)
  /\ Answer(r, "ok")
  /\ Goto(r, "unlock")
  /\ UNCHANGED <<claims, locks, batched_pending, drained, locked, prompt, produced, snaps>>

(* The guards are dropped on the way out; the leader fans the error to the   *)
(* whole batch and goes back to the queue.                                   *)
DispatchBatchFails(r) ==
  /\ pc[r] = "dispatch" /\ ~Prefilling(r)
  /\ rows' = Decoded(r, FALSE)
  /\ Answer(r, "err")
  /\ inflight' = Unlocked(BatchSlots(r))
  /\ drained' = [drained EXCEPT ![r] = <<>>]
  /\ locked' = [locked EXCEPT ![r] = 0]
  /\ Goto(r, "leader")
  /\ UNCHANGED <<claims, dispatcher, batched_pending, prompt, produced, seen, snaps>>

(* forward_mixed: the chunk of r and one row per pending. *)
DispatchMixed(r) ==
  /\ pc[r] = "dispatch" /\ Prefilling(r)
  /\ BatchFits(r) /\ ChunkEnd(r) <= CtxCap
  /\ rows' = [Decoded(r, TRUE) EXCEPT
                ![slot[r]] = Written(rows, slot[r], prefill_start[r], ChunkEnd(r), r)[slot[r]]]
  /\ seen' = [Consumed(r) EXCEPT ![slot[r]] = @ + (ChunkEnd(r) - prefill_start[r])]
  /\ Answer(r, "ok")
  /\ Goto(r, "unlock")
  /\ UNCHANGED <<claims, locks, batched_pending, drained, locked, prompt, produced, snaps>>

(* The error leaves chunked_prefill_pp: the guards go, the drained pendings  *)
(* go with their response senders, and the dispatcher and the own mutex go.  *)
DispatchMixedFails(r) ==
  /\ pc[r] = "dispatch" /\ Prefilling(r)
  /\ rows' = Decoded(r, FALSE)
  /\ Answer(r, "closed")
  /\ inflight' = Unlocked(BatchSlots(r) \cup {slot[r]})
  /\ dispatcher' = None
  /\ drained' = [drained EXCEPT ![r] = <<>>]
  /\ locked' = [locked EXCEPT ![r] = 0]
  /\ Goto(r, "exit")
  /\ UNCHANGED <<claims, batched_pending, prompt, produced, seen, snaps>>

Unbatch(r) ==
  /\ drained' = [drained EXCEPT ![r] = <<>>]
  /\ locked' = [locked EXCEPT ![r] = 0]

(* Mutant: the leader leaves after one batch. *)
UnlockBatchAndLeave(r) ==
  /\ pc[r] = "unlock" /\ ~Prefilling(r)
  /\ inflight' = Unlocked(BatchSlots(r))
  /\ Unbatch(r)
  /\ dispatcher' = None
  /\ Goto(r, "wait")
  /\ UNCHANGED <<claims, batched_pending, reply, prompt, produced, device, snaps>>

(* The leader drops the guards of the batch and looks at the queue again. *)
UnlockBatch(r) ==
  /\ pc[r] = "unlock" /\ ~Prefilling(r)
  /\ inflight' = Unlocked(BatchSlots(r))
  /\ Unbatch(r)
  /\ Goto(r, "leader")
  /\ UNCHANGED <<claims, dispatcher, batched_pending, reply, prompt, produced, device, snaps>>

(* After a mixed chunk the dispatcher and the own mutex go too. *)
UnlockMixed(r) ==
  /\ pc[r] = "unlock" /\ Prefilling(r)
  /\ inflight' = Unlocked(BatchSlots(r) \cup {slot[r]})
  /\ dispatcher' = None
  /\ Unbatch(r)
  /\ prefill_start' = [prefill_start EXCEPT ![r] = ChunkEnd(r)]
  /\ Goto(r, IF ChunkEnd(r) < PromptLen[r] THEN "prefill" ELSE "first")
  /\ UNCHANGED <<claims, batched_pending, reply, restored_at, produced, device, snaps>>

-----------------------------------------------------------------------------
(* After a token: the request ends on a stop token, a stop string or a       *)
(* marker, and in any case at max_tokens.                                    *)
NextToken(r) ==
  /\ produced' = [produced EXCEPT ![r] = @ + 1]
  /\ \/ produced[r] + 1 < MaxTokens[r] /\ Goto(r, "decode")
     \/ Goto(r, "exit")

(* Mutant: every request does. *)
KeepsGuardAlways(r) == TRUE

(* Who keeps the slot mutex for its decode loop. *)
KeepsGuard(r) == r \in Direct

(* The cached logits of the whole prompt served the request. *)
FullHit(r) == restored_at[r] = PromptLen[r]

(* Capture of the whole prompt under the slot mutex, unless it came from the *)
(* cache, and the first token, sampled from the logits of the prefill.  A    *)
(* Direct request keeps the mutex.                                           *)
FirstToken(r) ==
  /\ pc[r] = "first"
  /\ (FullHit(r) /\ ~KeepsGuard(r)) \/ inflight[slot[r]] = None
  /\ IF FullHit(r) THEN UNCHANGED snaps ELSE Capture(r, PromptLen[r], TRUE)
  /\ inflight' = [inflight EXCEPT ![slot[r]] = IF KeepsGuard(r) THEN r ELSE @]
  /\ NextToken(r)
  /\ UNCHANGED <<claims, dispatcher, queue, prompt, device>>

(* dispatch_decode_one in the slot of r: one row and one recurrent step. *)
DecodeOne(r) ==
  /\ DecodePosition(r) < CtxCap
  /\ rows' = Written(rows, slot[r], DecodePosition(r), DecodePosition(r) + 1, r)
  /\ seen' = [seen EXCEPT ![slot[r]] = @ + 1]

DecodeOneFails(r) ==
  /\ rows' = Written(rows, slot[r], DecodePosition(r), DecodePosition(r) + 1, None)
  /\ UNCHANGED seen

(* A Direct request decodes with the mutex it kept. *)
DecodeDirect(r) ==
  /\ pc[r] = "decode" /\ r \in Direct
  /\ \/ DecodeOne(r) /\ NextToken(r)
     \/ DecodeOneFails(r) /\ Goto(r, "exit") /\ UNCHANGED produced
  /\ UNCHANGED <<claims, locks, queue, prompt, snaps>>

(* decode_via_scheduler_into: alone, or one of several? *)
OthersActive(r) == \E s \in Slots \ {slot[r]} : slot_in_use[s]

CheckOthers(r) ==
  /\ pc[r] = "decode" /\ r \notin Direct
  /\ Goto(r, IF OthersActive(r) THEN "push" ELSE "fast")
  /\ UNCHANGED <<claims, locks, queue, prompt, produced, device, snaps>>

(* The single-user fast path: lock the slot, decode, unlock. *)
DecodeFast(r) ==
  /\ pc[r] = "fast"
  /\ inflight[slot[r]] = None
  /\ \/ DecodeOne(r) /\ NextToken(r)
     \/ DecodeOneFails(r) /\ Goto(r, "exit") /\ UNCHANGED produced
  /\ UNCHANGED <<claims, locks, queue, prompt, snaps>>

Push(r) ==
  /\ pc[r] = "push"
  /\ batched_pending' = Append(batched_pending,
       [req |-> r, slot |-> slot[r], position |-> DecodePosition(r)])
  /\ reply' = [reply EXCEPT ![r] = "empty"]
  /\ Goto(r, "lead")
  /\ UNCHANGED <<claims, locks, drained, locked, prompt, produced, device, snaps>>

(* Mutant: the result of try_lock is ignored. *)
TryLeadAlways(r) ==
  /\ pc[r] = "lead"
  /\ dispatcher' = r
  /\ Goto(r, "leader")
  /\ UNCHANGED <<claims, inflight, queue, prompt, produced, device, snaps>>

(* batched_dispatcher.try_lock(). *)
TryLead(r) ==
  /\ pc[r] = "lead"
  /\ dispatcher' = IF dispatcher = None THEN r ELSE dispatcher
  /\ Goto(r, IF dispatcher = None THEN "leader" ELSE "wait")
  /\ UNCHANGED <<claims, inflight, queue, prompt, produced, device, snaps>>

(* The drain loop: on an empty queue the dispatcher is dropped before the    *)
(* queue is unlocked, so both happen in one step.                            *)
DrainOrStepDown(r) ==
  /\ pc[r] = "leader"
  /\ drained' = [drained EXCEPT ![r] = batched_pending]
  /\ batched_pending' = <<>>
  /\ dispatcher' = IF batched_pending = <<>> THEN None ELSE dispatcher
  /\ Goto(r, IF batched_pending = <<>> THEN "wait" ELSE "lock")
  /\ UNCHANGED <<claims, inflight, locked, reply, prompt, produced, device, snaps>>

(* rx.recv(): the logits, an error, or a closed channel. *)
Receive(r) ==
  /\ pc[r] = "wait"
  /\ reply[r] # "empty"
  /\ reply' = [reply EXCEPT ![r] = "empty"]
  /\ \/ /\ reply[r] = "ok"
        /\ NextToken(r)
     \/ /\ reply[r] # "ok"
        /\ Goto(r, "exit")
        /\ UNCHANGED produced
  /\ UNCHANGED <<claims, locks, batched_pending, drained, locked, prompt, device, snaps>>

-----------------------------------------------------------------------------
(* Mutant: the claim is cleared before the pages are recycled. *)
ReleaseClaimFirst(r) ==
  /\ pc[r] = "exit"
  /\ inflight' = [inflight EXCEPT ![slot[r]] = IF @ = r THEN None ELSE @]
  /\ slot_in_use' = [slot_in_use EXCEPT ![slot[r]] = FALSE]
  /\ Goto(r, "release")
  /\ UNCHANGED <<slot, dispatcher, queue, prompt, produced, device, snaps>>

(* The end of the request: the guard a Direct request kept is dropped, then  *)
(* release_slot recycles the pages of the slot and clears the claim.         *)
ReleasePages(r) ==
  /\ pc[r] = "exit"
  /\ inflight' = [inflight EXCEPT ![slot[r]] = IF @ = r THEN None ELSE @]
  /\ rows' = IF Paged THEN [rows EXCEPT ![slot[r]] = [k \in DOMAIN @ |-> None]] ELSE rows
  /\ Goto(r, "release")
  /\ UNCHANGED <<claims, dispatcher, queue, prompt, produced, seen, snaps>>

(* Mutant: the pages are recycled and the claim is kept. *)
ClearClaimKept(r) ==
  /\ pc[r] = "release"
  /\ slot' = [slot EXCEPT ![r] = None]
  /\ Goto(r, "done")
  /\ UNCHANGED <<slot_in_use, locks, queue, prompt, produced, device, snaps>>

ClearClaim(r) ==
  /\ pc[r] = "release"
  /\ slot_in_use' = [slot_in_use EXCEPT ![slot[r]] = FALSE]
  /\ slot' = [slot EXCEPT ![r] = None]
  /\ Goto(r, "done")
  /\ UNCHANGED <<locks, queue, prompt, produced, device, snaps>>

-----------------------------------------------------------------------------
Init ==
  /\ pc = [r \in Requests |-> "idle"]
  /\ slot = [r \in Requests |-> None]
  /\ slot_in_use = [s \in Slots |-> FALSE]
  /\ inflight = [s \in Slots |-> None]
  /\ dispatcher = None
  /\ batched_pending = <<>>
  /\ drained = [r \in Requests |-> <<>>]
  /\ locked = [r \in Requests |-> 0]
  /\ reply = [r \in Requests |-> "empty"]
  /\ prefill_start = [r \in Requests |-> 0]
  /\ restored_at = [r \in Requests |-> 0]
  /\ produced = [r \in Requests |-> 0]
  /\ rows = [s \in Slots |-> [k \in 0..(CtxCap - 1) |-> None]]
  /\ seen = [s \in Slots |-> 0]
  /\ snaps = {}

Prefill(r) ==
  \/ StartCold(r) \/ StartWarm(r) \/ StartAfterFailedRestore(r) \/ StartFails(r)
  \/ LockChunk(r) \/ TakeDispatcher(r) \/ DrainMixed(r) \/ RePush(r)
  \/ DropDispatcher(r) \/ PureChunk(r) \/ PureChunkFails(r)

Dispatch(r) ==
  \/ LockNext(r)
  \/ DispatchBatch(r) \/ DispatchBatchFails(r) \/ UnlockBatch(r)
  \/ DispatchMixed(r) \/ DispatchMixedFails(r) \/ UnlockMixed(r)

Decode(r) ==
  \/ FirstToken(r) \/ DecodeDirect(r) \/ CheckOthers(r) \/ DecodeFast(r)
  \/ Push(r) \/ TryLead(r) \/ DrainOrStepDown(r) \/ Receive(r)

Step(r) ==
  \/ Claim(r) \/ Prefill(r) \/ Dispatch(r) \/ Decode(r)
  \/ ReleasePages(r) \/ ClearClaim(r)

(* Every completion has been served: the server is idle. *)
AllServed == (\A r \in Requests : pc[r] = "done") /\ UNCHANGED vars

Next == (\E r \in Requests : Step(r)) \/ AllServed

Spec == Init /\ [][Next]_vars

(* Every thread that can run does: the operating system schedules blocking   *)
(* threads, tokio hands a slot mutex on in FIFO order, claim_slot_blocking   *)
(* spins.                                                                    *)
Fairness == \A r \in Requests : WF_vars(Step(r))

FairSpec == Spec /\ Fairness

-----------------------------------------------------------------------------
TypeOK ==
  /\ pc \in [Requests -> Places]
  /\ slot \in [Requests -> Slots \cup {None}]
  /\ slot_in_use \in [Slots -> BOOLEAN]
  /\ inflight \in [Slots -> Nobody]
  /\ dispatcher \in Nobody
  /\ batched_pending \in Seq(PendingDecode)
  /\ drained \in [Requests -> Seq(PendingDecode)]
  /\ locked \in [Requests -> Nat]
  /\ reply \in [Requests -> {"empty", "ok", "err", "closed"}]
  /\ prefill_start \in [Requests -> Nat]
  /\ restored_at \in [Requests -> Nat]
  /\ produced \in [Requests -> Nat]
  /\ rows \in [Slots -> [0..(CtxCap - 1) -> Nobody]]
  /\ seen \in [Slots -> Nat]
  /\ snaps \subseteq Snapshot

(* Places where the slot of a request holds its conversation. *)
Serving(r) == pc[r] \notin {"idle", "claimed", "exit", "release", "done"}

(* A claim outlives every other use of the slot: a claimed slot has exactly  *)
(* one owner, and the flag is never clear while a request is still using it. *)
SlotsHaveOneOwner ==
  /\ \A r, q \in Requests : r # q /\ slot[r] # None => slot[r] # slot[q]
  /\ \A s \in Slots : slot_in_use[s] = (\E r \in Requests : slot[r] = s)

(* Pendings nobody has answered yet: queued, or in a batch whose forward has *)
(* not run.                                                                  *)
Unanswered(r) == pc[r] \in {"lock", "dispatch", "repush"}

Outstanding(p) ==
  \/ \E i \in DOMAIN batched_pending : batched_pending[i] = p
  \/ \E r \in Requests : Unanswered(r) /\ p \in Batch(r)

(* A pending belongs to a request that is waiting for it, names the slot and *)
(* the position the request is at, and there is at most one of it.  So the   *)
(* blocking_locks of a dispatch never meet a mutex held by the leader itself *)
(* or by a waiting owner, and a batch has distinct slots.                    *)
PendingsAreCurrent ==
  /\ \A p \in {batched_pending[i] : i \in DOMAIN batched_pending}
              \cup UNION {Batch(r) : r \in {q \in Requests : Unanswered(q)}} :
       /\ p.slot = slot[p.req] /\ p.position = DecodePosition(p.req)
       /\ reply[p.req] = "empty"
       /\ pc[p.req] \in {"lead", "leader", "wait", "lock", "dispatch"}
       /\ inflight[p.slot] \in {None, dispatcher}
  /\ \A i, j \in DOMAIN batched_pending :
       i # j => batched_pending[i].req # batched_pending[j].req
  /\ \A r \in Requests : Unanswered(r) =>
       \A i \in DOMAIN drained[r] :
         /\ \A j \in DOMAIN drained[r] : i # j => drained[r][i].slot # drained[r][j].slot
         /\ \A j \in DOMAIN batched_pending : drained[r][i].req # batched_pending[j].req

(* No pending is dropped: a request blocked in rx.recv() with an empty       *)
(* channel still has its pending in the queue or in a batch being run.       *)
NoLostPending ==
  \A r \in Requests :
    pc[r] = "wait" /\ reply[r] = "empty" =>
      Outstanding([req |-> r, slot |-> slot[r], position |-> DecodePosition(r)])

(* The #276 argument: a queued pending always has a thread that will drain   *)
(* it, the holder of the dispatcher or a pusher about to try for it.         *)
QueueHasLeader ==
  batched_pending # <<>> => dispatcher # None \/ \E r \in Requests : pc[r] = "lead"

(* One thread dispatches at a time, and only it holds slots of others. *)
OneDispatcher ==
  /\ \A r \in Requests : drained[r] # <<>> => dispatcher = r
  /\ \A s \in Slots : inflight[s] # None /\ slot[inflight[s]] # s => inflight[s] = dispatcher

(* No request ever attends to rows of another: below the position it has     *)
(* reached, every KV row of its slot was written for it.  The row right      *)
(* after the prompt is left out, see RowsAreContiguous.                      *)
ContextIsOwn ==
  \A r \in Requests : Serving(r) =>
    \A i \in 0..(prefill_start[r] - 1)
             \cup (PromptLen[r] + 1)..(PromptLen[r] + produced[r] - 1) :
      rows[slot[r]][i] = r

(* Every decode step is run exactly once: the recurrent state of a slot has  *)
(* consumed the prefilled prompt, every generated token but the last, and    *)
(* the step whose answer is still in the channel.                            *)
StepsRunOnce ==
  \A r \in Requests : Serving(r) /\ reply[r] \in {"empty", "ok"} =>
    seen[slot[r]] =
      (IF pc[r] = "unlock" /\ Prefilling(r) THEN ChunkEnd(r) ELSE prefill_start[r])
      + (IF produced[r] = 0 THEN 0 ELSE produced[r] - 1)
      + (IF reply[r] = "ok" THEN 1 ELSE 0)

(* What the prefix cache stores is the state at exactly the boundary it is   *)
(* filed under, whatever ran between the chunks.                             *)
SnapshotsAreExact == \A e \in snaps : e.exact

(* ModelDriver::forward_one_token: "`position` is the cache tail length      *)
(* before `token_id`'s K/V are appended".                                    *)
RowsAreContiguous ==
  \A r \in Requests :
    pc[r] \in {"fast", "push"} \/ (pc[r] = "decode" /\ r \in Direct) =>
      DecodePosition(r) = seen[slot[r]]

(* Every request blocked on a response gets one. *)
WaitersAreAnswered ==
  \A r \in Requests : (pc[r] = "wait") ~> (pc[r] # "wait")

(* Every request is served to its end. *)
EveryRequestEnds == \A r \in Requests : <>(pc[r] = "done")

-----------------------------------------------------------------------------
(* Refinement: the conversation of a request is the recurrent state of the   *)
(* slot it owns.  A request whose prefill failed has ended for its client.   *)
Stage(r) ==
  IF pc[r] \in {"idle", "claimed"} THEN "queued"
  ELSE IF pc[r] = "done" \/ (pc[r] \in {"exit", "release"} /\ produced[r] = 0) THEN "ended"
  ELSE "serving"

Service == INSTANCE CompletionService WITH
  stage   <- [r \in Requests |-> Stage(r)],
  context <- [r \in Requests |-> IF Stage(r) = "serving" THEN seen[slot[r]] ELSE 0],
  tokens  <- produced

(* The scheduler implements the completion service. *)
ImplementsService == Service!Spec
=============================================================================
