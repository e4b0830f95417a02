----------------------- MODULE SchedulerServiceProofs -----------------------
(***************************************************************************)
(* Theorems about Scheduler that follow a request through it: its pending  *)
(* is current and never lost, its decode steps run once each in rows of    *)
(* its own, and the whole implements CompletionService.  They rest on the  *)
(* types, owners and dispatcher of SchedulerProofs.                        *)
(***************************************************************************)
EXTENDS SchedulerProofs

USE SchedulerAssumption

(* A request whose token is being computed by the batch: from the push of    *)
(* its pending to the answer it receives.                                    *)
Awaiting(r) ==
  pc[r] \in {"lead", "leader", "wait"} \/ (Locking(r) /\ ~Prefilling(r))

(* Where a request is before its first token. *)
Prompting(r) ==
  \/ pc[r] \in {"idle", "claimed", "prefill", "chunk", "mixed", "repush", "drop",
                "pure", "first"}
  \/ Locking(r) /\ Prefilling(r)

(* The prompt is prefilled before the first token, the first token comes     *)
(* from its logits, and a decode step is run only below max_tokens.          *)
PlaceFor(r) ==
  /\ pc[r] \in {"first", "decode", "fast", "push"} \/ Awaiting(r) => ~Prefilling(r)
  /\ Prompting(r) => produced[r] = 0
  /\ pc[r] \in {"decode", "fast", "push"} \/ Awaiting(r)
       => produced[r] >= 1 /\ produced[r] < MaxTokens[r]

PlaceInv == \A r \in Requests : PlaceFor(r)

(* The pending a request that awaits a token has pushed. *)
Pend(r) == [req |-> r, slot |-> slot[r], position |-> DecodePosition(r)]

(* A pending is fresh while it is the one its request would push again. *)
Fresh(p) == p = Pend(p.req) /\ reply[p.req] = "empty" /\ ~Prefilling(p.req)

QueuedFor(p) == Fresh(p) /\ pc[p.req] \in {"lead", "leader", "wait"}

BatchedFor(p) ==
  Fresh(p) /\ pc[p.req] \in {"lead", "leader", "wait", "lock", "dispatch"}

QueuedInv == \A i \in DOMAIN batched_pending : QueuedFor(batched_pending[i])

BatchedInv ==
  \A r \in Requests : Unanswered(r) =>
    \A i \in DOMAIN drained[r] : BatchedFor(drained[r][i])

(* A request has one pending at a time. *)
DistinctInv ==
  /\ \A i, j \in DOMAIN batched_pending :
       i # j => batched_pending[i].req # batched_pending[j].req
  /\ \A r \in Requests : Unanswered(r) =>
       \A i \in DOMAIN drained[r] :
         /\ \A j \in DOMAIN drained[r] : i # j => drained[r][i].req # drained[r][j].req
         /\ \A j \in DOMAIN batched_pending : drained[r][i].req # batched_pending[j].req

(* A request is answered, or its pending is on its way; and only a request   *)
(* that awaits a token is answered.                                          *)
AwaitFor(r) == Awaiting(r) /\ reply[r] = "empty" => Outstanding(Pend(r))

AwaitInv == \A r \in Requests : AwaitFor(r)

ReplyInv == \A r \in Requests : reply[r] # "empty" => Awaiting(r)

QueueInv == QueuedInv /\ BatchedInv /\ DistinctInv /\ AwaitInv /\ ReplyInv

-----------------------------------------------------------------------------
(* A step of r produces no token for another request. *)
LEMMA OthersProduce ==
  ASSUME TypeInv, NEW r \in Requests, Step(r), NEW q \in Requests, q # r
  PROVE  produced'[q] = produced[q]
<1> USE DEF TypeInv, TypeOK
<1>1. CASE FirstToken(r) \/ DecodeDirect(r) \/ DecodeFast(r) \/ Receive(r)
  BY <1>1 DEF FirstToken, DecodeDirect, DecodeFast, Receive, NextToken
<1>2. CASE Prefill(r)
  BY <1>2 DEF Prefill, StartCold, StartWarm, StartAfterFailedRestore, StartFails,
     StartPrefill, LockChunk, TakeDispatcher, DrainMixed, RePush, DropDispatcher,
     PureChunk, PureChunkFails
<1>3. CASE Dispatch(r)
  BY <1>3 DEF Dispatch, LockNext, DispatchBatch, DispatchBatchFails, UnlockBatch,
     DispatchMixed, DispatchMixedFails, UnlockMixed
<1>4. CASE Claim(r) \/ CheckOthers(r) \/ Push(r) \/ TryLead(r) \/ DrainOrStepDown(r)
           \/ ReleasePages(r) \/ ClearClaim(r)
  BY <1>4 DEF Claim, CheckOthers, Push, TryLead, DrainOrStepDown, ReleasePages, ClearClaim
<1> QED BY <1>1, <1>2, <1>3, <1>4 DEF Step, Decode

(* Where a step of r leaves r. *)
LEMMA PlaceMoves ==
  ASSUME TypeInv, DispatchInv, PlaceInv, NEW r \in Requests, Step(r)
  PROVE  PlaceFor(r)'
<1> USE DEF Goto, claims, queue, locks, prompt, device
<1>types. TypeOK /\ TypeOK' /\ PrefillBound
  BY TypeStep DEF TypeInv
<1>place. PlaceFor(r) /\ ChunkingFor(r)
  BY DEF PlaceInv, DispatchInv, ChunkingInv
<1>chunk. ChunkEnd(r) \in Nat /\ ChunkEnd(r) <= PromptLen[r]
  BY ChunkEndBounds
<1> HIDE DEF TypeInv, DispatchInv
<1> USE DEF TypeOK, PlaceFor, ChunkingFor, Prompting, Awaiting, Locking, Prefilling
<1>1. CASE Claim(r)
  BY <1>1, <1>types, <1>place DEF Claim
<1>2. CASE StartCold(r) \/ StartAfterFailedRestore(r) \/ StartFails(r)
  BY <1>2, <1>types, <1>place
  DEF StartCold, StartAfterFailedRestore, StartFails, CanStart, StartPrefill
<1>3. CASE StartWarm(r)
  <2>1. PICK e \in snaps :
          StartPrefill(r, IF e.n = PromptLen[r] THEN "first" ELSE "prefill", e.n)
    BY <1>3 DEF StartWarm
  <2>2. /\ produced' = produced /\ prefill_start'[r] = e.n
        /\ \/ pc'[r] = "first" /\ e.n = PromptLen[r]
           \/ pc'[r] = "prefill"
    BY <2>1, <1>types DEF StartPrefill
  <2>3. produced[r] = 0
    BY <1>3, <1>place DEF StartWarm, CanStart
  <2> QED BY <2>2, <2>3
<1>4. CASE LockChunk(r) \/ TakeDispatcher(r) \/ DrainMixed(r) \/ RePush(r) \/ DropDispatcher(r)
  <2>1. /\ UNCHANGED <<prefill_start, produced>>
        /\ pc[r] \in {"prefill", "chunk", "mixed", "repush", "drop"}
        /\ pc'[r] \in {"chunk", "mixed", "repush", "drop", "lock", "pure"}
    BY <1>4, <1>types DEF LockChunk, TakeDispatcher, DrainMixed, RePush, DropDispatcher
  <2> QED BY <2>1, <1>place
<1>5. CASE PureChunk(r) \/ PureChunkFails(r)
  BY <1>5, <1>types, <1>place, <1>chunk DEF PureChunk, PureChunkFails
<1>6. CASE LockNext(r)
  BY <1>6, <1>types, <1>place DEF LockNext
<1>7. CASE DispatchBatch(r) \/ DispatchBatchFails(r) \/ UnlockBatch(r)
  BY <1>7, <1>types, <1>place DEF DispatchBatch, DispatchBatchFails, UnlockBatch
<1>8. CASE DispatchMixed(r) \/ DispatchMixedFails(r)
  BY <1>8, <1>types, <1>place DEF DispatchMixed, DispatchMixedFails
<1>9. CASE UnlockMixed(r)
  BY <1>9, <1>types, <1>place, <1>chunk DEF UnlockMixed
<1>10. CASE FirstToken(r)
  BY <1>10, <1>types, <1>place DEF FirstToken, NextToken
<1>11. CASE DecodeDirect(r) \/ DecodeFast(r)
  BY <1>11, <1>types, <1>place DEF DecodeDirect, DecodeFast, NextToken
<1>12. CASE CheckOthers(r) \/ Push(r) \/ TryLead(r) \/ DrainOrStepDown(r)
  <2>1. /\ UNCHANGED <<prefill_start, produced>>
        /\ pc[r] \in {"decode", "push", "lead", "leader"}
        /\ pc'[r] \in {"push", "fast", "lead", "leader", "wait", "lock"}
    BY <1>12, <1>types DEF CheckOthers, Push, TryLead, DrainOrStepDown
  <2> QED BY <2>1, <1>place
<1>13. CASE Receive(r)
  BY <1>13, <1>types, <1>place DEF Receive, NextToken
<1>14. CASE ReleasePages(r) \/ ClearClaim(r)
  BY <1>14, <1>types, <1>place DEF ReleasePages, ClearClaim
<1> QED BY <1>1, <1>2, <1>3, <1>4, <1>5, <1>6, <1>7, <1>8, <1>9, <1>10, <1>11, <1>12,
           <1>13, <1>14
  DEF Step, Prefill, Dispatch, Decode

LEMMA PlaceStep ==
  ASSUME TypeInv, DispatchInv, PlaceInv, NEW r \in Requests, Step(r)
  PROVE  PlaceInv'
<1>1. PlaceFor(r)'
  BY PlaceMoves
<1>2. ASSUME NEW q \in Requests, q # r
      PROVE  PlaceFor(q)'
  <2>1. /\ pc'[q] = pc[q] /\ prefill_start'[q] = prefill_start[q]
        /\ produced'[q] = produced[q]
    BY <1>2, OthersKeep, OthersProduce
  <2>2. PlaceFor(q)
    BY DEF PlaceInv
  <2> QED BY <2>1, <2>2 DEF PlaceFor, Prompting, Awaiting, Locking, Prefilling
<1> QED BY <1>1, <1>2 DEF PlaceInv

LEMMA PlaceStutter == PlaceInv /\ UNCHANGED vars => PlaceInv'
BY DEF vars, claims, queue, prompt, PlaceInv, PlaceFor, Prompting, Awaiting, Locking,
       Prefilling

-----------------------------------------------------------------------------
(* What a request looks like to the queue; the same after a step, it keeps   *)
(* its pending fresh or has none.                                            *)
SameRequest(q) ==
  /\ slot'[q] = slot[q] /\ prefill_start'[q] = prefill_start[q]
  /\ produced'[q] = produced[q]

OthersSame(r) ==
  \A q \in Requests \ {r} :
    SameRequest(q) /\ pc'[q] = pc[q] /\ drained'[q] = drained[q]

LEMMA OthersAreSame ==
  ASSUME TypeInv, NEW r \in Requests, Step(r)
  PROVE  OthersSame(r)
BY OthersKeep, OthersProduce DEF OthersSame, SameRequest

(* The pendings are in the hands of at most one thread. *)
LEMMA OneUnanswered ==
  ASSUME DispatchInv, NEW r \in Requests, NEW q \in Requests, Dispatching(r), Unanswered(q)
  PROVE  q = r
BY DEF DispatchInv, DispatcherInv, Dispatching, Unanswered

LEMMA PendingTypes ==
  ASSUME TypeInv
  PROVE  /\ \A i \in DOMAIN batched_pending : batched_pending[i] \in PendingDecode
         /\ \A r \in Requests : \A i \in DOMAIN drained[r] : drained[r][i] \in PendingDecode
         /\ \A r \in Requests : \A i \in DOMAIN drained[r] : drained[r][i] \in Batch(r)
BY DEF TypeInv, TypeOK, Batch

(* A step that neither pushes, drains nor answers a pending: the request     *)
(* that takes it moves between places of one kind.                           *)
LEMMA KeepStep ==
  ASSUME TypeInv, QueueInv, NEW r \in Requests, OthersSame(r),
         UNCHANGED <<batched_pending, reply>>,
         Unanswered(r)' <=> Unanswered(r), Unanswered(r) => drained'[r] = drained[r],
         Awaiting(r)' <=> Awaiting(r), Awaiting(r) => SameRequest(r),
         pc[r] \in {"lead", "leader", "wait"} => pc'[r] \in {"lead", "leader", "wait"},
         pc[r] \in {"lock", "dispatch"} => pc'[r] \in {"lock", "dispatch"}
  PROVE  QueueInv'
<1>1. ASSUME NEW q \in Requests
      PROVE  /\ Awaiting(q)' <=> Awaiting(q)
             /\ Unanswered(q)' <=> Unanswered(q)
             /\ Unanswered(q) => drained'[q] = drained[q] /\ Batch(q)' = Batch(q)
             /\ Awaiting(q) => SameRequest(q) /\ Pend(q)' = Pend(q)
             /\ pc[q] \in {"lead", "leader", "wait"} => pc'[q] \in {"lead", "leader", "wait"}
             /\ pc[q] \in {"lock", "dispatch"} => pc'[q] \in {"lock", "dispatch"}
  <2>1. CASE q = r
    BY <2>1 DEF SameRequest, Pend, DecodePosition, Batch
  <2>2. CASE q # r
    BY <2>2 DEF OthersSame, SameRequest, Awaiting, Unanswered, Locking, Prefilling, Pend,
                DecodePosition, Batch
  <2> QED BY <2>1, <2>2
<1>2. ASSUME NEW p \in PendingDecode, BatchedFor(p)
      PROVE  BatchedFor(p)' /\ (QueuedFor(p) => QueuedFor(p)')
  <2>1. p.req \in Requests /\ Awaiting(p.req)
    BY <1>2 DEF PendingDecode, BatchedFor, Fresh, Awaiting, Locking
  <2> QED BY <2>1, <1>1, <1>2 DEF BatchedFor, QueuedFor, Fresh, SameRequest, Prefilling
<1>3. QueuedInv'
  BY <1>2, PendingTypes DEF QueueInv, QueuedInv, QueuedFor, BatchedFor
<1>4. BatchedInv'
  BY <1>1, <1>2, PendingTypes DEF QueueInv, BatchedInv
<1>5. DistinctInv'
  BY <1>1 DEF QueueInv, DistinctInv
<1>6. AwaitInv'
  BY <1>1 DEF QueueInv, AwaitInv, AwaitFor, Outstanding
<1>7. ReplyInv'
  BY <1>1 DEF QueueInv, ReplyInv
<1> QED BY <1>3, <1>4, <1>5, <1>6, <1>7 DEF QueueInv

(* The whole queue is taken by the thread that holds the dispatcher. *)
LEMMA DrainStep ==
  ASSUME TypeInv, DispatchInv, QueueInv, NEW r \in Requests, OthersSame(r),
         Dispatching(r), ~Unanswered(r), SameRequest(r), reply' = reply,
         drained' = [drained EXCEPT ![r] = batched_pending], batched_pending' = <<>>,
         Unanswered(r)' <=> batched_pending # <<>>,
         Awaiting(r)' <=> Awaiting(r),
         pc[r] \in {"lead", "leader", "wait"} /\ batched_pending # <<>> => pc'[r] = "lock"
  PROVE  QueueInv'
<1>1. \A q \in Requests : ~Unanswered(q)
  BY OneUnanswered
<1>2. \A q \in Requests \ {r} : ~Unanswered(q)'
  BY <1>1 DEF OthersSame, Unanswered
<1>3. drained'[r] = batched_pending /\ Batch(r)' = {batched_pending[i] : i \in DOMAIN batched_pending}
  BY DEF TypeInv, TypeOK, Batch
<1>4. DOMAIN batched_pending' = {}
  OBVIOUS
<1>5. ASSUME NEW q \in Requests
      PROVE  (Awaiting(q)' <=> Awaiting(q)) /\ Pend(q)' = Pend(q) /\ SameRequest(q)
  BY DEF OthersSame, SameRequest, Awaiting, Locking, Prefilling, Pend, DecodePosition
<1>6. ASSUME batched_pending # <<>>, NEW p \in PendingDecode, QueuedFor(p)
      PROVE  BatchedFor(p)'
  <2>1. p.req \in Requests
    BY <1>6 DEF PendingDecode
  <2>2. pc'[p.req] \in {"lead", "leader", "wait", "lock"}
    BY <2>1, <1>6 DEF QueuedFor, OthersSame
  <2> QED BY <2>1, <2>2, <1>5, <1>6 DEF QueuedFor, BatchedFor, Fresh, SameRequest, Prefilling
<1>7. QueuedInv'
  BY <1>4 DEF QueuedInv
<1>8. BatchedInv'
  BY <1>2, <1>3, <1>6, PendingTypes DEF QueueInv, QueuedInv, BatchedInv
<1>9. DistinctInv'
  BY <1>2, <1>3, <1>4 DEF QueueInv, DistinctInv
<1>10. AwaitInv'
  <2>1. ASSUME NEW q \in Requests, Awaiting(q), reply[q] = "empty"
        PROVE  Outstanding(Pend(q))'
    <3>1. PICK i \in DOMAIN batched_pending : batched_pending[i] = Pend(q)
      BY <2>1, <1>1 DEF QueueInv, AwaitInv, AwaitFor, Outstanding
    <3>2. batched_pending # <<>>
      BY <3>1
    <3>3. Unanswered(r)' /\ Pend(q)' \in Batch(r)'
      BY <3>1, <3>2, <1>3, <1>5
    <3> QED BY <3>3 DEF Outstanding
  <2> QED BY <2>1, <1>5 DEF AwaitInv, AwaitFor
<1>11. ReplyInv'
  BY <1>5 DEF QueueInv, ReplyInv
<1> QED BY <1>7, <1>8, <1>9, <1>10, <1>11 DEF QueueInv

(* The drained pendings go behind what was pushed meanwhile. *)
LEMMA RePushStep ==
  ASSUME TypeInv, DispatchInv, QueueInv, NEW r \in Requests, OthersSame(r), RePush(r)
  PROVE  QueueInv'
<1>1. \A q \in Requests : Unanswered(q) => q = r
  BY OneUnanswered DEF RePush, Dispatching
<1>2. Unanswered(r) /\ Prefilling(r)
  BY DEF RePush, Unanswered, DispatchInv, ChunkingInv, ChunkingFor
<1>3. /\ pc'[r] = "drop" /\ reply' = reply /\ SameRequest(r)
      /\ batched_pending' = batched_pending \o drained[r]
  BY DEF RePush, Goto, TypeInv, TypeOK, claims, queue, prompt, SameRequest
<1>4. \A q \in Requests : ~Unanswered(q)'
  BY <1>1, <1>3 DEF OthersSame, Unanswered
<1>5. ASSUME NEW q \in Requests
      PROVE  (Awaiting(q)' <=> Awaiting(q)) /\ Pend(q)' = Pend(q) /\ SameRequest(q)
  <2>1. ~Awaiting(r) /\ ~Awaiting(r)'
    BY <1>3 DEF RePush, Awaiting, Locking
  <2> QED BY <2>1, <1>3 DEF OthersSame, SameRequest, Awaiting, Locking, Prefilling, Pend,
                            DecodePosition
<1>6. batched_pending \in Seq(PendingDecode) /\ drained[r] \in Seq(PendingDecode)
  BY DEF TypeInv, TypeOK
<1> DEFINE n == Len(batched_pending)
<1>7. /\ n \in Nat
      /\ DOMAIN batched_pending' = 1..(n + Len(drained[r]))
      /\ \A i \in DOMAIN batched_pending' :
           batched_pending'[i] = IF i <= n THEN batched_pending[i] ELSE drained[r][i - n]
      /\ \A i \in DOMAIN batched_pending' : i > n => i - n \in DOMAIN drained[r]
      /\ \A i \in DOMAIN batched_pending' : i <= n => i \in DOMAIN batched_pending
      /\ \A i \in DOMAIN drained[r] : n + i \in DOMAIN batched_pending' /\ n + i > n
      /\ DOMAIN batched_pending \subseteq DOMAIN batched_pending'
      /\ \A i \in DOMAIN batched_pending : i <= n
  BY <1>3, <1>6
<1>8. ASSUME NEW p \in PendingDecode, BatchedFor(p)
      PROVE  QueuedFor(p)'
  <2>1. p.req \in Requests /\ p.req # r
    BY <1>8, <1>2 DEF PendingDecode, BatchedFor, Fresh
  <2>2. pc[p.req] \notin {"lock", "dispatch"}
    BY <2>1, <1>1 DEF Unanswered
  <2> QED BY <2>1, <2>2, <1>3, <1>5, <1>8
          DEF QueuedFor, BatchedFor, Fresh, SameRequest, Prefilling, OthersSame
<1>9. QueuedInv'
  <2>1. ASSUME NEW i \in DOMAIN batched_pending', NEW p, p = batched_pending'[i]
        PROVE  QueuedFor(p)'
    <3>1. CASE i <= n
      <4>1. p \in PendingDecode /\ BatchedFor(p)
        BY <2>1, <3>1, <1>7, PendingTypes DEF QueueInv, QueuedInv, QueuedFor, BatchedFor
      <4> QED BY <4>1, <1>8
    <3>2. CASE i > n
      <4>1. p \in PendingDecode /\ BatchedFor(p)
        BY <2>1, <3>2, <1>2, <1>7, PendingTypes DEF QueueInv, BatchedInv
      <4> QED BY <4>1, <1>8
    <3> QED BY <3>1, <3>2, <1>7
  <2> QED BY <2>1 DEF QueuedInv, QueuedFor, Fresh, Pend, DecodePosition, Prefilling
<1>10. BatchedInv'
  BY <1>4 DEF BatchedInv
<1>11. DistinctInv'
  <2>1. ASSUME NEW i \in DOMAIN batched_pending', NEW j \in DOMAIN batched_pending', i # j
        PROVE  batched_pending'[i].req # batched_pending'[j].req
    <3>1. CASE i <= n /\ j <= n
      BY <2>1, <3>1, <1>7 DEF QueueInv, DistinctInv
    <3>2. CASE i > n /\ j > n
      <4>1. i - n \in DOMAIN drained[r] /\ j - n \in DOMAIN drained[r] /\ i - n # j - n
        BY <2>1, <3>2, <1>7
      <4> QED BY <4>1, <3>2, <1>2, <1>7 DEF QueueInv, DistinctInv
    <3>3. CASE i <= n /\ j > n
      BY <3>3, <1>2, <1>7 DEF QueueInv, DistinctInv
    <3>4. CASE i > n /\ j <= n
      BY <3>4, <1>2, <1>7 DEF QueueInv, DistinctInv
    <3> QED BY <3>1, <3>2, <3>3, <3>4, <1>7
  <2> QED BY <2>1, <1>4 DEF DistinctInv
<1>12. AwaitInv'
  <2>1. ASSUME NEW q \in Requests, Awaiting(q), reply[q] = "empty"
        PROVE  Outstanding(Pend(q))'
    <3>1. CASE \E i \in DOMAIN batched_pending : batched_pending[i] = Pend(q)
      BY <3>1, <1>5, <1>7 DEF Outstanding
    <3>2. CASE Pend(q) \in Batch(r)
      <4>1. PICK i \in DOMAIN drained[r] : drained[r][i] = Pend(q)
        BY <3>2 DEF Batch
      <4>2. batched_pending'[n + i] = Pend(q) /\ n + i \in DOMAIN batched_pending'
        <5>1. i \in Nat
          BY <1>6
        <5> QED BY <4>1, <5>1, <1>7
      <4> QED BY <4>2, <1>5 DEF Outstanding
    <3> QED BY <2>1, <3>1, <3>2, <1>1 DEF QueueInv, AwaitInv, AwaitFor, Outstanding
  <2> QED BY <2>1, <1>3, <1>5 DEF AwaitInv, AwaitFor
<1>13. ReplyInv'
  BY <1>3, <1>5 DEF QueueInv, ReplyInv
<1> QED BY <1>9, <1>10, <1>11, <1>12, <1>13 DEF QueueInv

(* The batch of a dispatch is answered: its pendings are gone. *)
LEMMA AnswerStep ==
  ASSUME TypeInv, DispatchInv, QueueInv, NEW r \in Requests, OthersSame(r),
         pc[r] = "dispatch", ~Unanswered(r)', SameRequest(r),
         NEW what \in {"ok", "err", "closed"}, Answer(r, what),
         batched_pending' = batched_pending, Awaiting(r)' <=> Awaiting(r)
  PROVE  QueueInv'
<1>1. Unanswered(r) /\ \A q \in Requests : Unanswered(q) => q = r
  BY OneUnanswered DEF Unanswered, Dispatching
<1>2. \A q \in Requests : ~Unanswered(q)'
  BY <1>1 DEF OthersSame, Unanswered
<1>3. ASSUME NEW q \in Requests
      PROVE  (Awaiting(q)' <=> Awaiting(q)) /\ Pend(q)' = Pend(q) /\ SameRequest(q)
  BY DEF OthersSame, SameRequest, Awaiting, Locking, Prefilling, Pend, DecodePosition
<1>4. ASSUME NEW q \in Requests, InBatch(r, q)
      PROVE  Awaiting(q) /\ reply'[q] # "empty"
  <2>1. PICK i \in DOMAIN drained[r] : drained[r][i].req = q
    BY <1>4 DEF InBatch, Batch
  <2>2. BatchedFor(drained[r][i])
    BY <2>1, <1>1 DEF QueueInv, BatchedInv
  <2> QED BY <2>1, <2>2, <1>4 DEF BatchedFor, Fresh, Awaiting, Locking, Answer
<1>5. \A q \in Requests : ~InBatch(r, q) => reply'[q] = reply[q]
  BY DEF Answer
<1>6. QueuedInv'
  <2>1. ASSUME NEW i \in DOMAIN batched_pending
        PROVE  QueuedFor(batched_pending[i])'
    <3> DEFINE q == batched_pending[i].req
    <3>1. QueuedFor(batched_pending[i]) /\ q \in Requests
      BY PendingTypes DEF QueueInv, QueuedInv, PendingDecode
    <3>2. ~InBatch(r, q)
      BY <1>1 DEF QueueInv, DistinctInv, InBatch, Batch
    <3>3. q # r
      BY <3>1 DEF QueuedFor
    <3> QED BY <3>1, <3>2, <3>3, <1>3, <1>5
            DEF QueuedFor, Fresh, SameRequest, Prefilling, OthersSame
  <2> QED BY <2>1 DEF QueuedInv
<1>7. BatchedInv'
  BY <1>2 DEF BatchedInv
<1>8. DistinctInv'
  BY <1>2 DEF QueueInv, DistinctInv
<1>9. AwaitInv'
  <2>1. ASSUME NEW q \in Requests, Awaiting(q), reply'[q] = "empty"
        PROVE  Outstanding(Pend(q))'
    <3>1. ~InBatch(r, q) /\ reply[q] = "empty"
      BY <2>1, <1>4, <1>5
    <3>2. Pend(q) \notin Batch(r)
      BY <3>1 DEF InBatch, Pend
    <3>3. \E i \in DOMAIN batched_pending : batched_pending[i] = Pend(q)
      BY <2>1, <3>1, <3>2, <1>1 DEF QueueInv, AwaitInv, AwaitFor, Outstanding
    <3> QED BY <3>3, <1>3 DEF Outstanding
  <2> QED BY <2>1, <1>3 DEF AwaitInv, AwaitFor
<1>10. ReplyInv'
  BY <1>3, <1>4, <1>5 DEF QueueInv, ReplyInv
<1> QED BY <1>6, <1>7, <1>8, <1>9, <1>10 DEF QueueInv

(* A pending is pushed by a request that had none. *)
LEMMA PushStep ==
  ASSUME TypeInv, PlaceInv, QueueInv, NEW r \in Requests, OthersSame(r), Push(r)
  PROVE  QueueInv'
<1>1. /\ pc[r] = "push" /\ pc'[r] = "lead" /\ SameRequest(r) /\ drained' = drained
      /\ batched_pending' = Append(batched_pending, Pend(r))
      /\ reply' = [reply EXCEPT ![r] = "empty"]
  BY DEF Push, Goto, TypeInv, TypeOK, claims, prompt, SameRequest, Pend
<1>2. ~Prefilling(r) /\ ~Awaiting(r) /\ Awaiting(r)' /\ ~Unanswered(r) /\ ~Unanswered(r)'
  BY <1>1 DEF PlaceInv, PlaceFor, Awaiting, Locking, Unanswered
<1>3. batched_pending \in Seq(PendingDecode)
  BY DEF TypeInv, TypeOK
<1> DEFINE n == Len(batched_pending)
<1>4. /\ n \in Nat /\ n + 1 \notin DOMAIN batched_pending
      /\ DOMAIN batched_pending' = DOMAIN batched_pending \cup {n + 1}
      /\ batched_pending'[n + 1] = Pend(r)
      /\ \A i \in DOMAIN batched_pending : batched_pending'[i] = batched_pending[i]
  BY <1>1, <1>3
<1>5. ASSUME NEW q \in Requests
      PROVE  /\ Pend(q)' = Pend(q) /\ SameRequest(q)
             /\ Unanswered(q)' <=> Unanswered(q)
             /\ Batch(q)' = Batch(q)
             /\ q # r => pc'[q] = pc[q] /\ reply'[q] = reply[q] /\ (Awaiting(q)' <=> Awaiting(q))
  BY <1>1, <1>2 DEF OthersSame, SameRequest, Awaiting, Locking, Prefilling, Pend,
                    DecodePosition, Unanswered, Batch
<1>6. ASSUME NEW p \in PendingDecode, BatchedFor(p)
      PROVE  p.req # r /\ BatchedFor(p)' /\ (QueuedFor(p) => QueuedFor(p)')
  <2>1. p.req \in Requests /\ p.req # r
    BY <1>1, <1>6 DEF PendingDecode, BatchedFor
  <2> QED BY <2>1, <1>5, <1>6 DEF BatchedFor, QueuedFor, Fresh, SameRequest, Prefilling
<1>7. \A i \in DOMAIN batched_pending :
        batched_pending[i] \in PendingDecode /\ BatchedFor(batched_pending[i])
  BY PendingTypes DEF QueueInv, QueuedInv, QueuedFor, BatchedFor
<1>8. QueuedInv'
  <2>1. ASSUME NEW i \in DOMAIN batched_pending', NEW p, p = batched_pending'[i]
        PROVE  QueuedFor(p)'
    <3>1. CASE i \in DOMAIN batched_pending
      BY <2>1, <3>1, <1>4, <1>6, <1>7 DEF QueueInv, QueuedInv
    <3>2. CASE i = n + 1
      <4>1. p = Pend(r) /\ p.req = r
        BY <2>1, <3>2, <1>4 DEF Pend
      <4>2. reply'[r] = "empty"
        BY <1>1 DEF TypeInv, TypeOK
      <4> QED BY <4>1, <4>2, <1>1, <1>2, <1>5 DEF QueuedFor, Fresh, SameRequest, Prefilling
    <3> QED BY <3>1, <3>2, <1>4
  <2> QED BY <2>1 DEF QueuedInv, QueuedFor, Fresh, Pend, DecodePosition, Prefilling
<1>9. BatchedInv'
  BY <1>1, <1>5, <1>6, PendingTypes DEF QueueInv, BatchedInv
<1>10. DistinctInv'
  <2>1. Pend(r).req = r
    BY DEF Pend
  <2>2. ASSUME NEW i \in DOMAIN batched_pending', NEW j \in DOMAIN batched_pending', i # j
        PROVE  batched_pending'[i].req # batched_pending'[j].req
    BY <2>1, <2>2, <1>4, <1>6, <1>7 DEF QueueInv, DistinctInv
  <2>3. ASSUME NEW q \in Requests, Unanswered(q), NEW i \in DOMAIN drained[q],
               NEW j \in DOMAIN batched_pending'
        PROVE  drained[q][i].req # batched_pending'[j].req
    <3>1. drained[q][i].req # r
      BY <2>3, <1>6, PendingTypes DEF QueueInv, BatchedInv
    <3> QED BY <2>1, <2>3, <3>1, <1>4 DEF QueueInv, DistinctInv
  <2> QED BY <2>2, <2>3, <1>1, <1>5 DEF QueueInv, DistinctInv
<1>11. AwaitInv'
  <2>1. Outstanding(Pend(r))'
    BY <1>4, <1>5 DEF Outstanding
  <2>2. ASSUME NEW q \in Requests, q # r, Awaiting(q), reply[q] = "empty"
        PROVE  Outstanding(Pend(q))'
    <3>1. Outstanding(Pend(q))
      BY <2>2 DEF QueueInv, AwaitInv, AwaitFor
    <3>2. CASE \E i \in DOMAIN batched_pending : batched_pending[i] = Pend(q)
      BY <3>2, <1>4, <1>5 DEF Outstanding
    <3>3. CASE \E t \in Requests : Unanswered(t) /\ Pend(q) \in Batch(t)
      BY <3>3, <1>5 DEF Outstanding
    <3> QED BY <3>1, <3>2, <3>3 DEF Outstanding
  <2> QED BY <2>1, <2>2, <1>5 DEF AwaitInv, AwaitFor
<1>12. ReplyInv'
  BY <1>2, <1>5 DEF QueueInv, ReplyInv
<1> QED BY <1>8, <1>9, <1>10, <1>11, <1>12 DEF QueueInv

(* An answer is taken by a request whose pending is gone. *)
LEMMA ReceiveStep ==
  ASSUME TypeInv, QueueInv, NEW r \in Requests, OthersSame(r), Receive(r)
  PROVE  QueueInv'
<1>1. /\ pc[r] = "wait" /\ reply[r] # "empty" /\ pc'[r] \in {"decode", "exit"}
      /\ UNCHANGED <<batched_pending, drained>>
      /\ reply' = [reply EXCEPT ![r] = "empty"]
  BY DEF Receive, NextToken, Goto, TypeInv, TypeOK
<1>2. ~Awaiting(r)' /\ ~Unanswered(r) /\ ~Unanswered(r)' /\ reply'[r] = "empty"
  BY <1>1 DEF Awaiting, Locking, Unanswered, TypeInv, TypeOK
<1>3. ASSUME NEW q \in Requests
      PROVE  /\ Unanswered(q)' <=> Unanswered(q)
             /\ Batch(q)' = Batch(q)
             /\ q # r => /\ pc'[q] = pc[q] /\ reply'[q] = reply[q] /\ Pend(q)' = Pend(q)
                         /\ SameRequest(q) /\ (Awaiting(q)' <=> Awaiting(q))
  BY <1>1, <1>2 DEF OthersSame, SameRequest, Awaiting, Locking, Prefilling, Pend,
                    DecodePosition, Unanswered, Batch
<1>4. ASSUME NEW p \in PendingDecode, BatchedFor(p)
      PROVE  BatchedFor(p)' /\ (QueuedFor(p) => QueuedFor(p)')
  <2>1. p.req \in Requests /\ p.req # r
    BY <1>1, <1>4 DEF PendingDecode, BatchedFor, Fresh
  <2> QED BY <2>1, <1>3, <1>4 DEF BatchedFor, QueuedFor, Fresh, SameRequest, Prefilling
<1>5. QueuedInv'
  BY <1>1, <1>4, PendingTypes DEF QueueInv, QueuedInv, QueuedFor, BatchedFor
<1>6. BatchedInv'
  BY <1>1, <1>3, <1>4, PendingTypes DEF QueueInv, BatchedInv
<1>7. DistinctInv'
  BY <1>1, <1>3 DEF QueueInv, DistinctInv
<1>8. AwaitInv'
  BY <1>1, <1>2, <1>3 DEF QueueInv, AwaitInv, AwaitFor, Outstanding
<1>9. ReplyInv'
  BY <1>2, <1>3 DEF QueueInv, ReplyInv
<1> QED BY <1>5, <1>6, <1>7, <1>8, <1>9 DEF QueueInv

(* Every step of a thread keeps the pendings current. *)
LEMMA QueueStep ==
  ASSUME TypeInv, DispatchInv, PlaceInv, QueueInv, NEW r \in Requests, Step(r)
  PROVE  QueueInv'
<1>others. OthersSame(r)
  BY OthersAreSame
<1>types. pc \in [Requests -> Places] /\ drained \in [Requests -> Seq(PendingDecode)]
  BY DEF TypeInv, TypeOK
<1>chunking. ChunkingFor(r)
  BY DEF DispatchInv, ChunkingInv
<1> USE DEF Goto, claims, queue, locks, prompt, device
<1>1. CASE Claim(r)
  BY <1>1, <1>others, <1>types, KeepStep DEF Claim, Awaiting, Locking, Unanswered
<1>2. CASE StartCold(r) \/ StartWarm(r) \/ StartAfterFailedRestore(r) \/ StartFails(r)
  <2>1. UNCHANGED queue /\ pc[r] = "claimed" /\ pc'[r] \in {"prefill", "first", "exit"}
    BY <1>2, <1>types
    DEF StartCold, StartWarm, StartAfterFailedRestore, StartFails, StartPrefill, CanStart
  <2> QED BY <2>1, <1>others, KeepStep DEF Awaiting, Locking, Unanswered
<1>3. CASE LockChunk(r) \/ TakeDispatcher(r) \/ DropDispatcher(r) \/ PureChunk(r)
           \/ PureChunkFails(r)
  <2>1. /\ UNCHANGED queue /\ pc[r] \in {"prefill", "chunk", "drop", "pure"}
        /\ pc'[r] \in {"chunk", "pure", "mixed", "prefill", "first", "exit"}
    BY <1>3, <1>types
    DEF LockChunk, TakeDispatcher, DropDispatcher, PureChunk, PureChunkFails
  <2> QED BY <2>1, <1>others, KeepStep DEF Awaiting, Locking, Unanswered
<1>4. CASE DrainMixed(r)
  BY <1>4, <1>others, <1>types, <1>chunking, DrainStep
  DEF DrainMixed, Awaiting, Locking, Unanswered, Dispatching, SameRequest, ChunkingFor, Prefilling
<1>5. CASE RePush(r)
  BY <1>5, <1>others, RePushStep
<1>6. CASE LockNext(r)
  BY <1>6, <1>others, <1>types, KeepStep
  DEF LockNext, Awaiting, Locking, Unanswered, SameRequest, Prefilling
<1>7. CASE DispatchBatch(r)
  BY <1>7, <1>others, <1>types, AnswerStep
  DEF DispatchBatch, Awaiting, Locking, Unanswered, SameRequest, Prefilling
<1>8. CASE DispatchBatchFails(r)
  BY <1>8, <1>others, <1>types, AnswerStep
  DEF DispatchBatchFails, Awaiting, Locking, Unanswered, SameRequest, Prefilling
<1>9. CASE DispatchMixed(r)
  BY <1>9, <1>others, <1>types, AnswerStep
  DEF DispatchMixed, Awaiting, Locking, Unanswered, SameRequest, Prefilling
<1>10. CASE DispatchMixedFails(r)
  BY <1>10, <1>others, <1>types, AnswerStep
  DEF DispatchMixedFails, Awaiting, Locking, Unanswered, SameRequest, Prefilling
<1>11. CASE UnlockBatch(r)
  BY <1>11, <1>others, <1>types, KeepStep
  DEF UnlockBatch, Unbatch, Awaiting, Locking, Unanswered, SameRequest, Prefilling
<1>12. CASE UnlockMixed(r)
  BY <1>12, <1>others, <1>types, KeepStep
  DEF UnlockMixed, Unbatch, Awaiting, Locking, Unanswered
<1>13. CASE FirstToken(r) \/ DecodeDirect(r) \/ CheckOthers(r) \/ DecodeFast(r)
  <2>1. /\ UNCHANGED queue /\ pc[r] \in {"first", "decode", "fast"}
        /\ pc'[r] \in {"decode", "push", "fast", "exit"}
    BY <1>13, <1>types DEF FirstToken, DecodeDirect, CheckOthers, DecodeFast, NextToken
  <2> QED BY <2>1, <1>others, KeepStep DEF Awaiting, Locking, Unanswered
<1>14. CASE Push(r)
  BY <1>14, <1>others, PushStep
<1>15. CASE TryLead(r)
  BY <1>15, <1>others, <1>types, KeepStep
  DEF TryLead, Awaiting, Locking, Unanswered, SameRequest
<1>16. CASE DrainOrStepDown(r)
  <2>1. ~Prefilling(r)
    BY <1>16 DEF DrainOrStepDown, PlaceInv, PlaceFor, Awaiting
  <2> QED BY <1>16, <2>1, <1>others, <1>types, DrainStep
      DEF DrainOrStepDown, Awaiting, Locking, Unanswered, Dispatching, SameRequest, Prefilling
<1>17. CASE Receive(r)
  BY <1>17, <1>others, ReceiveStep
<1>18. CASE ReleasePages(r) \/ ClearClaim(r)
  <2>1. UNCHANGED queue /\ pc[r] \in {"exit", "release"} /\ pc'[r] \in {"release", "done"}
    BY <1>18, <1>types DEF ReleasePages, ClearClaim
  <2> QED BY <2>1, <1>others, KeepStep DEF Awaiting, Locking, Unanswered
<1> QED BY <1>1, <1>2, <1>3, <1>4, <1>5, <1>6, <1>7, <1>8, <1>9, <1>10, <1>11, <1>12,
           <1>13, <1>14, <1>15, <1>16, <1>17, <1>18
  DEF Step, Prefill, Dispatch, Decode

LEMMA QueueStutter == QueueInv /\ UNCHANGED vars => QueueInv'
BY DEF vars, claims, queue, prompt, QueueInv, QueuedInv, BatchedInv, DistinctInv, AwaitInv,
       AwaitFor, ReplyInv, QueuedFor, BatchedFor, Fresh, Pend, DecodePosition, Outstanding,
       Batch, Unanswered, Awaiting, Locking, Prefilling

LEMMA QueueInit == Init => PlaceInv /\ QueueInv
BY DEF Init, PlaceInv, PlaceFor, Prompting, Awaiting, Locking, Prefilling, QueueInv,
       QueuedInv, BatchedInv, DistinctInv, AwaitInv, AwaitFor, ReplyInv, Unanswered

(* The places of the requests and their pendings, in every reachable state. *)
THEOREM QueueInvariant == Spec => [](PlaceInv /\ QueueInv)
<1>1. TypeInv /\ DispatchInv /\ PlaceInv /\ QueueInv /\ [Next]_vars => PlaceInv' /\ QueueInv'
  BY PlaceStep, PlaceStutter, QueueStep, QueueStutter DEF Next, AllServed
<1> QED BY TypeInvariant, DispatchInvariant, QueueInit, <1>1, PTL DEF Spec

(* A queued or drained pending always names the slot and the position its    *)
(* request is at, that request waits for exactly this answer and holds no    *)
(* mutex, and no batch has two pendings of one slot: the blocking_locks of   *)
(* a dispatch never meet a mutex the dispatcher itself or a waiting owner    *)
(* holds.                                                                    *)
THEOREM PendingsAlwaysCurrent == Spec => []PendingsAreCurrent
<1>1. TypeInv /\ SlotsHaveOneOwner /\ DispatchInv /\ QueueInv => PendingsAreCurrent
  <2> SUFFICES ASSUME TypeInv, SlotsHaveOneOwner, DispatchInv, QueueInv
               PROVE  PendingsAreCurrent
    OBVIOUS
  <2> DEFINE Current(p) ==
        /\ p.slot = slot[p.req] /\ p.position = DecodePosition(p.req)
        /\ reply[p.req] = "empty"
        /\ pc[p.req] \in {"lead", "leader", "wait", "lock", "dispatch"}
        /\ inflight[p.slot] \in {None, dispatcher}
  <2>1. ASSUME NEW p \in PendingDecode, BatchedFor(p)
        PROVE  Current(p) /\ p.slot = slot[p.req] /\ slot[p.req] # None
    <3>1. /\ p.slot = slot[p.req] /\ p.position = DecodePosition(p.req)
          /\ p.req \in Requests /\ p.slot \in Slots
      BY <2>1 DEF BatchedFor, Fresh, Pend, PendingDecode
    <3>2. ASSUME inflight[p.slot] # None
          PROVE  inflight[p.slot] = dispatcher
      <4> DEFINE h == inflight[p.slot]
      <4>1. h \in Requests /\ HeldFor(p.slot, h)
        BY <3>1, <3>2 DEF TypeInv, TypeOK, Nobody, DispatchInv, HolderInv
      <4>2. CASE Locking(h)
        BY <4>1, <4>2 DEF DispatchInv, DispatcherInv, Dispatching, Locking
      <4>3. CASE slot[h] = p.slot /\ HoldsOwn(h)
        <5>1. h = p.req
          BY <3>1, <4>1, <4>3 DEF SlotsHaveOneOwner
        <5> QED BY <5>1, <4>3, <2>1 DEF HoldsOwn, BatchedFor, Fresh
      <4> QED BY <4>1, <4>2, <4>3 DEF HeldFor
    <3> QED BY <2>1, <3>1, <3>2 DEF BatchedFor, Fresh
  <2>2. \A i \in DOMAIN batched_pending :
          batched_pending[i] \in PendingDecode /\ BatchedFor(batched_pending[i])
    BY PendingTypes DEF QueueInv, QueuedInv, QueuedFor, BatchedFor
  <2>3. \A r \in Requests : Unanswered(r) =>
          \A i \in DOMAIN drained[r] :
            drained[r][i] \in PendingDecode /\ BatchedFor(drained[r][i])
    BY PendingTypes DEF QueueInv, BatchedInv
  <2>4. \A p \in {batched_pending[i] : i \in DOMAIN batched_pending}
                 \cup UNION {Batch(r) : r \in {q \in Requests : Unanswered(q)}} :
          p \in PendingDecode /\ BatchedFor(p)
    BY <2>2, <2>3 DEF Batch
  <2>5. ASSUME NEW r \in Requests, Unanswered(r), NEW i \in DOMAIN drained[r],
               NEW j \in DOMAIN drained[r], i # j
        PROVE  drained[r][i].slot # drained[r][j].slot
    <3>1. drained[r][i].req # drained[r][j].req
      BY <2>5 DEF QueueInv, DistinctInv
    <3>2. /\ drained[r][i].slot = slot[drained[r][i].req] /\ slot[drained[r][i].req] # None
          /\ drained[r][j].slot = slot[drained[r][j].req]
          /\ drained[r][i].req \in Requests /\ drained[r][j].req \in Requests
      BY <2>1, <2>3, <2>5 DEF PendingDecode
    <3> QED BY <3>1, <3>2 DEF SlotsHaveOneOwner
  <2> QED BY <2>1, <2>4, <2>5 DEF PendingsAreCurrent, QueueInv, DistinctInv
<1> QED BY TypeInvariant, OneOwner, DispatchInvariant, QueueInvariant, <1>1, PTL

(* A request that blocks in rx.recv() is answered already, or its pending is *)
(* in the queue or in a batch about to run: it is never dropped unanswered,  *)
(* whatever fails.                                                           *)
THEOREM PendingsAreNeverLost == Spec => []NoLostPending
<1>1. QueueInv => NoLostPending
  BY DEF QueueInv, AwaitInv, AwaitFor, Awaiting, Pend, NoLostPending
<1> QED BY QueueInvariant, <1>1, PTL

-----------------------------------------------------------------------------
(* Without mixed batches only a leader takes the dispatcher. *)
UnmixedFor(r) ==
  pc[r] \notin {"chunk", "mixed", "repush", "drop"} /\ (Locking(r) => ~Prefilling(r))

LeaderInv == (\A r \in Requests : UnmixedFor(r)) /\ QueueHasLeader

LEMMA UnmixedMoves ==
  ASSUME ~MixedOn, TypeInv, PlaceInv, NEW r \in Requests, UnmixedFor(r), Step(r)
  PROVE  UnmixedFor(r)'
<1>1. PlaceFor(r)
  BY DEF PlaceInv
<1>2. pc \in [Requests -> Places]
  BY DEF TypeInv, TypeOK
<1> USE DEF Goto, prompt, UnmixedFor, Locking, Prefilling
<1>3. CASE Claim(r) \/ ClearClaim(r) \/ ReleasePages(r)
  BY <1>2, <1>3 DEF Claim, ClearClaim, ReleasePages
<1>4. CASE StartCold(r) \/ StartWarm(r) \/ StartAfterFailedRestore(r) \/ StartFails(r)
  BY <1>2, <1>4 DEF StartCold, StartWarm, StartAfterFailedRestore, StartFails, StartPrefill
<1>5. CASE LockChunk(r) \/ PureChunk(r) \/ PureChunkFails(r)
  BY <1>2, <1>5 DEF LockChunk, PureChunk, PureChunkFails
<1>6. CASE TakeDispatcher(r) \/ DrainMixed(r) \/ RePush(r) \/ DropDispatcher(r)
  BY <1>6 DEF TakeDispatcher, DrainMixed, RePush, DropDispatcher
<1>7. CASE Dispatch(r)
  BY <1>2, <1>7 DEF Dispatch, LockNext, DispatchBatch, DispatchBatchFails, UnlockBatch,
     DispatchMixed, DispatchMixedFails, UnlockMixed
<1>8. CASE Decode(r)
  BY <1>1, <1>2, <1>8 DEF Decode, PlaceFor, Awaiting, FirstToken, DecodeDirect, CheckOthers,
     DecodeFast, Push, TryLead, DrainOrStepDown, Receive, NextToken
<1> QED BY <1>3, <1>4, <1>5, <1>6, <1>7, <1>8 DEF Step, Prefill

(* Who empties the dispatcher has emptied the queue, and who fills the queue *)
(* goes on to try for the dispatcher.                                        *)
LEMMA LeaderStep ==
  ASSUME ~MixedOn, TypeInv, DispatchInv, PlaceInv, LeaderInv, NEW r \in Requests, Step(r)
  PROVE  LeaderInv'
<1>1. \A q \in Requests : UnmixedFor(q)'
  <2>1. UnmixedFor(r)'
    BY UnmixedMoves DEF LeaderInv
  <2>2. ASSUME NEW q \in Requests, q # r
        PROVE  UnmixedFor(q)'
    BY <2>2, OthersKeep DEF LeaderInv, UnmixedFor, Locking, Prefilling
  <2> QED BY <2>1, <2>2
<1>2. QueueHasLeader'
  <2>1. \/ pc[r] = "lead"
        \/ UNCHANGED <<batched_pending, dispatcher>>
        \/ Push(r) \/ DrainOrStepDown(r)
    <3>1. UnmixedFor(r) /\ r # None /\ pc \in [Requests -> Places]
      BY DEF LeaderInv, TypeInv, TypeOK
    <3> USE DEF Goto, claims, queue, locks
    <3>2. CASE Claim(r) \/ ClearClaim(r) \/ ReleasePages(r)
      BY <3>1, <3>2 DEF Claim, ClearClaim, ReleasePages
    <3>3. CASE Prefill(r)
      BY <3>1, <3>3 DEF UnmixedFor, Prefill, StartCold, StartWarm, StartAfterFailedRestore,
         StartFails, StartPrefill, LockChunk, TakeDispatcher, DrainMixed, RePush,
         DropDispatcher, PureChunk, PureChunkFails
    <3>4. CASE Dispatch(r)
      BY <3>1, <3>4 DEF UnmixedFor, Locking, Prefilling, Dispatch, LockNext, DispatchBatch,
         DispatchBatchFails, UnlockBatch, DispatchMixed, DispatchMixedFails, UnlockMixed
    <3>5. CASE FirstToken(r) \/ DecodeDirect(r) \/ CheckOthers(r) \/ DecodeFast(r)
               \/ Receive(r)
      BY <3>1, <3>5 DEF FirstToken, DecodeDirect, CheckOthers, DecodeFast, Receive, NextToken
    <3>6. CASE TryLead(r)
      BY <3>6 DEF TryLead
    <3> QED BY <3>2, <3>3, <3>4, <3>5, <3>6 DEF Step, Decode
  <2>2. \A q \in Requests \ {r} : pc'[q] = pc[q]
    BY OthersKeep
  <2>3. r # None /\ pc \in [Requests -> Places]
    BY DEF TypeInv, TypeOK
  <2>4. CASE pc[r] = "lead"
    <3>1. TryLead(r)
      BY <2>4 DEF Step, Claim, ClearClaim, ReleasePages, Prefill, StartCold, StartWarm,
         StartAfterFailedRestore, StartFails, CanStart, LockChunk, TakeDispatcher,
         DrainMixed, RePush, DropDispatcher, PureChunk, PureChunkFails, Dispatch, LockNext,
         DispatchBatch, DispatchBatchFails, UnlockBatch, DispatchMixed, DispatchMixedFails,
         UnlockMixed, Decode, FirstToken, DecodeDirect, CheckOthers, DecodeFast, Push,
         DrainOrStepDown, Receive
    <3> QED BY <3>1, <2>3 DEF TryLead, QueueHasLeader
  <2>5. CASE UNCHANGED <<batched_pending, dispatcher>> /\ pc[r] # "lead"
    BY <2>2, <2>5 DEF LeaderInv, QueueHasLeader
  <2>6. CASE Push(r)
    BY <2>3, <2>6 DEF Push, Goto, QueueHasLeader
  <2>7. CASE DrainOrStepDown(r)
    BY <2>7 DEF DrainOrStepDown, QueueHasLeader
  <2> QED BY <2>1, <2>4, <2>5, <2>6, <2>7
<1> QED BY <1>1, <1>2 DEF LeaderInv

LEMMA LeaderStutter == LeaderInv /\ UNCHANGED vars => LeaderInv'
BY DEF vars, locks, queue, prompt, LeaderInv, UnmixedFor, QueueHasLeader, Locking, Prefilling

(* The #276 argument: when the model runs no mixed batches, a pending is     *)
(* never left in the queue with nobody to drain it.                          *)
THEOREM QueueAlwaysHasLeader ==
  ASSUME ~MixedOn
  PROVE  Spec => []QueueHasLeader
<1>1. Init => LeaderInv
  BY DEF Init, LeaderInv, UnmixedFor, QueueHasLeader, Locking
<1>2. TypeInv /\ DispatchInv /\ PlaceInv /\ LeaderInv /\ [Next]_vars => LeaderInv'
  BY LeaderStep, LeaderStutter DEF Next, AllServed
<1>3. LeaderInv => QueueHasLeader
  BY DEF LeaderInv
<1> QED BY TypeInvariant, DispatchInvariant, QueueInvariant, <1>1, <1>2, <1>3, PTL DEF Spec

-----------------------------------------------------------------------------
(* What the device holds for a request.  A mixed chunk is written before     *)
(* prefill_start moves, a batched decode before its token is received.       *)
Prefilled(r) == IF pc[r] = "unlock" /\ Prefilling(r) THEN ChunkEnd(r) ELSE prefill_start[r]

Answered(r) == IF reply[r] = "ok" THEN 1 ELSE 0

SeenFor(r) ==
  Serving(r) /\ reply[r] \in {"empty", "ok"} =>
    seen[slot[r]] =
      Prefilled(r) + (IF produced[r] = 0 THEN 0 ELSE produced[r] - 1) + Answered(r)

OwnRow(r, i) == i < CtxCap /\ rows[slot[r]][i] = r

RowsFor(r) ==
  Serving(r) =>
    /\ \A i \in 0..(Prefilled(r) - 1) : OwnRow(r, i)
    /\ \A i \in (PromptLen[r] + 1)..(PromptLen[r] + produced[r] + Answered(r) - 1) :
         OwnRow(r, i)

DeviceFor(r) == SeenFor(r) /\ RowsFor(r)

SnapsInv == \A e \in snaps : e.exact /\ e.n <= CtxCap

DeviceInv == (\A r \in Requests : DeviceFor(r)) /\ SnapsInv

(* A step of r other than a batched forward works in the slot of r.          *)
LEMMA OthersDevice ==
  ASSUME TypeInv, NEW r \in Requests, Step(r), pc[r] # "dispatch"
  PROVE  /\ \A s \in Slots : s # slot[r] => rows'[s] = rows[s] /\ seen'[s] = seen[s]
         /\ \A q \in Requests : q # r => reply'[q] = reply[q]
<1> USE DEF TypeInv, TypeOK, queue, device, Written
<1>1. CASE Claim(r) \/ ReleasePages(r) \/ ClearClaim(r)
  BY <1>1 DEF Claim, ReleasePages, ClearClaim
<1>2. CASE StartCold(r) \/ StartFails(r)
  BY <1>2 DEF StartCold, StartFails, StartPrefill
<1>3. CASE StartWarm(r) \/ StartAfterFailedRestore(r)
  BY <1>3 DEF StartWarm, StartAfterFailedRestore, StartPrefill
<1>4. CASE LockChunk(r) \/ TakeDispatcher(r) \/ DrainMixed(r) \/ RePush(r) \/ DropDispatcher(r)
  BY <1>4 DEF LockChunk, TakeDispatcher, DrainMixed, RePush, DropDispatcher
<1>5. CASE PureChunk(r) \/ PureChunkFails(r)
  BY <1>5 DEF PureChunk, PureChunkFails
<1>6. CASE Dispatch(r)
  BY <1>6 DEF Dispatch, LockNext, DispatchBatch, DispatchBatchFails, UnlockBatch,
     DispatchMixed, DispatchMixedFails, UnlockMixed
<1>7. CASE FirstToken(r) \/ CheckOthers(r) \/ Push(r) \/ TryLead(r) \/ DrainOrStepDown(r)
           \/ Receive(r)
  BY <1>7 DEF FirstToken, CheckOthers, Push, TryLead, DrainOrStepDown, Receive
<1>8. CASE DecodeDirect(r) \/ DecodeFast(r)
  BY <1>8 DEF DecodeDirect, DecodeFast, DecodeOne, DecodeOneFails
<1> QED BY <1>1, <1>2, <1>3, <1>4, <1>5, <1>6, <1>7, <1>8 DEF Step, Prefill, Decode

(* The slot of a request that is being served is its own. *)
LEMMA ServingSlot ==
  ASSUME TypeInv, SlotsHaveOneOwner, NEW q \in Requests, Serving(q)
  PROVE  slot[q] \in Slots /\ \A r \in Requests : r # q => slot[r] # slot[q]
BY DEF TypeInv, TypeOK, SlotHeld, Serving, SlotsHaveOneOwner

(* What the device holds for a request depends on its own slot and progress. *)
LEMMA DeviceKept ==
  ASSUME NEW q \in Requests, DeviceFor(q), SameRequest(q), pc'[q] = pc[q],
         reply'[q] = reply[q],
         Serving(q) => rows'[slot[q]] = rows[slot[q]] /\ seen'[slot[q]] = seen[slot[q]]
  PROVE  DeviceFor(q)'
BY DEF DeviceFor, SeenFor, RowsFor, OwnRow, Serving, Prefilled, Answered, Prefilling,
       ChunkEnd, SameRequest

LEMMA OthersDeviceStep ==
  ASSUME TypeInv, SlotsHaveOneOwner, DeviceInv, NEW r \in Requests, Step(r),
         pc[r] # "dispatch", NEW q \in Requests, q # r
  PROVE  DeviceFor(q)'
<1>1. SameRequest(q) /\ pc'[q] = pc[q]
  BY OthersAreSame DEF OthersSame
<1>2. Serving(q) => slot[q] \in Slots /\ slot[q] # slot[r]
  BY ServingSlot
<1> QED BY <1>1, <1>2, OthersDevice, DeviceKept DEF DeviceInv

(* A step of r that computes nothing for it. *)
LEMMA DeviceIdle ==
  ASSUME TypeInv, NEW r \in Requests, DeviceFor(r), SameRequest(r), UNCHANGED device,
         Serving(r) \/ ~Serving(r)', reply'[r] = reply[r], pc[r] # "unlock" \/ ~Prefilling(r),
         pc'[r] # "unlock"
  PROVE  DeviceFor(r)'
BY DEF device, DeviceFor, SeenFor, RowsFor, OwnRow, Serving, Prefilled, Answered, Prefilling,
       SameRequest

(* Rows i to j - 1 of slot s, after they were written for q. *)
LEMMA WrittenRows ==
  ASSUME TypeInv
  PROVE  \A s \in Slots, k \in 0..(CtxCap - 1) : \A i, j, q :
           Written(rows, s, i, j, q)[s][k] = IF k \in i..(j - 1) THEN q ELSE rows[s][k]
BY DEF Written, TypeInv, TypeOK

(* The start of a prefill: nothing is computed, or a whole exact snapshot.   *)
LEMMA DeviceStart ==
  ASSUME TypeInv, PlaceInv, QueueInv, SnapsInv, NEW r \in Requests,
         StartCold(r) \/ StartWarm(r) \/ StartAfterFailedRestore(r) \/ StartFails(r)
  PROVE  DeviceFor(r)'
<1>1. /\ pc[r] = "claimed" /\ slot[r] \in Slots /\ slot' = slot
      /\ produced[r] = 0 /\ produced' = produced /\ reply[r] = "empty" /\ reply' = reply
  <2>1. pc[r] = "claimed" /\ UNCHANGED <<slot, produced, reply>>
    BY DEF StartCold, StartWarm, StartAfterFailedRestore, StartFails, StartPrefill, CanStart,
           queue, claims
  <2>2. slot[r] \in Slots
    BY <2>1 DEF TypeInv, TypeOK, SlotHeld
  <2>3. produced[r] = 0
    BY <2>1 DEF PlaceInv, PlaceFor, Prompting
  <2>4. reply[r] = "empty"
    BY <2>1 DEF QueueInv, ReplyInv, Awaiting, Locking
  <2> QED BY <2>1, <2>2, <2>3, <2>4
<1>2. /\ pc \in [Requests -> Places] /\ prefill_start \in [Requests -> Nat]
      /\ seen \in [Slots -> Nat] /\ rows \in [Slots -> [0..(CtxCap - 1) -> Nobody]]
      /\ snaps \subseteq Snapshot
  BY DEF TypeInv, TypeOK
<1>3. CASE StartFails(r)
  BY <1>2, <1>3 DEF StartFails, StartPrefill, Goto, DeviceFor, SeenFor, RowsFor, Serving
<1>4. CASE StartCold(r) \/ StartAfterFailedRestore(r)
  <2>1. prefill_start'[r] = 0 /\ pc'[r] = "prefill" /\ seen'[slot[r]] = 0
    BY <1>1, <1>2, <1>4 DEF StartCold, StartAfterFailedRestore, StartPrefill, Goto
  <2> QED BY <1>1, <2>1 DEF DeviceFor, SeenFor, RowsFor, Prefilled, Answered
<1>5. CASE StartWarm(r)
  <2>1. PICK e \in snaps :
          /\ Usable(r, e)
          /\ rows' = Written(rows, slot[r], 0, e.n, IF e.exact THEN r ELSE None)
          /\ seen' = [seen EXCEPT ![slot[r]] = IF e.exact THEN e.n ELSE 0]
          /\ StartPrefill(r, IF e.n = PromptLen[r] THEN "first" ELSE "prefill", e.n)
    BY <1>5 DEF StartWarm
  <2>2. e.exact /\ e.n \in Nat /\ e.n <= CtxCap
    BY <1>2 DEF SnapsInv, Snapshot
  <2>3. prefill_start'[r] = e.n /\ pc'[r] \in {"first", "prefill"} /\ seen'[slot[r]] = e.n
    BY <1>1, <1>2, <2>1, <2>2 DEF StartPrefill, Goto
  <2>4. ASSUME NEW i \in 0..(e.n - 1)
        PROVE  i < CtxCap /\ rows'[slot[r]][i] = r
    <3>1. i \in 0..(CtxCap - 1) /\ 0 <= i /\ i < e.n
      BY <2>2
    <3>2. rows' = Written(rows, slot[r], 0, e.n, r)
      BY <2>1, <2>2
    <3>3. Written(rows, slot[r], 0, e.n, r)[slot[r]][i] =
            IF i \in 0..(e.n - 1) THEN r ELSE rows[slot[r]][i]
      BY <1>1, <2>2, <3>1, WrittenRows
    <3> QED BY <3>1, <3>2, <3>3
  <2> QED BY <1>1, <2>2, <2>3, <2>4 DEF DeviceFor, SeenFor, RowsFor, OwnRow, Prefilled, Answered
<1> QED BY <1>3, <1>4, <1>5

(* A chunk of its own. *)
LEMMA DevicePureChunk ==
  ASSUME TypeInv, DispatchInv, PlaceInv, QueueInv, NEW r \in Requests, DeviceFor(r), PureChunk(r)
  PROVE  DeviceFor(r)'
<1>1. /\ pc[r] = "pure" /\ slot[r] \in Slots /\ slot' = slot
      /\ produced[r] = 0 /\ produced' = produced /\ reply[r] = "empty" /\ reply' = reply
  <2>1. pc[r] = "pure" /\ UNCHANGED <<slot, produced, reply>>
    BY DEF PureChunk, queue, claims
  <2>2. slot[r] \in Slots
    BY <2>1 DEF TypeInv, TypeOK, SlotHeld
  <2>3. produced[r] = 0
    BY <2>1 DEF PlaceInv, PlaceFor, Prompting
  <2>4. reply[r] = "empty"
    BY <2>1 DEF QueueInv, ReplyInv, Awaiting, Locking
  <2> QED BY <2>1, <2>2, <2>3, <2>4
<1>2. /\ ChunkEnd(r) \in Nat /\ prefill_start[r] <= ChunkEnd(r) /\ ChunkEnd(r) <= CtxCap
      /\ prefill_start[r] \in Nat /\ CtxCap \in Nat
  BY ChunkEndBounds DEF PureChunk, TypeInv, TypeOK
<1>3. /\ prefill_start'[r] = ChunkEnd(r) /\ pc'[r] \in {"first", "prefill"}
      /\ seen'[slot[r]] = seen[slot[r]] + (ChunkEnd(r) - prefill_start[r])
  BY <1>1 DEF PureChunk, Goto, TypeInv, TypeOK
<1>4. /\ seen[slot[r]] = prefill_start[r]
      /\ \A i \in 0..(prefill_start[r] - 1) : i < CtxCap /\ rows[slot[r]][i] = r
  BY <1>1, <1>2 DEF DeviceFor, SeenFor, RowsFor, OwnRow, Serving, Prefilled, Answered
<1>5. ASSUME NEW i \in 0..(ChunkEnd(r) - 1)
      PROVE  i < CtxCap /\ rows'[slot[r]][i] = r
  <2>1. i \in 0..(CtxCap - 1)
    BY <1>2
  <2>2. rows'[slot[r]][i] = IF i \in prefill_start[r]..(ChunkEnd(r) - 1)
                            THEN r ELSE rows[slot[r]][i]
    <3>1. rows' = Written(rows, slot[r], prefill_start[r], ChunkEnd(r), r)
      BY DEF PureChunk
    <3>2. Written(rows, slot[r], prefill_start[r], ChunkEnd(r), r)[slot[r]][i] =
            IF i \in prefill_start[r]..(ChunkEnd(r) - 1) THEN r ELSE rows[slot[r]][i]
      BY <1>1, <1>2, <2>1, WrittenRows
    <3> QED BY <3>1, <3>2
  <2> QED BY <1>2, <1>4, <2>1, <2>2
<1> QED BY <1>1, <1>2, <1>3, <1>4, <1>5
        DEF DeviceFor, SeenFor, RowsFor, OwnRow, Prefilled, Answered

(* A decode step of its own, and the token it gives. *)
LEMMA DeviceDecodeOne ==
  ASSUME TypeInv, PlaceInv, QueueInv, NEW r \in Requests, DeviceFor(r),
         pc[r] \in {"decode", "fast"}, DecodeOne(r), NextToken(r),
         UNCHANGED <<slot, prefill_start, reply>>
  PROVE  DeviceFor(r)'
<1>1. /\ slot[r] \in Slots /\ produced[r] \in Nat /\ produced[r] >= 1 /\ reply[r] = "empty"
      /\ prefill_start[r] = PromptLen[r] /\ PromptLen[r] \in Nat /\ CtxCap \in Nat
  <2>1. PlaceFor(r) /\ slot[r] \in Slots /\ produced[r] \in Nat
    BY DEF TypeInv, TypeOK, SlotHeld, PlaceInv
  <2>2. ~Awaiting(r) /\ produced[r] >= 1 /\ ~Prefilling(r)
    BY <2>1 DEF PlaceFor, Awaiting, Locking
  <2>3. prefill_start[r] = PromptLen[r]
    BY <2>2 DEF TypeInv, TypeOK, PrefillBound, Prefilling
  <2> QED BY <2>1, <2>2, <2>3 DEF QueueInv, ReplyInv
<1>2. /\ produced'[r] = produced[r] + 1 /\ pc'[r] \in {"decode", "exit"}
      /\ seen'[slot[r]] = seen[slot[r]] + 1
  BY <1>1 DEF NextToken, Goto, DecodeOne, TypeInv, TypeOK
<1>3. /\ seen[slot[r]] = PromptLen[r] + (produced[r] - 1)
      /\ \A i \in 0..(PromptLen[r] - 1) : i < CtxCap /\ rows[slot[r]][i] = r
      /\ \A i \in (PromptLen[r] + 1)..(PromptLen[r] + produced[r] - 1) :
           i < CtxCap /\ rows[slot[r]][i] = r
  BY <1>1 DEF DeviceFor, SeenFor, RowsFor, OwnRow, Serving, Prefilled, Answered
<1>4. ASSUME NEW k \in 0..(CtxCap - 1)
      PROVE  rows'[slot[r]][k] = IF k = PromptLen[r] + produced[r] THEN r ELSE rows[slot[r]][k]
  <2>1. rows'[slot[r]][k] =
          IF k \in (PromptLen[r] + produced[r])..(PromptLen[r] + produced[r] + 1 - 1)
          THEN r ELSE rows[slot[r]][k]
    <3>1. rows' = Written(rows, slot[r], PromptLen[r] + produced[r],
                          PromptLen[r] + produced[r] + 1, r)
      BY DEF DecodeOne, DecodePosition
    <3> QED BY <1>1, <3>1, WrittenRows
  <2> QED BY <1>1, <2>1
<1>5. PromptLen[r] + produced[r] < CtxCap
  BY DEF DecodeOne, DecodePosition
<1>6. \A i \in 0..(PromptLen[r] - 1) : i < CtxCap /\ rows'[slot[r]][i] = r
  BY <1>1, <1>3, <1>4
<1>7. ASSUME NEW i \in (PromptLen[r] + 1)..(PromptLen[r] + produced[r])
      PROVE  i < CtxCap /\ rows'[slot[r]][i] = r
  <2>1. i \in 0..(CtxCap - 1)
    BY <1>1, <1>5
  <2>2. CASE i = PromptLen[r] + produced[r]
    BY <1>4, <2>1, <2>2
  <2>3. CASE i # PromptLen[r] + produced[r]
    BY <1>1, <1>3, <1>4, <2>1, <2>3
  <2> QED BY <2>1, <2>2, <2>3
<1> QED BY <1>1, <1>2, <1>3, <1>6, <1>7
        DEF DeviceFor, SeenFor, RowsFor, OwnRow, Serving, Prefilled, Answered

(* The pendings of an unanswered batch are those of its requests. *)
LEMMA BatchMembers ==
  ASSUME TypeInv, QueueInv, NEW r \in Requests, Unanswered(r)
  PROVE  /\ \A p \in Batch(r) : p.req \in Requests /\ p = Pend(p.req) /\ InBatch(r, p.req)
         /\ \A q \in Requests : InBatch(r, q) =>
              Pend(q) \in Batch(r) /\ Awaiting(q) /\ reply[q] = "empty"
<1>1. ASSUME NEW p \in Batch(r)
      PROVE  p.req \in Requests /\ BatchedFor(p)
  <2>1. PICK i \in DOMAIN drained[r] : drained[r][i] = p
    BY DEF Batch
  <2> QED BY <2>1, PendingTypes DEF QueueInv, BatchedInv, PendingDecode
<1>2. \A p \in Batch(r) : p.req \in Requests /\ p = Pend(p.req) /\ InBatch(r, p.req)
  BY <1>1 DEF BatchedFor, Fresh, InBatch
<1>3. ASSUME NEW q \in Requests, InBatch(r, q)
      PROVE  Pend(q) \in Batch(r) /\ Awaiting(q) /\ reply[q] = "empty"
  <2>1. PICK p \in Batch(r) : p.req = q
    BY <1>3 DEF InBatch
  <2> QED BY <2>1, <1>1 DEF BatchedFor, Fresh, Awaiting, Locking
<1> QED BY <1>2, <1>3

(* A batched forward writes one row for each request of the batch, in the    *)
(* slot of the request, and leaves the slots of the others alone.            *)
LEMMA BatchRows ==
  ASSUME TypeInv, SlotsHaveOneOwner, QueueInv, NEW r \in Requests, Unanswered(r),
         NEW q \in Requests, slot[q] \in Slots,
         NEW ok \in BOOLEAN, NEW kv, kv = Decoded(r, ok)
  PROVE  /\ InBatch(r, q) =>
              /\ Consumed(r)[slot[q]] = seen[slot[q]] + 1
              /\ \A k \in 0..(CtxCap - 1) :
                   /\ k # DecodePosition(q) => kv[slot[q]][k] = rows[slot[q]][k]
                   /\ k = DecodePosition(q) /\ ok => kv[slot[q]][k] = q
         /\ ~InBatch(r, q) =>
              /\ Consumed(r)[slot[q]] = seen[slot[q]]
              /\ kv[slot[q]] = rows[slot[q]]
<1> DEFINE s == slot[q]
<1>1. \A p \in Batch(r) : p.req \in Requests /\ p = Pend(p.req) /\ InBatch(r, p.req)
  BY BatchMembers
<1>2. \A p \in Batch(r) : p.slot = s => p.req = q
  BY <1>1 DEF Pend, SlotsHaveOneOwner
<1>3. rows[s] \in [0..(CtxCap - 1) -> Nobody] /\ DOMAIN rows[s] = 0..(CtxCap - 1)
  BY DEF TypeInv, TypeOK
<1>4. CASE InBatch(r, q)
  <2>1. Pend(q) \in Batch(r) /\ Pend(q).slot = s /\ Pend(q).position = DecodePosition(q)
    BY <1>4, BatchMembers DEF Pend
  <2>2. Consumed(r)[s] = seen[s] + 1
    BY <2>1 DEF Consumed, BatchSlots
  <2>3. ASSUME NEW k \in 0..(CtxCap - 1)
        PROVE  /\ k # DecodePosition(q) => kv[s][k] = rows[s][k]
               /\ k = DecodePosition(q) /\ ok => kv[s][k] = q
    <3>1. CASE k = DecodePosition(q)
      <4>1. \E p \in Batch(r) : p.slot = s /\ p.position = k
        BY <2>1, <3>1
      <4>2. RowOwner(r, s, k) = q
        BY <4>1, <1>2 DEF RowOwner
      <4> QED BY <3>1, <4>1, <4>2, <1>3 DEF Decoded
    <3>2. CASE k # DecodePosition(q)
      <4>1. ~ \E p \in Batch(r) : p.slot = s /\ p.position = k
        BY <3>2, <1>1, <1>2 DEF Pend
      <4> QED BY <3>2, <4>1, <1>3 DEF Decoded
    <3> QED BY <3>1, <3>2
  <2> QED BY <1>4, <2>2, <2>3
<1>5. CASE ~InBatch(r, q)
  <2>1. \A p \in Batch(r) : p.slot # s
    BY <1>1, <1>2, <1>5
  <2>2. Consumed(r)[s] = seen[s]
    BY <2>1 DEF Consumed, BatchSlots
  <2>3. kv[s] = [k \in DOMAIN rows[s] |-> rows[s][k]]
    BY <2>1 DEF Decoded
  <2> QED BY <1>3, <1>5, <2>2, <2>3
<1> QED BY <1>4, <1>5

(* A batched forward that succeeds runs one step for each request of it. *)
LEMMA DeviceBatched ==
  ASSUME TypeInv, SlotsHaveOneOwner, PlaceInv, QueueInv, NEW r \in Requests, Unanswered(r),
         BatchFits(r), NEW q \in Requests, DeviceFor(q), InBatch(r, q),
         SameRequest(q), reply'[q] = "ok",
         seen'[slot[q]] = seen[slot[q]] + 1,
         \A k \in 0..(CtxCap - 1) :
           /\ k # DecodePosition(q) => rows'[slot[q]][k] = rows[slot[q]][k]
           /\ k = DecodePosition(q) => rows'[slot[q]][k] = q
  PROVE  DeviceFor(q)'
<1>1. Awaiting(q) /\ reply[q] = "empty" /\ Pend(q) \in Batch(r)
  BY BatchMembers
<1>2. /\ slot[q] \in Slots /\ produced[q] \in Nat /\ produced[q] >= 1 /\ ~Prefilling(q)
      /\ prefill_start[q] = PromptLen[q] /\ PromptLen[q] \in Nat /\ CtxCap \in Nat
  <2>1. PlaceFor(q) /\ slot[q] \in Slots /\ produced[q] \in Nat
    <3>1. pc[q] \notin {"idle", "done"}
      BY <1>1 DEF Awaiting, Locking
    <3> QED BY <3>1 DEF TypeInv, TypeOK, SlotHeld, PlaceInv
  <2>2. produced[q] >= 1 /\ ~Prefilling(q)
    BY <1>1, <2>1 DEF PlaceFor
  <2>3. prefill_start[q] = PromptLen[q]
    BY <2>2 DEF TypeInv, TypeOK, PrefillBound, Prefilling
  <2> QED BY <2>1, <2>2, <2>3
<1>3. Serving(q)
  BY <1>1 DEF Awaiting, Locking, Serving
<1>4. /\ seen[slot[q]] = PromptLen[q] + (produced[q] - 1)
      /\ \A i \in 0..(PromptLen[q] - 1) : i < CtxCap /\ rows[slot[q]][i] = q
      /\ \A i \in (PromptLen[q] + 1)..(PromptLen[q] + produced[q] - 1) :
           i < CtxCap /\ rows[slot[q]][i] = q
  BY <1>1, <1>2, <1>3 DEF DeviceFor, SeenFor, RowsFor, OwnRow, Prefilled, Answered
<1>5. PromptLen[q] + produced[q] < CtxCap
  BY <1>1 DEF BatchFits, Pend, DecodePosition
<1>6. \A k \in 0..(CtxCap - 1) :
        rows'[slot[q]][k] = IF k = PromptLen[q] + produced[q] THEN q ELSE rows[slot[q]][k]
  BY DEF DecodePosition
<1>7. \A i \in 0..(PromptLen[q] - 1) : i < CtxCap /\ rows'[slot[q]][i] = q
  BY <1>2, <1>4, <1>6
<1>8. ASSUME NEW i \in (PromptLen[q] + 1)..(PromptLen[q] + produced[q])
      PROVE  i < CtxCap /\ rows'[slot[q]][i] = q
  <2>1. i \in 0..(CtxCap - 1)
    BY <1>2, <1>5
  <2>2. CASE i = PromptLen[q] + produced[q]
    BY <1>6, <2>1, <2>2
  <2>3. CASE i # PromptLen[q] + produced[q]
    BY <1>2, <1>4, <1>6, <2>1, <2>3
  <2> QED BY <2>1, <2>2, <2>3
<1>9. ~Prefilling(q)' /\ Prefilled(q)' = PromptLen[q] /\ produced'[q] = produced[q]
       /\ slot'[q] = slot[q] /\ Answered(q)' = 1
  BY <1>2 DEF SameRequest, Prefilling, Prefilled, Answered
<1> QED BY <1>2, <1>4, <1>7, <1>8, <1>9 DEF DeviceFor, SeenFor, RowsFor, OwnRow

(* One that fails leaves unknown contents in the rows right after what the   *)
(* requests of the batch have, and they are told.                            *)
LEMMA DeviceBatchFailed ==
  ASSUME TypeInv, SlotsHaveOneOwner, PlaceInv, QueueInv, NEW r \in Requests, Unanswered(r),
         NEW q \in Requests, DeviceFor(q), InBatch(r, q),
         SameRequest(q), reply'[q] \in {"err", "closed"},
         \A k \in 0..(CtxCap - 1) :
           k # DecodePosition(q) => rows'[slot[q]][k] = rows[slot[q]][k]
  PROVE  DeviceFor(q)'
<1>1. Awaiting(q) /\ reply[q] = "empty"
  BY BatchMembers
<1>2. /\ slot[q] \in Slots /\ produced[q] \in Nat /\ produced[q] >= 1 /\ ~Prefilling(q)
      /\ prefill_start[q] = PromptLen[q] /\ PromptLen[q] \in Nat /\ CtxCap \in Nat
  <2>1. PlaceFor(q) /\ slot[q] \in Slots /\ produced[q] \in Nat
    <3>1. pc[q] \notin {"idle", "done"}
      BY <1>1 DEF Awaiting, Locking
    <3> QED BY <3>1 DEF TypeInv, TypeOK, SlotHeld, PlaceInv
  <2>2. produced[q] >= 1 /\ ~Prefilling(q)
    BY <1>1, <2>1 DEF PlaceFor
  <2>3. prefill_start[q] = PromptLen[q]
    BY <2>2 DEF TypeInv, TypeOK, PrefillBound, Prefilling
  <2> QED BY <2>1, <2>2, <2>3
<1>3. Serving(q)
  BY <1>1 DEF Awaiting, Locking, Serving
<1>4. /\ \A i \in 0..(PromptLen[q] - 1) : i < CtxCap /\ rows[slot[q]][i] = q
      /\ \A i \in (PromptLen[q] + 1)..(PromptLen[q] + produced[q] - 1) :
           i < CtxCap /\ rows[slot[q]][i] = q
  BY <1>1, <1>2, <1>3 DEF DeviceFor, RowsFor, OwnRow, Prefilled, Answered
<1>5. ASSUME NEW k \in 0..(CtxCap - 1), k # PromptLen[q] + produced[q]
      PROVE  rows'[slot[q]][k] = rows[slot[q]][k]
  BY <1>5 DEF DecodePosition
<1>6. ~Prefilling(q)' /\ Prefilled(q)' = PromptLen[q] /\ produced'[q] = produced[q]
      /\ slot'[q] = slot[q] /\ Answered(q)' = 0
  BY <1>2 DEF SameRequest, Prefilling, Prefilled, Answered
<1> QED BY <1>2, <1>4, <1>5, <1>6 DEF DeviceFor, SeenFor, RowsFor, OwnRow

(* What a batched forward leaves a request with, in the batch or not. *)
LEMMA DeviceAnswered ==
  ASSUME TypeInv, SlotsHaveOneOwner, PlaceInv, QueueInv, NEW r \in Requests,
         pc[r] = "dispatch", NEW what \in {"ok", "err", "closed"}, Answer(r, what),
         NEW ok \in BOOLEAN, ok <=> what = "ok", ok => BatchFits(r),
         NEW kv, kv = Decoded(r, ok), NEW q \in Requests, DeviceFor(q), SameRequest(q),
         q # r => pc'[q] = pc[q],
         q = r => pc'[r] \in {"unlock", "leader"} /\ ~Prefilling(r),
         slot[q] \in Slots => rows'[slot[q]] = kv[slot[q]],
         slot[q] \in Slots =>
           seen'[slot[q]] = IF ok THEN Consumed(r)[slot[q]] ELSE seen[slot[q]]
  PROVE  DeviceFor(q)'
<1>1. Unanswered(r)
  BY DEF Unanswered
<1>2. CASE InBatch(r, q)
  <2>1. slot[q] \in Slots
    <3>1. pc[q] \notin {"idle", "done"}
      BY <1>1, <1>2, BatchMembers DEF Awaiting, Locking
    <3> QED BY <3>1 DEF TypeInv, TypeOK, SlotHeld
  <2>2. reply'[q] = what
    BY <1>2 DEF Answer
  <2>3. /\ Consumed(r)[slot[q]] = seen[slot[q]] + 1
        /\ \A k \in 0..(CtxCap - 1) :
             /\ k # DecodePosition(q) => kv[slot[q]][k] = rows[slot[q]][k]
             /\ k = DecodePosition(q) /\ ok => kv[slot[q]][k] = q
    BY <1>1, <1>2, <2>1, BatchRows
  <2>4. CASE ok
    <3>1. BatchFits(r) /\ reply'[q] = "ok" /\ seen'[slot[q]] = seen[slot[q]] + 1
      BY <2>1, <2>2, <2>3, <2>4
    <3>2. \A k \in 0..(CtxCap - 1) :
            /\ k # DecodePosition(q) => rows'[slot[q]][k] = rows[slot[q]][k]
            /\ k = DecodePosition(q) => rows'[slot[q]][k] = q
      BY <2>1, <2>3, <2>4
    <3> QED BY <1>1, <1>2, <3>1, <3>2, DeviceBatched
  <2>5. CASE ~ok
    BY <1>1, <1>2, <2>1, <2>2, <2>3, <2>5, DeviceBatchFailed
  <2> QED BY <2>4, <2>5
<1>3. CASE ~InBatch(r, q)
  <2>1. reply'[q] = reply[q]
    BY <1>3 DEF Answer
  <2>2. slot[q] \in Slots => rows'[slot[q]] = rows[slot[q]] /\ seen'[slot[q]] = seen[slot[q]]
    BY <1>1, <1>3, BatchRows
  <2>3. Serving(q) => slot[q] \in Slots
    BY ServingSlot
  <2>4. CASE q # r
    BY <2>1, <2>2, <2>3, <2>4, DeviceKept
  <2>5. CASE q = r
    <3>1. Serving(r) /\ slot[r] \in Slots
      BY <2>3, <2>5 DEF Serving
    <3> QED BY <2>1, <2>2, <2>5, <3>1
        DEF DeviceFor, SeenFor, RowsFor, OwnRow, Serving, Prefilled, Answered, Prefilling,
            SameRequest
  <2> QED BY <2>4, <2>5
<1> QED BY <1>2, <1>3

(* The chunk that a mixed forward runs beside its batch. *)
LEMMA DeviceMixedChunk ==
  ASSUME TypeInv, SlotsHaveOneOwner, PlaceInv, QueueInv, NEW r \in Requests, DeviceFor(r),
         DispatchMixed(r)
  PROVE  DeviceFor(r)'
<1>1. /\ pc[r] = "dispatch" /\ Prefilling(r) /\ Unanswered(r) /\ slot[r] \in Slots
      /\ produced[r] = 0 /\ reply[r] = "empty" /\ ~InBatch(r, r)
  <2>1. pc[r] = "dispatch" /\ Prefilling(r) /\ Unanswered(r)
    BY DEF DispatchMixed, Unanswered
  <2>2. slot[r] \in Slots
    BY <2>1 DEF TypeInv, TypeOK, SlotHeld
  <2>3. produced[r] = 0
    BY <2>1 DEF PlaceInv, PlaceFor, Prompting, Locking
  <2>4. ~Awaiting(r)
    BY <2>1 DEF Awaiting, Locking
  <2> QED BY <2>1, <2>2, <2>3, <2>4, BatchMembers DEF QueueInv, ReplyInv
<1>2. /\ UNCHANGED <<slot, produced, prefill_start>> /\ pc'[r] = "unlock" /\ reply'[r] = "empty"
  BY <1>1 DEF DispatchMixed, Goto, Answer, claims, prompt, TypeInv, TypeOK
<1>3. /\ ChunkEnd(r) \in Nat /\ prefill_start[r] <= ChunkEnd(r) /\ ChunkEnd(r) <= CtxCap
      /\ prefill_start[r] \in Nat /\ CtxCap \in Nat /\ seen[slot[r]] \in Nat
  BY <1>1, ChunkEndBounds DEF DispatchMixed, TypeInv, TypeOK
<1>4. /\ seen[slot[r]] = prefill_start[r]
      /\ \A i \in 0..(prefill_start[r] - 1) : i < CtxCap /\ rows[slot[r]][i] = r
  BY <1>1, <1>3 DEF DeviceFor, SeenFor, RowsFor, OwnRow, Serving, Prefilled, Answered
<1>5. seen'[slot[r]] = ChunkEnd(r)
  <2>1. Consumed(r)[slot[r]] = seen[slot[r]]
    <3>1. \A p \in Batch(r) : p.slot # slot[r]
      BY <1>1, BatchMembers DEF Pend, SlotsHaveOneOwner
    <3> QED BY <1>1, <3>1 DEF Consumed, BatchSlots
  <2>2. seen'[slot[r]] = Consumed(r)[slot[r]] + (ChunkEnd(r) - prefill_start[r])
    BY <1>1 DEF DispatchMixed, Consumed
  <2> QED BY <1>3, <1>4, <2>1, <2>2
<1>6. ASSUME NEW i \in 0..(ChunkEnd(r) - 1)
      PROVE  i < CtxCap /\ rows'[slot[r]][i] = r
  <2>1. i \in 0..(CtxCap - 1)
    BY <1>3
  <2>2. rows'[slot[r]] = Written(rows, slot[r], prefill_start[r], ChunkEnd(r), r)[slot[r]]
    <3>1. slot[r] \in DOMAIN Decoded(r, TRUE)
      BY <1>1 DEF Decoded
    <3> QED BY <3>1 DEF DispatchMixed
  <2>3. Written(rows, slot[r], prefill_start[r], ChunkEnd(r), r)[slot[r]][i] =
          IF i \in prefill_start[r]..(ChunkEnd(r) - 1) THEN r ELSE rows[slot[r]][i]
    BY <1>1, <1>3, <2>1, WrittenRows
  <2> QED BY <1>3, <1>4, <2>1, <2>2, <2>3
<1>7. Prefilled(r)' = ChunkEnd(r)
  BY <1>1, <1>2 DEF Prefilled, Prefilling, ChunkEnd
<1> QED BY <1>1, <1>2, <1>3, <1>5, <1>6, <1>7
        DEF DeviceFor, SeenFor, RowsFor, OwnRow, Answered

LEMMA DeviceDispatch ==
  ASSUME TypeInv, SlotsHaveOneOwner, DispatchInv, PlaceInv, QueueInv, DeviceInv,
         NEW r \in Requests, Step(r), pc[r] = "dispatch", NEW q \in Requests
  PROVE  DeviceFor(q)'
<1>1. DispatchBatch(r) \/ DispatchBatchFails(r) \/ DispatchMixed(r) \/ DispatchMixedFails(r)
  BY DEF Step, Claim, ClearClaim, ReleasePages, Prefill, StartCold, StartWarm,
     StartAfterFailedRestore, StartFails, CanStart, LockChunk, TakeDispatcher,
     DrainMixed, RePush, DropDispatcher, PureChunk, PureChunkFails, Dispatch, LockNext,
     UnlockBatch, UnlockMixed, Decode, FirstToken, DecodeDirect, CheckOthers, DecodeFast,
     Push, TryLead, DrainOrStepDown, Receive
<1>2. OthersSame(r) /\ DeviceFor(q)
  BY OthersAreSame DEF DeviceInv
<1>3. q # r => SameRequest(q) /\ pc'[q] = pc[q]
  BY <1>2 DEF OthersSame
<1>4. pc \in [Requests -> Places] /\ r # None
  BY DEF TypeInv, TypeOK
<1>5. q # r => slot[q] \notin Slots \/ slot[q] # slot[r]
  BY DEF SlotsHaveOneOwner, TypeInv, TypeOK
<1>6. CASE DispatchBatch(r)
  <2> DEFINE kv == Decoded(r, TRUE)
  <2>1. /\ SameRequest(r) /\ ~Prefilling(r) /\ BatchFits(r) /\ pc'[r] = "unlock"
        /\ Answer(r, "ok") /\ seen' = Consumed(r)
    BY <1>4, <1>6 DEF DispatchBatch, Goto, claims, prompt, SameRequest
  <2>2. rows' = kv
    BY <1>6 DEF DispatchBatch
  <2>3. kv = Decoded(r, TRUE)
    OBVIOUS
  <2> HIDE DEF kv
  <2> QED BY <1>2, <1>3, <2>1, <2>2, <2>3, DeviceAnswered
<1>7. CASE DispatchBatchFails(r)
  <2> DEFINE kv == Decoded(r, FALSE)
  <2>1. /\ SameRequest(r) /\ ~Prefilling(r) /\ pc'[r] = "leader"
        /\ Answer(r, "err") /\ seen' = seen
    BY <1>4, <1>7 DEF DispatchBatchFails, Goto, claims, prompt, SameRequest
  <2>2. rows' = kv
    BY <1>7 DEF DispatchBatchFails
  <2>3. kv = Decoded(r, FALSE)
    OBVIOUS
  <2> HIDE DEF kv
  <2> QED BY <1>2, <1>3, <2>1, <2>2, <2>3, DeviceAnswered
<1>8. CASE DispatchMixed(r)
  <2>1. CASE q = r
    BY <1>2, <1>8, <2>1, DeviceMixedChunk
  <2>2. CASE q # r
    <3> DEFINE kv == Decoded(r, TRUE)
    <3>1. kv = Decoded(r, TRUE)
      OBVIOUS
    <3>2. BatchFits(r) /\ Answer(r, "ok")
      BY <1>8 DEF DispatchMixed
    <3>3. slot[q] \in Slots => rows'[slot[q]] = kv[slot[q]]
      BY <1>5, <1>8, <2>2 DEF DispatchMixed, Decoded
    <3>4. slot[q] \in Slots => seen'[slot[q]] = Consumed(r)[slot[q]]
      BY <1>5, <1>8, <2>2 DEF DispatchMixed, Consumed
    <3> HIDE DEF kv
    <3> QED BY <1>2, <1>3, <2>2, <3>1, <3>2, <3>3, <3>4, DeviceAnswered
  <2> QED BY <2>1, <2>2
<1>9. CASE DispatchMixedFails(r)
  <2>1. CASE q = r
    BY <1>4, <1>9, <2>1 DEF DispatchMixedFails, Goto, DeviceFor, SeenFor, RowsFor, Serving
  <2>2. CASE q # r
    <3> DEFINE kv == Decoded(r, FALSE)
    <3>1. kv = Decoded(r, FALSE)
      OBVIOUS
    <3>2. Answer(r, "closed") /\ seen' = seen
      BY <1>9 DEF DispatchMixedFails
    <3>3. rows' = kv
      BY <1>9 DEF DispatchMixedFails
    <3> HIDE DEF kv
    <3> QED BY <1>2, <1>3, <2>2, <3>1, <3>2, <3>3, DeviceAnswered
  <2> QED BY <2>1, <2>2
<1> QED BY <1>1, <1>6, <1>7, <1>8, <1>9

(* prefill_start moves past the chunk of a mixed forward. *)
LEMMA DeviceUnlockMixed ==
  ASSUME TypeInv, PlaceInv, QueueInv, NEW r \in Requests, DeviceFor(r), UnlockMixed(r)
  PROVE  DeviceFor(r)'
<1>1. /\ pc[r] = "unlock" /\ Prefilling(r) /\ pc'[r] \in {"prefill", "first"}
      /\ UNCHANGED <<slot, produced, reply, rows, seen>> /\ prefill_start'[r] = ChunkEnd(r)
  BY DEF UnlockMixed, Goto, claims, device, TypeInv, TypeOK
<1>2. Prefilled(r) = ChunkEnd(r) /\ Prefilled(r)' = ChunkEnd(r)
  BY <1>1 DEF Prefilled
<1> QED BY <1>1, <1>2 DEF DeviceFor, SeenFor, RowsFor, OwnRow, Serving, Answered

(* The first token comes from the prompt, the next ones from the answers. *)
LEMMA DeviceFirstToken ==
  ASSUME TypeInv, PlaceInv, QueueInv, NEW r \in Requests, DeviceFor(r), FirstToken(r)
  PROVE  DeviceFor(r)'
<1>1. /\ pc[r] = "first" /\ UNCHANGED <<slot, prefill_start, reply, rows, seen>>
      /\ produced' = [produced EXCEPT ![r] = @ + 1] /\ pc'[r] \in {"decode", "exit"}
  BY DEF FirstToken, NextToken, Goto, claims, queue, prompt, device, TypeInv, TypeOK
<1>2. produced[r] = 0 /\ reply[r] = "empty" /\ PromptLen[r] \in Nat
  BY <1>1 DEF PlaceInv, PlaceFor, Prompting, QueueInv, ReplyInv, Awaiting, Locking
<1>3. produced'[r] = 1
  BY <1>1, <1>2 DEF TypeInv, TypeOK
<1>4. prefill_start[r] \in Nat
  BY DEF TypeInv, TypeOK
<1> QED BY <1>1, <1>2, <1>3, <1>4
        DEF DeviceFor, SeenFor, RowsFor, OwnRow, Serving, Prefilled, Answered, Prefilling

LEMMA DeviceReceive ==
  ASSUME TypeInv, PlaceInv, NEW r \in Requests, DeviceFor(r), Receive(r)
  PROVE  DeviceFor(r)'
<1>1. /\ pc[r] = "wait" /\ UNCHANGED <<slot, prefill_start, rows, seen>> /\ reply'[r] = "empty"
  BY DEF Receive, claims, prompt, device, TypeInv, TypeOK
<1>2. CASE reply[r] = "ok"
  <2>1. /\ produced[r] \in Nat /\ produced[r] >= 1 /\ produced'[r] = produced[r] + 1
        /\ pc'[r] \in {"decode", "exit"} /\ prefill_start[r] \in Nat /\ PromptLen[r] \in Nat
    BY <1>1, <1>2 DEF Receive, NextToken, Goto, TypeInv, TypeOK, PlaceInv, PlaceFor, Awaiting
  <2> QED BY <1>1, <1>2, <2>1
      DEF DeviceFor, SeenFor, RowsFor, OwnRow, Serving, Prefilled, Answered, Prefilling
<1>3. CASE reply[r] # "ok"
  <2>1. pc'[r] = "exit"
    BY <1>3 DEF Receive, Goto, TypeInv, TypeOK
  <2> QED BY <2>1 DEF DeviceFor, SeenFor, RowsFor, Serving
<1> QED BY <1>2, <1>3

(* What a step of r, other than a batched forward, leaves on the device for  *)
(* r.                                                                        *)
LEMMA DeviceMoves ==
  ASSUME TypeInv, DispatchInv, PlaceInv, QueueInv, DeviceInv, NEW r \in Requests, Step(r),
         pc[r] # "dispatch"
  PROVE  DeviceFor(r)'
<1>types. /\ pc \in [Requests -> Places] /\ produced \in [Requests -> Nat]
          /\ reply \in [Requests -> {"empty", "ok", "err", "closed"}]
  BY DEF TypeInv, TypeOK
<1>device. DeviceFor(r) /\ SnapsInv
  BY DEF DeviceInv
<1> USE DEF Goto, claims, queue, locks, prompt
<1>1. CASE Claim(r) \/ PureChunkFails(r) \/ ReleasePages(r) \/ ClearClaim(r)
  <2>1. ~Serving(r)'
    BY <1>1, <1>types DEF Claim, PureChunkFails, ReleasePages, ClearClaim, Serving
  <2> QED BY <2>1 DEF DeviceFor, SeenFor, RowsFor
<1>2. CASE StartCold(r) \/ StartWarm(r) \/ StartAfterFailedRestore(r) \/ StartFails(r)
  BY <1>2, <1>device, DeviceStart
<1>3. CASE LockChunk(r) \/ TakeDispatcher(r) \/ DrainMixed(r) \/ RePush(r) \/ DropDispatcher(r)
  <2>1. /\ SameRequest(r) /\ UNCHANGED <<device, reply>>
        /\ pc[r] \in {"prefill", "chunk", "mixed", "repush", "drop"}
        /\ pc'[r] # "unlock"
    BY <1>3, <1>types
    DEF LockChunk, TakeDispatcher, DrainMixed, RePush, DropDispatcher, SameRequest
  <2> QED BY <2>1, <1>device, DeviceIdle DEF Serving
<1>4. CASE PureChunk(r)
  BY <1>4, <1>device, DevicePureChunk
<1>5. CASE LockNext(r)
  <2>1. /\ SameRequest(r) /\ UNCHANGED <<device, reply>> /\ pc[r] = "lock"
        /\ pc'[r] \in {"lock", "dispatch"}
    BY <1>5, <1>types DEF LockNext, SameRequest
  <2> QED BY <2>1, <1>device, DeviceIdle DEF Serving
<1>6. CASE UnlockBatch(r)
  <2>1. /\ SameRequest(r) /\ UNCHANGED <<device, reply>> /\ pc[r] = "unlock"
        /\ ~Prefilling(r) /\ pc'[r] = "leader"
    BY <1>6, <1>types DEF UnlockBatch, SameRequest
  <2> QED BY <2>1, <1>device, DeviceIdle DEF Serving
<1>7. CASE UnlockMixed(r)
  BY <1>7, <1>device, DeviceUnlockMixed
<1>8. CASE FirstToken(r)
  BY <1>8, <1>device, DeviceFirstToken
<1>9. CASE DecodeDirect(r) \/ DecodeFast(r)
  <2>1. pc[r] \in {"decode", "fast"} /\ UNCHANGED <<slot, prefill_start, reply>>
    BY <1>9 DEF DecodeDirect, DecodeFast
  <2>2. CASE DecodeOne(r) /\ NextToken(r)
    BY <2>1, <2>2, <1>device, DeviceDecodeOne
  <2>3. CASE ~(DecodeOne(r) /\ NextToken(r))
    <3>1. pc'[r] = "exit"
      BY <1>9, <2>3, <1>types DEF DecodeDirect, DecodeFast
    <3> QED BY <3>1 DEF DeviceFor, SeenFor, RowsFor, Serving
  <2> QED BY <2>2, <2>3
<1>10. CASE CheckOthers(r) \/ TryLead(r) \/ DrainOrStepDown(r)
  <2>1. /\ SameRequest(r) /\ UNCHANGED <<device, reply>> /\ pc[r] \in {"decode", "lead", "leader"}
        /\ pc'[r] # "unlock"
    BY <1>10, <1>types DEF CheckOthers, TryLead, DrainOrStepDown, SameRequest
  <2> QED BY <2>1, <1>device, DeviceIdle DEF Serving
<1>11. CASE Push(r)
  <2>1. /\ SameRequest(r) /\ UNCHANGED device /\ pc[r] = "push" /\ pc'[r] = "lead"
        /\ reply'[r] = "empty"
    BY <1>11, <1>types DEF Push, SameRequest
  <2>2. reply[r] = "empty"
    BY <2>1 DEF QueueInv, ReplyInv, Awaiting, Locking
  <2> QED BY <2>1, <2>2, <1>device, DeviceIdle DEF Serving
<1>12. CASE Receive(r)
  BY <1>12, <1>device, DeviceReceive
<1>13. CASE DispatchBatch(r) \/ DispatchBatchFails(r) \/ DispatchMixed(r) \/ DispatchMixedFails(r)
  BY <1>13 DEF DispatchBatch, DispatchBatchFails, DispatchMixed, DispatchMixedFails
<1> QED BY <1>1, <1>2, <1>3, <1>4, <1>5, <1>6, <1>7, <1>8, <1>9, <1>10, <1>11, <1>12, <1>13
  DEF Step, Prefill, Dispatch, Decode

(* What is captured is the state at exactly the boundary it is filed under. *)
LEMMA CaptureExact ==
  ASSUME TypeInv, PlaceInv, QueueInv, DeviceInv, NEW r \in Requests,
         pc[r] \in {"prefill", "first"}, NEW full, Capture(r, prefill_start[r], full)
  PROVE  SnapsInv'
<1>1. produced[r] = 0 /\ reply[r] = "empty" /\ Serving(r)
  BY DEF PlaceInv, PlaceFor, Prompting, QueueInv, ReplyInv, Awaiting, Locking, Serving
<1>2. prefill_start[r] \in Nat /\ CtxCap \in Nat /\ PromptLen[r] \in Nat
  BY DEF TypeInv, TypeOK
<1>3. /\ seen[slot[r]] = prefill_start[r]
      /\ \A i \in 0..(prefill_start[r] - 1) : i < CtxCap /\ rows[slot[r]][i] = r
  BY <1>1, <1>2 DEF DeviceInv, DeviceFor, SeenFor, RowsFor, OwnRow, Prefilled, Answered
<1>4. prefill_start[r] <= CtxCap
  <2>1. CASE prefill_start[r] > 0
    <3>1. prefill_start[r] - 1 \in 0..(prefill_start[r] - 1)
      BY <1>2, <2>1
    <3> QED BY <1>2, <1>3, <3>1
  <2>2. CASE prefill_start[r] = 0
    BY <1>2, <2>2
  <2> QED BY <1>2, <2>1, <2>2
<1>5. /\ SnapshotOf(r, slot[r], prefill_start[r], full).exact
      /\ SnapshotOf(r, slot[r], prefill_start[r], full).n = prefill_start[r]
  BY <1>3 DEF SnapshotOf
<1> QED BY <1>4, <1>5 DEF Capture, DeviceInv, SnapsInv

LEMMA SnapsStep ==
  ASSUME TypeInv, PlaceInv, QueueInv, DeviceInv, NEW r \in Requests, Step(r)
  PROVE  SnapsInv'
<1>1. snaps' = snaps \/ LockChunk(r) \/ FirstToken(r)
  BY DEF Step, Claim, ClearClaim, ReleasePages, Prefill, StartCold, StartWarm,
     StartAfterFailedRestore, StartFails, StartPrefill, TakeDispatcher, DrainMixed, RePush,
     DropDispatcher, PureChunk, PureChunkFails, Dispatch, LockNext, DispatchBatch,
     DispatchBatchFails, DispatchMixed, DispatchMixedFails, UnlockBatch, UnlockMixed, Decode,
     DecodeDirect, CheckOthers, DecodeFast, Push, TryLead, DrainOrStepDown, Receive
<1>2. CASE snaps' = snaps
  BY <1>2 DEF DeviceInv, SnapsInv
<1>3. CASE LockChunk(r)
  <2>1. pc[r] = "prefill" /\ (snaps' = snaps \/ Capture(r, prefill_start[r], FALSE))
    BY <1>3 DEF LockChunk, CaptureBoundary
  <2> QED BY <1>2, <2>1, CaptureExact
<1>4. CASE FirstToken(r)
  <2>1. pc[r] = "first" /\ (snaps' = snaps \/ Capture(r, PromptLen[r], TRUE))
    BY <1>4 DEF FirstToken
  <2>2. prefill_start[r] = PromptLen[r]
    BY <2>1 DEF PlaceInv, PlaceFor, Prefilling, TypeInv, TypeOK, PrefillBound
  <2> QED BY <1>2, <2>1, <2>2, CaptureExact
<1> QED BY <1>1, <1>2, <1>3, <1>4

LEMMA DeviceStep ==
  ASSUME TypeInv, SlotsHaveOneOwner, DispatchInv, PlaceInv, QueueInv, DeviceInv,
         NEW r \in Requests, Step(r)
  PROVE  DeviceInv'
<1>1. ASSUME NEW q \in Requests
      PROVE  DeviceFor(q)'
  <2>1. CASE pc[r] = "dispatch"
    BY <2>1, DeviceDispatch
  <2>2. CASE pc[r] # "dispatch" /\ q = r
    BY <2>2, DeviceMoves
  <2>3. CASE pc[r] # "dispatch" /\ q # r
    BY <2>3, OthersDeviceStep
  <2> QED BY <2>1, <2>2, <2>3
<1> QED BY <1>1, SnapsStep DEF DeviceInv

LEMMA DeviceStutter == DeviceInv /\ UNCHANGED vars => DeviceInv'
BY DEF vars, claims, queue, prompt, device, DeviceInv, DeviceFor, SeenFor, RowsFor, OwnRow,
       SnapsInv, Serving, Prefilled, Answered, Prefilling, ChunkEnd

(* What the device holds for every request, in every reachable state. *)
THEOREM DeviceInvariant == Spec => []DeviceInv
<1>1. Init => DeviceInv
  BY DEF Init, DeviceInv, DeviceFor, SeenFor, RowsFor, SnapsInv, Serving
<1>2. TypeInv /\ SlotsHaveOneOwner /\ DispatchInv /\ PlaceInv /\ QueueInv /\ DeviceInv
      /\ [Next]_vars => DeviceInv'
  BY DeviceStep, DeviceStutter DEF Next, AllServed
<1> QED BY TypeInvariant, OneOwner, DispatchInvariant, QueueInvariant, <1>1, <1>2, PTL DEF Spec

(* No decode step is run twice and none is skipped, alone, in a batch or     *)
(* beside the chunk of another request.                                      *)
THEOREM StepsAlwaysRunOnce == Spec => []StepsRunOnce
<1>1. DeviceInv => StepsRunOnce
  BY DEF DeviceInv, DeviceFor, SeenFor, Prefilled, Answered, StepsRunOnce
<1> QED BY DeviceInvariant, <1>1, PTL

(* No request attends to the rows of another, whichever threads ran the      *)
(* forwards that wrote them.                                                 *)
THEOREM ContextIsAlwaysOwn == Spec => []ContextIsOwn
<1>1. TypeInv /\ DeviceInv => ContextIsOwn
  <2> SUFFICES ASSUME TypeInv, DeviceInv, NEW r \in Requests, Serving(r),
                      NEW i \in 0..(prefill_start[r] - 1)
                                \cup (PromptLen[r] + 1)..(PromptLen[r] + produced[r] - 1)
               PROVE  rows[slot[r]][i] = r
    BY DEF ContextIsOwn
  <2>1. /\ prefill_start[r] \in Nat /\ Prefilled(r) \in Nat /\ prefill_start[r] <= Prefilled(r)
        /\ produced[r] \in Nat /\ Answered(r) \in Nat /\ PromptLen[r] \in Nat
    <3>1. ChunkEnd(r) \in Nat /\ prefill_start[r] <= ChunkEnd(r)
      BY ChunkEndBounds
    <3>2. prefill_start[r] \in Nat /\ produced[r] \in Nat
      BY DEF TypeInv, TypeOK
    <3> QED BY <3>1, <3>2 DEF Prefilled, Answered
  <2>2. RowsFor(r)
    BY DEF DeviceInv, DeviceFor
  <2>3. CASE i \in 0..(prefill_start[r] - 1)
    BY <2>1, <2>2, <2>3 DEF RowsFor, OwnRow
  <2>4. CASE i \in (PromptLen[r] + 1)..(PromptLen[r] + produced[r] - 1)
    BY <2>1, <2>2, <2>4 DEF RowsFor, OwnRow
  <2> QED BY <2>3, <2>4
<1> QED BY TypeInvariant, DeviceInvariant, <1>1, PTL

(* An entry of the prefix cache is the state after exactly the tokens it is  *)
(* filed under.                                                              *)
THEOREM SnapshotsAreAlwaysExact == Spec => []SnapshotsAreExact
<1>1. DeviceInv => SnapshotsAreExact
  BY DEF DeviceInv, SnapsInv, SnapshotsAreExact
<1> QED BY DeviceInvariant, <1>1, PTL

-----------------------------------------------------------------------------
(* The mapping of the refinement, request by request. *)
Context(r) == IF Stage(r) = "serving" THEN seen[slot[r]] ELSE 0

SameCompletion(q) ==
  Stage(q)' = Stage(q) /\ Context(q)' = Context(q) /\ produced'[q] = produced[q]

OtherCompletionsSame(r) == \A q \in Requests \ {r} : SameCompletion(q)

ServiceInv ==
  TypeInv /\ SlotsHaveOneOwner /\ DispatchInv /\ PlaceInv /\ QueueInv /\ DeviceInv

(* A request whose place, slot, tokens and recurrent state stay as they are  *)
(* is the same completion.                                                   *)
LEMMA CompletionKept ==
  ASSUME NEW q \in Requests, SameRequest(q), pc'[q] = pc[q],
         Stage(q) = "serving" => seen'[slot[q]] = seen[slot[q]]
  PROVE  SameCompletion(q)
BY DEF SameCompletion, SameRequest, Stage, Context

LEMMA StageSlot ==
  ASSUME TypeInv, SlotsHaveOneOwner, NEW q \in Requests, Stage(q) = "serving"
  PROVE  slot[q] \in Slots /\ \A r \in Requests : r # q => slot[r] # slot[q]
BY DEF TypeInv, TypeOK, SlotHeld, Stage, SlotsHaveOneOwner

LEMMA OtherCompletions ==
  ASSUME TypeInv, SlotsHaveOneOwner, NEW r \in Requests, Step(r), pc[r] # "dispatch"
  PROVE  OtherCompletionsSame(r)
<1> SUFFICES ASSUME NEW q \in Requests, q # r PROVE SameCompletion(q)
  BY DEF OtherCompletionsSame
<1>1. SameRequest(q) /\ pc'[q] = pc[q]
  BY OthersAreSame DEF OthersSame
<1>2. Stage(q) = "serving" => seen'[slot[q]] = seen[slot[q]]
  BY StageSlot, OthersDevice
<1> QED BY <1>1, <1>2, CompletionKept

(* The steps of the service, as what they do to one completion. *)
LEMMA ToStutter ==
  ASSUME TypeInv, TypeInv', \A q \in Requests : SameCompletion(q)
  PROVE  UNCHANGED Service!vars
<1>1. produced' = produced
  BY DEF TypeInv, TypeOK, SameCompletion
<1>2. /\ [r \in Requests |-> Stage(r)]' = [r \in Requests |-> Stage(r)]
      /\ [r \in Requests |-> Context(r)]' = [r \in Requests |-> Context(r)]
  BY DEF SameCompletion
<1> QED BY <1>1, <1>2 DEF Service!vars, Context

LEMMA ToAdmit ==
  ASSUME TypeInv, TypeInv', NEW r \in Requests, OtherCompletionsSame(r),
         Stage(r) = "queued", Stage(r)' = "serving", Context(r)' \in 0..PromptLen[r],
         produced'[r] = produced[r]
  PROVE  Service!Admit(r)
<1> DEFINE stage == [q \in Requests |-> Stage(q)]
           context == [q \in Requests |-> Context(q)]
<1>1. produced' = produced
  BY DEF TypeInv, TypeOK, OtherCompletionsSame, SameCompletion
<1>2. stage[r] = "queued" /\ stage' = [stage EXCEPT ![r] = "serving"]
  BY DEF OtherCompletionsSame, SameCompletion
<1>3. \E n \in 0..PromptLen[r] : context' = [context EXCEPT ![r] = n]
  <2>1. context' = [context EXCEPT ![r] = Context(r)']
    BY DEF OtherCompletionsSame, SameCompletion
  <2> QED BY <2>1
<1> QED BY <1>1, <1>2, <1>3 DEF Service!Admit, Context

LEMMA ToSample ==
  ASSUME TypeInv, TypeInv', NEW r \in Requests, OtherCompletionsSame(r),
         Stage(r) = "serving", Stage(r)' = Stage(r), Context(r)' = Context(r),
         Context(r) = PromptLen[r] + produced[r], produced[r] < MaxTokens[r],
         produced'[r] = produced[r] + 1
  PROVE  Service!Sample(r)
<1>1. produced' = [produced EXCEPT ![r] = @ + 1]
  BY DEF TypeInv, TypeOK, OtherCompletionsSame, SameCompletion
<1>2. /\ [q \in Requests |-> Stage(q)]' = [q \in Requests |-> Stage(q)]
      /\ [q \in Requests |-> Context(q)]' = [q \in Requests |-> Context(q)]
  BY DEF OtherCompletionsSame, SameCompletion
<1> QED BY <1>1, <1>2 DEF Service!Sample, Context

LEMMA ToComputeAndSample ==
  ASSUME TypeInv, TypeInv', NEW r \in Requests, OtherCompletionsSame(r),
         Stage(r) = "serving", Stage(r)' = Stage(r), Context(r)' = Context(r) + 1,
         Context(r) = PromptLen[r] + produced[r] - 1, produced[r] \in 1..(MaxTokens[r] - 1),
         produced'[r] = produced[r] + 1
  PROVE  Service!ComputeAndSample(r)
<1> DEFINE context == [q \in Requests |-> Context(q)]
<1>1. produced' = [produced EXCEPT ![r] = @ + 1]
  BY DEF TypeInv, TypeOK, OtherCompletionsSame, SameCompletion
<1>2. [q \in Requests |-> Stage(q)]' = [q \in Requests |-> Stage(q)]
  BY DEF OtherCompletionsSame, SameCompletion
<1>3. context[r] = Context(r) /\ context' = [context EXCEPT ![r] = @ + 1]
  BY DEF OtherCompletionsSame, SameCompletion
<1> QED BY <1>1, <1>2, <1>3 DEF Service!ComputeAndSample, Context

LEMMA ToEnd ==
  ASSUME TypeInv, TypeInv', NEW r \in Requests, OtherCompletionsSame(r),
         Stage(r) # "ended", Stage(r)' = "ended", produced'[r] = produced[r]
  PROVE  Service!End(r)
<1> DEFINE stage == [q \in Requests |-> Stage(q)]
           context == [q \in Requests |-> Context(q)]
<1>1. produced' = produced
  BY DEF TypeInv, TypeOK, OtherCompletionsSame, SameCompletion
<1>2. stage[r] # "ended" /\ stage' = [stage EXCEPT ![r] = "ended"]
  BY DEF OtherCompletionsSame, SameCompletion
<1>3. context' = [context EXCEPT ![r] = 0]
  <2>1. Context(r)' = 0
    BY DEF Context
  <2> QED BY <2>1 DEF OtherCompletionsSame, SameCompletion
<1> QED BY <1>1, <1>2, <1>3 DEF Service!End, Context

(* A completion whose conversation is advanced, by prompt tokens or a step. *)
AdvancedCompletion(q) ==
  /\ Stage(q) = "serving" /\ Stage(q)' = Stage(q) /\ produced'[q] = produced[q]
  /\ \/ Context(q) < Context(q)' /\ Context(q)' <= PromptLen[q]
     \/ /\ produced[q] > 0 /\ Context(q) = PromptLen[q] + produced[q] - 1
        /\ Context(q)' = Context(q) + 1

LEMMA ToCompute ==
  ASSUME TypeInv, TypeInv', \A q \in Requests : SameCompletion(q) \/ AdvancedCompletion(q)
  PROVE  Service!Compute
<1> DEFINE context == [q \in Requests |-> Context(q)]
<1>1. produced' = produced
  BY DEF TypeInv, TypeOK, SameCompletion, AdvancedCompletion
<1>2. [q \in Requests |-> Stage(q)]' = [q \in Requests |-> Stage(q)]
  BY DEF SameCompletion, AdvancedCompletion
<1>3. context' = [q \in Requests |-> context'[q]]
  OBVIOUS
<1>4. ASSUME NEW q \in Requests
      PROVE  \/ context'[q] = context[q]
             \/ Stage(q) = "serving" /\
                  (\/ context[q] < context'[q] /\ context'[q] <= PromptLen[q]
                   \/ /\ produced[q] > 0 /\ context[q] = PromptLen[q] + produced[q] - 1
                      /\ context'[q] = context[q] + 1)
  BY DEF SameCompletion, AdvancedCompletion
<1> QED BY <1>1, <1>2, <1>3, <1>4 DEF Service!Compute, Service!Advanced, Context

(* A step of r that neither ends r nor computes or samples for it. *)
LEMMA ServiceIdle ==
  ASSUME TypeInv, TypeInv', NEW r \in Requests, OtherCompletionsSame(r),
         SameRequest(r), UNCHANGED device, Stage(r)' = Stage(r)
  PROVE  UNCHANGED Service!vars
<1>1. SameCompletion(r)
  BY DEF SameCompletion, SameRequest, Context, device
<1>2. \A q \in Requests : SameCompletion(q)
  BY <1>1 DEF OtherCompletionsSame
<1> QED BY <1>2, ToStutter

(* What the conversation of a request has been advanced by. *)
LEMMA ContextValue ==
  ASSUME ServiceInv, NEW r \in Requests, Serving(r), reply[r] \in {"empty", "ok"}
  PROVE  /\ Prompting(r) /\ pc[r] # "unlock" =>
              /\ produced[r] = 0 /\ Stage(r) = "serving" /\ Context(r) = prefill_start[r]
         /\ pc[r] \in {"decode", "fast", "push"} \/ Awaiting(r) =>
              /\ Stage(r) = "serving" /\ prefill_start[r] = PromptLen[r]
              /\ Context(r) = PromptLen[r] + produced[r] - 1 + Answered(r)
              /\ produced[r] \in 1..(MaxTokens[r] - 1)
<1> USE DEF ServiceInv
<1>1. Stage(r) = "serving"
  BY DEF Serving, Stage
<1>2. /\ PlaceFor(r) /\ SeenFor(r) /\ produced[r] \in Nat /\ prefill_start[r] \in Nat
      /\ prefill_start[r] <= PromptLen[r] /\ PromptLen[r] \in Nat /\ MaxTokens[r] \in Nat
  BY DEF PlaceInv, DeviceInv, DeviceFor, TypeInv, TypeOK, PrefillBound
<1>3. CASE Prompting(r) /\ pc[r] # "unlock"
  <2>1. produced[r] = 0 /\ ~Awaiting(r) /\ pc[r] \notin {"decode", "fast", "push"}
    BY <1>2, <1>3 DEF PlaceFor, Prompting, Awaiting, Locking
  <2>2. reply[r] = "empty"
    BY <2>1 DEF QueueInv, ReplyInv
  <2>3. Context(r) = prefill_start[r]
    BY <1>1, <1>2, <1>3, <2>1, <2>2 DEF SeenFor, Prefilled, Answered, Context
  <2> QED BY <1>1, <2>1, <2>3
<1>4. CASE pc[r] \in {"decode", "fast", "push"} \/ Awaiting(r)
  <2>1. /\ produced[r] >= 1 /\ produced[r] < MaxTokens[r] /\ ~Prefilling(r)
        /\ ~(Prompting(r) /\ pc[r] # "unlock")
    BY <1>2, <1>4 DEF PlaceFor, Prompting, Awaiting, Locking
  <2>2. prefill_start[r] = PromptLen[r]
    BY <1>2, <2>1 DEF Prefilling
  <2>3. seen[slot[r]] = PromptLen[r] + (produced[r] - 1) + Answered(r)
    BY <1>2, <2>1, <2>2 DEF SeenFor, Prefilled
  <2>4. Answered(r) \in Nat
    BY DEF Answered
  <2>5. Context(r) = PromptLen[r] + produced[r] - 1 + Answered(r)
    BY <1>1, <1>2, <2>3, <2>4 DEF Context
  <2> QED BY <1>1, <1>2, <2>1, <2>2, <2>5
<1> QED BY <1>3, <1>4

(* A token sampled after a step of its own. *)
LEMMA ServiceDecodeOne ==
  ASSUME ServiceInv, TypeInv', NEW r \in Requests, OtherCompletionsSame(r),
         pc[r] \in {"decode", "fast"}, slot' = slot,
         \/ DecodeOne(r) /\ NextToken(r)
         \/ DecodeOneFails(r) /\ Goto(r, "exit") /\ UNCHANGED produced
  PROVE  Service!ComputeAndSample(r) \/ UNCHANGED Service!vars
<1> USE DEF ServiceInv
<1>1. Serving(r) /\ reply[r] = "empty" /\ slot[r] \in Slots
  <2>1. Serving(r) /\ ~Awaiting(r)
    BY DEF Serving, Awaiting, Locking
  <2>2. slot[r] \in Slots
    BY DEF TypeInv, TypeOK, SlotHeld
  <2> QED BY <2>1, <2>2 DEF QueueInv, ReplyInv
<1>2. /\ Stage(r) = "serving" /\ Context(r) = PromptLen[r] + produced[r] - 1
      /\ produced[r] \in 1..(MaxTokens[r] - 1) /\ PromptLen[r] \in Nat /\ MaxTokens[r] \in Nat
  BY <1>1, ContextValue DEF Answered
<1>3. CASE DecodeOne(r) /\ NextToken(r)
  <2>1. /\ produced'[r] = produced[r] + 1 /\ pc'[r] \in {"decode", "exit"}
        /\ seen'[slot[r]] = seen[slot[r]] + 1
    BY <1>1, <1>3 DEF DecodeOne, NextToken, Goto, TypeInv, TypeOK
  <2>2. Stage(r)' = "serving" /\ Context(r)' = Context(r) + 1
    BY <1>2, <2>1 DEF Stage, Context
  <2> QED BY <1>2, <2>1, <2>2, ToComputeAndSample
<1>4. CASE DecodeOneFails(r) /\ Goto(r, "exit") /\ UNCHANGED produced
  <2>1. pc'[r] = "exit" /\ seen' = seen
    BY <1>4 DEF DecodeOneFails, Goto, TypeInv, TypeOK
  <2>2. SameCompletion(r)
    BY <1>2, <1>4, <2>1 DEF SameCompletion, Stage, Context
  <2>3. \A q \in Requests : SameCompletion(q)
    BY <2>2 DEF OtherCompletionsSame
  <2> QED BY <2>3, ToStutter
<1> QED BY <1>3, <1>4

(* A batched forward advances the conversations of its batch, and no other.  *)
LEMMA ServiceBatched ==
  ASSUME ServiceInv, NEW r \in Requests, Unanswered(r), NEW q \in Requests,
         SameRequest(q), Stage(q)' = Stage(q),
         slot[q] \in Slots => seen'[slot[q]] = Consumed(r)[slot[q]]
  PROVE  SameCompletion(q) \/ AdvancedCompletion(q)
<1> USE DEF ServiceInv
<1>1. CASE Stage(q) # "serving"
  BY <1>1 DEF SameCompletion, SameRequest, Context
<1>2. CASE Stage(q) = "serving" /\ InBatch(r, q)
  <2>1. Awaiting(q) /\ reply[q] = "empty" /\ Pend(q) \in Batch(r)
    BY <1>2, BatchMembers
  <2>2. slot[q] \in Slots /\ Serving(q)
    BY <1>2, <2>1, StageSlot DEF Awaiting, Locking, Serving
  <2>3. Consumed(r)[slot[q]] = seen[slot[q]] + 1
    BY <2>1, <2>2 DEF Consumed, BatchSlots, Pend
  <2>4. /\ Context(q) = PromptLen[q] + produced[q] - 1 /\ produced[q] > 0
    BY <2>1, <2>2, ContextValue DEF Answered
  <2>5. Context(q)' = Context(q) + 1
    BY <1>2, <2>2, <2>3 DEF Context, SameRequest
  <2> QED BY <1>2, <2>4, <2>5 DEF AdvancedCompletion, SameRequest
<1>3. CASE Stage(q) = "serving" /\ ~InBatch(r, q)
  <2>1. slot[q] \in Slots
    BY <1>3, StageSlot
  <2>2. ASSUME NEW p \in Batch(r)
        PROVE  p.slot # slot[q]
    <3>1. p.req \in Requests /\ p.slot = slot[p.req] /\ InBatch(r, p.req)
      BY BatchMembers DEF Pend
    <3>2. p.req # q
      BY <1>3, <3>1
    <3> QED BY <2>1, <3>1, <3>2 DEF SlotsHaveOneOwner
  <2>3. Consumed(r)[slot[q]] = seen[slot[q]]
    BY <2>1, <2>2 DEF Consumed, BatchSlots
  <2> QED BY <1>3, <2>1, <2>3 DEF SameCompletion, SameRequest, Context
<1> QED BY <1>1, <1>2, <1>3

(* A chunk has tokens. *)
LEMMA ChunkEndAdvances ==
  ASSUME TypeInv, NEW r \in Requests, Prefilling(r)
  PROVE  /\ ChunkEnd(r) \in Nat /\ ChunkEnd(r) <= PromptLen[r]
         /\ prefill_start[r] < ChunkEnd(r) /\ prefill_start[r] \in Nat
<1>1. prefill_start[r] \in Nat /\ PromptLen[r] \in Nat /\ ChunkTokens \in Nat \ {0}
  BY DEF TypeInv, TypeOK
<1> QED BY <1>1 DEF ChunkEnd, Prefilling

LEMMA ServiceStart ==
  ASSUME ServiceInv, TypeInv', NEW r \in Requests, OtherCompletionsSame(r),
         StartCold(r) \/ StartWarm(r) \/ StartAfterFailedRestore(r) \/ StartFails(r)
  PROVE  Service!Next
<1> USE DEF ServiceInv
<1>1. pc[r] = "claimed" /\ slot' = slot /\ produced' = produced
  BY DEF StartCold, StartWarm, StartAfterFailedRestore, StartFails, StartPrefill, CanStart,
         claims
<1>2. slot[r] \in Slots /\ produced[r] = 0 /\ Stage(r) = "queued" /\ PromptLen[r] \in Nat
  <2>1. slot[r] \in Slots
    BY <1>1 DEF TypeInv, TypeOK, SlotHeld
  <2>2. produced[r] = 0
    BY <1>1 DEF PlaceInv, PlaceFor, Prompting
  <2> QED BY <1>1, <2>1, <2>2 DEF Stage
<1>3. /\ pc \in [Requests -> Places] /\ seen \in [Slots -> Nat] /\ snaps \subseteq Snapshot
  BY DEF TypeInv, TypeOK
<1>4. CASE StartFails(r)
  <2>1. pc'[r] = "exit"
    BY <1>3, <1>4 DEF StartFails, StartPrefill, Goto
  <2>2. Stage(r)' = "ended"
    BY <1>1, <1>2, <2>1 DEF Stage
  <2> QED BY <1>1, <1>2, <2>2, ToEnd DEF Service!Next
<1>5. CASE ~StartFails(r)
  <2>1. pc'[r] \in {"prefill", "first"} /\ seen'[slot[r]] \in 0..PromptLen[r]
    <3>1. CASE StartCold(r) \/ StartAfterFailedRestore(r)
      BY <1>2, <1>3, <3>1 DEF StartCold, StartAfterFailedRestore, StartPrefill, Goto
    <3>2. CASE StartWarm(r)
      <4>1. PICK e \in snaps :
              /\ Usable(r, e)
              /\ seen' = [seen EXCEPT ![slot[r]] = IF e.exact THEN e.n ELSE 0]
              /\ StartPrefill(r, IF e.n = PromptLen[r] THEN "first" ELSE "prefill", e.n)
        BY <3>2 DEF StartWarm
      <4>2. e.n \in 0..PromptLen[r]
        BY <1>2, <1>3, <4>1 DEF Usable, Snapshot
      <4>3. pc'[r] \in {"prefill", "first"}
        BY <1>3, <4>1 DEF StartPrefill, Goto
      <4> QED BY <1>2, <1>3, <4>1, <4>2, <4>3
    <3> QED BY <1>5, <3>1, <3>2
  <2>2. Stage(r)' = "serving" /\ Context(r)' \in 0..PromptLen[r]
    BY <1>1, <2>1 DEF Stage, Context
  <2> QED BY <1>1, <1>2, <2>2, ToAdmit DEF Service!Next
<1> QED BY <1>4, <1>5

LEMMA ServiceChunk ==
  ASSUME ServiceInv, TypeInv', NEW r \in Requests, OtherCompletionsSame(r),
         PureChunk(r) \/ PureChunkFails(r)
  PROVE  Service!Next
<1> USE DEF ServiceInv
<1>1. pc[r] = "pure" /\ slot' = slot /\ produced' = produced
  BY DEF PureChunk, PureChunkFails, claims
<1>2. Serving(r) /\ Prompting(r) /\ ~Awaiting(r)
  BY <1>1 DEF Serving, Prompting, Awaiting, Locking
<1>3. /\ produced[r] = 0 /\ Stage(r) = "serving" /\ Context(r) = prefill_start[r]
      /\ slot[r] \in Slots /\ Prefilling(r)
  <2>1. reply[r] = "empty"
    BY <1>2 DEF QueueInv, ReplyInv
  <2>2. slot[r] \in Slots /\ Prefilling(r)
    BY <1>1 DEF TypeInv, TypeOK, SlotHeld, DispatchInv, ChunkingInv, ChunkingFor
  <2> QED BY <1>1, <1>2, <2>1, <2>2, ContextValue
<1>4. CASE PureChunk(r)
  <2>1. /\ ChunkEnd(r) \in Nat /\ ChunkEnd(r) <= PromptLen[r] /\ prefill_start[r] < ChunkEnd(r)
        /\ prefill_start[r] \in Nat
    BY <1>3, ChunkEndAdvances
  <2>2. /\ pc'[r] \in {"prefill", "first"}
        /\ seen'[slot[r]] = seen[slot[r]] + (ChunkEnd(r) - prefill_start[r])
    BY <1>3, <1>4 DEF PureChunk, Goto, TypeInv, TypeOK
  <2>3. Stage(r)' = "serving" /\ Context(r)' = ChunkEnd(r)
    BY <1>1, <1>3, <2>1, <2>2 DEF Stage, Context
  <2>4. AdvancedCompletion(r)
    BY <1>1, <1>3, <2>1, <2>3 DEF AdvancedCompletion
  <2>5. \A q \in Requests : SameCompletion(q) \/ AdvancedCompletion(q)
    BY <2>4 DEF OtherCompletionsSame
  <2> QED BY <2>5, ToCompute DEF Service!Next
<1>5. CASE PureChunkFails(r)
  <2>1. pc'[r] = "exit"
    BY <1>5 DEF PureChunkFails, Goto, TypeInv, TypeOK
  <2>2. Stage(r)' = "ended"
    BY <1>1, <1>3, <2>1 DEF Stage
  <2> QED BY <1>1, <1>3, <2>2, ToEnd DEF Service!Next
<1> QED BY <1>4, <1>5

LEMMA ServiceToken ==
  ASSUME ServiceInv, TypeInv', NEW r \in Requests, OtherCompletionsSame(r),
         FirstToken(r) \/ Receive(r)
  PROVE  Service!Next \/ UNCHANGED Service!vars
<1> USE DEF ServiceInv
<1>1. UNCHANGED <<slot, seen>> /\ pc \in [Requests -> Places] /\ produced \in [Requests -> Nat]
  BY DEF FirstToken, Receive, claims, device, TypeInv, TypeOK
<1>2. PlaceFor(r) /\ PromptLen[r] \in Nat /\ MaxTokens[r] \in Nat \ {0}
  BY DEF PlaceInv
<1>3. CASE FirstToken(r)
  <2>1. pc[r] = "first" /\ Serving(r) /\ Prompting(r) /\ ~Awaiting(r)
    BY <1>3 DEF FirstToken, Serving, Prompting, Awaiting, Locking
  <2>2. reply[r] = "empty"
    BY <2>1 DEF QueueInv, ReplyInv
  <2>3. prefill_start[r] = PromptLen[r]
    BY <1>2, <2>1 DEF PlaceFor, Prefilling, TypeInv, TypeOK, PrefillBound
  <2>4. produced[r] = 0 /\ Stage(r) = "serving" /\ Context(r) = PromptLen[r]
    BY <2>1, <2>2, <2>3, ContextValue
  <2>5. produced'[r] = 1 /\ pc'[r] \in {"decode", "exit"}
    BY <1>1, <1>3, <2>4 DEF FirstToken, NextToken, Goto
  <2>6. Stage(r)' = Stage(r) /\ Context(r)' = Context(r)
    BY <1>1, <2>4, <2>5 DEF Stage, Context
  <2> QED BY <1>2, <2>4, <2>5, <2>6, ToSample DEF Service!Next
<1>4. CASE Receive(r) /\ reply[r] = "ok"
  <2>1. pc[r] = "wait" /\ Serving(r) /\ Awaiting(r)
    BY <1>4 DEF Receive, Serving, Awaiting
  <2>2. /\ Stage(r) = "serving" /\ Context(r) = PromptLen[r] + produced[r]
        /\ produced[r] \in 1..(MaxTokens[r] - 1)
    BY <1>2, <1>4, <2>1, ContextValue DEF Answered
  <2>3. produced'[r] = produced[r] + 1 /\ pc'[r] \in {"decode", "exit"}
    BY <1>1, <1>4 DEF Receive, NextToken, Goto
  <2>4. Stage(r)' = Stage(r) /\ Context(r)' = Context(r)
    BY <1>1, <2>2, <2>3 DEF Stage, Context
  <2> QED BY <1>2, <2>2, <2>3, <2>4, ToSample DEF Service!Next
<1>5. CASE Receive(r) /\ reply[r] # "ok"
  <2>1. pc[r] = "wait" /\ pc'[r] = "exit" /\ produced' = produced
    BY <1>1, <1>5 DEF Receive, Goto
  <2>2. produced[r] >= 1
    BY <1>2, <2>1 DEF PlaceFor, Awaiting
  <2>3. SameCompletion(r)
    BY <1>1, <2>1, <2>2 DEF SameCompletion, Stage, Context
  <2>4. \A q \in Requests : SameCompletion(q)
    BY <2>3 DEF OtherCompletionsSame
  <2> QED BY <2>4, ToStutter
<1> QED BY <1>3, <1>4, <1>5

LEMMA ServiceDispatch ==
  ASSUME ServiceInv, TypeInv', NEW r \in Requests, OthersSame(r),
         DispatchBatch(r) \/ DispatchBatchFails(r) \/ DispatchMixed(r) \/ DispatchMixedFails(r)
  PROVE  Service!Next \/ UNCHANGED Service!vars
<1> USE DEF ServiceInv
<1>1. /\ pc[r] = "dispatch" /\ Unanswered(r) /\ SameRequest(r)
      /\ \A q \in Requests : SameRequest(q)
  BY DEF DispatchBatch, DispatchBatchFails, DispatchMixed, DispatchMixedFails, claims, prompt,
         Unanswered, OthersSame, SameRequest
<1>2. /\ pc \in [Requests -> Places] /\ \A q \in Requests \ {r} : Stage(q)' = Stage(q)
      /\ Stage(r) = "serving"
  BY <1>1 DEF TypeInv, TypeOK, OthersSame, SameRequest, Stage
<1>3. CASE DispatchBatch(r)
  <2>1. pc'[r] = "unlock" /\ seen' = Consumed(r)
    BY <1>2, <1>3 DEF DispatchBatch, Goto
  <2>2. Stage(r)' = Stage(r)
    BY <1>2, <2>1 DEF Stage
  <2>3. \A q \in Requests : SameCompletion(q) \/ AdvancedCompletion(q)
    BY <1>1, <1>2, <2>1, <2>2, ServiceBatched
  <2> QED BY <2>3, ToCompute DEF Service!Next
<1>4. CASE DispatchBatchFails(r)
  <2>1. pc'[r] = "leader" /\ seen' = seen
    BY <1>2, <1>4 DEF DispatchBatchFails, Goto
  <2>2. Stage(r)' = Stage(r)
    BY <1>2, <2>1 DEF Stage
  <2>3. \A q \in Requests : SameCompletion(q)
    BY <1>1, <1>2, <2>1, <2>2 DEF SameCompletion, SameRequest, Context
  <2> QED BY <2>3, ToStutter
<1>5. CASE DispatchMixed(r)
  <2>1. /\ Prefilling(r) /\ pc'[r] = "unlock" /\ Prompting(r) /\ ~Awaiting(r) /\ Serving(r)
        /\ Prompting(r)' /\ ~Awaiting(r)'
    BY <1>1, <1>2, <1>5
    DEF DispatchMixed, Goto, Prompting, Awaiting, Locking, Serving, SameRequest, Prefilling
  <2>2. reply[r] = "empty" /\ ~InBatch(r, r)
    BY <1>1, <2>1, BatchMembers DEF QueueInv, ReplyInv
  <2>3. produced[r] = 0 /\ Context(r) = prefill_start[r]
    BY <1>1, <2>1, <2>2, ContextValue
  <2>4. reply'[r] = "empty"
    BY <1>5, <2>2 DEF DispatchMixed, Answer
  <2>5. DeviceFor(r)'
    BY <1>5, DeviceMixedChunk DEF DeviceInv
  <2>6. /\ ChunkEnd(r) \in Nat /\ ChunkEnd(r) <= PromptLen[r] /\ prefill_start[r] < ChunkEnd(r)
        /\ prefill_start[r] \in Nat
    BY <2>1, ChunkEndAdvances
  <2>7. seen'[slot[r]] = ChunkEnd(r)
    BY <1>1, <2>1, <2>3, <2>4, <2>5, <2>6
    DEF DeviceFor, SeenFor, Serving, Prefilled, Answered, Prefilling, ChunkEnd, SameRequest
  <2>8. Stage(r)' = Stage(r)
    BY <1>2, <2>1 DEF Stage
  <2>9. AdvancedCompletion(r)
    BY <1>1, <1>2, <2>3, <2>6, <2>7, <2>8 DEF AdvancedCompletion, SameRequest, Context
  <2>10. ASSUME NEW q \in Requests, q # r
         PROVE  SameCompletion(q) \/ AdvancedCompletion(q)
    <3>1. slot[q] \in Slots => seen'[slot[q]] = Consumed(r)[slot[q]]
      BY <1>5, <2>10 DEF DispatchMixed, Consumed, SlotsHaveOneOwner
    <3> QED BY <1>1, <1>2, <2>10, <3>1, ServiceBatched
  <2>11. \A q \in Requests : SameCompletion(q) \/ AdvancedCompletion(q)
    BY <2>9, <2>10
  <2> QED BY <2>11, ToCompute DEF Service!Next
<1>6. CASE DispatchMixedFails(r)
  <2>1. pc'[r] = "exit" /\ seen' = seen /\ Prompting(r)
    BY <1>1, <1>2, <1>6 DEF DispatchMixedFails, Goto, Prompting, Locking
  <2>2. produced[r] = 0
    BY <2>1 DEF PlaceInv, PlaceFor
  <2>3. Stage(r)' = "ended"
    BY <1>1, <2>1, <2>2 DEF Stage, SameRequest
  <2>4. OtherCompletionsSame(r)
    BY <1>1, <1>2, <2>1 DEF OtherCompletionsSame, SameCompletion, SameRequest, Context
  <2>5. Service!End(r)
    BY <1>1, <1>2, <2>3, <2>4, ToEnd DEF SameRequest
  <2> QED BY <2>5 DEF Service!Next
<1> QED BY <1>3, <1>4, <1>5, <1>6

(* Every step of a thread is a step of the service or a stutter. *)
LEMMA ServiceStep ==
  ASSUME ServiceInv, TypeInv', NEW r \in Requests, Step(r)
  PROVE  Service!Next \/ UNCHANGED Service!vars
<1>types. pc \in [Requests -> Places] /\ OthersSame(r)
  BY OthersAreSame DEF ServiceInv, TypeInv, TypeOK
<1>others. pc[r] # "dispatch" => OtherCompletionsSame(r)
  BY OtherCompletions DEF ServiceInv
<1>inv. TypeInv /\ PlaceInv
  BY DEF ServiceInv
<1> USE DEF Goto, claims, prompt
<1>1. CASE Claim(r)
  <2>1. pc[r] = "idle" /\ pc'[r] = "claimed" /\ produced' = produced
    BY <1>1, <1>types DEF Claim
  <2>2. SameCompletion(r)
    BY <2>1 DEF SameCompletion, Stage, Context
  <2>3. \A q \in Requests : SameCompletion(q)
    BY <1>others, <2>1, <2>2 DEF OtherCompletionsSame
  <2> QED BY <1>inv, <2>3, ToStutter
<1>2. CASE StartCold(r) \/ StartWarm(r) \/ StartAfterFailedRestore(r) \/ StartFails(r)
  <2>1. pc[r] = "claimed"
    BY <1>2 DEF StartCold, StartWarm, StartAfterFailedRestore, StartFails, CanStart
  <2> QED BY <1>2, <1>others, <2>1, ServiceStart
<1>3. CASE LockChunk(r) \/ TakeDispatcher(r) \/ DrainMixed(r) \/ RePush(r) \/ DropDispatcher(r)
  <2>1. /\ SameRequest(r) /\ UNCHANGED device
        /\ pc[r] \in {"prefill", "chunk", "mixed", "repush", "drop"}
        /\ pc'[r] \in {"chunk", "pure", "mixed", "drop", "repush", "lock"}
    BY <1>3, <1>types
    DEF LockChunk, TakeDispatcher, DrainMixed, RePush, DropDispatcher, SameRequest
  <2> QED BY <1>inv, <1>others, <2>1, ServiceIdle DEF Stage
<1>4. CASE PureChunk(r) \/ PureChunkFails(r)
  <2>1. pc[r] = "pure"
    BY <1>4 DEF PureChunk, PureChunkFails
  <2> QED BY <1>4, <1>others, <2>1, ServiceChunk
<1>5. CASE LockNext(r) \/ UnlockBatch(r)
  <2>1. /\ SameRequest(r) /\ UNCHANGED device /\ pc[r] \in {"lock", "unlock"}
        /\ pc'[r] \in {"lock", "dispatch", "leader"}
    BY <1>5, <1>types DEF LockNext, UnlockBatch, SameRequest
  <2> QED BY <1>inv, <1>others, <2>1, ServiceIdle DEF Stage
<1>6. CASE UnlockMixed(r)
  <2>1. /\ UNCHANGED <<slot, produced, device>> /\ pc[r] = "unlock"
        /\ pc'[r] \in {"prefill", "first"}
    BY <1>6, <1>types DEF UnlockMixed
  <2>2. SameCompletion(r)
    BY <2>1 DEF SameCompletion, Stage, Context, device
  <2>3. \A q \in Requests : SameCompletion(q)
    BY <1>others, <2>1, <2>2 DEF OtherCompletionsSame
  <2> QED BY <1>inv, <2>3, ToStutter
<1>7. CASE DispatchBatch(r) \/ DispatchBatchFails(r) \/ DispatchMixed(r) \/ DispatchMixedFails(r)
  BY <1>7, <1>types, ServiceDispatch
<1>8. CASE FirstToken(r) \/ Receive(r)
  <2>1. pc[r] \in {"first", "wait"}
    BY <1>8 DEF FirstToken, Receive
  <2> QED BY <1>8, <1>others, <2>1, ServiceToken
<1>9. CASE DecodeDirect(r) \/ DecodeFast(r)
  <2>1. /\ pc[r] \in {"decode", "fast"} /\ slot' = slot
        /\ \/ DecodeOne(r) /\ NextToken(r)
           \/ DecodeOneFails(r) /\ Goto(r, "exit") /\ UNCHANGED produced
    BY <1>9 DEF DecodeDirect, DecodeFast
  <2>2. OtherCompletionsSame(r)
    BY <1>others, <2>1
  <2>3. Service!ComputeAndSample(r) \/ UNCHANGED Service!vars
    BY <2>1, <2>2, ServiceDecodeOne
  <2> QED BY <2>3 DEF Service!Next
<1>10. CASE CheckOthers(r) \/ Push(r) \/ TryLead(r) \/ DrainOrStepDown(r)
  <2>1. /\ SameRequest(r) /\ UNCHANGED device /\ pc[r] \in {"decode", "push", "lead", "leader"}
        /\ pc'[r] \in {"push", "fast", "lead", "leader", "wait", "lock"}
    BY <1>10, <1>types DEF CheckOthers, Push, TryLead, DrainOrStepDown, SameRequest
  <2> QED BY <1>inv, <1>others, <2>1, ServiceIdle DEF Stage
<1>11. CASE ReleasePages(r)
  <2>1. /\ UNCHANGED <<slot, produced, seen>> /\ pc[r] = "exit" /\ pc'[r] = "release"
    BY <1>11, <1>types DEF ReleasePages
  <2>2. SameCompletion(r)
    BY <2>1 DEF SameCompletion, Stage, Context
  <2>3. \A q \in Requests : SameCompletion(q)
    BY <1>others, <2>1, <2>2 DEF OtherCompletionsSame
  <2> QED BY <1>inv, <2>3, ToStutter
<1>12. CASE ClearClaim(r)
  <2>1. produced' = produced /\ pc[r] = "release" /\ pc'[r] = "done"
    BY <1>12, <1>types DEF ClearClaim
  <2>2. Stage(r)' = "ended"
    BY <2>1 DEF Stage
  <2>3. CASE Stage(r) = "ended"
    <3>1. SameCompletion(r)
      BY <2>1, <2>2, <2>3 DEF SameCompletion, Context
    <3>2. \A q \in Requests : SameCompletion(q)
      BY <1>others, <2>1, <3>1 DEF OtherCompletionsSame
    <3> QED BY <1>inv, <3>2, ToStutter
  <2>4. CASE Stage(r) # "ended"
    <3>1. Service!End(r)
      BY <1>inv, <1>others, <2>1, <2>2, <2>4, ToEnd
    <3> QED BY <3>1 DEF Service!Next
  <2> QED BY <2>3, <2>4
<1> QED BY <1>1, <1>2, <1>3, <1>4, <1>5, <1>6, <1>7, <1>8, <1>9, <1>10, <1>11, <1>12
  DEF Step, Prefill, Dispatch, Decode

LEMMA ServiceStutter == UNCHANGED vars => UNCHANGED Service!vars
BY DEF vars, claims, device, Service!vars, Stage

LEMMA ServiceInit == Init => Service!Init
BY DEF Init, Service!Init, Stage

(* The scheduler, with its threads, locks, queue and shared forwards, is a   *)
(* service in which every completion has a conversation of its own: each     *)
(* token is sampled from the state right after the one before it, and no     *)
(* step is run twice.                                                        *)
THEOREM SchedulerImplementsService == Spec => ImplementsService
<1>1. ServiceInv /\ TypeInv' /\ [Next]_vars => [Service!Next]_(Service!vars)
  BY ServiceStep, ServiceStutter DEF Next, AllServed
<1>2. Spec => []ServiceInv
  BY TypeInvariant, OneOwner, DispatchInvariant, QueueInvariant, DeviceInvariant, PTL
  DEF ServiceInv
<1> QED
  BY TypeInvariant, ServiceInit, <1>1, <1>2, PTL DEF Spec, ImplementsService, Service!Spec
=============================================================================
