------------------------------ MODULE PagedKv ------------------------------
(***************************************************************************)
(* The paged KV cache (--paged-kv): crates/forward/src/core/scratch.rs     *)
(* (PagePool, PagedKvCache) and its use in core/composites/                *)
(* standard_attn.rs.  Every attention layer has a pool of pages of its     *)
(* own.  The host keeps a free list and the pages each slot holds; the     *)
(* device keeps, per slot, a block table that maps page numbers of the     *)
(* conversation to pages of the pool, and the rows of every page.          *)
(*                                                                         *)
(* A forward runs layer by layer under the session's mutex.  For a single  *)
(* request (a prefill chunk, or a batch of one) a layer first makes sure   *)
(* that the slot holds a page for every row up to the last it will write.  *)
(* For a batch of several it acquires a page for each row whose position   *)
(* starts one, and enters it in the row of its slot.  Then the rows are    *)
(* appended through the block table: a lone request's through the row of   *)
(* its slot, but those of a batch of several through the table's first     *)
(* rows, one after the other, whatever their slots are.  Scheduler decides *)
(* who is forwarded with whom; here any requests are, in any order.        *)
(*                                                                         *)
(* Row contents are abstracted to <<request, position>>: whose row it is.  *)
(***************************************************************************)
EXTENDS Integers, Sequences, FiniteSets, Functions

CONSTANTS
  Requests,     (* completion requests                                     *)
  NSlots,       (* slots of the inflight pool (max_slots)                  *)
  None,         (* no slot; a row whose contents are unknown               *)
  NLayers,      (* attention layers of a rank                              *)
  PageSize,     (* rows per page                                           *)
  NPages,       (* pages in the pool of a layer (--paged-kv)               *)
  MaxSeqLen,    (* context cap                                             *)
  ChunkTokens,  (* tokens of a prompt that are forwarded at once           *)
  PromptLen,    (* tokens in the prompt of each request                    *)
  MaxTokens     (* max_tokens of each request                              *)

Slots == 0..(NSlots - 1)

ASSUME PagedKvAssumption ==
  /\ NSlots \in Nat \ {0}
  /\ None \notin Slots
  /\ NLayers \in Nat \ {0}
  /\ PageSize \in Nat \ {0}
  /\ NPages \in Nat \ {0}
  /\ MaxSeqLen \in Nat \ {0}
  /\ ChunkTokens \in Nat \ {0}
  /\ PromptLen \in [Requests -> Nat \ {0}]
  /\ MaxTokens \in [Requests -> Nat \ {0}]

VARIABLES
  stage,        (* how far each request is                                 *)
  slot,         (* slot_idx of each request, None while it has none        *)
  slot_in_use,  (* the claim flag of each slot                             *)
  prefilled,    (* tokens of its prompt that have been forwarded           *)
  produced,     (* tokens it has generated                                 *)
  batch,        (* the requests of the forward that runs, <<>> if none     *)
  layer,        (* the layer it is at                                      *)
  row,          (* the next of its rows to arrange a page for              *)
  free,         (* free list of each layer's PagePool                      *)
  per_slot_held,(* the pages each slot holds, per layer                    *)
  block_tables, (* the device's table of each slot, per layer              *)
  pool,         (* whose row is in each row of each page, per layer        *)
  misplaced     (* history: a batch was appended through rows of other     *)
                (* slots than its own                                      *)

claims  == <<slot, slot_in_use>>
counts  == <<prefilled, produced>>
forward == <<batch, layer, row>>
pages   == <<free, per_slot_held>>
rows    == <<pool, misplaced>>
device  == <<block_tables, rows>>
vars    == <<stage, claims, counts, forward, pages, device>>

Layers == 1..NLayers
Pages  == 0..(NPages - 1)

(* Mutant: the last, partial page is not counted. *)
WholePagesFor(n) == n \div PageSize

(* usize::div_ceil: how many pages the first n rows take. *)
PagesFor(n) == (n + PageSize - 1) \div PageSize

MaxPagesPerSlot == PagesFor(MaxSeqLen)

Stages == {"queued", "prefill", "decode", "exit", "release", "done"}

Serving(r) == stage[r] \in {"prefill", "decode"}

-----------------------------------------------------------------------------
(* The rows First(r)..End(r)-1 that the next forward writes for r: a chunk  *)
(* of its prompt, or one row at prompt_ids.len() + step.                    *)
First(r) == IF stage[r] = "prefill" THEN prefilled[r] ELSE PromptLen[r] + produced[r]

End(r) ==
  IF stage[r] = "decode" THEN First(r) + 1
  ELSE IF prefilled[r] + ChunkTokens <= PromptLen[r] THEN prefilled[r] + ChunkTokens
  ELSE PromptLen[r]

Held(r) == per_slot_held[layer][slot[r]]

(* Slot s gets the first k pages of the free list of layer l. *)
TakePages(l, s, k) ==
  /\ free' = [free EXCEPT ![l] = SubSeq(@, k + 1, Len(@))]
  /\ per_slot_held' = [per_slot_held EXCEPT ![l][s] = @ \o SubSeq(free[l], 1, k)]

(* Mutant: new pages are entered from the start of the table. *)
PatchedFromStart(l, s, from, ps) ==
  [block_tables EXCEPT ![l][s] =
     [k \in DOMAIN @ |-> IF k + 1 \in DOMAIN ps THEN ps[k + 1] ELSE @[k]]]

(* The block table entries from..from+Len(ps)-1 of slot s set to ps. *)
Patched(l, s, from, ps) ==
  [block_tables EXCEPT ![l][s] =
     [k \in DOMAIN @ |-> IF k - from + 1 \in DOMAIN ps THEN ps[k - from + 1] ELSE @[k]]]

-----------------------------------------------------------------------------
(* claim_slot_blocking. *)
Claim(r) ==
  /\ stage[r] = "queued"
  /\ \E s \in Slots :
       /\ ~slot_in_use[s]
       /\ slot_in_use' = [slot_in_use EXCEPT ![s] = TRUE]
       /\ slot' = [slot EXCEPT ![r] = s]
  /\ stage' = [stage EXCEPT ![r] = "prefill"]
  /\ UNCHANGED <<counts, forward, pages, device>>

(* A forward starts: it has the session to itself. *)
StartForward(reqs) ==
  /\ batch = <<>>
  /\ batch' = reqs
  /\ layer' = 1
  /\ row' = 1
  /\ UNCHANGED <<stage, claims, counts, pages, device>>

StartPrefill(r) ==
  /\ stage[r] = "prefill"
  /\ StartForward(<<r>>)

(* forward_decode_batched, of one or several decoding requests. *)
CanDecode(r) == stage[r] = "decode" /\ produced[r] < MaxTokens[r]

StartDecode(reqs) ==
  /\ reqs # <<>>
  /\ IsInjective(reqs)
  /\ \A i \in DOMAIN reqs : CanDecode(reqs[i])
  /\ StartForward(reqs)

(* The forward returns an error, and so does every request that is in it. *)
Abandon ==
  /\ batch' = <<>>
  /\ stage' = [r \in Requests |-> IF r \in Range(batch) THEN "exit" ELSE stage[r]]
  /\ UNCHANGED <<layer, row, claims, counts, device>>

(* Mutant: pages are acquired for the new rows, whatever the slot holds. *)
MissingForRows(r) == PagesFor(End(r) - First(r))

(* ensure_pages_up_to and the patch of the block table, for the pages that   *)
(* a lone request lacks.                                                     *)
Missing(r) ==
  IF PagesFor(End(r)) > Len(Held(r)) THEN PagesFor(End(r)) - Len(Held(r)) ELSE 0

EnsurePages ==
  /\ Len(batch) = 1 /\ row = 1
  /\ LET r == batch[1] IN
       /\ End(r) <= MaxSeqLen
       /\ Missing(r) <= Len(free[layer])
       /\ TakePages(layer, slot[r], Missing(r))
       /\ block_tables' = Patched(layer, slot[r], Len(Held(r)), SubSeq(free[layer], 1, Missing(r)))
  /\ row' = 2
  /\ UNCHANGED <<stage, claims, counts, batch, layer, rows>>

(* Mutant: the pages acquired before the pool ran dry are dropped. *)
ExhaustedDropsPages ==
  /\ Len(batch) = 1 /\ row = 1
  /\ LET r == batch[1] IN
       /\ End(r) <= MaxSeqLen
       /\ Missing(r) > Len(free[layer])
       /\ free' = [free EXCEPT ![layer] = <<>>]
       /\ UNCHANGED per_slot_held
  /\ Abandon

(* The free list runs dry: what was acquired is kept, and not in the table. *)
EnsureExhausted ==
  /\ Len(batch) = 1 /\ row = 1
  /\ LET r == batch[1] IN
       /\ End(r) <= MaxSeqLen
       /\ Missing(r) > Len(free[layer])
       /\ TakePages(layer, slot[r], Len(free[layer]))
  /\ Abandon

(* One row of a batch of several: acquire_for at the start of a page. *)
StartsPage(r) == First(r) % PageSize = 0

AcquirePage ==
  /\ Len(batch) > 1 /\ row <= Len(batch)
  /\ LET r == batch[row] IN
       /\ First(r) < MaxSeqLen
       /\ IF StartsPage(r)
          THEN /\ Len(Held(r)) < MaxPagesPerSlot
               /\ free[layer] # <<>>
               /\ TakePages(layer, slot[r], 1)
               /\ block_tables' = Patched(layer, slot[r], First(r) \div PageSize, <<Head(free[layer])>>)
          ELSE UNCHANGED <<pages, block_tables>>
  /\ row' = row + 1
  /\ UNCHANGED <<stage, claims, counts, batch, layer, rows>>

(* acquire_for found no page, the position is past the cap, or the device    *)
(* failed: the layers before this one keep what they did.                    *)
ForwardFails ==
  /\ batch # <<>>
  /\ Abandon
  /\ UNCHANGED pages

-----------------------------------------------------------------------------
(* The row of the block table that the kernels look batch[i] up in: the      *)
(* host gives a lone request's by its slot; in a batch of several it is      *)
(* blockIdx, the place in the batch, to append and to attend alike.          *)
TableRow(i) == IF Len(batch) = 1 THEN slot[batch[i]] ELSE i - 1

Misplaced == \E i \in DOMAIN batch : TableRow(i) # slot[batch[i]]

(* Where row t of the table of layer l says that row q is.                   *)
PageOf(l, t, q) == block_tables[l][t][q \div PageSize]

(* What the batch writes to row k of page p: whose row it is. *)
Writers(p, k) ==
  {w \in Range(batch) \X (0..(MaxSeqLen - 1)) :
     /\ w[2] \in First(w[1])..(End(w[1]) - 1)
     /\ w[2] % PageSize = k
     /\ \E i \in DOMAIN batch :
          batch[i] = w[1] /\ PageOf(layer, TableRow(i), w[2]) = p}

(* kv_append: two writers of one row race. *)
Appended ==
  [p \in Pages |-> [k \in 0..(PageSize - 1) |->
     LET W == Writers(p, k) IN
       IF W = {} THEN pool[layer][p][k]
       ELSE IF Cardinality(W) = 1 THEN CHOOSE w \in W : TRUE
       ELSE None]]

(* The last layer is done: chunks and tokens are counted, the first token is *)
(* sampled from the last chunk.                                              *)
Advance ==
  /\ prefilled' = [r \in Requests |->
       IF r \in Range(batch) /\ stage[r] = "prefill" THEN End(r) ELSE prefilled[r]]
  /\ produced' = [r \in Requests |->
       IF r \in Range(batch) /\ (stage[r] = "decode" \/ End(r) = PromptLen[r])
       THEN produced[r] + 1 ELSE produced[r]]
  /\ stage' = [r \in Requests |->
       IF r \in Range(batch) /\ End(r) = PromptLen[r] THEN "decode" ELSE stage[r]]

AppendRows ==
  /\ batch # <<>>
  /\ row > Len(batch)
  /\ pool' = [pool EXCEPT ![layer] = Appended]
  /\ misplaced' = (misplaced \/ Misplaced)
  /\ IF layer < NLayers
     THEN /\ layer' = layer + 1
          /\ row' = 1
          /\ UNCHANGED <<batch, stage, counts>>
     ELSE batch' = <<>> /\ Advance /\ UNCHANGED <<layer, row>>
  /\ UNCHANGED <<claims, pages, block_tables>>

-----------------------------------------------------------------------------
(* A stop token, a stop string or max_tokens. *)
Finish(r) ==
  /\ stage[r] = "decode"
  /\ r \notin Range(batch)
  /\ stage' = [stage EXCEPT ![r] = "exit"]
  /\ UNCHANGED <<claims, counts, forward, pages, device>>

(* Mutant: the list of held pages is copied, not taken. *)
ReleaseKeepsHeld(r) ==
  /\ stage[r] = "exit"
  /\ batch = <<>>
  /\ free' = [l \in Layers |-> free[l] \o per_slot_held[l][slot[r]]]
  /\ stage' = [stage EXCEPT ![r] = "release"]
  /\ UNCHANGED <<claims, counts, forward, per_slot_held, device>>

(* Mutant: only the pool of the first layer is told. *)
ReleaseFirstLayer(r) ==
  /\ stage[r] = "exit"
  /\ batch = <<>>
  /\ free' = [free EXCEPT ![1] = @ \o per_slot_held[1][slot[r]]]
  /\ per_slot_held' = [per_slot_held EXCEPT ![1][slot[r]] = <<>>]
  /\ stage' = [stage EXCEPT ![r] = "release"]
  /\ UNCHANGED <<claims, counts, forward, device>>

(* release_paged_slot: release_slot on the pool of every layer, under the    *)
(* session's mutex.                                                          *)
ReleasePages(r) ==
  /\ stage[r] = "exit"
  /\ batch = <<>>
  /\ free' = [l \in Layers |-> free[l] \o per_slot_held[l][slot[r]]]
  /\ per_slot_held' = [l \in Layers |-> [per_slot_held[l] EXCEPT ![slot[r]] = <<>>]]
  /\ stage' = [stage EXCEPT ![r] = "release"]
  /\ UNCHANGED <<claims, counts, forward, device>>

(* The claim is cleared after the pages were released. *)
ClearClaim(r) ==
  /\ stage[r] = "release"
  /\ slot_in_use' = [slot_in_use EXCEPT ![slot[r]] = FALSE]
  /\ slot' = [slot EXCEPT ![r] = None]
  /\ stage' = [stage EXCEPT ![r] = "done"]
  /\ UNCHANGED <<counts, forward, pages, device>>

AllDone == (\A r \in Requests : stage[r] = "done") /\ UNCHANGED vars

-----------------------------------------------------------------------------
(* PagePool::new: every page is free, in order; block tables are zeroed. *)
Init ==
  /\ stage = [r \in Requests |-> "queued"]
  /\ slot = [r \in Requests |-> None]
  /\ slot_in_use = [s \in Slots |-> FALSE]
  /\ prefilled = [r \in Requests |-> 0]
  /\ produced = [r \in Requests |-> 0]
  /\ batch = <<>> /\ layer = 1 /\ row = 1
  /\ free = [l \in Layers |-> [i \in 1..NPages |-> i - 1]]
  /\ per_slot_held = [l \in Layers |-> [s \in Slots |-> <<>>]]
  /\ block_tables = [l \in Layers |-> [s \in Slots |-> [k \in 0..(MaxPagesPerSlot - 1) |-> 0]]]
  /\ pool = [l \in Layers |-> [p \in Pages |-> [i \in 0..(PageSize - 1) |-> None]]]
  /\ misplaced = FALSE

(* At most one row per slot: as many requests as there are slots. *)
Batches == UNION {[1..n -> Requests] : n \in 1..NSlots}

ForwardStep ==
  \/ EnsurePages \/ EnsureExhausted \/ AcquirePage \/ AppendRows \/ ForwardFails

RequestStep(r) ==
  Claim(r) \/ StartPrefill(r) \/ Finish(r) \/ ReleasePages(r) \/ ClearClaim(r)

Next ==
  \/ \E r \in Requests : RequestStep(r)
  \/ \E reqs \in Batches : StartDecode(reqs)
  \/ ForwardStep
  \/ AllDone

Spec == Init /\ [][Next]_vars

-----------------------------------------------------------------------------
(* The variables of PagedKv stay within their types, and a request has a     *)
(* slot from its claim until the claim is cleared.                           *)
TypeOK ==
  /\ stage \in [Requests -> Stages]
  /\ slot \in [Requests -> Slots \cup {None}]
  /\ \A r \in Requests : slot[r] = None <=> stage[r] \in {"queued", "done"}
  /\ slot_in_use \in [Slots -> BOOLEAN]
  /\ prefilled \in [Requests -> Nat]
  /\ produced \in [Requests -> Nat]
  /\ batch \in Seq(Requests)
  /\ layer \in Layers
  /\ row \in Nat \ {0}
  /\ free \in [Layers -> Seq(Pages)]
  /\ per_slot_held \in [Layers -> [Slots -> Seq(Pages)]]
  /\ block_tables \in [Layers -> [Slots -> [0..(MaxPagesPerSlot - 1) -> Pages]]]
  /\ pool \in [Layers -> [Pages -> [0..(PageSize - 1) ->
                 (Requests \X (0..(MaxSeqLen - 1))) \cup {None}]]]
  /\ misplaced \in BOOLEAN

(* The free list of a layer and the pages of its slots never name a page     *)
(* twice, through growth that stops half way, failed forwards and releases.  *)
NoPageTwice ==
  \A l \in Layers :
    /\ IsInjective(free[l])
    /\ \A s \in Slots :
         /\ IsInjective(per_slot_held[l][s])
         /\ Range(per_slot_held[l][s]) \cap Range(free[l]) = {}
         /\ \A t \in Slots \ {s} :
              Range(per_slot_held[l][s]) \cap Range(per_slot_held[l][t]) = {}

(* No page of a layer is ever lost: it is free or some slot holds it. *)
NoPageLost ==
  \A l \in Layers :
    Pages = Range(free[l]) \cup UNION {Range(per_slot_held[l][s]) : s \in Slots}

(* A slot that may be claimed holds no page, however its last request ended: *)
(* release_slot recycles the pages before it clears the claim.               *)
FreeSlotsHoldNothing ==
  \A s \in Slots : ~slot_in_use[s] => \A l \in Layers : per_slot_held[l][s] = <<>>

(* The device's block table of a serving slot names the pages the host holds *)
(* for it, in order, although growing alone and growing in a batch write it  *)
(* differently.                                                              *)
TableNamesHeldPages ==
  \A r \in Requests, l \in Layers :
    Serving(r) =>
      LET held == per_slot_held[l][slot[r]] IN
        \A k \in DOMAIN held : block_tables[l][slot[r]][k - 1] = held[k]

(* What r wrote in layer l. Its decodes start one row past its prompt.       *)
WrittenRows(r, l) ==
  0..(prefilled[r] - 1)
    \cup (PromptLen[r] + 1)..(PromptLen[r] + produced[r] - 1)
    \cup (IF r \in Range(batch) /\ l < layer THEN First(r)..(End(r) - 1) ELSE {})

(* As long as every request of a batch stood at the place of its slot, every *)
(* row a serving request has written is found again where its own block      *)
(* table says, in every layer, whatever other requests wrote meanwhile and   *)
(* whoever held the pages before.                                            *)
RowsAreOwn ==
  ~misplaced =>
    \A r \in Requests, l \in Layers :
      Serving(r) =>
        \A q \in WrittenRows(r, l) :
          pool[l][PageOf(l, slot[r], q)][q % PageSize] = <<r, q>>

LacksPage ==
  IF Len(batch) = 1
  THEN row = 1 /\ End(batch[1]) <= MaxSeqLen /\ Missing(batch[1]) > Len(free[layer])
  ELSE /\ row \in DOMAIN batch
       /\ First(batch[row]) < MaxSeqLen
       /\ StartsPage(batch[row])
       /\ free[layer] = <<>> \/ Len(Held(batch[row])) >= MaxPagesPerSlot

(* The rows that a request has or is about to have, and the requests that    *)
(* may hold pages for theirs.                                                *)
RowsOf(r) ==
  IF prefilled[r] = PromptLen[r] THEN PromptLen[r] + produced[r] + 1
  ELSE IF prefilled[r] + ChunkTokens <= PromptLen[r] THEN prefilled[r] + ChunkTokens
  ELSE PromptLen[r]

Holders == {r \in Requests : stage[r] \in {"prefill", "decode", "exit"}}

(* A forward lacks a page only if the rows of the requests that have a slot  *)
(* need more pages than there are: nothing is hoarded through failures and   *)
(* growth in two ways.  So the floor of --paged-kv, max_slots times          *)
(* max_pages_per_slot, is enough.                                            *)
ExhaustedOnlyWhenNeeded ==
  LacksPage => SumFunctionOnSet([r \in Holders |-> PagesFor(RowsOf(r))], Holders) > NPages

(* "Append: write the slot's next token to                                   *)
(* block_tables[s][position / page_size]": the page that the kernel is about *)
(* to write a row to is the one that its slot holds for that row.            *)
AppendsInHeldPages ==
  batch # <<>> /\ row > Len(batch) =>
    \A i \in DOMAIN batch :
      \A q \in First(batch[i])..(End(batch[i]) - 1) :
        LET held == Held(batch[i])
            k == q \div PageSize + 1
        IN  k \in DOMAIN held /\ PageOf(layer, TableRow(i), q) = held[k]
=============================================================================
