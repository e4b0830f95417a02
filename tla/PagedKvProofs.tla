--------------------------- MODULE PagedKvProofs ---------------------------
(***************************************************************************)
(* Theorems about PagedKv, for any number of requests, slots, layers and   *)
(* pages and any page size: first the sequences that a PagePool is made    *)
(* of, then types and ownership of slots, then the pages, then, for        *)
(* prompts that end inside a page, the block tables and the rows, and      *)
(* last, for any prompts, the pages that are held against those needed.    *)
(***************************************************************************)
EXTENDS PagedKv, FoldProofs, SequenceTheorems

-----------------------------------------------------------------------------
(* Two lists of pages that together name no page twice. *)
Apart(f, h) == IsInjective(f) /\ IsInjective(h) /\ Range(f) \cap Range(h) = {}

(* What the three conditions say of positions. *)
LEMMA ApartByPosition ==
  ASSUME NEW S, NEW f \in Seq(S), NEW h \in Seq(S)
  PROVE  Apart(f, h) <=>
           /\ \A i, j \in 1..Len(f) : f[i] = f[j] => i = j
           /\ \A i, j \in 1..Len(h) : h[i] = h[j] => i = j
           /\ \A i \in 1..Len(f), j \in 1..Len(h) : f[i] # h[j]
<1>1. DOMAIN f = 1..Len(f) /\ DOMAIN h = 1..Len(h)
  OBVIOUS
<1>2. IsInjective(f) <=> \A i, j \in 1..Len(f) : f[i] = f[j] => i = j
  BY <1>1 DEF IsInjective
<1>3. IsInjective(h) <=> \A i, j \in 1..Len(h) : h[i] = h[j] => i = j
  BY <1>1 DEF IsInjective
<1>4. Range(f) \cap Range(h) = {}
        <=> \A i \in 1..Len(f), j \in 1..Len(h) : f[i] # h[j]
  BY <1>1, Zenon DEF Range
<1> QED BY <1>2, <1>3, <1>4 DEF Apart

(* Position by position, rest is f without its first k elements, and got is  *)
(* h followed by those elements.                                             *)
Moved(f, h, k, rest, got) ==
  /\ Len(rest) = Len(f) - k
  /\ Len(got) = Len(h) + k
  /\ \A i \in 1..Len(rest) : rest[i] = f[k + i]
  /\ \A i \in 1..Len(got) : got[i] = IF i <= Len(h) THEN h[i] ELSE f[i - Len(h)]

(* Moving the first k elements of one list to the end of another keeps the   *)
(* lists apart and loses none of their elements, position by position.       *)
LEMMA MoveByPosition ==
  ASSUME NEW S, NEW f \in Seq(S), NEW h \in Seq(S), NEW k \in 0..Len(f),
         NEW rest \in Seq(S), NEW got \in Seq(S),
         Apart(f, h), Moved(f, h, k, rest, got)
  PROVE  /\ Apart(rest, got)
         /\ Range(rest) \cup Range(got) = Range(f) \cup Range(h)
<1>1. /\ Len(f) \in Nat /\ Len(h) \in Nat /\ k \in Nat /\ k <= Len(f)
      /\ DOMAIN f = 1..Len(f) /\ DOMAIN h = 1..Len(h)
      /\ DOMAIN rest = 1..Len(rest) /\ DOMAIN got = 1..Len(got)
      /\ Len(rest) = Len(f) - k /\ Len(got) = Len(h) + k
  BY DEF Moved
<1>2. /\ \A i, j \in 1..Len(f) : f[i] = f[j] => i = j
      /\ \A i, j \in 1..Len(h) : h[i] = h[j] => i = j
      /\ \A i \in 1..Len(f), j \in 1..Len(h) : f[i] # h[j]
  BY ApartByPosition
<1>3. ASSUME NEW i \in 1..Len(rest)
      PROVE  k + i \in 1..Len(f) /\ rest[i] = f[k + i]
  BY <1>1 DEF Moved
<1>4. ASSUME NEW i \in 1..Len(got)
      PROVE  \/ i \in 1..Len(h) /\ got[i] = h[i]
             \/ i > Len(h) /\ i - Len(h) \in 1..k /\ i - Len(h) \in 1..Len(f) /\ got[i] = f[i - Len(h)]
  BY <1>1 DEF Moved
<1>5. \A i, j \in 1..Len(rest) : rest[i] = rest[j] => i = j
  <2>1. SUFFICES ASSUME NEW i \in 1..Len(rest), NEW j \in 1..Len(rest), rest[i] = rest[j]
                 PROVE  i = j
    OBVIOUS
  <2>2. /\ k + i \in 1..Len(f) /\ rest[i] = f[k + i]
        /\ k + j \in 1..Len(f) /\ rest[j] = f[k + j]
    BY <1>3
  <2>3. k + i = k + j
    BY <2>1, <2>2, <1>2
  <2> QED BY <2>3, <1>1
<1>6. \A i, j \in 1..Len(got) : got[i] = got[j] => i = j
  <2>1. SUFFICES ASSUME NEW i \in 1..Len(got), NEW j \in 1..Len(got), got[i] = got[j]
                 PROVE  i = j
    OBVIOUS
  <2> DEFINE Old(n)  == n \in 1..Len(h) /\ got[n] = h[n]
             New(n)  == n - Len(h) \in 1..Len(f) /\ got[n] = f[n - Len(h)]
  <2>2. (Old(i) \/ New(i)) /\ (Old(j) \/ New(j))
    BY <1>4
  <2>3. CASE Old(i) /\ Old(j)
    BY <2>1, <2>3, <1>2
  <2>4. CASE Old(i) /\ New(j)
    BY <2>1, <2>4, <1>2
  <2>5. CASE New(i) /\ Old(j)
    BY <2>1, <2>5, <1>2
  <2>6. CASE New(i) /\ New(j)
    <3>1. i - Len(h) = j - Len(h)
      BY <2>1, <2>6, <1>2
    <3> QED BY <3>1, <1>1
  <2> QED BY <2>2, <2>3, <2>4, <2>5, <2>6
<1>7. \A i \in 1..Len(rest), j \in 1..Len(got) : rest[i] # got[j]
  <2>1. SUFFICES ASSUME NEW i \in 1..Len(rest), NEW j \in 1..Len(got)
                 PROVE  rest[i] # got[j]
    OBVIOUS
  <2>2. k + i \in 1..Len(f) /\ rest[i] = f[k + i]
    BY <1>3
  <2>3. CASE j \in 1..Len(h) /\ got[j] = h[j]
    BY <2>2, <2>3, <1>2
  <2>4. CASE j - Len(h) \in 1..k /\ j - Len(h) \in 1..Len(f) /\ got[j] = f[j - Len(h)]
    <3>1. j - Len(h) # k + i
      BY <2>4, <1>1
    <3> QED BY <2>2, <2>4, <3>1, <1>2
  <2> QED BY <2>3, <2>4, <1>4
<1>8. Apart(rest, got)
  BY <1>5, <1>6, <1>7, ApartByPosition
<1>9. Range(rest) \subseteq Range(f)
  BY <1>1, <1>3, Zenon DEF Range
<1>10. Range(got) \subseteq Range(f) \cup Range(h)
  BY <1>1, <1>4, Zenon DEF Range
<1>11. Range(f) \subseteq Range(rest) \cup Range(got)
  <2>1. ASSUME NEW i \in 1..Len(f)
        PROVE  \/ Len(h) + i \in 1..Len(got) /\ f[i] = got[Len(h) + i]
               \/ i - k \in 1..Len(rest) /\ f[i] = rest[i - k]
    <3>1. CASE i <= k
      <4>1. /\ Len(h) + i \in 1..Len(got) /\ ~(Len(h) + i <= Len(h))
            /\ (Len(h) + i) - Len(h) = i
        BY <3>1, <1>1
      <4> QED BY <4>1 DEF Moved
    <3>2. CASE i > k
      <4>1. i - k \in 1..Len(rest) /\ k + (i - k) = i
        BY <3>2, <1>1
      <4>2. rest[i - k] = f[k + (i - k)]
        BY <4>1, <1>3
      <4> QED BY <4>1, <4>2
    <3> QED BY <3>1, <3>2, <1>1
  <2> QED BY <1>1, <2>1, Zenon DEF Range
<1>12. Range(h) \subseteq Range(got)
  <2>1. ASSUME NEW i \in 1..Len(h)
        PROVE  i \in 1..Len(got) /\ h[i] = got[i]
    BY <1>1 DEF Moved
  <2> QED BY <1>1, <2>1, Zenon DEF Range
<1> QED BY <1>8, <1>9, <1>10, <1>11, <1>12

(* The first k elements of f move to the end of h, as pop_front and push do. *)
LEMMA MoveFront ==
  ASSUME NEW S, NEW f \in Seq(S), NEW h \in Seq(S), NEW k \in 0..Len(f),
         Apart(f, h)
  PROVE  LET rest == SubSeq(f, k + 1, Len(f))
             got  == h \o SubSeq(f, 1, k)
         IN  /\ rest \in Seq(S) /\ got \in Seq(S)
             /\ Apart(rest, got)
             /\ Range(rest) \cup Range(got) = Range(f) \cup Range(h)
<1> DEFINE front == SubSeq(f, 1, k)
           rest  == SubSeq(f, k + 1, Len(f))
           got   == h \o front
<1>1. /\ front \in Seq(S) /\ Len(front) = k
      /\ \A i \in 1..k : front[i] = f[i]
  BY SubSeqProperties
<1>2. /\ rest \in Seq(S) /\ Len(rest) = Len(f) - k
      /\ \A i \in 1..Len(rest) : rest[i] = f[k + i]
  BY SubSeqProperties
<1> HIDE DEF front
<1>3. /\ got \in Seq(S) /\ Len(got) = Len(h) + Len(front)
      /\ \A i \in 1..(Len(h) + Len(front)) : got[i] = IF i <= Len(h) THEN h[i] ELSE front[i - Len(h)]
  BY <1>1, ConcatProperties
<1> HIDE DEF rest, got
<1>4. Moved(f, h, k, rest, got)
  BY <1>1, <1>2, <1>3 DEF Moved
<1>5. Apart(rest, got) /\ Range(rest) \cup Range(got) = Range(f) \cup Range(h)
  BY <1>2, <1>3, <1>4, MoveByPosition
<1> QED BY <1>2, <1>3, <1>5 DEF rest, got, front

(* release_slot: the whole of h goes to the end of f. *)
LEMMA JoinApart ==
  ASSUME NEW S, NEW f \in Seq(S), NEW h \in Seq(S), Apart(f, h)
  PROVE  /\ f \o h \in Seq(S)
         /\ IsInjective(f \o h)
         /\ Range(f \o h) = Range(f) \cup Range(h)
<1> DEFINE joined == f \o h
<1>1. /\ joined \in Seq(S) /\ Len(joined) = Len(f) + Len(h)
      /\ \A i \in 1..(Len(f) + Len(h)) :
           joined[i] = IF i <= Len(f) THEN f[i] ELSE h[i - Len(f)]
  BY ConcatProperties
<1> HIDE DEF joined
<1>2. /\ Len(f) \in Nat /\ Len(h) \in Nat
      /\ DOMAIN f = 1..Len(f) /\ DOMAIN h = 1..Len(h)
      /\ DOMAIN joined = 1..(Len(f) + Len(h))
  BY <1>1
<1>3. /\ \A i, j \in 1..Len(f) : f[i] = f[j] => i = j
      /\ \A i, j \in 1..Len(h) : h[i] = h[j] => i = j
      /\ \A i \in 1..Len(f), j \in 1..Len(h) : f[i] # h[j]
  BY ApartByPosition
<1>4. ASSUME NEW i \in DOMAIN joined, NEW j \in DOMAIN joined, joined[i] = joined[j]
      PROVE  i = j
  <2> DEFINE Old(n) == n \in 1..Len(f) /\ joined[n] = f[n]
             New(n) == n - Len(f) \in 1..Len(h) /\ joined[n] = h[n - Len(f)]
  <2>1. (Old(i) \/ New(i)) /\ (Old(j) \/ New(j))
    BY <1>1, <1>2
  <2>2. CASE Old(i) /\ Old(j)
    BY <1>3, <1>4, <2>2
  <2>3. CASE Old(i) /\ New(j)
    BY <1>3, <1>4, <2>3
  <2>4. CASE New(i) /\ Old(j)
    BY <1>3, <1>4, <2>4
  <2>5. CASE New(i) /\ New(j)
    <3>1. i - Len(f) = j - Len(f)
      BY <1>3, <1>4, <2>5
    <3> QED BY <3>1, <1>2
  <2> QED BY <2>1, <2>2, <2>3, <2>4, <2>5
<1>5. ASSUME NEW i \in DOMAIN joined
      PROVE  \/ i \in DOMAIN f /\ joined[i] = f[i]
             \/ i - Len(f) \in DOMAIN h /\ joined[i] = h[i - Len(f)]
  BY <1>1, <1>2
<1>6. ASSUME NEW i \in DOMAIN f
      PROVE  i \in DOMAIN joined /\ f[i] = joined[i]
  BY <1>1, <1>2
<1>7. ASSUME NEW i \in DOMAIN h
      PROVE  Len(f) + i \in DOMAIN joined /\ h[i] = joined[Len(f) + i]
  BY <1>1, <1>2
<1>8. Range(joined) \subseteq Range(f) \cup Range(h)
  BY <1>5, Zenon DEF Range
<1>9. Range(f) \cup Range(h) \subseteq Range(joined)
  BY <1>6, <1>7, Zenon DEF Range
<1> QED BY <1>1, <1>4, <1>8, <1>9 DEF joined, IsInjective

-----------------------------------------------------------------------------
(* The requests of a forward are serving: they have slots. *)
BatchInv == \A i \in DOMAIN batch : Serving(batch[i])

TypeInv == TypeOK /\ BatchInv

(* A serving request has a slot, and so has every request of the batch. *)
LEMMA BatchHasSlots ==
  ASSUME TypeInv, NEW i \in DOMAIN batch
  PROVE  batch[i] \in Requests /\ Serving(batch[i]) /\ slot[batch[i]] \in Slots
<1>1. batch \in Seq(Requests) /\ Serving(batch[i])
  BY DEF TypeInv, TypeOK, BatchInv
<1>2. batch[i] \in Requests
  BY <1>1
<1> QED BY <1>1, <1>2 DEF Serving, TypeInv, TypeOK

(* The rows that a forward writes are counted by naturals. *)
LEMMA RowsAreNat ==
  ASSUME TypeInv, NEW r \in Requests
  PROVE  First(r) \in Nat /\ End(r) \in Nat
  BY PagedKvAssumption DEF TypeInv, TypeOK, First, End

(* What a request lacks is a number of pages. *)
LEMMA MissingIsNat ==
  ASSUME TypeInv, NEW r \in Requests, slot[r] \in Slots
  PROVE  Missing(r) \in Nat
<1>1. PagesFor(End(r)) \in Int
  BY RowsAreNat, PagedKvAssumption DEF PagesFor
<1>2. Held(r) \in Seq(Pages)
  BY DEF Held, TypeInv, TypeOK
<1> QED BY <1>1, <1>2 DEF Missing

(* acquire_for, k times: the lists stay lists of pages. *)
LEMMA TakePagesType ==
  ASSUME TypeInv, NEW s \in Slots, NEW k \in 0..Len(free[layer]), TakePages(layer, s, k)
  PROVE  /\ free' \in [Layers -> Seq(Pages)]
         /\ per_slot_held' \in [Layers -> [Slots -> Seq(Pages)]]
<1>1. layer \in Layers /\ free[layer] \in Seq(Pages) /\ per_slot_held[layer][s] \in Seq(Pages)
  BY DEF TypeInv, TypeOK
<1>2. SubSeq(free[layer], k + 1, Len(free[layer])) \in Seq(Pages)
  BY <1>1, SubSeqProperties
<1>3. SubSeq(free[layer], 1, k) \in Seq(Pages)
  BY <1>1, SubSeqProperties
<1>4. per_slot_held[layer][s] \o SubSeq(free[layer], 1, k) \in Seq(Pages)
  BY <1>1, <1>3, ConcatProperties
<1> QED BY <1>1, <1>2, <1>4 DEF TakePages, TypeInv, TypeOK

(* Entering pages in a block table leaves it a table of pages. *)
LEMMA PatchedType ==
  ASSUME TypeInv, NEW s \in Slots, NEW from, NEW ps \in Seq(Pages)
  PROVE  Patched(layer, s, from, ps)
           \in [Layers -> [Slots -> [0..(MaxPagesPerSlot - 1) -> Pages]]]
<1> DEFINE table == block_tables[layer][s]
           entry(n) == IF n - from + 1 \in DOMAIN ps THEN ps[n - from + 1] ELSE table[n]
<1>1. layer \in Layers /\ table \in [0..(MaxPagesPerSlot - 1) -> Pages]
  BY DEF TypeInv, TypeOK
<1>2. ASSUME NEW n \in DOMAIN table
      PROVE  entry(n) \in Pages
  <2>1. table[n] \in Pages
    BY <1>1
  <2>2. \A j \in DOMAIN ps : ps[j] \in Pages
    OBVIOUS
  <2> HIDE DEF table
  <2> QED BY <2>1, <2>2
<1>3. [n \in DOMAIN table |-> entry(n)] \in [0..(MaxPagesPerSlot - 1) -> Pages]
  BY <1>1, <1>2
<1>4. Patched(layer, s, from, ps)
        = [block_tables EXCEPT ![layer][s] = [n \in DOMAIN table |-> entry(n)]]
  BY DEF Patched
<1> HIDE DEF table, entry
<1> QED BY <1>1, <1>3, <1>4 DEF TypeInv, TypeOK

(* An appended row is that of a request of the batch, or unknown. *)
LEMMA AppendedType ==
  ASSUME TypeInv
  PROVE  Appended \in [Pages -> [0..(PageSize - 1) ->
                         (Requests \X (0..(MaxSeqLen - 1))) \cup {None}]]
<1> DEFINE Row == (Requests \X (0..(MaxSeqLen - 1))) \cup {None}
<1>1. ASSUME NEW p \in Pages, NEW i \in 0..(PageSize - 1)
      PROVE  Appended[p][i] \in Row
  <2>1. Writers(p, i) \subseteq Requests \X (0..(MaxSeqLen - 1))
    BY DEF Writers, TypeInv, TypeOK, Range
  <2>2. pool[layer][p][i] \in Row
    <3>1. layer \in Layers /\ pool \in [Layers -> [Pages -> [0..(PageSize - 1) -> Row]]]
      BY DEF TypeInv, TypeOK
    <3> HIDE DEF Row
    <3>2. pool[layer] \in [Pages -> [0..(PageSize - 1) -> Row]]
      BY <3>1
    <3>3. pool[layer][p] \in [0..(PageSize - 1) -> Row]
      BY <3>2
    <3> QED BY <3>3
  <2>3. Writers(p, i) # {} => (CHOOSE w \in Writers(p, i) : TRUE) \in Writers(p, i)
    OBVIOUS
  <2>4. Appended[p][i] =
          IF Writers(p, i) = {} THEN pool[layer][p][i]
          ELSE IF Cardinality(Writers(p, i)) = 1 THEN CHOOSE w \in Writers(p, i) : TRUE
          ELSE None
    BY DEF Appended
  <2> QED BY <2>1, <2>2, <2>3, <2>4
<1> QED BY <1>1 DEF Appended

-----------------------------------------------------------------------------
(* The initial state has the types. *)
LEMMA InitTypes == Init => TypeInv
<1> SUFFICES ASSUME Init PROVE TypeInv
  OBVIOUS
<1> USE PagedKvAssumption
<1>1. [i \in 1..NPages |-> i - 1] \in Seq(Pages)
  BY DEF Pages
<1>2. 0 \in Pages /\ 1 \in Layers
  BY DEF Pages, Layers
<1>3. free \in [Layers -> Seq(Pages)] /\ per_slot_held \in [Layers -> [Slots -> Seq(Pages)]]
  BY <1>1 DEF Init
<1>4. block_tables \in [Layers -> [Slots -> [0..(MaxPagesPerSlot - 1) -> Pages]]]
  BY <1>2 DEF Init
<1>5. pool \in [Layers -> [Pages -> [0..(PageSize - 1) ->
                  (Requests \X (0..(MaxSeqLen - 1))) \cup {None}]]]
  BY DEF Init
<1>6. slot_in_use \in [Slots -> BOOLEAN] /\ misplaced \in BOOLEAN
  BY Zenon DEF Init
<1>7. /\ stage \in [Requests -> Stages] /\ slot \in [Requests -> Slots \cup {None}]
      /\ \A r \in Requests : slot[r] = None <=> stage[r] \in {"queued", "done"}
  BY DEF Init, Stages
<1>8. /\ prefilled \in [Requests -> Nat] /\ produced \in [Requests -> Nat]
      /\ batch \in Seq(Requests) /\ layer \in Layers /\ row \in Nat \ {0}
  BY <1>2 DEF Init
<1>9. TypeOK
  BY <1>3, <1>4, <1>5, <1>6, <1>7, <1>8, Zenon DEF TypeOK
<1> QED BY <1>9 DEF TypeInv, BatchInv, Init

(* A batch that does not change stays a batch of serving requests, if none   *)
(* of its requests changes its stage.                                        *)
LEMMA SameBatch ==
  ASSUME TypeInv, batch' = batch,
         \A i \in DOMAIN batch : stage'[batch[i]] = stage[batch[i]]
  PROVE  BatchInv'
  BY DEF TypeInv, BatchInv, Serving

(* A request that ends for an error had a slot, and keeps it. *)
LEMMA AbandonTypes ==
  ASSUME TypeInv, Abandon, free' \in [Layers -> Seq(Pages)],
         per_slot_held' \in [Layers -> [Slots -> Seq(Pages)]]
  PROVE  TypeInv'
<1>1. stage' \in [Requests -> Stages]
  BY DEF Abandon, TypeInv, TypeOK, Stages
<1>2. ASSUME NEW r \in Requests
      PROVE  slot'[r] = None <=> stage'[r] \in {"queued", "done"}
  <2>1. CASE r \in Range(batch)
    <3>1. PICK i \in DOMAIN batch : batch[i] = r
      BY <2>1 DEF Range
    <3>2. slot[r] \in Slots
      BY <3>1, BatchHasSlots
    <3> QED BY <2>1, <3>2, PagedKvAssumption DEF Abandon, claims
  <2>2. CASE r \notin Range(batch)
    BY <2>2 DEF Abandon, claims, TypeInv, TypeOK
  <2> QED BY <2>1, <2>2
<1>3. batch' \in Seq(Requests) /\ BatchInv'
  BY DEF Abandon, BatchInv
<1> QED BY <1>1, <1>2, <1>3
     DEF Abandon, claims, counts, device, rows, TypeInv, TypeOK

(* The forward's steps preserve the types. *)
LEMMA ForwardTypes ==
  ASSUME TypeInv, ForwardStep
  PROVE  TypeInv'
<1>1. CASE EnsurePages
  <2> DEFINE r == batch[1]
             got == SubSeq(free[layer], 1, Missing(r))
  <2>1. 1 \in DOMAIN batch
    BY <1>1 DEF EnsurePages, TypeInv, TypeOK
  <2>2. r \in Requests /\ slot[r] \in Slots
    BY <2>1, BatchHasSlots
  <2>3. Missing(r) \in 0..Len(free[layer])
    BY <1>1, <2>2, MissingIsNat DEF EnsurePages
  <2>4. got \in Seq(Pages)
    BY <2>3, SubSeqProperties DEF TypeInv, TypeOK
  <2>5. /\ free' \in [Layers -> Seq(Pages)]
        /\ per_slot_held' \in [Layers -> [Slots -> Seq(Pages)]]
    BY <1>1, <2>2, <2>3, TakePagesType DEF EnsurePages
  <2>6. block_tables' \in [Layers -> [Slots -> [0..(MaxPagesPerSlot - 1) -> Pages]]]
    BY <1>1, <2>2, <2>4, PatchedType DEF EnsurePages
  <2>7. BatchInv'
    BY <1>1, SameBatch DEF EnsurePages
  <2> QED BY <1>1, <2>5, <2>6, <2>7 DEF EnsurePages, claims, counts, rows, TypeInv, TypeOK
<1>2. CASE EnsureExhausted
  <2> DEFINE r == batch[1]
  <2>1. 1 \in DOMAIN batch
    BY <1>2 DEF EnsureExhausted, TypeInv, TypeOK
  <2>2. r \in Requests /\ slot[r] \in Slots
    BY <2>1, BatchHasSlots
  <2>3. Len(free[layer]) \in 0..Len(free[layer])
    BY DEF TypeInv, TypeOK
  <2>4. /\ free' \in [Layers -> Seq(Pages)]
        /\ per_slot_held' \in [Layers -> [Slots -> Seq(Pages)]]
    BY <1>2, <2>2, <2>3, TakePagesType DEF EnsureExhausted
  <2> QED BY <1>2, <2>4, AbandonTypes DEF EnsureExhausted
<1>3. CASE AcquirePage
  <2> DEFINE r == batch[row]
  <2>1. row \in DOMAIN batch
    BY <1>3 DEF AcquirePage, TypeInv, TypeOK
  <2>2. r \in Requests /\ slot[r] \in Slots
    BY <2>1, BatchHasSlots
  <2>3. /\ free' \in [Layers -> Seq(Pages)]
        /\ per_slot_held' \in [Layers -> [Slots -> Seq(Pages)]]
        /\ block_tables' \in [Layers -> [Slots -> [0..(MaxPagesPerSlot - 1) -> Pages]]]
    <3>1. CASE StartsPage(r)
      <4>1. free[layer] \in Seq(Pages) /\ free[layer] # <<>>
        BY <1>3, <3>1 DEF AcquirePage, TypeInv, TypeOK
      <4>2. 1 \in 0..Len(free[layer]) /\ <<Head(free[layer])>> \in Seq(Pages)
        BY <4>1
      <4>3. /\ TakePages(layer, slot[r], 1)
            /\ block_tables' = Patched(layer, slot[r], First(r) \div PageSize, <<Head(free[layer])>>)
        BY <1>3, <3>1 DEF AcquirePage
      <4>4. block_tables' \in [Layers -> [Slots -> [0..(MaxPagesPerSlot - 1) -> Pages]]]
        BY <2>2, <4>2, <4>3, PatchedType
      <4> QED BY <2>2, <4>2, <4>3, <4>4, TakePagesType
    <3>2. CASE ~StartsPage(r)
      BY <1>3, <3>2 DEF AcquirePage, pages, TypeInv, TypeOK
    <3> QED BY <3>1, <3>2
  <2>4. BatchInv'
    BY <1>3, SameBatch DEF AcquirePage
  <2>5. row' \in Nat \ {0}
    BY <1>3 DEF AcquirePage, TypeInv, TypeOK
  <2> QED BY <1>3, <2>3, <2>4, <2>5 DEF AcquirePage, claims, counts, rows, TypeInv, TypeOK
<1>4. CASE AppendRows
  <2>0. misplaced' \in BOOLEAN
    BY <1>4 DEF AppendRows, TypeInv, TypeOK
  <2>1. pool' \in [Layers -> [Pages -> [0..(PageSize - 1) ->
                    (Requests \X (0..(MaxSeqLen - 1))) \cup {None}]]]
    BY <1>4, AppendedType DEF AppendRows, TypeInv, TypeOK
  <2>2. CASE layer < NLayers
    <3>1. layer' \in Layers
      BY <1>4, <2>2, PagedKvAssumption DEF AppendRows, TypeInv, TypeOK, Layers
    <3>2. BatchInv'
      BY <1>4, <2>2, SameBatch DEF AppendRows
    <3> QED BY <1>4, <2>1, <2>2, <3>1, <3>2, <2>0
         DEF AppendRows, claims, counts, pages, TypeInv, TypeOK
  <2>3. CASE ~(layer < NLayers)
    <3>1. Advance /\ batch' = <<>> /\ UNCHANGED <<claims, pages, block_tables, layer, row>>
      BY <1>4, <2>3 DEF AppendRows
    <3>2. prefilled' \in [Requests -> Nat] /\ produced' \in [Requests -> Nat]
      BY <3>1, RowsAreNat DEF Advance, TypeInv, TypeOK
    <3>3. stage' \in [Requests -> Stages]
      BY <3>1 DEF Advance, TypeInv, TypeOK, Stages
    <3>4. ASSUME NEW r \in Requests
          PROVE  slot'[r] = None <=> stage'[r] \in {"queued", "done"}
      <4>1. CASE r \in Range(batch)
        <5>1. PICK i \in DOMAIN batch : batch[i] = r
          BY <4>1 DEF Range
        <5>2. slot[r] \in Slots /\ Serving(r)
          BY <5>1, BatchHasSlots
        <5> QED BY <3>1, <5>2, PagedKvAssumption DEF Advance, claims, Serving
      <4>2. CASE r \notin Range(batch)
        BY <3>1, <4>2 DEF Advance, claims, TypeInv, TypeOK
      <4> QED BY <4>1, <4>2
    <3>5. batch' \in Seq(Requests) /\ BatchInv'
      BY <3>1 DEF BatchInv
    <3> QED BY <2>0, <2>1, <3>1, <3>2, <3>3, <3>4, <3>5 DEF claims, pages, TypeInv, TypeOK
  <2> QED BY <2>2, <2>3
<1>5. CASE ForwardFails
  BY <1>5, AbandonTypes DEF ForwardFails, pages, TypeInv, TypeOK
<1> QED BY <1>1, <1>2, <1>3, <1>4, <1>5 DEF ForwardStep

(* A step of a request changes its stage to one that fits its slot. *)
LEMMA RequestTypes ==
  ASSUME TypeInv, NEW r \in Requests, RequestStep(r)
  PROVE  TypeInv'
<1>1. CASE Claim(r)
  <2>1. PICK s \in Slots : slot' = [slot EXCEPT ![r] = s]
                           /\ slot_in_use' = [slot_in_use EXCEPT ![s] = TRUE]
    BY <1>1 DEF Claim
  <2>2. BatchInv'
    <3>1. \A i \in DOMAIN batch : batch[i] # r
      BY <1>1, BatchHasSlots DEF Claim, Serving
    <3> QED BY <1>1, <3>1, BatchHasSlots, SameBatch DEF Claim, forward, TypeInv, TypeOK
  <2>3. /\ stage' = [stage EXCEPT ![r] = "prefill"]
        /\ UNCHANGED <<prefilled, produced, batch, layer, row, free, per_slot_held,
                       block_tables, pool, misplaced>>
    BY <1>1 DEF Claim, counts, forward, pages, device, rows
  <2>4. /\ stage' \in [Requests -> Stages] /\ slot' \in [Requests -> Slots \cup {None}]
        /\ slot_in_use' \in [Slots -> BOOLEAN]
    BY <2>1, <2>3 DEF TypeInv, TypeOK, Stages
  <2>5. \A q \in Requests : slot'[q] = None <=> stage'[q] \in {"queued", "done"}
    BY <2>1, <2>3, PagedKvAssumption DEF TypeInv, TypeOK
  <2>6. TypeOK'
    BY <2>3, <2>4, <2>5 DEF TypeInv, TypeOK
  <2> QED BY <2>2, <2>6 DEF TypeInv
<1>2. CASE StartPrefill(r)
  <2>1. batch' = <<r>> /\ layer' = 1 /\ row' = 1 /\ stage[r] = "prefill"
        /\ UNCHANGED <<stage, claims, counts, pages, device>>
    BY <1>2 DEF StartPrefill, StartForward
  <2>2. BatchInv'
    BY <2>1 DEF BatchInv, Serving
  <2>3. batch' \in Seq(Requests)
    BY <2>1
  <2>4. layer' \in Layers /\ row' \in Nat \ {0}
    BY <2>1, PagedKvAssumption DEF Layers
  <2>5. TypeOK'
    BY <2>1, <2>3, <2>4 DEF claims, counts, pages, device, rows, TypeInv, TypeOK
  <2> QED BY <2>2, <2>5 DEF TypeInv
<1>3. CASE Finish(r)
  <2>1. BatchInv'
    <3>1. \A i \in DOMAIN batch : batch[i] # r
      BY <1>3 DEF Finish, Range
    <3> QED BY <1>3, <3>1, BatchHasSlots, SameBatch DEF Finish, forward, TypeInv, TypeOK
  <2> QED BY <1>3, <2>1
       DEF Finish, claims, counts, forward, pages, device, rows, TypeInv, TypeOK, Stages
<1>4. CASE ReleasePages(r)
  <2>1. slot[r] \in Slots
    BY <1>4 DEF ReleasePages, TypeInv, TypeOK
  <2>2. ASSUME NEW l \in Layers
        PROVE  /\ free[l] \o per_slot_held[l][slot[r]] \in Seq(Pages)
               /\ [per_slot_held[l] EXCEPT ![slot[r]] = <<>>] \in [Slots -> Seq(Pages)]
    <3>1. /\ free[l] \in Seq(Pages) /\ per_slot_held[l] \in [Slots -> Seq(Pages)]
          /\ per_slot_held[l][slot[r]] \in Seq(Pages)
      BY <2>1 DEF TypeInv, TypeOK
    <3>2. free[l] \o per_slot_held[l][slot[r]] \in Seq(Pages)
      BY <3>1, ConcatProperties
    <3>3. <<>> \in Seq(Pages)
      OBVIOUS
    <3> QED BY <3>1, <3>2, <3>3, Zenon
  <2>3. /\ free' \in [Layers -> Seq(Pages)]
        /\ per_slot_held' \in [Layers -> [Slots -> Seq(Pages)]]
    BY <1>4, <2>2 DEF ReleasePages
  <2>4. BatchInv'
    BY <1>4 DEF ReleasePages, forward, BatchInv
  <2> QED BY <1>4, <2>3, <2>4
       DEF ReleasePages, claims, counts, forward, device, rows, TypeInv, TypeOK, Stages
<1>5. CASE ClearClaim(r)
  <2>1. slot[r] \in Slots
    BY <1>5 DEF ClearClaim, TypeInv, TypeOK
  <2>2. BatchInv'
    <3>1. \A i \in DOMAIN batch : batch[i] # r
      BY <1>5, BatchHasSlots DEF ClearClaim, Serving
    <3> QED BY <1>5, <3>1, BatchHasSlots, SameBatch DEF ClearClaim, forward, TypeInv, TypeOK
  <2> QED BY <1>5, <2>1, <2>2
       DEF ClearClaim, counts, forward, pages, device, rows, TypeInv, TypeOK, Stages
<1> QED BY <1>1, <1>2, <1>3, <1>4, <1>5 DEF RequestStep

(* A batch that starts is one of decoding requests. *)
LEMMA StartDecodeTypes ==
  ASSUME TypeInv, NEW reqs \in Batches, StartDecode(reqs)
  PROVE  TypeInv'
<1>1. reqs \in Seq(Requests)
  BY DEF Batches
<1>2. /\ batch' = reqs /\ layer' = 1 /\ row' = 1
      /\ UNCHANGED <<stage, claims, counts, pages, device>>
      /\ \A i \in DOMAIN reqs : stage[reqs[i]] = "decode"
  BY DEF StartDecode, StartForward, CanDecode
<1>3. BatchInv'
  BY <1>2 DEF BatchInv, Serving
<1>4. batch' \in Seq(Requests) /\ layer' \in Layers /\ row' \in Nat \ {0}
  BY <1>1, <1>2, PagedKvAssumption DEF Layers
<1> QED BY <1>2, <1>3, <1>4, Zenon DEF claims, counts, pages, device, rows, TypeInv, TypeOK

(* Nothing changes when nothing moves. *)
LEMMA StutterTypes == TypeInv /\ UNCHANGED vars => TypeInv'
  BY DEF vars, claims, counts, forward, pages, device, rows, TypeInv, TypeOK, BatchInv,
         Serving

(* Every step preserves the types. *)
LEMMA NextTypes == TypeInv /\ [Next]_vars => TypeInv'
<1> SUFFICES ASSUME TypeInv, [Next]_vars PROVE TypeInv'
  OBVIOUS
<1>1. CASE \E r \in Requests : RequestStep(r)
  BY <1>1, RequestTypes
<1>2. CASE \E reqs \in Batches : StartDecode(reqs)
  BY <1>2, StartDecodeTypes
<1>3. CASE ForwardStep
  BY <1>3, ForwardTypes
<1>4. CASE UNCHANGED vars
  BY <1>4, StutterTypes
<1> QED BY <1>1, <1>2, <1>3, <1>4 DEF Next, AllDone

(* TypeInv always holds. *)
LEMMA TypeInvariant == Spec => []TypeInv
<1>1. Init => TypeInv
  BY InitTypes
<1>2. TypeInv /\ [Next]_vars => TypeInv'
  BY NextTypes
<1> QED BY <1>1, <1>2, PTL DEF Spec

(* Type correctness: the variables stay within TypeOK, for every pool size,  *)
(* page size and set of requests.                                            *)
THEOREM PagedTypes == Spec => []TypeOK
<1>1. TypeInv => TypeOK
  BY DEF TypeInv
<1> QED BY <1>1, TypeInvariant, PTL

-----------------------------------------------------------------------------
(* One layer's pool: f is its free list, h[s] is what slot s holds. *)
PoolApart(f, h) ==
  \A s \in Slots :
    /\ Apart(f, h[s])
    /\ \A t \in Slots \ {s} : Range(h[s]) \cap Range(h[t]) = {}

PoolWhole(f, h) == Pages = Range(f) \cup UNION {Range(h[s]) : s \in Slots}

PoolKept(f, h) == IsInjective(f) /\ PoolApart(f, h) /\ PoolWhole(f, h)

OtherSlotsKept(s, h, h2) == \A t \in Slots \ {s} : h2[t] = h[t]

(* Two pools of which one slot's list and the free list differ, with the     *)
(* same pages in the two together, are partitioned alike.                    *)
LEMMA PoolMoves ==
  ASSUME NEW f, NEW h, NEW f2, NEW h2, NEW s \in Slots, PoolKept(f, h),
         OtherSlotsKept(s, h, h2), Apart(f2, h2[s]),
         Range(f2) \cup Range(h2[s]) = Range(f) \cup Range(h[s])
  PROVE  PoolKept(f2, h2)
<1> USE DEF OtherSlotsKept
<1>1. ASSUME NEW t \in Slots \ {s}
      PROVE  /\ IsInjective(h2[t])
             /\ Range(h2[t]) \cap (Range(f2) \cup Range(h2[s])) = {}
  <2>1. IsInjective(h[t]) /\ Range(h[t]) \cap Range(f) = {}
        /\ Range(h[t]) \cap Range(h[s]) = {}
    BY DEF PoolKept, PoolApart, Apart
  <2> QED BY <2>1
<1>2. PoolApart(f2, h2)
  <2>1. ASSUME NEW t \in Slots, NEW u \in Slots \ {t}
        PROVE  Range(h2[t]) \cap Range(h2[u]) = {}
    <3>1. CASE t = s
      BY <3>1, <1>1
    <3>2. CASE u = s
      BY <3>2, <1>1
    <3>3. CASE t # s /\ u # s
      BY <3>3 DEF PoolKept, PoolApart
    <3> QED BY <3>1, <3>2, <3>3
  <2>2. ASSUME NEW t \in Slots
        PROVE  Apart(f2, h2[t])
    BY <1>1 DEF Apart
  <2> QED BY <2>1, <2>2 DEF PoolApart
<1>3. PoolWhole(f2, h2)
  <2>1. UNION {Range(h[t]) : t \in Slots}
          = Range(h[s]) \cup UNION {Range(h[t]) : t \in Slots \ {s}}
    OBVIOUS
  <2>2. UNION {Range(h2[t]) : t \in Slots}
          = Range(h2[s]) \cup UNION {Range(h2[t]) : t \in Slots \ {s}}
    OBVIOUS
  <2>3. UNION {Range(h2[t]) : t \in Slots \ {s}} = UNION {Range(h[t]) : t \in Slots \ {s}}
    OBVIOUS
  <2> QED BY <2>1, <2>2, <2>3 DEF PoolKept, PoolWhole
<1> QED BY <1>2, <1>3 DEF PoolKept, Apart

(* No page is named twice or lost: what the two properties say together. *)
PagesInv == \A l \in Layers : PoolKept(free[l], per_slot_held[l])

(* The invariant of the pools is the two properties of the runs. *)
LEMMA PagesInvMeaning ==
  ASSUME PagesInv
  PROVE  NoPageTwice /\ NoPageLost
  BY DEF PagesInv, PoolKept, PoolApart, PoolWhole, Apart, NoPageTwice, NoPageLost

(* acquire_for, k times, by a slot. *)
LEMMA TakeKeepsPages ==
  ASSUME TypeInv, PagesInv, NEW s \in Slots, NEW k \in 0..Len(free[layer]),
         TakePages(layer, s, k)
  PROVE  PagesInv'
<1> DEFINE f == free[layer]
           h == per_slot_held[layer]
           f2 == free'[layer]
           h2 == per_slot_held'[layer]
<1>1. /\ layer \in Layers /\ f \in Seq(Pages) /\ h \in [Slots -> Seq(Pages)]
      /\ free \in [Layers -> Seq(Pages)] /\ per_slot_held \in [Layers -> [Slots -> Seq(Pages)]]
  BY DEF TypeInv, TypeOK
<1>2. /\ f2 = SubSeq(f, k + 1, Len(f))
      /\ h2[s] = h[s] \o SubSeq(f, 1, k)
      /\ \A t \in Slots \ {s} : h2[t] = h[t]
  BY <1>1 DEF TakePages
<1>3. PoolKept(f, h)
  BY <1>1 DEF PagesInv
<1>4. Apart(f, h[s]) /\ h[s] \in Seq(Pages)
  BY <1>1, <1>3 DEF PoolKept, PoolApart
<1>5. k \in 0..Len(f)
  OBVIOUS
<1> HIDE DEF f, h, f2, h2
<1>6. /\ Apart(f2, h2[s])
      /\ Range(f2) \cup Range(h2[s]) = Range(f) \cup Range(h[s])
  BY <1>1, <1>2, <1>4, <1>5, MoveFront
<1>7. PoolKept(f2, h2)
  <2>1. OtherSlotsKept(s, h, h2)
    BY <1>2 DEF OtherSlotsKept
  <2> QED BY <1>3, <1>6, <2>1, PoolMoves
<1>8. \A l \in Layers \ {layer} : free'[l] = free[l] /\ per_slot_held'[l] = per_slot_held[l]
  BY <1>1 DEF TakePages
<1>9. ASSUME NEW l \in Layers
      PROVE  PoolKept(free'[l], per_slot_held'[l])
  BY <1>7, <1>8 DEF PagesInv, f2, h2
<1> QED BY <1>9 DEF PagesInv

(* release_slot, in every layer. *)
LEMMA ReleaseKeepsPages ==
  ASSUME TypeInv, PagesInv, NEW r \in Requests, ReleasePages(r)
  PROVE  PagesInv'
<1>1. slot[r] \in Slots
  BY DEF ReleasePages, TypeInv, TypeOK
<1>2. ASSUME NEW l \in Layers
      PROVE  PoolKept(free'[l], per_slot_held'[l])
  <2> DEFINE s == slot[r]
             f == free[l]
             h == per_slot_held[l]
             f2 == free'[l]
             h2 == per_slot_held'[l]
  <2>1. /\ f \in Seq(Pages) /\ h \in [Slots -> Seq(Pages)] /\ h[s] \in Seq(Pages)
    BY <1>1 DEF TypeInv, TypeOK
  <2>2. /\ f2 = f \o h[s]
        /\ h2[s] = <<>>
        /\ \A t \in Slots \ {s} : h2[t] = h[t]
    BY <1>1, <2>1 DEF ReleasePages
  <2>3. PoolKept(f, h) /\ Apart(f, h[s])
    BY <1>1 DEF PagesInv, PoolKept, PoolApart
  <2> HIDE DEF s, f, h, f2, h2
  <2>4. /\ IsInjective(f2)
        /\ Range(f2) = Range(f) \cup Range(h[s])
    BY <2>1, <2>2, <2>3, JoinApart
  <2>5. IsInjective(<<>>) /\ Range(<<>>) = {}
    BY DEF IsInjective, Range
  <2>6. Apart(f2, h2[s])
    BY <2>2, <2>4, <2>5 DEF Apart
  <2>7. Range(f2) \cup Range(h2[s]) = Range(f) \cup Range(h[s])
    BY <2>2, <2>4, <2>5
  <2>8. s \in Slots
    BY <1>1 DEF s
  <2>9. PoolKept(f2, h2)
    <3>1. OtherSlotsKept(s, h, h2)
      BY <2>2, <2>3, <2>6, <2>7, <2>8 DEF OtherSlotsKept
    <3> QED BY <2>2, <2>3, <2>6, <2>7, <2>8, <3>1, PoolMoves
  <2> QED BY <2>9 DEF f2, h2
<1> QED BY <1>2 DEF PagesInv

(* What a step of a forward does to pages, claims and stages. *)
Grows(i) == \E k \in 0..Len(free[layer]) : TakePages(layer, slot[batch[i]], k)

(* A step of a forward leaves the claims, and grows at most one slot of its  *)
(* batch.                                                                    *)
LEMMA ForwardMoves ==
  ASSUME TypeInv, ForwardStep
  PROVE  /\ UNCHANGED claims
         /\ \A r \in Requests : stage'[r] = "release" => stage[r] = "release"
         /\ UNCHANGED pages \/ \E i \in DOMAIN batch : Grows(i)
<1>1. CASE EnsurePages
  <2>1. 1 \in DOMAIN batch
    BY <1>1 DEF EnsurePages, TypeInv, TypeOK
  <2>2. batch[1] \in Requests /\ slot[batch[1]] \in Slots
    BY <2>1, BatchHasSlots
  <2>3. Missing(batch[1]) \in 0..Len(free[layer])
    BY <1>1, <2>2, MissingIsNat DEF EnsurePages
  <2>4. Grows(1)
    BY <1>1, <2>3 DEF EnsurePages, Grows
  <2> QED BY <1>1, <2>1, <2>4 DEF EnsurePages
<1>2. CASE EnsureExhausted
  <2>1. 1 \in DOMAIN batch
    BY <1>2 DEF EnsureExhausted, TypeInv, TypeOK
  <2>2. Len(free[layer]) \in 0..Len(free[layer])
    BY DEF TypeInv, TypeOK
  <2>3. Grows(1)
    BY <1>2, <2>2 DEF EnsureExhausted, Grows
  <2> QED BY <1>2, <2>1, <2>3 DEF EnsureExhausted, Abandon
<1>3. CASE AcquirePage
  <2>1. row \in DOMAIN batch
    BY <1>3 DEF AcquirePage, TypeInv, TypeOK
  <2>2. CASE StartsPage(batch[row])
    <3>1. free[layer] \in Seq(Pages) /\ free[layer] # <<>>
      BY <1>3, <2>2 DEF AcquirePage, TypeInv, TypeOK
    <3>2. 1 \in 0..Len(free[layer])
      BY <3>1
    <3>3. Grows(row)
      BY <1>3, <2>2, <3>2 DEF AcquirePage, Grows
    <3> QED BY <1>3, <2>1, <3>3 DEF AcquirePage
  <2>3. CASE ~StartsPage(batch[row])
    BY <1>3, <2>3 DEF AcquirePage
  <2> QED BY <2>2, <2>3
<1>4. CASE AppendRows
  BY <1>4 DEF AppendRows, Advance
<1>5. CASE ForwardFails
  BY <1>5 DEF ForwardFails, Abandon
<1> QED BY <1>1, <1>2, <1>3, <1>4, <1>5 DEF ForwardStep

(* A list without elements has nothing in common with any other. *)
LEMMA EmptyApart ==
  ASSUME NEW f, IsInjective(f)
  PROVE  Apart(f, <<>>) /\ Range(<<>>) = {}
<1>1. IsInjective(<<>>) /\ Range(<<>>) = {}
  BY DEF IsInjective, Range
<1> QED BY <1>1 DEF Apart

(* All pages are in the free list at first. *)
LEMMA InitPages == Init => PagesInv
<1> SUFFICES ASSUME Init, NEW l \in Layers
             PROVE  PoolKept(free[l], per_slot_held[l])
  BY DEF PagesInv
<1> DEFINE f == [i \in 1..NPages |-> i - 1]
<1>1. free[l] = f /\ \A s \in Slots : per_slot_held[l][s] = <<>>
  BY DEF Init
<1>2. IsInjective(f)
  BY PagedKvAssumption DEF IsInjective
<1>3. Range(f) = Pages
  <2>1. ASSUME NEW p \in Pages
        PROVE  p + 1 \in DOMAIN f /\ p = f[p + 1]
    BY PagedKvAssumption DEF Pages
  <2>2. ASSUME NEW i \in DOMAIN f
        PROVE  f[i] \in Pages
    BY PagedKvAssumption DEF Pages
  <2> HIDE DEF f
  <2> QED BY <2>1, <2>2, Zenon DEF Range
<1> HIDE DEF f
<1>4. \A s \in Slots : Apart(f, per_slot_held[l][s]) /\ Range(per_slot_held[l][s]) = {}
  BY <1>1, <1>2, EmptyApart
<1> QED BY <1>1, <1>2, <1>3, <1>4 DEF PoolKept, PoolApart, PoolWhole

(* Every step keeps the pages. *)
LEMMA NextPages == TypeInv /\ PagesInv /\ [Next]_vars => PagesInv'
<1> SUFFICES ASSUME TypeInv, PagesInv, [Next]_vars PROVE PagesInv'
  OBVIOUS
<1>1. CASE UNCHANGED pages
  BY <1>1 DEF pages, PagesInv
<1>2. CASE ForwardStep
  <2>1. CASE \E i \in DOMAIN batch : Grows(i)
    <3>1. PICK i \in DOMAIN batch : Grows(i)
      BY <2>1
    <3>2. slot[batch[i]] \in Slots
      BY BatchHasSlots
    <3> QED BY <3>1, <3>2, TakeKeepsPages DEF Grows
  <2> QED BY <1>1, <1>2, <2>1, ForwardMoves
<1>3. CASE \E r \in Requests : RequestStep(r)
  <2>1. PICK r \in Requests : RequestStep(r)
    BY <1>3
  <2>2. CASE ReleasePages(r)
    BY <2>2, ReleaseKeepsPages
  <2>3. ReleasePages(r) \/ UNCHANGED pages
    BY <2>1 DEF RequestStep, Claim, StartPrefill, StartForward, Finish, ClearClaim
  <2> QED BY <1>1, <2>2, <2>3
<1>4. (\E reqs \in Batches : StartDecode(reqs)) \/ AllDone \/ UNCHANGED vars => UNCHANGED pages
  BY DEF StartDecode, StartForward, AllDone, vars
<1> QED BY <1>1, <1>2, <1>3, <1>4 DEF Next

(* Pages are never shared or lost. *)
LEMMA PagesInvariant == Spec => []PagesInv
<1>1. Init => PagesInv
  BY InitPages
<1>2. TypeInv /\ PagesInv /\ [Next]_vars => PagesInv'
  BY NextPages
<1> QED BY <1>1, <1>2, TypeInvariant, PTL DEF Spec

(* No page is on the free list and in a slot, or in two slots, or twice in   *)
(* one: however acquire_for, a pool that runs dry, failed forwards and       *)
(* release_slot follow each other.                                           *)
THEOREM PagesAreNotShared == Spec => []NoPageTwice
<1>1. PagesInv => NoPageTwice
  BY PagesInvMeaning
<1> QED BY <1>1, PagesInvariant, PTL

(* Every page is free or held by some slot, whatever forward failed. *)
THEOREM PagesAreNotLost == Spec => []NoPageLost
<1>1. PagesInv => NoPageLost
  BY PagesInvMeaning
<1> QED BY <1>1, PagesInvariant, PTL

-----------------------------------------------------------------------------
(* A slot is claimed by the one request that has it. *)
ClaimInv ==
  \A r \in Requests :
    slot[r] # None =>
      /\ slot_in_use[slot[r]]
      /\ \A q \in Requests : slot[q] = slot[r] => q = r

(* A request that has released its pages holds none until the claim is gone. *)
ReleasedInv ==
  \A r \in Requests :
    stage[r] = "release" => \A l \in Layers : per_slot_held[l][slot[r]] = <<>>

EmptyInv == ClaimInv /\ ReleasedInv /\ FreeSlotsHoldNothing

(* Growing touches the slot of a serving request only. *)
LEMMA GrowKeepsEmpty ==
  ASSUME TypeInv, EmptyInv, NEW i \in DOMAIN batch, Grows(i), UNCHANGED claims,
         \A r \in Requests : stage'[r] = "release" => stage[r] = "release"
  PROVE  EmptyInv'
<1> DEFINE s == slot[batch[i]]
<1>1. batch[i] \in Requests /\ Serving(batch[i]) /\ s \in Slots
  BY BatchHasSlots
<1>2. slot_in_use[s] /\ \A q \in Requests : slot[q] = s => q = batch[i]
  BY <1>1, PagedKvAssumption DEF EmptyInv, ClaimInv
<1>3. ASSUME NEW l \in Layers, NEW t \in Slots \ {s}
      PROVE  per_slot_held'[l][t] = per_slot_held[l][t]
  BY <1>1 DEF Grows, TakePages, TypeInv, TypeOK
<1>4. ClaimInv'
  BY DEF EmptyInv, ClaimInv, claims
<1>5. ReleasedInv'
  <2>1. SUFFICES ASSUME NEW r \in Requests, stage[r] = "release", NEW l \in Layers
                 PROVE  per_slot_held'[l][slot[r]] = <<>>
    BY DEF ReleasedInv, claims
  <2>2. slot[r] \in Slots \ {s}
    BY <2>1, <1>1, <1>2 DEF Serving, TypeInv, TypeOK
  <2> QED BY <2>1, <2>2, <1>3 DEF EmptyInv, ReleasedInv
<1>6. FreeSlotsHoldNothing'
  BY <1>2, <1>3 DEF EmptyInv, FreeSlotsHoldNothing, claims
<1> QED BY <1>4, <1>5, <1>6 DEF EmptyInv

(* A step of a request's own. *)
LEMMA RequestKeepsEmpty ==
  ASSUME TypeInv, EmptyInv, NEW r \in Requests, RequestStep(r)
  PROVE  EmptyInv'
<1>1. CASE Claim(r)
  <2>1. PICK s \in Slots : /\ ~slot_in_use[s]
                           /\ slot' = [slot EXCEPT ![r] = s]
                           /\ slot_in_use' = [slot_in_use EXCEPT ![s] = TRUE]
    BY <1>1 DEF Claim
  <2>2. \A q \in Requests : slot[q] # s
    BY <2>1, PagedKvAssumption DEF EmptyInv, ClaimInv
  <2>3. slot \in [Requests -> Slots \cup {None}] /\ slot_in_use \in [Slots -> BOOLEAN]
    BY DEF TypeInv, TypeOK
  <2>4. ClaimInv'
    <3>1. ASSUME NEW p \in Requests, slot'[p] # None
          PROVE  slot_in_use'[slot'[p]]
      BY <2>1, <2>3, <3>1, PagedKvAssumption DEF EmptyInv, ClaimInv
    <3>2. ASSUME NEW p \in Requests, slot'[p] # None, NEW q \in Requests, slot'[q] = slot'[p]
          PROVE  q = p
      BY <2>1, <2>2, <2>3, <3>2 DEF EmptyInv, ClaimInv
    <3> QED BY <3>1, <3>2 DEF ClaimInv
  <2>5. ReleasedInv'
    BY <1>1, <2>1, <2>3 DEF Claim, pages, EmptyInv, ReleasedInv, TypeInv, TypeOK
  <2>6. FreeSlotsHoldNothing'
    BY <1>1, <2>1, <2>3 DEF Claim, pages, EmptyInv, FreeSlotsHoldNothing
  <2> QED BY <2>4, <2>5, <2>6 DEF EmptyInv
<1>2. CASE StartPrefill(r)
  BY <1>2 DEF StartPrefill, StartForward, claims, pages,
              EmptyInv, ClaimInv, ReleasedInv, FreeSlotsHoldNothing
<1>3. CASE Finish(r)
  <2>1. \A q \in Requests : stage'[q] = "release" => stage[q] = "release"
    BY <1>3 DEF Finish, TypeInv, TypeOK
  <2> QED BY <1>3, <2>1 DEF Finish, claims, pages,
                            EmptyInv, ClaimInv, ReleasedInv, FreeSlotsHoldNothing
<1>4. CASE ReleasePages(r)
  <2>1. slot[r] \in Slots
    BY <1>4 DEF ReleasePages, TypeInv, TypeOK
  <2>2. ASSUME NEW l \in Layers, NEW t \in Slots
        PROVE  per_slot_held'[l][t] = IF t = slot[r] THEN <<>> ELSE per_slot_held[l][t]
    BY <1>4, <2>1 DEF ReleasePages, TypeInv, TypeOK
  <2>3. ClaimInv'
    BY <1>4 DEF ReleasePages, claims, EmptyInv, ClaimInv
  <2>4. ReleasedInv'
    <3>1. SUFFICES ASSUME NEW q \in Requests, stage'[q] = "release", NEW l \in Layers
                   PROVE  per_slot_held'[l][slot[q]] = <<>>
      BY <1>4 DEF ReleasePages, claims, ReleasedInv
    <3>2. CASE q = r
      BY <2>1, <2>2, <3>2
    <3>3. CASE q # r
      <4>1. stage[q] = "release"
        BY <1>4, <3>1, <3>3 DEF ReleasePages, TypeInv, TypeOK
      <4>2. slot[q] \in Slots
        BY <4>1 DEF TypeInv, TypeOK
      <4> QED BY <4>1, <4>2, <2>2 DEF EmptyInv, ReleasedInv
    <3> QED BY <3>2, <3>3
  <2>5. FreeSlotsHoldNothing'
    BY <1>4, <2>2 DEF ReleasePages, claims, EmptyInv, FreeSlotsHoldNothing
  <2> QED BY <2>3, <2>4, <2>5 DEF EmptyInv
<1>5. CASE ClearClaim(r)
  <2>1. slot[r] \in Slots
    BY <1>5 DEF ClearClaim, TypeInv, TypeOK
  <2>2. \A q \in Requests \ {r} : slot[q] # slot[r]
    BY <2>1, PagedKvAssumption DEF EmptyInv, ClaimInv
  <2>3. slot \in [Requests -> Slots \cup {None}] /\ slot_in_use \in [Slots -> BOOLEAN]
    BY DEF TypeInv, TypeOK
  <2>4. /\ slot' = [slot EXCEPT ![r] = None]
        /\ slot_in_use' = [slot_in_use EXCEPT ![slot[r]] = FALSE]
        /\ stage' = [stage EXCEPT ![r] = "done"]
        /\ stage[r] = "release"
        /\ per_slot_held' = per_slot_held
    BY <1>5 DEF ClearClaim, pages
  <2>5. ClaimInv'
    <3>1. ASSUME NEW p \in Requests, slot'[p] # None
          PROVE  p # r /\ slot'[p] = slot[p]
      BY <2>3, <2>4, <3>1
    <3> QED BY <2>2, <2>3, <2>4, <3>1 DEF EmptyInv, ClaimInv
  <2>6. ReleasedInv'
    BY <2>3, <2>4 DEF EmptyInv, ReleasedInv, TypeInv, TypeOK
  <2>7. FreeSlotsHoldNothing'
    BY <2>1, <2>3, <2>4 DEF EmptyInv, ReleasedInv, FreeSlotsHoldNothing
  <2> QED BY <2>5, <2>6, <2>7 DEF EmptyInv
<1> QED BY <1>1, <1>2, <1>3, <1>4, <1>5 DEF RequestStep

(* A step that leaves stages, claims and pages alone. *)
LEMMA SameKeepsEmpty ==
  ASSUME EmptyInv, UNCHANGED <<claims, pages>>,
         \A r \in Requests : stage'[r] = "release" => stage[r] = "release"
  PROVE  EmptyInv'
  BY DEF claims, pages, EmptyInv, ClaimInv, ReleasedInv, FreeSlotsHoldNothing

(* Every step keeps slots that are free empty. *)
LEMMA NextEmpty == TypeInv /\ EmptyInv /\ [Next]_vars => EmptyInv'
<1> SUFFICES ASSUME TypeInv, EmptyInv, [Next]_vars PROVE EmptyInv'
  OBVIOUS
<1>1. CASE \E r \in Requests : RequestStep(r)
  BY <1>1, RequestKeepsEmpty
<1>2. CASE ForwardStep
  BY <1>2, ForwardMoves, GrowKeepsEmpty, SameKeepsEmpty
<1>3. CASE (\E reqs \in Batches : StartDecode(reqs)) \/ AllDone \/ UNCHANGED vars
  <2>1. UNCHANGED <<stage, claims, pages>>
    BY <1>3 DEF StartDecode, StartForward, AllDone, vars
  <2> QED BY <2>1, SameKeepsEmpty
<1> QED BY <1>1, <1>2, <1>3 DEF Next

(* Slots that nobody claims are empty, in every reachable state. *)
LEMMA EmptyInvariant == Spec => []EmptyInv
<1>1. Init => EmptyInv
  BY DEF Init, EmptyInv, ClaimInv, ReleasedInv, FreeSlotsHoldNothing
<1> QED BY <1>1, NextEmpty, TypeInvariant, PTL DEF Spec

(* A slot that may be claimed holds no page in any layer: release_slot gave  *)
(* them back before the claim was cleared, also for a request that failed    *)
(* while its pool ran dry.                                                   *)
THEOREM FreeSlotsAreEmpty == Spec => []FreeSlotsHoldNothing
<1>1. EmptyInv => FreeSlotsHoldNothing
  BY DEF EmptyInv
<1> QED BY <1>1, EmptyInvariant, PTL

-----------------------------------------------------------------------------
(* How many pages n rows take. *)
LEMMA Quotient ==
  ASSUME NEW d \in Nat \ {0}, NEW q \in Nat, NEW i \in 0..(d - 1)
  PROVE  (q * d + i) \div d = q /\ (q * d + i) % d = i
  BY SMT

(* Division of a natural number leaves a remainder. *)
LEMMA Remainder ==
  ASSUME NEW d \in Nat \ {0}, NEW n \in Nat
  PROVE  n \div d \in Nat /\ n % d \in 0..(d - 1) /\ n = (n \div d) * d + (n % d)
  BY SMT

(* Division keeps the order. *)
LEMMA QuotientMono ==
  ASSUME NEW d \in Nat \ {0}, NEW m \in Nat, NEW n \in Nat, m <= n
  PROVE  m \div d <= n \div d
<1> DEFINE p == m \div d
           q == n \div d
           i == m % d
           j == n % d
<1>1. p \in Nat /\ q \in Nat /\ i \in 0..(d - 1) /\ j \in 0..(d - 1)
      /\ m = p * d + i /\ n = q * d + j
  BY Remainder
<1> HIDE DEF p, q, i, j
<1>2. ~(p > q)
  <2> SUFFICES ASSUME p > q PROVE FALSE
    OBVIOUS
  <2>1. PICK k \in Nat : p = q + 1 + k
    <3>1. p - q - 1 \in Nat /\ p = q + 1 + (p - q - 1)
      BY <1>1
    <3> QED BY <3>1
  <2>2. p * d = q * d + d + k * d /\ k * d \in Nat /\ q * d \in Nat
    BY <1>1, <2>1, SMT
  <2> QED BY <1>1, <2>2
<1>3. p <= q
  BY <1>1, <1>2
<1> QED BY <1>3 DEF p, q

(* div_ceil, by whether the last page is full. *)
LEMMA PagesForValue ==
  ASSUME NEW n \in Nat
  PROVE  /\ PagesFor(n) \in Nat
         /\ PagesFor(n) = IF n % PageSize = 0 THEN n \div PageSize ELSE n \div PageSize + 1
<1> DEFINE d == PageSize
           q == n \div d
           i == n % d
<1>1. d \in Nat \ {0} /\ q \in Nat /\ i \in 0..(d - 1) /\ n = q * d + i
  BY PagedKvAssumption, Remainder
<1>2. PagesFor(n) = (n + d - 1) \div d
  BY DEF PagesFor
<1> HIDE DEF d, q, i
<1>3. CASE i = 0
  <2>1. n + d - 1 = q * d + (d - 1) /\ d - 1 \in 0..(d - 1)
    BY <1>1, <1>3
  <2>2. PagesFor(n) = q
    BY <1>1, <1>2, <2>1, Quotient
  <2> QED BY <1>1, <1>3, <2>2 DEF q, i, d
<1>4. CASE i # 0
  <2>1. n + d - 1 = (q + 1) * d + (i - 1) /\ i - 1 \in 0..(d - 1) /\ q + 1 \in Nat
    BY <1>1, <1>4, SMT
  <2>2. PagesFor(n) = q + 1
    BY <1>1, <1>2, <2>1, Quotient
  <2> QED BY <1>1, <1>4, <2>2 DEF q, i, d
<1> QED BY <1>3, <1>4

(* A further row takes a page when it starts one. *)
LEMMA NextRow ==
  ASSUME NEW n \in Nat
  PROVE  PagesFor(n + 1) = IF n % PageSize = 0 THEN PagesFor(n) + 1 ELSE PagesFor(n)
<1> DEFINE d == PageSize
           q == n \div d
           i == n % d
<1>1. d \in Nat \ {0} /\ q \in Nat /\ i \in 0..(d - 1) /\ n = q * d + i
  BY PagedKvAssumption, Remainder
<1>2. PagesFor(n) = IF i = 0 THEN q ELSE q + 1
  BY PagesForValue
<1>3. PagesFor(n + 1) = (n + d) \div d
  BY <1>1, PagedKvAssumption DEF PagesFor
<1> HIDE DEF d, q, i
<1>4. n + d = (q + 1) * d + i /\ q + 1 \in Nat
  BY <1>1, SMT
<1>5. PagesFor(n + 1) = q + 1
  BY <1>1, <1>3, <1>4, Quotient
<1> QED BY <1>1, <1>2, <1>5 DEF i, d

(* More rows take no fewer pages. *)
LEMMA MoreRows ==
  ASSUME NEW m \in Nat, NEW n \in Nat, m <= n
  PROVE  PagesFor(m) <= PagesFor(n)
<1>1. m + PageSize - 1 \in Nat /\ n + PageSize - 1 \in Nat
      /\ m + PageSize - 1 <= n + PageSize - 1
  BY PagedKvAssumption
<1> QED BY <1>1, PagedKvAssumption, QuotientMono DEF PagesFor

(* Row q is in one of the pages of n > q rows. *)
LEMMA RowInPages ==
  ASSUME NEW q \in Nat, NEW n \in Nat, q < n
  PROVE  q \div PageSize \in Nat /\ q \div PageSize < PagesFor(n)
<1>1. q \div PageSize \in Nat
  BY PagedKvAssumption, Remainder
<1>2. PagesFor(q + 1) = q \div PageSize + 1
  BY <1>1, PagesForValue, NextRow
<1>3. PagesFor(q + 1) <= PagesFor(n) /\ PagesFor(n) \in Nat
  BY MoreRows, PagesForValue
<1> QED BY <1>1, <1>2, <1>3

(* A row is known by its page number and its place in the page. *)
LEMMA SameRow ==
  ASSUME NEW p \in Nat, NEW q \in Nat,
         p \div PageSize = q \div PageSize, p % PageSize = q % PageSize
  PROVE  p = q
<1> DEFINE d == PageSize
<1>1. d \in Nat \ {0}
  BY PagedKvAssumption
<1>2. p = (p \div d) * d + (p % d) /\ q = (q \div d) * d + (q % d)
  BY <1>1, Remainder
<1> HIDE DEF d
<1>3. p \div d = q \div d /\ p % d = q % d
  BY DEF d
<1> QED BY <1>2, <1>3, Zenon

-----------------------------------------------------------------------------
(* Prompts that end inside a page: the row skipped behind a prompt that      *)
(* fills its last page would be the one that a batch acquires a page at.     *)
EndInsidePages == \A r \in Requests : PromptLen[r] % PageSize # 0

(* The layer has made room for the rows that the forward writes for r. *)
Arranged(r, l) ==
  \E i \in DOMAIN batch : batch[i] = r /\ (l < layer \/ (l = layer /\ i < row))

RowsIn(r, l) == IF Arranged(r, l) THEN End(r) ELSE First(r)

(* How far the counts of a request are at its stage. *)
CountFor(r) ==
  /\ stage[r] \in {"queued", "prefill"} => produced[r] = 0 /\ prefilled[r] <= PromptLen[r]
  /\ stage[r] = "queued" => prefilled[r] = 0
  /\ stage[r] = "decode" => produced[r] >= 1 /\ prefilled[r] = PromptLen[r]

CountInv == \A r \in Requests : CountFor(r)

BatchShape ==
  /\ IsInjective(batch)
  /\ Len(batch) > 1 => \A i \in DOMAIN batch : stage[batch[i]] = "decode"

(* A slot holds the pages of its rows, no more and no fewer, whether it grew *)
(* up to a count or row by row.                                              *)
GrownFor(r, l) ==
  /\ Len(per_slot_held[l][slot[r]]) = PagesFor(RowsIn(r, l))
  /\ Arranged(r, l) => End(r) <= MaxSeqLen

(* The block table names the pages of the slot in order. *)
TableFor(r, l) ==
  \A j \in 1..Len(per_slot_held[l][slot[r]]) :
    block_tables[l][slot[r]][j - 1] = per_slot_held[l][slot[r]][j]

(* The rows written are where the block table says, if no batch was misplaced. *)
RowsFor(r, l) ==
  ~misplaced =>
    \A q \in WrittenRows(r, l) : pool[l][PageOf(l, slot[r], q)][q % PageSize] = <<r, q>>

PagingFor(r, l) == GrownFor(r, l) /\ TableFor(r, l) /\ RowsFor(r, l)

PagingInv ==
  /\ CountInv
  /\ BatchShape
  /\ \A r \in Requests, l \in Layers : Serving(r) => PagingFor(r, l)

(* The rows of r that a forward starts and ends at. *)
LEMMA RowsOfForward ==
  ASSUME TypeInv, CountInv, NEW r \in Requests, Serving(r)
  PROVE  /\ First(r) \in Nat /\ End(r) \in Nat /\ First(r) <= End(r)
         /\ stage[r] = "decode" => End(r) = First(r) + 1
         /\ prefilled[r] <= First(r)
         /\ stage[r] = "decode" => First(r) = PromptLen[r] + produced[r]
         /\ stage[r] = "prefill" => First(r) = prefilled[r] /\ End(r) <= PromptLen[r]
         /\ PromptLen[r] \in Nat /\ prefilled[r] \in Nat /\ produced[r] \in Nat
<1>1. /\ PromptLen[r] \in Nat /\ ChunkTokens \in Nat
      /\ prefilled[r] \in Nat /\ produced[r] \in Nat
      /\ stage[r] \in {"prefill", "decode"} /\ CountFor(r)
  BY PagedKvAssumption DEF TypeInv, TypeOK, CountInv, Serving
<1>2. CASE stage[r] = "prefill"
  BY <1>1, <1>2 DEF CountFor, First, End
<1>3. CASE stage[r] = "decode"
  BY <1>1, <1>3 DEF CountFor, First, End
<1> QED BY <1>1, <1>2, <1>3

(* The rows a forward is at are those of the counts and the stage. *)
LEMMA SameRows ==
  ASSUME NEW r, stage'[r] = stage[r], prefilled'[r] = prefilled[r], produced'[r] = produced[r]
  PROVE  First(r)' = First(r) /\ End(r)' = End(r) /\ Serving(r)' = Serving(r)
         /\ (CountFor(r) => CountFor(r)')
  BY DEF First, End, Serving, CountFor

(* Two requests with slots have different ones. *)
LEMMA OwnSlots ==
  ASSUME TypeInv, EmptyInv, NEW r \in Requests, NEW q \in Requests,
         slot[r] \in Slots, slot[q] \in Slots, r # q
  PROVE  slot[r] # slot[q]
  BY PagedKvAssumption DEF EmptyInv, ClaimInv

(* A serving request has a slot. *)
LEMMA ServingHasSlot ==
  ASSUME TypeInv, NEW r \in Requests, Serving(r)
  PROVE  slot[r] \in Slots
  BY DEF TypeInv, TypeOK, Serving

(* acquire_for, k times: the slot's list grows at its end, others stay. *)
LEMMA TakeGrows ==
  ASSUME TypeInv, NEW s \in Slots, NEW k \in 0..Len(free[layer]), TakePages(layer, s, k)
  PROVE  /\ Len(per_slot_held'[layer][s]) = Len(per_slot_held[layer][s]) + k
         /\ \A j \in 1..Len(per_slot_held[layer][s]) :
              per_slot_held'[layer][s][j] = per_slot_held[layer][s][j]
         /\ \A j \in 1..k :
              per_slot_held'[layer][s][Len(per_slot_held[layer][s]) + j] = free[layer][j]
         /\ \A l \in Layers, t \in Slots :
              l # layer \/ t # s => per_slot_held'[l][t] = per_slot_held[l][t]
<1> DEFINE h == per_slot_held[layer][s]
           f == free[layer]
           got == SubSeq(f, 1, k)
<1>1. layer \in Layers /\ f \in Seq(Pages) /\ h \in Seq(Pages)
      /\ per_slot_held \in [Layers -> [Slots -> Seq(Pages)]]
  BY DEF TypeInv, TypeOK
<1>2. per_slot_held' = [per_slot_held EXCEPT ![layer][s] = h \o got]
  BY DEF TakePages
<1>3. k \in 0..Len(f)
  OBVIOUS
<1> HIDE DEF h, f
<1>4. got \in Seq(Pages) /\ Len(got) = k /\ \A j \in 1..k : got[j] = f[j]
  BY <1>1, <1>3, SubSeqProperties
<1>5. per_slot_held'[layer][s] = h \o got
  BY <1>1, <1>2
<1> HIDE DEF got
<1>6. /\ Len(h \o got) = Len(h) + k
      /\ \A j \in 1..Len(h) : (h \o got)[j] = h[j]
      /\ \A j \in 1..k : (h \o got)[Len(h) + j] = f[j]
  <2>1. /\ Len(h) \in Nat /\ k \in Nat
        /\ Len(h \o got) = Len(h) + Len(got)
        /\ \A i \in 1..(Len(h) + Len(got)) :
             (h \o got)[i] = IF i <= Len(h) THEN h[i] ELSE got[i - Len(h)]
    <3>1. Len(h) \in Nat /\ k \in Nat
      BY <1>1, <1>3
    <3> QED BY <3>1, <1>1, <1>4, ConcatProperties, Zenon
  <2>2. ASSUME NEW j \in 1..k
        PROVE  (h \o got)[Len(h) + j] = f[j]
    <3>1. /\ Len(h) + j \in 1..(Len(h) + Len(got)) /\ ~(Len(h) + j <= Len(h))
          /\ (Len(h) + j) - Len(h) = j
      BY <2>1, <1>4
    <3>2. (h \o got)[Len(h) + j] = got[j]
      BY <2>1, <3>1
    <3> QED BY <3>2, <1>4
  <2>3. \A j \in 1..Len(h) : j \in 1..(Len(h) + Len(got)) /\ j <= Len(h)
    BY <2>1, <1>4
  <2> QED BY <2>1, <2>2, <2>3, <1>4
<1>7. \A l \in Layers, t \in Slots :
        l # layer \/ t # s => per_slot_held'[l][t] = per_slot_held[l][t]
  BY <1>1, <1>2
<1> QED BY <1>5, <1>6, <1>7 DEF h, f

(* The patch of a block table sets the entries of the new pages only. *)
LEMMA PatchedEntries ==
  ASSUME TypeInv, NEW s \in Slots, NEW from \in Nat, NEW ps \in Seq(Pages),
         block_tables' = Patched(layer, s, from, ps)
  PROVE  /\ \A n \in 0..(MaxPagesPerSlot - 1) :
              block_tables'[layer][s][n] =
                IF n - from + 1 \in 1..Len(ps) THEN ps[n - from + 1]
                ELSE block_tables[layer][s][n]
         /\ \A l \in Layers, t \in Slots :
              l # layer \/ t # s => block_tables'[l][t] = block_tables[l][t]
<1> DEFINE tab == block_tables[layer][s]
           new == [n \in DOMAIN tab |-> IF n - from + 1 \in DOMAIN ps THEN ps[n - from + 1]
                                        ELSE tab[n]]
<1>1. layer \in Layers /\ tab \in [0..(MaxPagesPerSlot - 1) -> Pages]
      /\ block_tables \in [Layers -> [Slots -> [0..(MaxPagesPerSlot - 1) -> Pages]]]
  BY DEF TypeInv, TypeOK
<1>2. block_tables' = [block_tables EXCEPT ![layer][s] = new]
  BY DEF Patched
<1>3. DOMAIN ps = 1..Len(ps)
  OBVIOUS
<1>4. \A n \in 0..(MaxPagesPerSlot - 1) :
        new[n] = IF n - from + 1 \in 1..Len(ps) THEN ps[n - from + 1] ELSE tab[n]
  BY <1>1, <1>3
<1> HIDE DEF new
<1>5. block_tables'[layer][s] = new
  BY <1>1, <1>2
<1>6. \A l \in Layers, t \in Slots :
        l # layer \/ t # s => block_tables'[l][t] = block_tables[l][t]
  BY <1>1, <1>2
<1> QED BY <1>4, <1>5, <1>6

(* What making room for request number i of the batch does: its slot holds   *)
(* the pages of all rows up to the end of the forward, the new ones are      *)
(* entered in its table behind the old, and nothing else changes.            *)
MakesRoom(i) ==
  /\ row = i /\ row' = row + 1
  /\ UNCHANGED <<stage, claims, counts, batch, layer, rows>>
  /\ End(batch[i]) <= MaxSeqLen
  /\ LET s    == slot[batch[i]]
         held == per_slot_held[layer][s]
         now  == per_slot_held'[layer][s]
     IN
       /\ Len(now) = PagesFor(End(batch[i]))
       /\ Len(held) <= Len(now)
       /\ \A j \in 1..Len(held) :
            /\ now[j] = held[j]
            /\ block_tables'[layer][s][j - 1] = block_tables[layer][s][j - 1]
       /\ \A j \in (Len(held) + 1)..Len(now) : block_tables'[layer][s][j - 1] = now[j]
       /\ \A l \in Layers, t \in Slots : l # layer \/ t # s =>
            /\ per_slot_held'[l][t] = per_slot_held[l][t]
            /\ block_tables'[l][t] = block_tables[l][t]

(* Growing by k pages that are entered in the table behind the old ones.     *)
LEMMA GrownBy ==
  ASSUME TypeInv, NEW s \in Slots, NEW k \in 0..Len(free[layer]), TakePages(layer, s, k),
         NEW ps \in Seq(Pages), Len(ps) = k, \A j \in 1..k : ps[j] = free[layer][j],
         block_tables' = Patched(layer, s, Len(per_slot_held[layer][s]), ps),
         Len(per_slot_held[layer][s]) + k <= MaxPagesPerSlot
  PROVE  LET held == per_slot_held[layer][s]
             now  == per_slot_held'[layer][s]
         IN
           /\ Len(now) = Len(held) + k
           /\ \A j \in 1..Len(held) :
                /\ now[j] = held[j]
                /\ block_tables'[layer][s][j - 1] = block_tables[layer][s][j - 1]
           /\ \A j \in (Len(held) + 1)..Len(now) : block_tables'[layer][s][j - 1] = now[j]
           /\ \A l \in Layers, t \in Slots : l # layer \/ t # s =>
                /\ per_slot_held'[l][t] = per_slot_held[l][t]
                /\ block_tables'[l][t] = block_tables[l][t]
<1> DEFINE held == per_slot_held[layer][s]
           now  == per_slot_held'[layer][s]
           n    == Len(held)
<1>1. n \in Nat /\ k \in Nat /\ MaxPagesPerSlot \in Nat
  <2>1. MaxPagesPerSlot \in Nat
    BY PagesForValue, PagedKvAssumption DEF MaxPagesPerSlot
  <2>2. per_slot_held[layer][s] \in Seq(Pages)
    BY DEF TypeInv, TypeOK
  <2> QED BY <2>1, <2>2 DEF TypeInv, TypeOK
<1>2. /\ Len(now) = n + k
      /\ \A j \in 1..n : now[j] = held[j]
      /\ \A j \in 1..k : now[n + j] = free[layer][j]
      /\ \A l \in Layers, t \in Slots :
           l # layer \/ t # s => per_slot_held'[l][t] = per_slot_held[l][t]
  BY TakeGrows
<1>3. /\ \A m \in 0..(MaxPagesPerSlot - 1) :
           block_tables'[layer][s][m] =
             IF m - n + 1 \in 1..k THEN ps[m - n + 1] ELSE block_tables[layer][s][m]
      /\ \A l \in Layers, t \in Slots :
           l # layer \/ t # s => block_tables'[l][t] = block_tables[l][t]
  <2>1. /\ \A m \in 0..(MaxPagesPerSlot - 1) :
             block_tables'[layer][s][m] =
               IF m - n + 1 \in 1..Len(ps) THEN ps[m - n + 1]
               ELSE block_tables[layer][s][m]
        /\ \A l \in Layers, t \in Slots :
             l # layer \/ t # s => block_tables'[l][t] = block_tables[l][t]
    BY <1>1, PatchedEntries, Zenon
  <2> QED BY <2>1, Zenon
<1>4. n + k <= MaxPagesPerSlot
  OBVIOUS
<1> HIDE DEF held, now, n
<1>5. ASSUME NEW j \in 1..n
      PROVE  block_tables'[layer][s][j - 1] = block_tables[layer][s][j - 1]
  <2>1. j - 1 \in 0..(MaxPagesPerSlot - 1) /\ (j - 1) - n + 1 \notin 1..k
    BY <1>1, <1>4
  <2> QED BY <1>3, <2>1
<1>6. ASSUME NEW j \in (n + 1)..Len(now)
      PROVE  block_tables'[layer][s][j - 1] = now[j]
  <2> DEFINE i == j - n
  <2>1. /\ j - 1 \in 0..(MaxPagesPerSlot - 1) /\ (j - 1) - n + 1 = i
        /\ i \in 1..k /\ j = n + i
    BY <1>1, <1>2, <1>4
  <2> HIDE DEF i
  <2>2. block_tables'[layer][s][j - 1] = ps[i]
    BY <1>3, <2>1
  <2>3. now[j] = free[layer][i]
    BY <1>2, <2>1
  <2> QED BY <2>1, <2>2, <2>3
<1> QED BY <1>2, <1>3, <1>5, <1>6 DEF held, now, n

(* Both ways to grow make room for a request of the batch. *)
LEMMA Growing ==
  ASSUME TypeInv, EmptyInv, PagingInv, EnsurePages \/ AcquirePage
  PROVE  \E i \in DOMAIN batch : MakesRoom(i)
<1> DEFINE r == batch[row]
           s == slot[r]
           held == per_slot_held[layer][s]
<1>1. row \in DOMAIN batch
  BY DEF EnsurePages, AcquirePage, TypeInv, TypeOK
<1>2. r \in Requests /\ Serving(r) /\ s \in Slots /\ layer \in Layers
  BY <1>1, BatchHasSlots DEF TypeInv, TypeOK
<1>3. /\ First(r) \in Nat /\ End(r) \in Nat /\ First(r) <= End(r)
      /\ stage[r] = "decode" => End(r) = First(r) + 1
  BY <1>2, RowsOfForward DEF PagingInv
<1>4. ~Arranged(r, layer)
  BY <1>1, <1>2 DEF Arranged, PagingInv, BatchShape, IsInjective, Layers, TypeInv, TypeOK
<1>5. Len(held) = PagesFor(First(r)) /\ held \in Seq(Pages)
  BY <1>2, <1>4 DEF PagingInv, PagingFor, GrownFor, RowsIn, TypeInv, TypeOK
<1>6. /\ PagesFor(First(r)) \in Nat /\ PagesFor(End(r)) \in Nat
      /\ PagesFor(First(r)) <= PagesFor(End(r))
  BY <1>3, PagesForValue, MoreRows
<1>7. End(r) <= MaxSeqLen => PagesFor(End(r)) <= MaxPagesPerSlot
  BY <1>3, MoreRows, PagedKvAssumption DEF MaxPagesPerSlot
<1>8. Held(r) = held
  BY DEF Held
<1>free. free[layer] \in Seq(Pages)
  BY <1>2 DEF TypeInv, TypeOK
<1>9. CASE EnsurePages
  <2> DEFINE k == Missing(r)
             ps == SubSeq(free[layer], 1, k)
  <2>1. row = 1 /\ End(r) <= MaxSeqLen /\ row' = row + 1
    BY <1>9 DEF EnsurePages
  <2>2. k = PagesFor(End(r)) - PagesFor(First(r)) /\ k \in Nat
    BY <1>5, <1>6, <1>8 DEF Missing
  <2>3. k \in 0..Len(free[layer])
    BY <1>9, <2>1, <2>2, <1>free DEF EnsurePages
  <2>4. /\ TakePages(layer, s, k)
        /\ block_tables' = Patched(layer, s, Len(held), ps)
    BY <1>9, <1>8, <2>1 DEF EnsurePages
  <2>5. ps \in Seq(Pages) /\ Len(ps) = k /\ \A j \in 1..k : ps[j] = free[layer][j]
    BY <1>free, <2>3, SubSeqProperties
  <2>6. Len(held) + k = PagesFor(End(r)) /\ Len(held) + k <= MaxPagesPerSlot
    BY <1>5, <1>6, <1>7, <2>1, <2>2
  <2> HIDE DEF k, ps
  <2>7. MakesRoom(row)
    <3>1. UNCHANGED <<stage, claims, counts, batch, layer, rows>>
      BY <1>9 DEF EnsurePages
    <3>2. Len(held) <= Len(held) + k
      BY <2>2, <1>5
    <3> QED BY <1>2, <2>1, <2>3, <2>4, <2>5, <2>6, <3>1, <3>2, GrownBy DEF MakesRoom
  <2> QED BY <1>1, <2>7
<1>10. CASE AcquirePage
  <2>1. /\ Len(batch) > 1 /\ First(r) < MaxSeqLen /\ row' = row + 1
        /\ UNCHANGED <<stage, claims, counts, batch, layer, rows>>
    BY <1>10 DEF AcquirePage
  <2>2. End(r) = First(r) + 1 /\ End(r) <= MaxSeqLen
    BY <1>1, <1>3, <2>1, PagedKvAssumption DEF PagingInv, BatchShape
  <2>3. CASE StartsPage(r)
    <3> DEFINE ps == <<Head(free[layer])>>
    <3>1. First(r) % PageSize = 0 /\ PagesFor(End(r)) = PagesFor(First(r)) + 1
          /\ First(r) \div PageSize = Len(held)
      BY <1>3, <1>5, <2>2, <2>3, NextRow, PagesForValue DEF StartsPage
    <3>2. /\ free[layer] # <<>> /\ TakePages(layer, s, 1)
          /\ block_tables' = Patched(layer, s, Len(held), ps)
      BY <1>10, <2>3, <3>1 DEF AcquirePage
    <3>3. 1 \in 0..Len(free[layer]) /\ ps \in Seq(Pages) /\ Len(ps) = 1
          /\ \A j \in 1..1 : ps[j] = free[layer][j]
      BY <1>free, <3>2
    <3>4. Len(held) + 1 = PagesFor(End(r)) /\ Len(held) + 1 <= MaxPagesPerSlot
          /\ Len(held) <= Len(held) + 1
      BY <1>5, <1>6, <1>7, <2>2, <3>1
    <3> HIDE DEF ps
    <3>5. MakesRoom(row)
      BY <1>2, <2>1, <2>2, <3>2, <3>3, <3>4, GrownBy DEF MakesRoom
    <3> QED BY <1>1, <3>5
  <2>4. CASE ~StartsPage(r)
    <3>1. PagesFor(End(r)) = Len(held)
      BY <1>3, <1>5, <2>2, <2>4, NextRow DEF StartsPage
    <3>2. UNCHANGED <<per_slot_held, block_tables>>
      BY <1>10, <2>4 DEF AcquirePage, pages
    <3>3. Len(held) \in Nat
      BY <1>5
    <3>4. (Len(held) + 1)..Len(held) = {} /\ Len(held) <= Len(held)
      BY <3>3
    <3>5. MakesRoom(row)
      BY <2>1, <2>2, <3>1, <3>2, <3>4 DEF MakesRoom
    <3> QED BY <1>1, <3>5
  <2> QED BY <2>3, <2>4
<1> QED BY <1>9, <1>10

-----------------------------------------------------------------------------
(* A row that was written is in a page that the slot holds. *)
LEMMA WrittenInHeld ==
  ASSUME TypeInv, PagingInv, NEW r \in Requests, NEW l \in Layers, Serving(r),
         NEW q \in WrittenRows(r, l)
  PROVE  q \in Nat /\ q \div PageSize + 1 \in 1..Len(per_slot_held[l][slot[r]])
<1>1. /\ First(r) \in Nat /\ End(r) \in Nat /\ First(r) <= End(r) /\ prefilled[r] <= First(r)
      /\ stage[r] = "decode" => First(r) = PromptLen[r] + produced[r]
      /\ PromptLen[r] \in Nat /\ prefilled[r] \in Nat /\ produced[r] \in Nat
  BY RowsOfForward DEF PagingInv
<1>2. stage[r] = "prefill" => produced[r] = 0
  BY DEF PagingInv, CountInv, CountFor
<1>3. r \in Range(batch) /\ l < layer => Arranged(r, l)
  BY DEF Range, Arranged
<1>4. q \in Nat /\ q < RowsIn(r, l) /\ RowsIn(r, l) \in Nat
  <2>1. CASE q \in 0..(prefilled[r] - 1)
    BY <1>1, <2>1 DEF RowsIn
  <2>2. CASE q \in (PromptLen[r] + 1)..(PromptLen[r] + produced[r] - 1)
    BY <1>1, <1>2, <2>2 DEF RowsIn, Serving
  <2>3. CASE r \in Range(batch) /\ l < layer /\ q \in First(r)..(End(r) - 1)
    BY <1>1, <1>3, <2>3 DEF RowsIn
  <2> QED BY <2>1, <2>2, <2>3 DEF WrittenRows
<1>5. Len(per_slot_held[l][slot[r]]) = PagesFor(RowsIn(r, l))
  BY DEF PagingInv, PagingFor, GrownFor
<1>6. /\ q \div PageSize \in Nat /\ q \div PageSize < PagesFor(RowsIn(r, l))
      /\ PagesFor(RowsIn(r, l)) \in Nat
  BY <1>4, RowInPages, PagesForValue
<1> QED BY <1>4, <1>5, <1>6

(* The forward has written the rows of r in layer l. *)
Passed(r, l) == r \in Range(batch) /\ l < layer

(* What a step that leaves r and its slot alone keeps. *)
Alone(r, l) ==
  /\ stage'[r] = stage[r] /\ slot'[r] = slot[r]
  /\ prefilled'[r] = prefilled[r] /\ produced'[r] = produced[r]
  /\ per_slot_held'[l][slot[r]] = per_slot_held[l][slot[r]]
  /\ block_tables'[l][slot[r]] = block_tables[l][slot[r]]
  /\ pool'[l] = pool[l] /\ misplaced' = misplaced
  /\ Arranged(r, l)' <=> Arranged(r, l)
  /\ Passed(r, l)' <=> Passed(r, l)

(* What is known of r and its slot stays true. *)
LEMMA LeftAlone ==
  ASSUME PagingInv, NEW r \in Requests, NEW l \in Layers, Serving(r), Alone(r, l)
  PROVE  PagingFor(r, l)'
<1>1. First(r)' = First(r) /\ End(r)' = End(r)
  BY SameRows DEF Alone
<1>2. RowsIn(r, l)' = RowsIn(r, l)
  BY <1>1 DEF Alone, RowsIn
<1>3. GrownFor(r, l)'
  BY <1>1, <1>2 DEF Alone, GrownFor, PagingInv, PagingFor
<1>4. TableFor(r, l)'
  BY DEF Alone, TableFor, PagingInv, PagingFor
<1>5. WrittenRows(r, l)' = WrittenRows(r, l)
  BY <1>1 DEF Alone, Passed, WrittenRows
<1>6. RowsFor(r, l)'
  BY <1>5 DEF Alone, RowsFor, PageOf, PagingInv, PagingFor
<1> QED BY <1>3, <1>4, <1>6 DEF PagingFor

(* Making room keeps the invariant. *)
LEMMA RoomPaging ==
  ASSUME TypeInv, EmptyInv, PagingInv, NEW i \in DOMAIN batch, MakesRoom(i)
  PROVE  PagingInv'
<1> DEFINE o == batch[i]
<1>1. o \in Requests /\ Serving(o) /\ slot[o] \in Slots /\ layer \in Layers
  BY BatchHasSlots DEF TypeInv, TypeOK
<1>2. /\ row = i /\ row' = row + 1 /\ row \in Nat
      /\ UNCHANGED <<stage, slot, prefilled, produced, batch, layer, pool, misplaced>>
  BY DEF MakesRoom, claims, counts, rows, TypeInv, TypeOK
<1>3. CountInv' /\ BatchShape'
  BY <1>2 DEF PagingInv, CountInv, CountFor, BatchShape
<1>4. ASSUME NEW r \in Requests, NEW l \in Layers, Serving(r)
      PROVE  PagingFor(r, l)'
  <2>1. slot[r] \in Slots
    BY <1>4, ServingHasSlot
  <2>2. Passed(r, l)' <=> Passed(r, l)
    BY <1>2 DEF Passed
  <2>3. CASE r # o \/ l # layer
    <3>1. l # layer \/ slot[r] # slot[o]
      BY <1>1, <2>1, <2>3, OwnSlots
    <3>2. /\ per_slot_held'[l][slot[r]] = per_slot_held[l][slot[r]]
          /\ block_tables'[l][slot[r]] = block_tables[l][slot[r]]
      BY <2>1, <3>1 DEF MakesRoom
    <3>3. \A j \in DOMAIN batch : j \in Nat /\ (j < row + 1 <=> j < row \/ j = row)
      <4>1. \A j \in DOMAIN batch : j \in Nat
        BY DEF TypeInv, TypeOK
      <4> QED BY <1>2, <4>1
    <3>4. Arranged(r, l)' <=> Arranged(r, l)
      BY <1>2, <2>3, <3>3 DEF Arranged
    <3> QED BY <1>2, <1>4, <2>2, <3>2, <3>4, LeftAlone DEF Alone
  <2>4. CASE r = o /\ l = layer
    <3> DEFINE s == slot[r]
               held == per_slot_held[l][s]
               now == per_slot_held'[l][s]
    <3>1. /\ End(r) <= MaxSeqLen
          /\ Len(now) = PagesFor(End(r))
          /\ Len(held) <= Len(now)
          /\ \A j \in 1..Len(held) :
               now[j] = held[j] /\ block_tables'[l][s][j - 1] = block_tables[l][s][j - 1]
          /\ \A j \in (Len(held) + 1)..Len(now) : block_tables'[l][s][j - 1] = now[j]
      BY <2>4 DEF MakesRoom
    <3>2. Len(held) \in Nat /\ Len(now) \in Nat
      <4>1. held \in Seq(Pages)
        BY <2>1 DEF TypeInv, TypeOK
      <4>2. End(r) \in Nat
        BY <1>4, RowsOfForward DEF PagingInv
      <4>3. Len(held) \in Nat
        BY <4>1
      <4>4. PagesFor(End(r)) \in Nat
        BY <4>2, PagesForValue
      <4> QED BY <3>1, <4>3, <4>4
    <3>3. \A j \in 1..Len(held) : block_tables[l][s][j - 1] = held[j]
      BY <1>4 DEF PagingInv, PagingFor, TableFor
    <3>4. First(r)' = First(r) /\ End(r)' = End(r) /\ slot'[r] = s
      BY <1>2, SameRows
    <3>5. Arranged(r, l)'
      BY <1>2, <2>4 DEF Arranged
    <3>6. GrownFor(r, l)'
      BY <3>1, <3>4, <3>5 DEF GrownFor, RowsIn
    <3>7. \A q \in WrittenRows(r, l) :
            /\ q \div PageSize + 1 \in 1..Len(held)
            /\ (q \div PageSize + 1) - 1 = q \div PageSize
      BY <1>4, WrittenInHeld, PagedKvAssumption
    <3>8. WrittenRows(r, l)' = WrittenRows(r, l)
      BY <1>2, <3>4 DEF WrittenRows
    <3> HIDE DEF s, held, now
    <3>9. \A j \in 1..Len(now) : block_tables'[l][s][j - 1] = now[j]
      BY <3>1, <3>2, <3>3
    <3>10. TableFor(r, l)'
      BY <3>4, <3>9 DEF TableFor, s, now
    <3>11. \A q \in WrittenRows(r, l) :
             block_tables'[l][s][q \div PageSize] = block_tables[l][s][q \div PageSize]
      BY <3>1, <3>7
    <3>12. RowsFor(r, l)
      BY <1>4 DEF PagingInv, PagingFor
    <3>13. RowsFor(r, l)'
      BY <1>2, <3>4, <3>8, <3>11, <3>12 DEF RowsFor, PageOf, s
    <3> QED BY <3>6, <3>10, <3>13 DEF PagingFor
  <2> QED BY <2>3, <2>4
<1> QED BY <1>2, <1>3, <1>4 DEF PagingInv, Serving

(* A step at which a forward ends in an error. *)
LEMMA AbandonPaging ==
  ASSUME TypeInv, EmptyInv, PagingInv, Abandon, UNCHANGED rows,
         UNCHANGED pages \/ \E i \in DOMAIN batch : Grows(i)
  PROVE  PagingInv'
<1>1. /\ batch' = <<>>
      /\ UNCHANGED <<layer, row, slot, prefilled, produced, block_tables, pool, misplaced>>
      /\ \A r \in Requests : stage'[r] = IF r \in Range(batch) THEN "exit" ELSE stage[r]
  BY DEF Abandon, claims, counts, device, rows
<1>2. DOMAIN batch' = {} /\ Len(batch') = 0 /\ Range(batch') = {}
  BY <1>1 DEF Range
<1>3. CountInv' /\ BatchShape'
  BY <1>1, <1>2 DEF PagingInv, CountInv, CountFor, BatchShape, IsInjective
<1>4. ASSUME NEW r \in Requests, NEW l \in Layers, Serving(r)'
      PROVE  PagingFor(r, l)'
  <2>1. r \notin Range(batch) /\ stage'[r] = stage[r] /\ Serving(r)
    BY <1>1, <1>4 DEF Serving
  <2>2. slot[r] \in Slots
    BY <2>1, ServingHasSlot
  <2>3. ~Arranged(r, l) /\ ~Arranged(r, l)' /\ ~Passed(r, l) /\ ~Passed(r, l)'
    BY <1>2, <2>1 DEF Arranged, Passed, Range
  <2>4. per_slot_held'[l][slot[r]] = per_slot_held[l][slot[r]]
    <3>1. CASE UNCHANGED pages
      BY <3>1 DEF pages
    <3>2. CASE \E i \in DOMAIN batch : Grows(i)
      <4>1. PICK i \in DOMAIN batch : Grows(i)
        BY <3>2
      <4>2. batch[i] \in Requests /\ slot[batch[i]] \in Slots /\ batch[i] # r
        BY <2>1, BatchHasSlots DEF Range
      <4>3. slot[batch[i]] # slot[r]
        BY <2>2, <4>2, OwnSlots
      <4> QED BY <2>2, <4>1, <4>2, <4>3, TakeGrows DEF Grows
    <3> QED BY <3>1, <3>2
  <2> QED BY <1>1, <2>1, <2>3, <2>4, LeftAlone DEF Alone
<1> QED BY <1>3, <1>4 DEF PagingInv

-----------------------------------------------------------------------------
(* The table of a slot of which every page is known leads to that page. *)
LEMMA PageOfHeld ==
  ASSUME TypeInv, PagingInv, NEW r \in Requests, NEW l \in Layers, Serving(r),
         NEW q \in Nat, q \div PageSize + 1 \in 1..Len(per_slot_held[l][slot[r]])
  PROVE  /\ PageOf(l, slot[r], q) = per_slot_held[l][slot[r]][q \div PageSize + 1]
         /\ PageOf(l, slot[r], q) \in Pages
         /\ PageOf(l, slot[r], q) \in Range(per_slot_held[l][slot[r]])
<1> DEFINE held == per_slot_held[l][slot[r]]
           j == q \div PageSize + 1
<1>1. held \in Seq(Pages)
  BY ServingHasSlot DEF TypeInv, TypeOK
<1>2. \A i \in 1..Len(held) : block_tables[l][slot[r]][i - 1] = held[i]
  BY DEF PagingInv, PagingFor, TableFor
<1>3. j \in 1..Len(held) /\ j - 1 = q \div PageSize
  BY PagedKvAssumption, Remainder
<1>4. PageOf(l, slot[r], q) = held[j]
  BY <1>2, <1>3 DEF PageOf
<1> HIDE DEF held, j
<1>5. held[j] \in Pages /\ j \in DOMAIN held
  BY <1>1, <1>3
<1>6. held[j] \in Range(held)
  BY <1>5 DEF Range
<1> QED BY <1>4, <1>5, <1>6 DEF held, j

(* When all rows of the batch have room, each of them is in a page that its  *)
(* request holds.                                                            *)
LEMMA AppendsHaveRoom ==
  ASSUME TypeInv, PagingInv, row > Len(batch), NEW r \in Range(batch)
  PROVE  /\ r \in Requests /\ Serving(r) /\ slot[r] \in Slots
         /\ First(r) \in Nat /\ End(r) \in Nat /\ End(r) <= MaxSeqLen
         /\ Len(Held(r)) = PagesFor(End(r))
         /\ \A q \in First(r)..(End(r) - 1) :
              q \in Nat /\ q \div PageSize + 1 \in 1..Len(Held(r))
<1>1. PICK i \in DOMAIN batch : batch[i] = r
  BY DEF Range
<1>2. r \in Requests /\ Serving(r) /\ slot[r] \in Slots /\ layer \in Layers
  BY <1>1, BatchHasSlots DEF TypeInv, TypeOK
<1>3. i < row
  BY DEF TypeInv, TypeOK
<1>4. Arranged(r, layer)
  BY <1>1, <1>3 DEF Arranged
<1>5. First(r) \in Nat /\ End(r) \in Nat
  BY <1>2, RowsOfForward DEF PagingInv
<1>6. Len(Held(r)) = PagesFor(End(r)) /\ End(r) <= MaxSeqLen
  BY <1>2, <1>4 DEF PagingInv, PagingFor, GrownFor, RowsIn, Held
<1>7. ASSUME NEW q \in First(r)..(End(r) - 1)
      PROVE  q \in Nat /\ q \div PageSize + 1 \in 1..Len(Held(r))
  <2>1. q \in Nat /\ q < End(r)
    BY <1>5
  <2>2. q \div PageSize \in Nat /\ q \div PageSize < PagesFor(End(r)) /\ PagesFor(End(r)) \in Nat
    BY <1>5, <2>1, RowInPages, PagesForValue
  <2> QED BY <1>6, <2>1, <2>2
<1> QED BY <1>2, <1>5, <1>6, <1>7

(* No row of a batch in the order of its slots goes where a row of r is,     *)
(* except that row.                                                          *)
LEMMA SoleWriter ==
  ASSUME TypeInv, EmptyInv, PagesInv, PagingInv, row > Len(batch), ~Misplaced,
         NEW r \in Requests, Serving(r), NEW q \in Nat,
         q \div PageSize + 1 \in 1..Len(per_slot_held[layer][slot[r]])
  PROVE  Writers(PageOf(layer, slot[r], q), q % PageSize)
           = IF r \in Range(batch) /\ q \in First(r)..(End(r) - 1) THEN {<<r, q>>} ELSE {}
<1> DEFINE p == PageOf(layer, slot[r], q)
           i == q % PageSize
           k == q \div PageSize + 1
           held(x) == per_slot_held[layer][slot[x]]
<1>1. layer \in Layers /\ slot[r] \in Slots
  BY ServingHasSlot DEF TypeInv, TypeOK
<1>2. p = held(r)[k] /\ p \in Range(held(r))
  BY <1>1, PageOfHeld
<1>3. ASSUME NEW w \in Writers(p, i)
      PROVE  w = <<r, q>> /\ r \in Range(batch) /\ q \in First(r)..(End(r) - 1)
  <2>1. PICK x \in Range(batch), y \in 0..(MaxSeqLen - 1) :
          /\ w = <<x, y>> /\ y \in First(x)..(End(x) - 1)
          /\ PageOf(layer, slot[x], y) = p /\ y % PageSize = i
    BY DEF Writers, Misplaced
  <2>2. /\ x \in Requests /\ Serving(x) /\ slot[x] \in Slots
        /\ y \in Nat /\ y \div PageSize + 1 \in 1..Len(held(x))
    BY <2>1, AppendsHaveRoom DEF Held
  <2>3. p = held(x)[y \div PageSize + 1] /\ p \in Range(held(x))
    BY <1>1, <2>1, <2>2, PageOfHeld
  <2>4. PoolApart(free[layer], per_slot_held[layer])
    BY <1>1 DEF PagesInv, PoolKept
  <2>5. slot[x] = slot[r]
    BY <1>1, <1>2, <2>2, <2>3, <2>4 DEF PoolApart
  <2>6. x = r
    BY <1>1, <2>2, <2>5, OwnSlots
  <2>7. IsInjective(held(r)) /\ held(r) \in Seq(Pages)
    BY <1>1, <2>4 DEF PoolApart, Apart, TypeInv, TypeOK
  <2>8. k \in DOMAIN held(r) /\ y \div PageSize + 1 \in DOMAIN held(r)
    BY <2>2, <2>6, <2>7
  <2>9. y \div PageSize + 1 = k
    BY <1>2, <2>3, <2>6, <2>7, <2>8, Zenon DEF IsInjective
  <2>10. y \div PageSize \in Nat /\ q \div PageSize \in Nat
    BY <2>2, PagedKvAssumption, Remainder
  <2>11. y \div PageSize = q \div PageSize
    BY <2>9, <2>10
  <2>12. y = q
    BY <2>1, <2>2, <2>11, SameRow
  <2> QED BY <2>1, <2>6, <2>12
<1>4. ASSUME r \in Range(batch), q \in First(r)..(End(r) - 1)
      PROVE  <<r, q>> \in Writers(p, i)
  <2>1. q \in 0..(MaxSeqLen - 1)
    <3>1. First(r) \in Nat /\ End(r) \in Nat /\ End(r) <= MaxSeqLen
      BY <1>4, AppendsHaveRoom
    <3>2. MaxSeqLen \in Nat /\ First(r) <= q /\ q <= End(r) - 1 /\ q \in Nat
      BY <1>4, <3>1, PagedKvAssumption
    <3> QED BY <3>1, <3>2
  <2>2. PICK n \in DOMAIN batch : batch[n] = r
    BY <1>4 DEF Range
  <2>3. PageOf(layer, TableRow(n), q) = p
    BY <2>2 DEF Misplaced
  <2> QED BY <1>4, <2>1, <2>2, <2>3 DEF Writers
<1> HIDE DEF p, i
<1> QED BY <1>3, <1>4 DEF p, i

(* After the append, a row of r that was written before or is written now is *)
(* where the table says.                                                     *)
LEMMA AppendedOwn ==
  ASSUME TypeInv, EmptyInv, PagesInv, PagingInv, row > Len(batch), ~Misplaced, ~misplaced,
         NEW r \in Requests, Serving(r), NEW q,
         \/ q \in WrittenRows(r, layer)
         \/ r \in Range(batch) /\ q \in First(r)..(End(r) - 1)
  PROVE  Appended[PageOf(layer, slot[r], q)][q % PageSize] = <<r, q>>
<1> DEFINE p == PageOf(layer, slot[r], q)
           i == q % PageSize
           W == Writers(p, i)
<1>1. layer \in Layers
  BY DEF TypeInv, TypeOK
<1>2. q \in Nat /\ q \div PageSize + 1 \in 1..Len(per_slot_held[layer][slot[r]])
  BY <1>1, WrittenInHeld, AppendsHaveRoom DEF Held
<1>3. p \in Pages /\ i \in 0..(PageSize - 1)
  BY <1>1, <1>2, PageOfHeld, Remainder, PagedKvAssumption
<1>4. W = IF r \in Range(batch) /\ q \in First(r)..(End(r) - 1) THEN {<<r, q>>} ELSE {}
  BY <1>2, SoleWriter
<1>5. Appended[p][i] = IF W = {} THEN pool[layer][p][i]
                       ELSE IF Cardinality(W) = 1 THEN CHOOSE w \in W : TRUE ELSE None
  BY <1>3 DEF Appended
<1>6. CASE W = {}
  <2>1. q \in WrittenRows(r, layer)
    BY <1>4, <1>6
  <2>2. pool[layer][p][i] = <<r, q>>
    BY <1>1, <2>1 DEF PagingInv, PagingFor, RowsFor
  <2> QED BY <1>5, <1>6, <2>2
<1>7. CASE W = {<<r, q>>}
  <2>1. Cardinality(W) = 1
    BY <1>7, FS_Singleton
  <2>2. (CHOOSE w \in W : TRUE) = <<r, q>>
    BY <1>7
  <2> QED BY <1>5, <1>7, <2>1, <2>2
<1> QED BY <1>4, <1>6, <1>7

(* Rows and tables of a request that gained no other rows than these. *)
LEMMA RowsAfterAppend ==
  ASSUME TypeInv, EmptyInv, PagesInv, PagingInv, row > Len(batch),
         pool' = [pool EXCEPT ![layer] = Appended],
         misplaced' = (misplaced \/ Misplaced),
         UNCHANGED <<slot, per_slot_held, block_tables>>,
         NEW r \in Requests, NEW l \in Layers, Serving(r),
         \A q \in WrittenRows(r, l)' :
           \/ q \in WrittenRows(r, l)
           \/ l = layer /\ r \in Range(batch) /\ q \in First(r)..(End(r) - 1)
  PROVE  TableFor(r, l)' /\ RowsFor(r, l)'
<1>1. TableFor(r, l)'
  BY DEF TableFor, PagingInv, PagingFor
<1>2. ASSUME ~misplaced', NEW q \in WrittenRows(r, l)'
      PROVE  pool'[l][PageOf(l, slot[r], q)][q % PageSize] = <<r, q>>
  <2>1. CASE l = layer
    <3>1. pool'[l] = Appended
      BY <2>1 DEF TypeInv, TypeOK
    <3> QED BY <1>2, <2>1, <3>1, AppendedOwn
  <2>2. CASE l # layer
    <3>1. pool'[l] = pool[l] /\ q \in WrittenRows(r, l)
      BY <2>2 DEF TypeInv, TypeOK
    <3> QED BY <1>2, <3>1 DEF PagingInv, PagingFor, RowsFor
  <2> QED BY <2>1, <2>2
<1>3. RowsFor(r, l)'
  BY <1>2 DEF RowsFor, PageOf
<1> QED BY <1>1, <1>3

(* A layer is written, and at the last the forward is over. *)
LEMMA AppendPaging ==
  ASSUME EndInsidePages, TypeInv, EmptyInv, PagesInv, PagingInv, AppendRows
  PROVE  PagingInv'
<1> DEFINE last == ~(layer < NLayers)
<1>1. /\ batch # <<>> /\ row > Len(batch) /\ pool' = [pool EXCEPT ![layer] = Appended]
      /\ misplaced' = (misplaced \/ Misplaced)
      /\ UNCHANGED <<slot, per_slot_held, block_tables>>
  BY DEF AppendRows, claims, pages
<1>2. layer \in Layers /\ layer \in Nat /\ NLayers \in Nat /\ (last => layer = NLayers)
  BY PagedKvAssumption DEF TypeInv, TypeOK, Layers
<1>3. ~last => layer' = layer + 1 /\ row' = 1 /\ UNCHANGED <<batch, stage, prefilled, produced>>
  BY DEF AppendRows, counts
<1>4. last => batch' = <<>> /\ Advance /\ UNCHANGED <<layer, row>>
  BY DEF AppendRows
<1> HIDE DEF last
<1>5. \A r \in Range(batch) :
        /\ r \in Requests /\ Serving(r) /\ slot[r] \in Slots
        /\ First(r) \in Nat /\ End(r) \in Nat /\ End(r) <= MaxSeqLen
  BY <1>1, AppendsHaveRoom
<1>6. ASSUME NEW r \in Requests, last, r \in Range(batch)
      PROVE  /\ Serving(r)' /\ CountFor(r)' /\ Serving(r)
             /\ PagesFor(First(r)') = PagesFor(End(r))
             /\ \A l \in Layers : WrittenRows(r, l)'
                  \subseteq WrittenRows(r, l)
                              \cup (IF l = layer THEN First(r)..(End(r) - 1) ELSE {})
  <2>1. /\ prefilled'[r] = IF stage[r] = "prefill" THEN End(r) ELSE prefilled[r]
        /\ produced'[r] = IF stage[r] = "decode" \/ End(r) = PromptLen[r]
                          THEN produced[r] + 1 ELSE produced[r]
        /\ stage'[r] = IF End(r) = PromptLen[r] THEN "decode" ELSE stage[r]
    BY <1>4, <1>6 DEF Advance
  <2>2. /\ Serving(r) /\ First(r) <= End(r) /\ First(r) \in Nat /\ End(r) \in Nat
        /\ stage[r] = "decode" => End(r) = First(r) + 1 /\ First(r) = PromptLen[r] + produced[r]
        /\ stage[r] = "prefill" => First(r) = prefilled[r] /\ End(r) <= PromptLen[r]
        /\ PromptLen[r] \in Nat /\ prefilled[r] \in Nat /\ produced[r] \in Nat
    BY <1>5, <1>6, RowsOfForward DEF PagingInv
  <2>3. CountFor(r)
    BY DEF PagingInv, CountInv
  <2>4. \A l \in Layers : l # layer => l < layer
    BY <1>2, <1>6 DEF Layers
  <2>5. Range(batch') = {}
    BY <1>4, <1>6 DEF Range
  <2>6. \A l \in Layers : WrittenRows(r, l)' =
          0..(prefilled'[r] - 1) \cup (PromptLen[r] + 1)..(PromptLen[r] + produced'[r] - 1)
    BY <2>5 DEF WrittenRows
  <2>7. ASSUME NEW l \in Layers
        PROVE  WrittenRows(r, l) \cup (IF l = layer THEN First(r)..(End(r) - 1) ELSE {})
                 = 0..(prefilled[r] - 1) \cup (PromptLen[r] + 1)..(PromptLen[r] + produced[r] - 1)
                   \cup First(r)..(End(r) - 1)
    BY <1>2, <1>6, <2>4 DEF WrittenRows
  <2>8. CASE stage[r] = "decode"
    <3>1. /\ stage'[r] = "decode" /\ prefilled'[r] = prefilled[r]
          /\ produced'[r] = produced[r] + 1
      BY <2>1, <2>8
    <3>2. First(r)' = PromptLen[r] + produced'[r]
      BY <3>1 DEF First
    <3>3. First(r)' = End(r)
      BY <2>2, <2>8, <3>1, <3>2
    <3>4. CountFor(r)' /\ Serving(r)'
      BY <2>2, <2>3, <2>8, <3>1 DEF CountFor, Serving
    <3>5. (PromptLen[r] + 1)..(PromptLen[r] + produced'[r] - 1)
            \subseteq (PromptLen[r] + 1)..(PromptLen[r] + produced[r] - 1)
                        \cup First(r)..(End(r) - 1)
      BY <2>2, <2>8, <3>1
    <3> QED BY <2>2, <2>6, <2>7, <3>1, <3>3, <3>4, <3>5
  <2>9. CASE stage[r] = "prefill"
    <3>1. prefilled'[r] = End(r) /\ produced[r] = 0
      BY <2>1, <2>3, <2>9 DEF CountFor
    <3>2. produced'[r] \in {0, 1}
      BY <2>1, <3>1
    <3>3. (PromptLen[r] + 1)..(PromptLen[r] + produced'[r] - 1) = {}
      BY <2>2, <3>2
    <3>4. 0..(prefilled'[r] - 1) \subseteq 0..(prefilled[r] - 1) \cup First(r)..(End(r) - 1)
      BY <2>2, <2>9, <3>1
    <3>5. CountFor(r)' /\ Serving(r)'
      BY <2>1, <2>2, <2>9, <3>1 DEF CountFor, Serving
    <3>6. PagesFor(First(r)') = PagesFor(End(r))
      <4>1. CASE End(r) = PromptLen[r]
        <5>1. First(r)' = PromptLen[r] + 1
          BY <2>1, <2>2, <3>1, <4>1 DEF First
        <5>2. PromptLen[r] % PageSize # 0
          BY DEF EndInsidePages
        <5> QED BY <2>2, <4>1, <5>1, <5>2, NextRow
      <4>2. CASE End(r) # PromptLen[r]
        BY <2>1, <2>9, <3>1, <4>2 DEF First
      <4> QED BY <4>1, <4>2
    <3> QED BY <2>2, <2>6, <2>7, <3>3, <3>4, <3>5, <3>6
  <2> QED BY <2>2, <2>8, <2>9 DEF Serving
<1>7. ASSUME NEW r \in Requests, ~last \/ r \notin Range(batch)
      PROVE  /\ stage'[r] = stage[r] /\ prefilled'[r] = prefilled[r]
             /\ produced'[r] = produced[r]
  BY <1>3, <1>4, <1>7 DEF Advance
<1>8. CountInv'
  <2> SUFFICES ASSUME NEW r \in Requests PROVE CountFor(r)'
    BY DEF CountInv
  <2>1. CASE last /\ r \in Range(batch)
    BY <1>6, <2>1
  <2>2. CASE ~last \/ r \notin Range(batch)
    BY <1>7, <2>2, SameRows DEF PagingInv, CountInv
  <2> QED BY <2>1, <2>2
<1>9. BatchShape'
  <2>1. CASE last
    BY <1>4, <2>1 DEF BatchShape, IsInjective
  <2>2. CASE ~last
    BY <1>3, <2>2 DEF PagingInv, BatchShape
  <2> QED BY <2>1, <2>2
<1>10. ASSUME NEW r \in Requests, NEW l \in Layers, Serving(r)'
       PROVE  PagingFor(r, l)'
  <2>1. Serving(r)
    BY <1>5, <1>7, <1>10 DEF Serving
  <2>2. Arranged(r, l) <=> r \in Range(batch) /\ (l < layer \/ l = layer)
    <3>1. \A j \in DOMAIN batch : j < row
      BY <1>1 DEF TypeInv, TypeOK
    <3> QED BY <3>1 DEF Arranged, Range
  <2>3. CASE last /\ r \in Range(batch)
    <3>1. Arranged(r, l)
      BY <1>2, <2>2, <2>3 DEF Layers
    <3>2. ~Arranged(r, l)'
      BY <1>4, <2>3 DEF Arranged
    <3>3. Len(per_slot_held[l][slot[r]]) = PagesFor(End(r))
      BY <2>1, <3>1 DEF PagingInv, PagingFor, GrownFor, RowsIn
    <3>4. GrownFor(r, l)'
      BY <1>1, <1>6, <2>3, <3>2, <3>3 DEF GrownFor, RowsIn
    <3>5. \A q \in WrittenRows(r, l)' :
            \/ q \in WrittenRows(r, l)
            \/ l = layer /\ r \in Range(batch) /\ q \in First(r)..(End(r) - 1)
      BY <1>6, <2>3
    <3> QED BY <1>1, <2>1, <3>4, <3>5, RowsAfterAppend DEF PagingFor
  <2>4. CASE ~last \/ r \notin Range(batch)
    <3>1. First(r)' = First(r) /\ End(r)' = End(r)
      BY <1>7, <2>4, SameRows
    <3>2. Arranged(r, l)' <=> Arranged(r, l)
      <4>1. CASE last
        BY <1>4, <2>2, <2>4, <4>1 DEF Arranged
      <4>2. CASE ~last
        <5>1. \A j \in DOMAIN batch : ~(j < 1)
          BY DEF TypeInv, TypeOK
        <5>2. l < layer + 1 <=> l < layer \/ l = layer
          BY <1>2 DEF Layers
        <5> QED BY <1>3, <2>2, <4>2, <5>1, <5>2 DEF Arranged, Range
      <4> QED BY <4>1, <4>2
    <3>3. GrownFor(r, l)'
      BY <1>1, <2>1, <3>1, <3>2 DEF PagingInv, PagingFor, GrownFor, RowsIn
    <3>4. \A q \in WrittenRows(r, l)' :
            \/ q \in WrittenRows(r, l)
            \/ l = layer /\ r \in Range(batch) /\ q \in First(r)..(End(r) - 1)
      <4>1. Passed(r, l)' => r \in Range(batch) /\ (l < layer \/ l = layer)
        BY <1>2, <1>3, <1>4 DEF Passed, Range, Layers
      <4> QED BY <1>7, <2>4, <3>1, <4>1 DEF WrittenRows, Passed
    <3> QED BY <1>1, <2>1, <3>3, <3>4, RowsAfterAppend DEF PagingFor
  <2> QED BY <2>3, <2>4
<1> QED BY <1>8, <1>9, <1>10 DEF PagingInv

-----------------------------------------------------------------------------
(* A step that leaves every serving request alone. *)
LEMMA AllAlone ==
  ASSUME PagingInv, CountInv', BatchShape',
         \A r \in Requests, l \in Layers : Serving(r)' => Serving(r) /\ Alone(r, l)
  PROVE  PagingInv'
  BY LeftAlone DEF PagingInv

(* A slot that is claimed is empty, and so is the conversation. *)
LEMMA ClaimPaging ==
  ASSUME TypeInv, EmptyInv, PagingInv, NEW q \in Requests, Claim(q)
  PROVE  PagingInv'
<1>1. /\ stage[q] = "queued" /\ stage' = [stage EXCEPT ![q] = "prefill"]
      /\ UNCHANGED <<prefilled, produced, batch, layer, row, per_slot_held, block_tables, pool,
                     misplaced>>
  BY DEF Claim, counts, forward, pages, device, rows
<1>2. PICK s \in Slots : ~slot_in_use[s] /\ slot' = [slot EXCEPT ![q] = s]
  BY DEF Claim
<1>types. stage \in [Requests -> Stages] /\ slot \in [Requests -> Slots \cup {None}]
  BY DEF TypeInv, TypeOK
<1>3. CountInv' /\ BatchShape'
  <2>1. CountInv'
    BY <1>1, <1>types DEF PagingInv, CountInv, CountFor
  <2>2. \A i \in DOMAIN batch : batch[i] \in Requests /\ batch[i] # q
    BY <1>1, BatchHasSlots DEF Serving
  <2> QED BY <1>1, <1>types, <2>1, <2>2 DEF PagingInv, BatchShape
<1>4. ASSUME NEW r \in Requests, NEW l \in Layers, Serving(r)'
      PROVE  PagingFor(r, l)'
  <2>1. CASE r # q
    <3>1. stage'[r] = stage[r] /\ slot'[r] = slot[r] /\ Serving(r)
      BY <1>1, <1>2, <1>4, <1>types, <2>1 DEF Serving
    <3> QED BY <1>1, <3>1, LeftAlone DEF Alone, Arranged, Passed
  <2>2. CASE r = q
    <3>1. ~Arranged(r, l)' /\ r \notin Range(batch)
      BY <1>1, <2>2 DEF Arranged, Range, TypeInv, BatchInv, Serving
    <3>2. /\ stage'[r] = "prefill" /\ slot'[r] = s /\ prefilled'[r] = 0 /\ produced'[r] = 0
          /\ per_slot_held'[l][s] = <<>>
      BY <1>1, <1>2, <1>types, <2>2
      DEF PagingInv, CountInv, CountFor, EmptyInv, FreeSlotsHoldNothing
    <3>3. First(r)' = 0
      BY <3>2 DEF First
    <3>4. PagesFor(0) = 0
      <4>1. 0 * PageSize + 0 = 0 /\ 0 \in 0..(PageSize - 1) /\ PageSize \in Nat \ {0}
        BY PagedKvAssumption
      <4>2. 0 % PageSize = 0 /\ 0 \div PageSize = 0
        BY <4>1, Quotient
      <4> QED BY <4>2, PagesForValue
    <3>5. GrownFor(r, l)'
      BY <3>1, <3>2, <3>3, <3>4 DEF GrownFor, RowsIn
    <3>6. TableFor(r, l)'
      BY <3>2 DEF TableFor
    <3>7. PromptLen[r] \in Nat
      BY PagedKvAssumption
    <3>8. WrittenRows(r, l)' = {}
      BY <1>1, <3>1, <3>2, <3>7 DEF WrittenRows
    <3> QED BY <3>5, <3>6, <3>8 DEF PagingFor, RowsFor
  <2> QED BY <2>1, <2>2
<1> QED BY <1>3, <1>4 DEF PagingInv

(* A forward starts with the rows of no request arranged or written. *)
LEMMA StartPaging ==
  ASSUME TypeInv, PagingInv, NEW reqs, StartForward(reqs), IsInjective(reqs),
         Len(reqs) > 1 => \A i \in DOMAIN reqs : stage[reqs[i]] = "decode",
         reqs \in Seq(Requests)
  PROVE  PagingInv'
<1>1. /\ batch = <<>> /\ batch' = reqs /\ layer' = 1 /\ row' = 1
      /\ UNCHANGED <<stage, slot, prefilled, produced, per_slot_held, block_tables, pool,
                     misplaced>>
  BY DEF StartForward, claims, counts, pages, device, rows
<1>2. CountInv' /\ BatchShape'
  BY <1>1 DEF PagingInv, CountInv, CountFor, BatchShape
<1>3. ASSUME NEW r \in Requests, NEW l \in Layers, Serving(r)'
      PROVE  Serving(r) /\ Alone(r, l)
  <2>1. ~Arranged(r, l) /\ ~Passed(r, l)
    BY <1>1 DEF Arranged, Passed, Range
  <2>2. l \in Nat /\ ~(l < 1) /\ \A i \in DOMAIN reqs : ~(i < 1)
    BY DEF Layers
  <2>3. ~Arranged(r, l)' /\ ~Passed(r, l)'
    BY <1>1, <2>2 DEF Arranged, Passed
  <2> QED BY <1>1, <1>3, <2>1, <2>3 DEF Alone, Serving
<1> QED BY <1>2, <1>3, AllAlone

(* A request ends, gives its pages back, gives up its slot. *)
LEMMA EndPaging ==
  ASSUME TypeInv, EmptyInv, PagingInv, NEW q \in Requests,
         Finish(q) \/ ReleasePages(q) \/ ClearClaim(q)
  PROVE  PagingInv'
<1>types. /\ stage \in [Requests -> Stages] /\ slot \in [Requests -> Slots \cup {None}]
          /\ per_slot_held \in [Layers -> [Slots -> Seq(Pages)]]
  BY DEF TypeInv, TypeOK
<1>1. /\ UNCHANGED <<prefilled, produced, batch, layer, row, block_tables, pool, misplaced>>
      /\ stage'[q] \notin {"queued", "prefill", "decode"}
      /\ \A r \in Requests \ {q} : stage'[r] = stage[r] /\ slot'[r] = slot[r]
  BY <1>types DEF Finish, ReleasePages, ClearClaim, claims, counts, forward, pages, device,
                  rows
<1>2. CountInv'
  BY <1>1 DEF PagingInv, CountInv, CountFor
<1>3. BatchShape'
  <2>1. q \notin Range(batch)
    BY BatchHasSlots DEF Range, Finish, ReleasePages, ClearClaim, Serving
  <2>2. \A i \in DOMAIN batch : batch[i] \in Requests \ {q}
    BY <2>1, BatchHasSlots DEF Range
  <2> QED BY <1>1, <2>2 DEF PagingInv, BatchShape
<1>4. ASSUME NEW r \in Requests, NEW l \in Layers, Serving(r)'
      PROVE  Serving(r) /\ Alone(r, l)
  <2>1. r # q
    BY <1>1, <1>4 DEF Serving
  <2>2. Serving(r) /\ stage'[r] = stage[r] /\ slot'[r] = slot[r]
    BY <1>1, <1>4, <2>1 DEF Serving
  <2>3. per_slot_held'[l][slot[r]] = per_slot_held[l][slot[r]]
    <3>1. CASE ReleasePages(q)
      <4>1. slot[q] \in Slots /\ slot[r] \in Slots
        BY <2>2, <3>1, ServingHasSlot DEF ReleasePages, TypeInv, TypeOK
      <4>2. slot[q] # slot[r]
        BY <2>1, <4>1, OwnSlots
      <4> QED BY <1>types, <3>1, <4>1, <4>2 DEF ReleasePages
    <3>2. CASE Finish(q) \/ ClearClaim(q)
      BY <3>2 DEF Finish, ClearClaim, pages
    <3> QED BY <3>1, <3>2
  <2> QED BY <1>1, <2>2, <2>3 DEF Alone, Arranged, Passed
<1> QED BY <1>2, <1>3, <1>4, AllAlone

(* Every step keeps the pages, tables and rows of every request in order. *)
LEMMA NextPaging ==
  EndInsidePages /\ TypeInv /\ EmptyInv /\ PagesInv /\ PagingInv /\ [Next]_vars => PagingInv'
<1> SUFFICES ASSUME EndInsidePages, TypeInv, EmptyInv, PagesInv, PagingInv, [Next]_vars
             PROVE  PagingInv'
  OBVIOUS
<1>1. CASE EnsurePages \/ AcquirePage
  BY <1>1, Growing, RoomPaging
<1>2. CASE EnsureExhausted \/ ForwardFails
  <2>1. ForwardStep
    BY <1>2 DEF ForwardStep
  <2>2. UNCHANGED pages \/ \E i \in DOMAIN batch : Grows(i)
    BY <2>1, ForwardMoves
  <2>3. Abandon /\ UNCHANGED rows
    BY <1>2 DEF EnsureExhausted, ForwardFails, Abandon, device, rows
  <2> QED BY <2>2, <2>3, AbandonPaging
<1>3. CASE AppendRows
  BY <1>3, AppendPaging
<1>4. ASSUME NEW q \in Requests, RequestStep(q)
      PROVE  PagingInv'
  <2>1. CASE Claim(q)
    BY <2>1, ClaimPaging
  <2>2. CASE StartPrefill(q)
    <3> DEFINE reqs == <<q>>
    <3>1. reqs \in Seq(Requests) /\ Len(reqs) = 1 /\ IsInjective(reqs)
      BY DEF IsInjective
    <3>2. StartForward(reqs)
      BY <2>2 DEF StartPrefill
    <3> HIDE DEF reqs
    <3>3. ~(Len(reqs) > 1)
      BY <3>1
    <3> QED BY <3>1, <3>2, <3>3, StartPaging
  <2>3. CASE Finish(q) \/ ReleasePages(q) \/ ClearClaim(q)
    BY <2>3, EndPaging
  <2> QED BY <1>4, <2>1, <2>2, <2>3 DEF RequestStep
<1>5. ASSUME NEW reqs \in Batches, StartDecode(reqs)
      PROVE  PagingInv'
  <2>1. PICK n \in 1..NSlots : reqs \in [1..n -> Requests]
    BY DEF Batches
  <2>2. reqs \in Seq(Requests)
    <3>1. CASE n \in Nat
      BY <2>1, <3>1
    <3>2. n \in Nat
      BY <2>1
    <3> QED BY <3>1, <3>2
  <2> QED BY <1>5, <2>2, StartPaging DEF StartDecode, CanDecode
<1>6. CASE AllDone \/ UNCHANGED vars
  <2>1. UNCHANGED vars
    BY <1>6 DEF AllDone
  <2>2. CountInv' /\ BatchShape'
    BY <2>1 DEF vars, counts, forward, PagingInv, CountInv, CountFor, BatchShape
  <2>3. \A r \in Requests, l \in Layers : Serving(r)' => Serving(r) /\ Alone(r, l)
    BY <2>1 DEF vars, claims, counts, forward, pages, device, rows, Serving, Alone, Arranged,
                Passed
  <2> QED BY <2>2, <2>3, AllAlone
<1> QED BY <1>1, <1>2, <1>3, <1>4, <1>5, <1>6 DEF Next, ForwardStep

(* Before the first claim there is nothing to keep in order. *)
LEMMA InitPaging == Init => PagingInv
<1> SUFFICES ASSUME Init PROVE PagingInv
  OBVIOUS
<1>1. \A r \in Requests : stage[r] = "queued" /\ prefilled[r] = 0 /\ produced[r] = 0
  BY DEF Init
<1>2. \A r \in Requests : PromptLen[r] \in Nat
  BY PagedKvAssumption
<1>3. CountInv
  BY <1>1, <1>2 DEF CountInv, CountFor
<1>4. BatchShape
  BY DEF Init, BatchShape, IsInjective
<1> QED BY <1>1, <1>3, <1>4 DEF PagingInv, Serving

(* Pages, tables and rows are in order in every reachable state. *)
LEMMA PagingInvariant ==
  ASSUME EndInsidePages
  PROVE  Spec => []PagingInv
<1>1. TypeInv /\ EmptyInv /\ PagesInv /\ PagingInv /\ [Next]_vars => PagingInv'
  BY NextPaging
<1> QED BY <1>1, InitPaging, TypeInvariant, EmptyInvariant, PagesInvariant, PTL DEF Spec

(* The device's block table of a serving slot names the pages the host holds *)
(* for it, in order, although a lone request enters them up to a count and   *)
(* a batch one by one, where a position starts a page.                       *)
THEOREM TablesAlwaysNameHeldPages ==
  ASSUME EndInsidePages
  PROVE  Spec => []TableNamesHeldPages
<1>1. TypeInv /\ PagingInv => TableNamesHeldPages
  <2> SUFFICES ASSUME TypeInv, PagingInv, NEW r \in Requests, NEW l \in Layers, Serving(r),
                      NEW k \in DOMAIN per_slot_held[l][slot[r]]
               PROVE  block_tables[l][slot[r]][k - 1] = per_slot_held[l][slot[r]][k]
    BY DEF TableNamesHeldPages
  <2>1. per_slot_held[l][slot[r]] \in Seq(Pages)
    BY ServingHasSlot DEF TypeInv, TypeOK
  <2> QED BY <2>1 DEF PagingInv, PagingFor, TableFor
<1> QED BY <1>1, TypeInvariant, PagingInvariant, PTL

(* No request's rows are written over by another's, as long as batches stand *)
(* in the order of their slots: each is found where the block table says, in *)
(* every layer, while pages go from slot to slot.                            *)
THEOREM RowsAreAlwaysOwn ==
  ASSUME EndInsidePages
  PROVE  Spec => []RowsAreOwn
<1>1. PagingInv => RowsAreOwn
  BY DEF PagingInv, PagingFor, RowsFor, RowsAreOwn
<1> QED BY <1>1, PagingInvariant, PTL

(* A batch in the order of its slots appends every row to the page that its  *)
(* own slot holds for it. Both conditions are needed: paged_order shows it   *)
(* false of a batch in another order, and a prompt that fills its last page  *)
(* has no page for the row of its second token.                              *)
THEOREM AppendsAreInHeldPagesInOrder ==
  ASSUME EndInsidePages
  PROVE  Spec => [](~Misplaced => AppendsInHeldPages)
<1>1. TypeInv /\ PagingInv => (~Misplaced => AppendsInHeldPages)
  <2> SUFFICES ASSUME TypeInv, PagingInv, ~Misplaced, row > Len(batch),
                      NEW i \in DOMAIN batch,
                      NEW q \in First(batch[i])..(End(batch[i]) - 1)
               PROVE  /\ q \div PageSize + 1 \in DOMAIN Held(batch[i])
                      /\ PageOf(layer, TableRow(i), q) = Held(batch[i])[q \div PageSize + 1]
    BY DEF AppendsInHeldPages
  <2> DEFINE r == batch[i]
  <2>1. r \in Range(batch) /\ TableRow(i) = slot[r]
    BY DEF Range, Misplaced
  <2>2. /\ r \in Requests /\ Serving(r) /\ slot[r] \in Slots /\ layer \in Layers
        /\ q \in Nat /\ q \div PageSize + 1 \in 1..Len(per_slot_held[layer][slot[r]])
    BY <2>1, AppendsHaveRoom DEF Held, TypeInv, TypeOK
  <2>3. PageOf(layer, slot[r], q) = per_slot_held[layer][slot[r]][q \div PageSize + 1]
    BY <2>2, PageOfHeld
  <2>4. per_slot_held[layer][slot[r]] \in Seq(Pages)
    BY <2>2 DEF TypeInv, TypeOK
  <2>5. DOMAIN per_slot_held[layer][slot[r]] = 1..Len(per_slot_held[layer][slot[r]])
    BY <2>4
  <2> QED BY <2>1, <2>2, <2>3, <2>5 DEF Held
<1> QED BY <1>1, TypeInvariant, PagingInvariant, PTL

-----------------------------------------------------------------------------
(* Why a pool runs dry: what the requests hold, and what they need. *)

(* How far the counts of a request are, whatever its prompt ends in. *)
UpTo(r) ==
  /\ stage[r] = "queued" => prefilled[r] = 0 /\ produced[r] = 0
  /\ stage[r] = "prefill" => prefilled[r] < PromptLen[r] /\ produced[r] = 0
  /\ stage[r] = "decode" => prefilled[r] = PromptLen[r]

(* A request holds no more pages than its rows need: those that a layer has  *)
(* made room for while it is served, those it was about to have when it is   *)
(* over.                                                                     *)
RowsDue(r, l) == IF Serving(r) THEN RowsIn(r, l) ELSE RowsOf(r)

NeedFor(r) ==
  r \in Holders =>
    \A l \in Layers : Len(per_slot_held[l][slot[r]]) <= PagesFor(RowsDue(r, l))

(* Pages are held for some request. *)
OwnedInv ==
  \A l \in Layers, s \in Slots :
    per_slot_held[l][s] # <<>> => \E r \in Holders : slot[r] = s

NeedInv ==
  /\ IsInjective(batch)
  /\ \A r \in Requests : UpTo(r) /\ NeedFor(r)
  /\ OwnedInv

(* What the counts say of the rows of a forward. *)
LEMMA RowsToCome ==
  ASSUME TypeInv, NEW r \in Requests, UpTo(r)
  PROVE  /\ First(r) \in Nat /\ End(r) \in Nat /\ RowsOf(r) \in Nat
         /\ Serving(r) => First(r) < End(r) /\ RowsOf(r) = End(r)
         /\ stage[r] = "prefill" => End(r) <= PromptLen[r]
<1>1. /\ PromptLen[r] \in Nat \ {0} /\ ChunkTokens \in Nat \ {0}
      /\ prefilled[r] \in Nat /\ produced[r] \in Nat
  BY PagedKvAssumption DEF TypeInv, TypeOK
<1>2. First(r) \in Nat /\ End(r) \in Nat /\ RowsOf(r) \in Nat
  BY <1>1 DEF First, End, RowsOf
<1>3. CASE stage[r] = "prefill"
  BY <1>1, <1>2, <1>3 DEF UpTo, First, End, RowsOf
<1>4. CASE stage[r] = "decode"
  BY <1>1, <1>2, <1>4 DEF UpTo, First, End, RowsOf
<1> QED BY <1>2, <1>3, <1>4 DEF Serving

(* ... and of the pages that are due. *)
LEMMA PagesDue ==
  ASSUME TypeInv, NEW r \in Requests, UpTo(r), NEW l
  PROVE  /\ PagesFor(First(r)) \in Nat /\ PagesFor(End(r)) \in Nat
         /\ PagesFor(RowsOf(r)) \in Nat /\ PagesFor(RowsDue(r, l)) \in Nat
         /\ Serving(r) => /\ PagesFor(First(r)) <= PagesFor(RowsDue(r, l))
                          /\ PagesFor(RowsDue(r, l)) <= PagesFor(RowsOf(r))
                          /\ PagesFor(First(r)) <= PagesFor(RowsOf(r))
<1>1. /\ First(r) \in Nat /\ End(r) \in Nat /\ RowsOf(r) \in Nat
      /\ Serving(r) => First(r) < End(r) /\ RowsOf(r) = End(r)
  BY RowsToCome
<1>2. /\ PagesFor(First(r)) \in Nat /\ PagesFor(End(r)) \in Nat /\ PagesFor(RowsOf(r)) \in Nat
  BY <1>1, PagesForValue
<1>3. Serving(r) => PagesFor(First(r)) <= PagesFor(End(r))
  BY <1>1, MoreRows
<1> QED BY <1>1, <1>2, <1>3 DEF RowsDue, RowsIn

(* The host's lists of a slot, as numbers. *)
LEMMA HeldIsList ==
  ASSUME TypeInv, NEW l \in Layers, NEW s \in Slots
  PROVE  per_slot_held[l][s] \in Seq(Pages) /\ Len(per_slot_held[l][s]) \in Nat
<1>1. per_slot_held[l][s] \in Seq(Pages)
  BY DEF TypeInv, TypeOK
<1> QED BY <1>1, LenProperties

LEMMA HolderHasSlot ==
  ASSUME TypeInv, NEW r \in Holders
  PROVE  r \in Requests /\ slot[r] \in Slots /\ slot[r] # None
  BY PagedKvAssumption DEF Holders, TypeInv, TypeOK

(* A request whose stage, counts, slot and pages a step leaves alone, and    *)
(* for which it does not unmake room.                                        *)
Spared(r) ==
  /\ stage'[r] = stage[r] /\ slot'[r] = slot[r]
  /\ prefilled'[r] = prefilled[r] /\ produced'[r] = produced[r]
  /\ r \in Holders =>
       \A l \in Layers : /\ per_slot_held'[l][slot[r]] = per_slot_held[l][slot[r]]
                         /\ Serving(r) /\ Arranged(r, l) => Arranged(r, l)'

LEMMA SparedNeeds ==
  ASSUME TypeInv, NEW r \in Requests, UpTo(r), NeedFor(r), Spared(r)
  PROVE  UpTo(r)' /\ NeedFor(r)'
<1>1. /\ UpTo(r)' /\ (r \in Holders' <=> r \in Holders)
      /\ First(r)' = First(r) /\ End(r)' = End(r) /\ RowsOf(r)' = RowsOf(r)
      /\ Serving(r)' = Serving(r)
  BY DEF Spared, UpTo, Holders, First, End, RowsOf, Serving
<1>2. ASSUME NEW l \in Layers, r \in Holders
      PROVE  Len(per_slot_held'[l][slot'[r]]) <= PagesFor(RowsDue(r, l)')
  <2>1. /\ per_slot_held'[l][slot'[r]] = per_slot_held[l][slot[r]]
        /\ Serving(r) /\ Arranged(r, l) => Arranged(r, l)'
    BY <1>2 DEF Spared
  <2>2. Len(per_slot_held[l][slot[r]]) <= PagesFor(RowsDue(r, l))
    BY <1>2 DEF NeedFor
  <2>3. Len(per_slot_held[l][slot[r]]) \in Nat
    BY <1>2, HolderHasSlot, HeldIsList
  <2>4. /\ PagesFor(First(r)) \in Nat /\ PagesFor(End(r)) \in Nat
        /\ Serving(r) => PagesFor(RowsDue(r, l)) \in Nat /\ PagesFor(First(r)) <= PagesFor(End(r))
    <3>1. Serving(r) => RowsOf(r) = End(r)
      BY RowsToCome
    <3> QED BY <3>1, PagesDue
  <2>5. CASE ~Serving(r)
    BY <1>1, <2>1, <2>2, <2>5 DEF RowsDue
  <2>6. CASE Serving(r)
    <3>1. RowsDue(r, l)' = IF Arranged(r, l)' THEN End(r) ELSE First(r)
      BY <1>1, <2>6 DEF RowsDue, RowsIn
    <3>2. RowsDue(r, l) = IF Arranged(r, l) THEN End(r) ELSE First(r)
      BY <2>6 DEF RowsDue, RowsIn
    <3> QED BY <2>1, <2>2, <2>3, <2>4, <2>6, <3>1, <3>2
  <2> QED BY <2>5, <2>6
<1> QED BY <1>1, <1>2 DEF NeedFor

(* Other requests than q keep their pages when only the slot of q changes.   *)
LEMMA OthersKeepPages ==
  ASSUME TypeInv, EmptyInv, NEW q \in Requests, slot[q] \in Slots,
         \A l \in Layers, t \in Slots \ {slot[q]} : per_slot_held'[l][t] = per_slot_held[l][t],
         NEW r \in Holders, r # q
  PROVE  \A l \in Layers : per_slot_held'[l][slot[r]] = per_slot_held[l][slot[r]]
<1>1. slot[r] \in Slots /\ r \in Requests
  BY HolderHasSlot
<1>2. slot[r] # slot[q]
  BY <1>1, OwnSlots
<1> QED BY <1>1, <1>2

(* A claim, the end of a request and what follows it. *)
LEMMA RequestNeeds ==
  ASSUME TypeInv, EmptyInv, NeedInv, NEW q \in Requests,
         Claim(q) \/ Finish(q) \/ ReleasePages(q) \/ ClearClaim(q)
  PROVE  NeedInv'
<1>types. /\ stage \in [Requests -> Stages] /\ slot \in [Requests -> Slots \cup {None}]
          /\ per_slot_held \in [Layers -> [Slots -> Seq(Pages)]]
  BY DEF TypeInv, TypeOK
<1>1. /\ UNCHANGED <<prefilled, produced, batch, layer, row>>
      /\ \A r \in Requests \ {q} : stage'[r] = stage[r] /\ slot'[r] = slot[r]
  <2>1. UNCHANGED <<prefilled, produced, batch, layer, row>>
    BY DEF Claim, Finish, ReleasePages, ClearClaim, counts, forward
  <2>2. \A r \in Requests \ {q} : stage'[r] = stage[r]
    BY <1>types DEF Claim, Finish, ReleasePages, ClearClaim
  <2>3. slot' = slot \/ \E s : slot' = [slot EXCEPT ![q] = s]
    BY Zenon DEF Claim, Finish, ReleasePages, ClearClaim, claims
  <2>4. \A r \in Requests \ {q} : slot'[r] = slot[r]
    BY <1>types, <2>3
  <2> QED BY <2>1, <2>2, <2>4
<1>2. IsInjective(batch')
  BY <1>1 DEF NeedInv
<1>3. ~Claim(q) => slot[q] \in Slots
  BY DEF Finish, ReleasePages, ClearClaim, TypeInv, TypeOK
<1>4. /\ ~ReleasePages(q) => per_slot_held' = per_slot_held
      /\ ReleasePages(q) => \A l \in Layers, t \in Slots :
           per_slot_held'[l][t] = IF t = slot[q] THEN <<>> ELSE per_slot_held[l][t]
  <2>1. Claim(q) \/ Finish(q) \/ ClearClaim(q) => per_slot_held' = per_slot_held
    BY DEF Claim, Finish, ClearClaim, pages
  <2>2. ASSUME ReleasePages(q), NEW l \in Layers, NEW t \in Slots
        PROVE  per_slot_held'[l][t] = IF t = slot[q] THEN <<>> ELSE per_slot_held[l][t]
    <3>1. per_slot_held' = [m \in Layers |-> [per_slot_held[m] EXCEPT ![slot[q]] = <<>>]]
      BY <2>2 DEF ReleasePages
    <3> QED BY <1>types, <3>1
  <2> QED BY <2>1, <2>2
<1>5. ASSUME NEW r \in Requests \ {q}
      PROVE  UpTo(r)' /\ NeedFor(r)'
  <2>1. r \in Holders => \A l \in Layers : per_slot_held'[l][slot[r]] = per_slot_held[l][slot[r]]
    <3>1. CASE ReleasePages(q)
      BY <1>3, <1>4, <3>1, OthersKeepPages DEF ReleasePages, Claim
    <3> QED BY <3>1, <1>4
  <2>2. Spared(r)
    BY <1>1, <2>1 DEF Spared, Arranged
  <2> QED BY <2>2, SparedNeeds DEF NeedInv
<1>6. UpTo(q) /\ NeedFor(q)
  BY DEF NeedInv
<1>7. CASE Claim(q)
  <2>1. /\ stage[q] = "queued" /\ stage' = [stage EXCEPT ![q] = "prefill"]
        /\ per_slot_held' = per_slot_held
    BY <1>7 DEF Claim, pages
  <2>2. PICK s \in Slots : ~slot_in_use[s] /\ slot' = [slot EXCEPT ![q] = s]
    BY <1>7 DEF Claim
  <2>3. slot'[q] = s /\ \A l \in Layers : Len(per_slot_held'[l][s]) = 0
    BY <1>types, <2>1, <2>2 DEF EmptyInv, FreeSlotsHoldNothing
  <2>4. UpTo(q)'
    <3>1. PromptLen[q] \in Nat \ {0}
      BY PagedKvAssumption
    <3> QED BY <1>1, <1>6, <1>types, <2>1, <3>1 DEF UpTo
  <2>5. NeedFor(q)'
    <3>1. ASSUME NEW l \in Layers PROVE PagesFor(RowsDue(q, l)') \in Nat
      <4>1. First(q)' \in Nat /\ End(q)' \in Nat /\ RowsOf(q)' \in Nat
        <5>1. /\ PromptLen[q] \in Nat /\ ChunkTokens \in Nat
              /\ prefilled'[q] \in Nat /\ produced'[q] \in Nat
          BY <1>1, PagedKvAssumption DEF TypeInv, TypeOK
        <5> QED BY <5>1 DEF First, End, RowsOf
      <4>2. RowsDue(q, l)' \in Nat
        BY <4>1 DEF RowsDue, RowsIn
      <4> QED BY <4>2, PagesForValue
    <3> QED BY <2>3, <3>1 DEF NeedFor
  <2>6. OwnedInv'
    <3>1. \A r \in Holders : r \in Holders' /\ slot'[r] = slot[r]
      BY <1>types, <2>1, <2>2 DEF Holders
    <3> QED BY <2>1, <3>1 DEF NeedInv, OwnedInv
  <2> QED BY <1>2, <1>5, <2>4, <2>5, <2>6 DEF NeedInv
<1>8. CASE Finish(q)
  <2>1. /\ stage[q] = "decode" /\ q \notin Range(batch) /\ slot' = slot
        /\ stage' = [stage EXCEPT ![q] = "exit"] /\ per_slot_held' = per_slot_held
    BY <1>8 DEF Finish, claims, pages
  <2>2. UpTo(q)'
    BY <1>types, <2>1 DEF UpTo
  <2>3. NeedFor(q)'
    <3>1. RowsOf(q)' = RowsOf(q) /\ ~Serving(q)'
      BY <1>1, <1>types, <2>1 DEF RowsOf, Serving
    <3>2. q \in Holders /\ Serving(q)
      BY <2>1 DEF Holders, Serving
    <3>3. ASSUME NEW l \in Layers
          PROVE  Len(per_slot_held[l][slot[q]]) <= PagesFor(RowsOf(q))
      <4>1. Len(per_slot_held[l][slot[q]]) <= PagesFor(RowsDue(q, l))
        BY <1>6, <3>2 DEF NeedFor
      <4>2. Len(per_slot_held[l][slot[q]]) \in Nat
        BY <3>2, HolderHasSlot, HeldIsList
      <4>3. /\ PagesFor(RowsOf(q)) \in Nat /\ PagesFor(RowsDue(q, l)) \in Nat
            /\ PagesFor(RowsDue(q, l)) <= PagesFor(RowsOf(q))
        BY <1>6, <3>2, PagesDue
      <4> QED BY <4>1, <4>2, <4>3
    <3> QED BY <2>1, <3>1, <3>3 DEF NeedFor, RowsDue
  <2>4. OwnedInv'
    <3>1. \A r \in Holders : r \in Holders' /\ slot'[r] = slot[r]
      BY <1>types, <2>1 DEF Holders
    <3> QED BY <2>1, <3>1 DEF NeedInv, OwnedInv
  <2> QED BY <1>2, <1>5, <2>2, <2>3, <2>4 DEF NeedInv
<1>9. CASE ReleasePages(q) \/ ClearClaim(q)
  <2>1. stage'[q] \in {"release", "done"} /\ q \notin Holders'
    BY <1>9, <1>types DEF ReleasePages, ClearClaim, Holders
  <2>2. UpTo(q)' /\ NeedFor(q)'
    BY <2>1 DEF UpTo, NeedFor
  <2>3. \A r \in Holders : r # q => r \in Holders' /\ slot'[r] = slot[r]
    BY <1>1 DEF Holders
  <2>4. OwnedInv'
    <3>1. SUFFICES ASSUME NEW l \in Layers, NEW s \in Slots, per_slot_held'[l][s] # <<>>
                   PROVE  \E r \in Holders' : slot'[r] = s
      BY DEF OwnedInv
    <3>2. CASE ReleasePages(q)
      <4>1. s # slot[q] /\ per_slot_held[l][s] # <<>>
        BY <1>4, <3>1, <3>2
      <4>2. PICK r \in Holders : slot[r] = s
        BY <4>1 DEF NeedInv, OwnedInv
      <4> QED BY <2>3, <4>1, <4>2
    <3>3. CASE ClearClaim(q)
      <4>1. per_slot_held[l][s] # <<>> /\ q \notin Holders
        BY <1>4, <3>1, <3>3 DEF ClearClaim, Holders, ReleasePages
      <4>2. PICK r \in Holders : slot[r] = s
        BY <4>1 DEF NeedInv, OwnedInv
      <4> QED BY <2>3, <4>1, <4>2
    <3> QED BY <1>9, <3>2, <3>3
  <2> QED BY <1>2, <1>5, <2>2, <2>4 DEF NeedInv
<1> QED BY <1>7, <1>8, <1>9

(* The start of a forward: nothing was arranged before. *)
LEMMA StartNeeds ==
  ASSUME TypeInv, NeedInv, NEW reqs, StartForward(reqs), IsInjective(reqs)
  PROVE  NeedInv'
<1>1. /\ batch = <<>> /\ batch' = reqs
      /\ UNCHANGED <<stage, slot, prefilled, produced, per_slot_held>>
  BY DEF StartForward, claims, counts, pages
<1>2. ASSUME NEW r \in Requests PROVE UpTo(r)' /\ NeedFor(r)'
  <2>1. \A l \in Layers : ~Arranged(r, l)
    BY <1>1 DEF Arranged
  <2>2. Spared(r)
    BY <1>1, <2>1 DEF Spared
  <2> QED BY <2>2, SparedNeeds DEF NeedInv
<1>3. OwnedInv'
  BY <1>1 DEF NeedInv, OwnedInv, Holders
<1> QED BY <1>1, <1>2, <1>3 DEF NeedInv

(* The slot of request number i of the batch has at most the pages that its  *)
(* rows need, and other slots what they had.                                 *)
Within(i) ==
  /\ i \in DOMAIN batch
  /\ Len(per_slot_held'[layer][slot[batch[i]]]) <= PagesFor(End(batch[i]))
  /\ \A l \in Layers, t \in Slots :
       l # layer \/ t # slot[batch[i]] => per_slot_held'[l][t] = per_slot_held[l][t]

LEMMA TakeWithin ==
  ASSUME TypeInv, NEW i \in DOMAIN batch, NEW k \in 0..Len(free[layer]),
         TakePages(layer, slot[batch[i]], k),
         Len(Held(batch[i])) + k <= PagesFor(End(batch[i]))
  PROVE  Within(i)
<1> DEFINE s == slot[batch[i]]
<1>1. s \in Slots
  BY BatchHasSlots
<1> HIDE DEF s
<1>2. /\ Len(per_slot_held'[layer][s]) = Len(per_slot_held[layer][s]) + k
      /\ \A l \in Layers, t \in Slots :
           l # layer \/ t # s => per_slot_held'[l][t] = per_slot_held[l][t]
  <2>1. TakePages(layer, s, k)
    BY DEF s
  <2> QED BY <1>1, <2>1, TakeGrows
<1>3. Held(batch[i]) = per_slot_held[layer][s]
  BY DEF Held, s
<1> QED BY <1>2, <1>3 DEF Within, s

LEMMA SameWithin ==
  ASSUME TypeInv, NeedInv, NEW i \in DOMAIN batch, per_slot_held' = per_slot_held
  PROVE  Within(i)
<1> DEFINE r == batch[i]
<1>1. r \in Requests /\ Serving(r) /\ slot[r] \in Slots /\ r \in Holders /\ layer \in Layers
  BY BatchHasSlots DEF Holders, Serving, TypeInv, TypeOK
<1>2. UpTo(r) /\ Len(per_slot_held[layer][slot[r]]) <= PagesFor(RowsDue(r, layer))
  BY <1>1 DEF NeedInv, NeedFor
<1>3. /\ PagesFor(RowsDue(r, layer)) \in Nat /\ PagesFor(End(r)) \in Nat
      /\ PagesFor(RowsDue(r, layer)) <= PagesFor(End(r))
  BY <1>1, <1>2, PagesDue, RowsToCome
<1>4. Len(per_slot_held[layer][slot[r]]) \in Nat
  BY <1>1, HeldIsList
<1>5. Len(per_slot_held[layer][slot[r]]) <= PagesFor(End(r))
  <2> HIDE DEF r
  <2> QED BY <1>2, <1>3, <1>4
<1> QED BY <1>5 DEF Within

(* Both ways to grow take what is needed and no more. *)
LEMMA GrowWithin ==
  ASSUME TypeInv, NeedInv, EnsurePages \/ AcquirePage
  PROVE  Within(row)
<1> DEFINE r == batch[row]
           n == Len(Held(r))
<1>1. row \in DOMAIN batch
  BY DEF EnsurePages, AcquirePage, TypeInv, TypeOK
<1>2. r \in Requests /\ Serving(r) /\ slot[r] \in Slots /\ r \in Holders /\ layer \in Layers
  BY <1>1, BatchHasSlots DEF Holders, Serving, TypeInv, TypeOK
<1>3. UpTo(r) /\ n <= PagesFor(RowsDue(r, layer)) /\ n \in Nat
  BY <1>2, HeldIsList DEF NeedInv, NeedFor, Held
<1>4. /\ PagesFor(RowsDue(r, layer)) \in Nat /\ PagesFor(End(r)) \in Nat
      /\ PagesFor(First(r)) \in Nat
      /\ PagesFor(RowsDue(r, layer)) <= PagesFor(End(r))
  BY <1>2, <1>3, PagesDue, RowsToCome
<1>5. free[layer] \in Seq(Pages) /\ Len(free[layer]) \in Nat
  <2>1. free[layer] \in Seq(Pages)
    BY <1>2 DEF TypeInv, TypeOK
  <2> QED BY <2>1, LenProperties
<1> HIDE DEF n
<1>6. CASE EnsurePages
  <2>1. /\ row = 1 /\ Missing(r) <= Len(free[layer]) /\ TakePages(layer, slot[r], Missing(r))
    BY <1>6 DEF EnsurePages
  <2>2. Missing(r) = IF PagesFor(End(r)) > n THEN PagesFor(End(r)) - n ELSE 0
    BY DEF Missing, n
  <2>3. Missing(r) \in 0..Len(free[layer]) /\ n + Missing(r) <= PagesFor(End(r))
    BY <1>3, <1>4, <1>5, <2>1, <2>2
  <2> QED BY <1>1, <2>1, <2>3, TakeWithin DEF n
<1>7. CASE AcquirePage
  <2>1. CASE StartsPage(r)
    <3>1. TakePages(layer, slot[r], 1) /\ free[layer] # <<>> /\ First(r) % PageSize = 0
      BY <1>7, <2>1 DEF AcquirePage, StartsPage
    <3>2. 1 \in 0..Len(free[layer])
      BY <1>5, <3>1
    <3>3. ~Arranged(r, layer)
      BY <1>1, <1>2 DEF Arranged, NeedInv, IsInjective, Layers, TypeInv, TypeOK
    <3>4. n <= PagesFor(First(r))
      BY <1>2, <1>3, <3>3 DEF RowsDue, RowsIn
    <3>5. PagesFor(First(r)) + 1 <= PagesFor(End(r))
      <4>1. First(r) \in Nat /\ End(r) \in Nat /\ First(r) + 1 <= End(r)
        BY <1>2, <1>3, RowsToCome
      <4>2. PagesFor(First(r) + 1) = PagesFor(First(r)) + 1
        BY <3>1, <4>1, NextRow
      <4>3. PagesFor(First(r) + 1) <= PagesFor(End(r))
        BY <4>1, MoreRows
      <4> QED BY <4>2, <4>3
    <3>6. n + 1 <= PagesFor(End(r))
      BY <1>3, <1>4, <3>4, <3>5
    <3> QED BY <1>1, <3>1, <3>2, <3>6, TakeWithin DEF n
  <2>2. CASE ~StartsPage(r)
    <3>1. per_slot_held' = per_slot_held
      BY <1>7, <2>2 DEF AcquirePage, pages
    <3> QED BY <1>1, <3>1, SameWithin
  <2> QED BY <2>1, <2>2
<1> QED BY <1>6, <1>7

(* Growth is for a holder. *)
LEMMA WithinOwned ==
  ASSUME TypeInv, OwnedInv, NEW i, Within(i), slot' = slot, Holders \subseteq Holders'
  PROVE  OwnedInv'
<1> DEFINE r == batch[i]
<1>1. r \in Holders
  BY BatchHasSlots DEF Within, Holders, Serving
<1>2. ASSUME NEW l \in Layers, NEW s \in Slots, per_slot_held'[l][s] # <<>>
      PROVE  \E q \in Holders' : slot'[q] = s
  <2>1. CASE s = slot[r]
    BY <1>1, <2>1
  <2>2. CASE s # slot[r]
    <3>1. per_slot_held[l][s] # <<>>
      BY <1>2, <2>2 DEF Within
    <3> QED BY <3>1 DEF OwnedInv
  <2> QED BY <2>1, <2>2
<1> QED BY <1>2 DEF OwnedInv

LEMMA GrowNeeds ==
  ASSUME TypeInv, EmptyInv, NeedInv, EnsurePages \/ AcquirePage
  PROVE  NeedInv'
<1> DEFINE q == batch[row]
<1>1. /\ UNCHANGED <<stage, slot, prefilled, produced, batch, layer>> /\ row' = row + 1
      /\ Within(row)
  <2>1. /\ UNCHANGED <<stage, slot, prefilled, produced, batch, layer>>
        /\ row' = row + 1
    BY DEF EnsurePages, AcquirePage, claims, counts
  <2> QED BY <2>1, GrowWithin
<1>2. /\ q \in Requests /\ Serving(q) /\ slot[q] \in Slots /\ q \in Holders
      /\ layer \in Layers /\ row \in Nat /\ row \in DOMAIN batch
  BY <1>1, BatchHasSlots DEF Within, Holders, Serving, TypeInv, TypeOK
<1>3. \A r \in Requests, l \in Layers : Arranged(r, l) => Arranged(r, l)'
  <2>1. batch \in Seq(Requests)
    BY DEF TypeInv, TypeOK
  <2>2. \A i \in DOMAIN batch : i \in Nat
    BY <2>1
  <2>3. \A i \in DOMAIN batch : i < row => i < row + 1
    BY <1>2, <2>2
  <2> QED BY <1>1, <2>3 DEF Arranged
<1>4. ASSUME NEW r \in Requests, r # q PROVE UpTo(r)' /\ NeedFor(r)'
  <2>1. r \in Holders =>
          \A l \in Layers : per_slot_held'[l][slot[r]] = per_slot_held[l][slot[r]]
    BY <1>1, <1>2, <1>4, OthersKeepPages DEF Within
  <2>2. Spared(r)
    BY <1>1, <1>3, <2>1 DEF Spared
  <2> QED BY <2>2, SparedNeeds DEF NeedInv
<1>5. ASSUME NEW r \in Requests, r = q PROVE UpTo(r)' /\ NeedFor(r)'
  <2>1. /\ UpTo(r) /\ NeedFor(r) /\ Serving(r) /\ slot[r] \in Slots /\ r \in Holders
        /\ batch[row] = r /\ row \in DOMAIN batch /\ row \in Nat /\ layer \in Layers
    BY <1>2, <1>5 DEF NeedInv
  <2>2. UpTo(r)' /\ Serving(r)' /\ First(r)' = First(r) /\ End(r)' = End(r)
    BY <1>1, <2>1 DEF UpTo, Serving, First, End
  <2>3. /\ PagesFor(First(r)) \in Nat /\ PagesFor(End(r)) \in Nat
        /\ PagesFor(First(r)) <= PagesFor(End(r))
    BY <2>1, PagesDue, RowsToCome
  <2>4. ASSUME NEW l \in Layers
        PROVE  Len(per_slot_held'[l][slot[r]]) <= PagesFor(RowsDue(r, l)')
    <3>1. RowsDue(r, l)' = IF Arranged(r, l)' THEN End(r) ELSE First(r)
      BY <2>2 DEF RowsDue, RowsIn
    <3>2. CASE l = layer
      <4>1. Arranged(r, l)'
        BY <1>1, <2>1, <3>2 DEF Arranged
      <4>2. Len(per_slot_held'[layer][slot[r]]) <= PagesFor(End(r))
        BY <1>1, <2>1 DEF Within
      <4> QED BY <3>1, <3>2, <4>1, <4>2
    <3>3. CASE l # layer
      <4>1. per_slot_held'[l][slot[r]] = per_slot_held[l][slot[r]]
        BY <1>1, <2>1, <3>3 DEF Within
      <4>2. Len(per_slot_held[l][slot[r]]) <= PagesFor(IF Arranged(r, l) THEN End(r) ELSE First(r))
        BY <2>1 DEF NeedFor, RowsDue, RowsIn
      <4>3. Arranged(r, l) => Arranged(r, l)'
        BY <2>1, <1>3
      <4>4. Len(per_slot_held[l][slot[r]]) \in Nat
        BY <2>1, HeldIsList
      <4> QED BY <2>3, <3>1, <4>1, <4>2, <4>3, <4>4
    <3> QED BY <3>2, <3>3
  <2> QED BY <1>1, <2>2, <2>4 DEF NeedFor
<1>6. OwnedInv'
  <2>1. Holders \subseteq Holders'
    BY <1>1 DEF Holders
  <2> QED BY <1>1, <2>1, WithinOwned DEF NeedInv
<1>7. IsInjective(batch')
  BY <1>1 DEF NeedInv
<1> QED BY <1>4, <1>5, <1>6, <1>7 DEF NeedInv

(* A forward that fails, when the pool ran dry or otherwise. *)
LEMMA AbandonNeeds ==
  ASSUME TypeInv, EmptyInv, NeedInv, Abandon,
         per_slot_held' = per_slot_held \/ \E i : Within(i)
  PROVE  NeedInv'
<1>types. stage \in [Requests -> Stages] /\ batch \in Seq(Requests) /\ layer \in Layers
  BY DEF TypeInv, TypeOK
<1>1. /\ batch' = <<>> /\ UNCHANGED <<slot, prefilled, produced>>
      /\ stage' = [r \in Requests |-> IF r \in Range(batch) THEN "exit" ELSE stage[r]]
  BY DEF Abandon, claims, counts
<1>2. \A r \in Range(batch) : /\ r \in Requests /\ Serving(r) /\ r \in Holders
                              /\ slot[r] \in Slots
  BY BatchHasSlots DEF Range, Holders, Serving
<1>3. ASSUME NEW r \in Requests, r \notin Range(batch) PROVE UpTo(r)' /\ NeedFor(r)'
  <2>1. r \in Holders =>
          \A l \in Layers : per_slot_held'[l][slot[r]] = per_slot_held[l][slot[r]]
    <3>1. ASSUME NEW i, Within(i), r \in Holders
          PROVE  \A l \in Layers : per_slot_held'[l][slot[r]] = per_slot_held[l][slot[r]]
      <4>1. batch[i] \in Range(batch)
        BY <3>1 DEF Within, Range
      <4>2. batch[i] \in Requests /\ slot[batch[i]] \in Slots /\ r # batch[i]
        BY <1>2, <1>3, <4>1
      <4> QED BY <3>1, <4>2, OthersKeepPages DEF Within
    <3> QED BY <3>1
  <2>2. \A l \in Layers : ~Arranged(r, l)
    BY <1>3 DEF Arranged, Range
  <2>3. Spared(r)
    BY <1>1, <1>3, <2>1, <2>2 DEF Spared
  <2> QED BY <2>3, SparedNeeds DEF NeedInv
<1>4. ASSUME NEW r \in Range(batch) PROVE UpTo(r)' /\ NeedFor(r)'
  <2>1. UpTo(r) /\ NeedFor(r) /\ r \in Holders /\ Serving(r) /\ slot[r] \in Slots /\ r \in Requests
    BY <1>2 DEF NeedInv
  <2>2. stage'[r] = "exit" /\ RowsOf(r)' = RowsOf(r) /\ ~Serving(r)'
    BY <1>1, <2>1 DEF RowsOf, Serving
  <2>3. RowsOf(r) = End(r) /\ PagesFor(End(r)) \in Nat
    BY <2>1, RowsToCome, PagesDue
  <2>4. ASSUME NEW l \in Layers
        PROVE  Len(per_slot_held[l][slot[r]]) <= PagesFor(End(r))
    <3>1. Len(per_slot_held[l][slot[r]]) <= PagesFor(RowsDue(r, l))
      BY <2>1 DEF NeedFor
    <3>2. Len(per_slot_held[l][slot[r]]) \in Nat
      BY <2>1, HeldIsList
    <3>3. PagesFor(RowsDue(r, l)) \in Nat /\ PagesFor(RowsDue(r, l)) <= PagesFor(End(r))
      BY <2>1, <2>3, PagesDue
    <3> QED BY <2>3, <3>1, <3>2, <3>3
  <2>5. ASSUME NEW l \in Layers
        PROVE  Len(per_slot_held'[l][slot[r]]) <= PagesFor(End(r))
    <3>1. ASSUME NEW i, Within(i) PROVE Len(per_slot_held'[l][slot[r]]) <= PagesFor(End(r))
      <4>1. batch[i] \in Range(batch)
        BY <3>1 DEF Within, Range
      <4>2. CASE l = layer /\ r = batch[i]
        BY <3>1, <4>2 DEF Within
      <4>3. CASE l # layer
        BY <2>1, <2>4, <3>1, <4>3 DEF Within
      <4>4. CASE r # batch[i]
        <5>1. slot[r] # slot[batch[i]]
          BY <1>2, <2>1, <4>1, <4>4, OwnSlots
        <5> QED BY <2>1, <2>4, <3>1, <5>1 DEF Within
      <4> QED BY <4>2, <4>3, <4>4
    <3> QED BY <2>4, <3>1
  <2> QED BY <1>1, <2>2, <2>3, <2>5 DEF UpTo, NeedFor, RowsDue
<1>5. OwnedInv'
  <2>1. Holders \subseteq Holders'
    BY <1>1, <1>2 DEF Holders
  <2>2. CASE per_slot_held' = per_slot_held
    BY <1>1, <2>1, <2>2 DEF NeedInv, OwnedInv
  <2>3. CASE \E i : Within(i)
    BY <1>1, <2>1, <2>3, WithinOwned DEF NeedInv
  <2> QED BY <2>2, <2>3
<1>6. IsInjective(batch')
  BY <1>1 DEF IsInjective
<1> QED BY <1>3, <1>4, <1>5, <1>6 DEF NeedInv

(* What a failed forward took of a dry pool is less than its rows need. *)
LEMMA ExhaustedWithin ==
  ASSUME TypeInv, NeedInv, EnsureExhausted
  PROVE  Within(1)
<1> DEFINE r == batch[1]
           n == Len(Held(r))
           k == Len(free[layer])
<1>1. 1 \in DOMAIN batch /\ Missing(r) > k /\ TakePages(layer, slot[r], k)
  BY DEF EnsureExhausted, TypeInv, TypeOK
<1>2. r \in Requests /\ slot[r] \in Slots /\ layer \in Layers /\ Serving(r)
  BY <1>1, BatchHasSlots DEF TypeInv, TypeOK
<1>3. n \in Nat /\ k \in Nat
  <2>1. free[layer] \in Seq(Pages)
    BY <1>2 DEF TypeInv, TypeOK
  <2> QED BY <1>2, <2>1, HeldIsList, LenProperties DEF Held
<1>4. PagesFor(End(r)) \in Nat
  BY <1>2, RowsAreNat, PagesForValue
<1>5. Missing(r) = IF PagesFor(End(r)) > n THEN PagesFor(End(r)) - n ELSE 0
  BY DEF Missing
<1> HIDE DEF n, k
<1>6. k \in 0..k /\ n + k <= PagesFor(End(r))
  BY <1>1, <1>3, <1>4, <1>5
<1> QED BY <1>1, <1>6, TakeWithin DEF n, k

(* The rows are appended: a layer is done, or the forward. *)
LEMMA AppendNeeds ==
  ASSUME TypeInv, EmptyInv, NeedInv, AppendRows
  PROVE  NeedInv'
<1>types. /\ stage \in [Requests -> Stages] /\ batch \in Seq(Requests) /\ layer \in Layers
          /\ layer \in Nat /\ NLayers \in Nat
          /\ prefilled \in [Requests -> Nat] /\ produced \in [Requests -> Nat]
  BY PagedKvAssumption DEF TypeInv, TypeOK, Layers
<1>1. slot' = slot /\ per_slot_held' = per_slot_held /\ row > Len(batch)
  BY DEF AppendRows, claims, pages
<1>2. CASE layer < NLayers
  <2>1. /\ layer' = layer + 1 /\ UNCHANGED <<batch, stage, prefilled, produced>>
    BY <1>2 DEF AppendRows, counts
  <2>2. ASSUME NEW r \in Requests PROVE UpTo(r)' /\ NeedFor(r)'
    <3>1. \A l \in Layers : Arranged(r, l) => Arranged(r, l)'
      <4>1. \A l \in Layers : l < layer \/ l = layer => l < layer + 1
        BY <1>types DEF Layers
      <4> QED BY <2>1, <4>1 DEF Arranged
    <3>2. Spared(r)
      BY <1>1, <2>1, <3>1 DEF Spared
    <3> QED BY <3>2, SparedNeeds DEF NeedInv
  <2>3. OwnedInv' /\ IsInjective(batch')
    BY <1>1, <2>1 DEF NeedInv, OwnedInv, Holders
  <2> QED BY <2>2, <2>3 DEF NeedInv
<1>3. CASE ~(layer < NLayers)
  <2>1. batch' = <<>> /\ Advance
    BY <1>3 DEF AppendRows
  <2>2. ASSUME NEW r \in Requests, r \notin Range(batch) PROVE UpTo(r)' /\ NeedFor(r)'
    <3>1. stage'[r] = stage[r] /\ prefilled'[r] = prefilled[r] /\ produced'[r] = produced[r]
      BY <2>1, <2>2 DEF Advance
    <3>2. \A l \in Layers : ~Arranged(r, l)
      BY <2>2 DEF Arranged, Range
    <3>3. Spared(r)
      BY <1>1, <3>1, <3>2 DEF Spared
    <3> QED BY <3>3, SparedNeeds DEF NeedInv
  <2>3. ASSUME NEW r \in Range(batch)
        PROVE  UpTo(r)' /\ NeedFor(r)' /\ (r \in Requests /\ r \in Holders /\ r \in Holders')
    <3>1. r \in Requests /\ Serving(r) /\ slot[r] \in Slots /\ r \in Holders
      BY BatchHasSlots DEF Range, Holders, Serving
    <3>2. UpTo(r) /\ NeedFor(r)
      BY <3>1 DEF NeedInv
    <3>3. /\ prefilled'[r] = IF stage[r] = "prefill" THEN End(r) ELSE prefilled[r]
          /\ produced'[r] = IF stage[r] = "decode" \/ End(r) = PromptLen[r]
                            THEN produced[r] + 1 ELSE produced[r]
          /\ stage'[r] = IF End(r) = PromptLen[r] THEN "decode" ELSE stage[r]
      BY <2>1, <3>1 DEF Advance
    <3>4. /\ First(r) \in Nat /\ End(r) \in Nat
          /\ First(r) < End(r) /\ (stage[r] = "prefill" => End(r) <= PromptLen[r])
      BY <3>1, <3>2, RowsToCome
    <3>5. PromptLen[r] \in Nat \ {0} /\ produced[r] \in Nat /\ prefilled[r] \in Nat
      BY <1>types, <3>1, PagedKvAssumption
    <3>6. UpTo(r)' /\ First(r)' \in Nat /\ End(r) <= First(r)'
          /\ stage'[r] \in {"prefill", "decode"}
      <4>1. CASE stage[r] = "prefill" /\ End(r) = PromptLen[r]
        <5>1. stage'[r] = "decode" /\ prefilled'[r] = PromptLen[r] /\ produced'[r] = produced[r] + 1
          BY <3>3, <4>1
        <5> QED BY <3>4, <3>5, <4>1, <5>1 DEF UpTo, First
      <4>2. CASE stage[r] = "prefill" /\ End(r) # PromptLen[r]
        <5>1. stage'[r] = "prefill" /\ prefilled'[r] = End(r) /\ produced'[r] = produced[r]
          BY <3>3, <4>2
        <5> QED BY <3>2, <3>4, <3>5, <4>2, <5>1 DEF UpTo, First
      <4>3. CASE stage[r] = "decode"
        <5>1. End(r) = PromptLen[r] + produced[r] + 1
          BY <3>5, <4>3 DEF End, First
        <5>2. stage'[r] = "decode" /\ prefilled'[r] = prefilled[r] /\ produced'[r] = produced[r] + 1
          BY <3>3, <4>3
        <5> QED BY <3>2, <3>5, <4>3, <5>1, <5>2 DEF UpTo, First
      <4> QED BY <3>1, <4>1, <4>2, <4>3 DEF Serving
    <3>7. ASSUME NEW l \in Layers
          PROVE  Len(per_slot_held'[l][slot'[r]]) <= PagesFor(RowsDue(r, l)')
      <4>1. RowsDue(r, l)' = First(r)'
        BY <2>1, <3>6 DEF RowsDue, RowsIn, Arranged, Serving
      <4>2. Len(per_slot_held[l][slot[r]]) <= PagesFor(RowsDue(r, l))
        BY <3>1, <3>2 DEF NeedFor
      <4>3. /\ PagesFor(RowsDue(r, l)) \in Nat /\ PagesFor(End(r)) \in Nat
            /\ PagesFor(RowsDue(r, l)) <= PagesFor(End(r))
        BY <3>1, <3>2, PagesDue, RowsToCome
      <4>4. PagesFor(End(r)) <= PagesFor(First(r)') /\ PagesFor(First(r)') \in Nat
        BY <3>4, <3>6, MoreRows, PagesForValue
      <4>5. Len(per_slot_held[l][slot[r]]) \in Nat
        BY <3>1, HeldIsList
      <4> QED BY <1>1, <4>1, <4>2, <4>3, <4>4, <4>5
    <3> QED BY <3>1, <3>6, <3>7 DEF NeedFor, Holders
  <2>4. OwnedInv'
    <3>1. \A r \in Holders : r \in Holders'
      <4>1. ASSUME NEW r \in Holders, r \notin Range(batch) PROVE r \in Holders'
        BY <2>1, <4>1 DEF Advance, Holders
      <4> QED BY <2>3, <4>1
    <3> QED BY <1>1, <3>1 DEF NeedInv, OwnedInv
  <2>5. IsInjective(batch')
    BY <2>1 DEF IsInjective
  <2> QED BY <2>2, <2>3, <2>4, <2>5 DEF NeedInv
<1> QED BY <1>2, <1>3

LEMMA NextNeeds ==
  TypeInv /\ EmptyInv /\ NeedInv /\ [Next]_vars => NeedInv'
<1> SUFFICES ASSUME TypeInv, EmptyInv, NeedInv, [Next]_vars PROVE NeedInv'
  OBVIOUS
<1>1. CASE EnsurePages \/ AcquirePage
  BY <1>1, GrowNeeds
<1>2. CASE EnsureExhausted
  <2>1. Abandon
    BY <1>2 DEF EnsureExhausted
  <2> QED BY <1>2, <2>1, ExhaustedWithin, AbandonNeeds
<1>3. CASE ForwardFails
  <2>1. Abandon /\ per_slot_held' = per_slot_held
    BY <1>3 DEF ForwardFails, pages
  <2> QED BY <2>1, AbandonNeeds
<1>4. CASE AppendRows
  BY <1>4, AppendNeeds
<1>5. ASSUME NEW q \in Requests, RequestStep(q) PROVE NeedInv'
  <2>1. CASE StartPrefill(q)
    <3> DEFINE reqs == <<q>>
    <3>1. IsInjective(reqs) /\ StartForward(reqs)
      BY <2>1 DEF StartPrefill, IsInjective
    <3> HIDE DEF reqs
    <3> QED BY <3>1, StartNeeds
  <2>2. CASE Claim(q) \/ Finish(q) \/ ReleasePages(q) \/ ClearClaim(q)
    BY <2>2, RequestNeeds
  <2> QED BY <1>5, <2>1, <2>2 DEF RequestStep
<1>6. ASSUME NEW reqs \in Batches, StartDecode(reqs) PROVE NeedInv'
  BY <1>6, StartNeeds DEF StartDecode
<1>7. CASE AllDone \/ UNCHANGED vars
  <2>1. UNCHANGED <<stage, slot, prefilled, produced, batch, layer, row, per_slot_held>>
    BY <1>7 DEF AllDone, vars, claims, counts, forward, pages
  <2>2. ASSUME NEW r \in Requests PROVE UpTo(r)' /\ NeedFor(r)'
    <3>1. Spared(r)
      BY <2>1 DEF Spared, Arranged
    <3> QED BY <3>1, SparedNeeds DEF NeedInv
  <2>3. OwnedInv' /\ IsInjective(batch')
    BY <2>1 DEF NeedInv, OwnedInv, Holders
  <2> QED BY <2>2, <2>3 DEF NeedInv
<1> QED BY <1>1, <1>2, <1>3, <1>4, <1>5, <1>6, <1>7 DEF Next, ForwardStep

LEMMA NeedInvariant == Spec => []NeedInv
<1>1. Init => NeedInv
  <2> SUFFICES ASSUME Init PROVE NeedInv
    OBVIOUS
  <2>1. \A r \in Requests : stage[r] = "queued" /\ prefilled[r] = 0 /\ produced[r] = 0
    BY DEF Init
  <2>2. \A r \in Requests : UpTo(r) /\ NeedFor(r)
    BY <2>1 DEF UpTo, NeedFor, Holders
  <2>3. OwnedInv /\ IsInjective(batch)
    BY DEF Init, OwnedInv, IsInjective
  <2> QED BY <2>2, <2>3 DEF NeedInv
<1> QED BY <1>1, NextNeeds, TypeInvariant, EmptyInvariant, PTL DEF Spec

(* A list names at most as many pages as it is long. *)
LEMMA ListNames ==
  ASSUME NEW S, NEW list \in Seq(S)
  PROVE  IsFiniteSet(Range(list)) /\ Cardinality(Range(list)) <= Len(list)
         /\ Cardinality(Range(list)) \in Nat
<1> DEFINE n == Len(list)
<1>1. n \in Nat /\ DOMAIN list = 1..n /\ list \in [1..n -> S]
  BY LenProperties
<1>2. list \in Surjection(1..n, Range(list))
  BY <1>1 DEF Surjection, Range
<1>3. IsFiniteSet(1..n) /\ Cardinality(1..n) = n
  BY <1>1, FS_Interval
<1> HIDE DEF n
<1>4. IsFiniteSet(Range(list)) /\ Cardinality(Range(list)) <= n
  BY <1>2, <1>3, FS_Surjection
<1> QED BY <1>4, FS_CardinalityType DEF n

PartsWithin(part, n, S) ==
  \A x \in S : IsFiniteSet(part[x]) /\ n[x] \in Nat /\ Cardinality(part[x]) <= n[x]

(* A union has no more elements than its parts together. *)
LEMMA UnionAtMost ==
  ASSUME NEW S, IsFiniteSet(S), NEW part, NEW n, PartsWithin(part, n, S)
  PROVE  /\ IsFiniteSet(UNION {part[x] : x \in S})
         /\ Cardinality(UNION {part[x] : x \in S}) <= SumFunctionOnSet(n, S)
<1> USE DEF PartsWithin
<1> DEFINE U(T) == UNION {part[x] : x \in T}
           Good(T) == IsFiniteSet(U(T)) /\ Cardinality(U(T)) <= SumFunctionOnSet(n, T)
           P == {T \in SUBSET S : Good(T)}
<1>1. {} \in P
  <2>1. U({}) = {}
    OBVIOUS
  <2>2. Good({})
    BY <2>1, FS_EmptySet, SumOfNone
  <2> QED BY <2>2
<1>2. ASSUME NEW T \in SUBSET S, NEW x \in S, T \in P, x \notin T
      PROVE  T \cup {x} \in P
  <2> DEFINE A == U(T)
             B == part[x]
             C == U(T \cup {x})
  <2>1. C = A \cup B
    OBVIOUS
  <2>2. IsFiniteSet(A) /\ Cardinality(A) <= SumFunctionOnSet(n, T)
    BY <1>2
  <2>3. IsFiniteSet(B) /\ Cardinality(B) <= n[x] /\ n[x] \in Nat
    OBVIOUS
  <2>4. IsFiniteSet(T) /\ \A y \in T \cup {x} : n[y] \in Nat
    BY FS_Subset
  <2>5. /\ SumFunctionOnSet(n, T \cup {x}) = n[x] + SumFunctionOnSet(n, T)
        /\ SumFunctionOnSet(n, T) \in Nat
    BY <1>2, <2>4, SumWith, SumIsNat
  <2> HIDE DEF A, B, C
  <2>6. /\ IsFiniteSet(C)
        /\ Cardinality(C) = Cardinality(A) + Cardinality(B) - Cardinality(A \cap B)
    BY <2>1, <2>2, <2>3, FS_Union
  <2>7. Cardinality(A) \in Nat /\ Cardinality(B) \in Nat /\ Cardinality(A \cap B) \in Nat
    <3>1. IsFiniteSet(A \cap B)
      BY <2>2, FS_Subset
    <3> QED BY <3>1, <2>2, <2>3, FS_CardinalityType
  <2>8. Cardinality(C) <= SumFunctionOnSet(n, T \cup {x})
    BY <2>2, <2>3, <2>5, <2>6, <2>7
  <2>9. Good(T \cup {x})
    BY <2>6, <2>8 DEF C
  <2> QED BY <2>9
<1>3. S \in P
  <2> HIDE DEF P
  <2> QED BY <1>1, <1>2, AddingUp
<1> QED BY <1>3

LEMMA HoldersAreFew ==
  ASSUME TypeInv, EmptyInv
  PROVE  IsFiniteSet(Holders)
<1> DEFINE f == [r \in Holders |-> slot[r]]
<1>1. \A r \in Holders : slot[r] \in Slots /\ slot[r] # None /\ r \in Requests
  BY HolderHasSlot
<1>2. f \in Injection(Holders, Slots)
  <2>1. \A r, q \in Holders : slot[r] = slot[q] => r = q
    BY <1>1 DEF EmptyInv, ClaimInv
  <2> QED BY <1>1, <2>1 DEF Injection, IsInjective
<1>3. IsFiniteSet(Slots)
  BY FS_Interval, PagedKvAssumption DEF Slots
<1> QED BY <1>2, <1>3, FS_Injection

(* All pages are free or held for some request: no more than that many. *)
LEMMA PagesAreCounted ==
  ASSUME TypeInv, EmptyInv, PagesInv, OwnedInv, NEW l \in Layers, NEW n,
         \A r \in Holders : n[r] = Len(per_slot_held[l][slot[r]])
  PROVE  NPages <= Len(free[l]) + SumFunctionOnSet(n, Holders)
<1> DEFINE f == free[l]
           part == [r \in Holders |-> Range(per_slot_held[l][slot[r]])]
           U == UNION {part[r] : r \in Holders}
<1>1. f \in Seq(Pages)
  BY DEF TypeInv, TypeOK
<1>2. IsFiniteSet(Range(f)) /\ Cardinality(Range(f)) <= Len(f) /\ Cardinality(Range(f)) \in Nat
  BY <1>1, ListNames
<1>3. \A r \in Holders : IsFiniteSet(part[r]) /\ n[r] \in Nat /\ Cardinality(part[r]) <= n[r]
  <2>1. ASSUME NEW r \in Holders
        PROVE  /\ IsFiniteSet(Range(per_slot_held[l][slot[r]]))
               /\ Cardinality(Range(per_slot_held[l][slot[r]])) <= Len(per_slot_held[l][slot[r]])
               /\ Len(per_slot_held[l][slot[r]]) \in Nat
    BY HolderHasSlot, HeldIsList, ListNames
  <2> QED BY <2>1
<1>4. Pages \subseteq Range(f) \cup U
  <2>1. Pages = Range(f) \cup UNION {Range(per_slot_held[l][s]) : s \in Slots}
    BY DEF PagesInv, PoolKept, PoolWhole
  <2>2. ASSUME NEW s \in Slots, NEW p \in Range(per_slot_held[l][s]) PROVE p \in U
    <3>1. per_slot_held[l][s] # <<>>
      BY <2>2 DEF Range
    <3>2. PICK r \in Holders : slot[r] = s
      BY <3>1 DEF OwnedInv
    <3> QED BY <3>2
  <2> HIDE DEF U
  <2> QED BY <2>1, <2>2
<1> HIDE DEF f, part
<1>5. /\ IsFiniteSet(U) /\ Cardinality(U) <= SumFunctionOnSet(n, Holders)
      /\ SumFunctionOnSet(n, Holders) \in Nat
  <2>1. IsFiniteSet(Holders) /\ \A r \in Holders : n[r] \in Nat
    BY <1>3, HoldersAreFew
  <2>2. PartsWithin(part, n, Holders)
    BY <1>3 DEF PartsWithin
  <2>3. SumFunctionOnSet(n, Holders) \in Nat
    BY <2>1, SumIsNat
  <2>4. IsFiniteSet(U) /\ Cardinality(U) <= SumFunctionOnSet(n, Holders)
    BY <2>1, <2>2, UnionAtMost
  <2> QED BY <2>3, <2>4
<1> HIDE DEF U
<1>6. /\ IsFiniteSet(Range(f) \cup U)
      /\ Cardinality(Range(f) \cup U)
           = Cardinality(Range(f)) + Cardinality(U) - Cardinality(Range(f) \cap U)
      /\ Cardinality(Range(f) \cap U) \in Nat /\ Cardinality(U) \in Nat
  <2>1. IsFiniteSet(Range(f) \cap U)
    BY <1>2, FS_Subset
  <2> QED BY <2>1, <1>2, <1>5, FS_Union, FS_CardinalityType
<1>7. Cardinality(Pages) <= Cardinality(Range(f) \cup U)
  BY <1>4, <1>6, FS_Subset
<1>8. Cardinality(Pages) = NPages
  <2>1. 0 \in Int /\ NPages - 1 \in Int /\ ~(0 > NPages - 1) /\ NPages - 1 - 0 + 1 = NPages
    BY PagedKvAssumption
  <2> QED BY <2>1, FS_Interval DEF Pages
<1>9. Len(f) \in Nat /\ NPages \in Nat
  BY <1>1, PagedKvAssumption
<1>10. NPages <= Len(f) + SumFunctionOnSet(n, Holders)
  BY <1>2, <1>5, <1>6, <1>7, <1>8, <1>9
<1> QED BY <1>10 DEF f

(* The request that lacks a page needs more than it holds and is free. *)
LEMMA LacksMeans ==
  ASSUME TypeInv, NeedInv, LacksPage
  PROVE  \E r \in Holders :
           Len(per_slot_held[layer][slot[r]]) + Len(free[layer]) < PagesFor(RowsOf(r))
<1>0. free[layer] \in Seq(Pages) /\ Len(free[layer]) \in Nat /\ layer \in Layers
  <2>1. free[layer] \in Seq(Pages) /\ layer \in Layers
    BY DEF TypeInv, TypeOK
  <2> QED BY <2>1, LenProperties
<1>1. ASSUME NEW i \in DOMAIN batch
      PROVE  LET r == batch[i]
             IN  /\ r \in Requests /\ r \in Holders /\ Serving(r) /\ UpTo(r) /\ NeedFor(r)
                 /\ slot[r] \in Slots
                 /\ Len(Held(r)) \in Nat /\ Held(r) = per_slot_held[layer][slot[r]]
                 /\ RowsOf(r) = End(r) /\ PagesFor(End(r)) \in Nat
                 /\ PagesFor(First(r)) \in Nat
                 /\ First(r) \in Nat /\ End(r) \in Nat /\ First(r) < End(r)
  <2> DEFINE r == batch[i]
  <2>1. r \in Requests /\ Serving(r) /\ slot[r] \in Slots
    BY BatchHasSlots
  <2>2. r \in Holders /\ UpTo(r) /\ NeedFor(r)
    BY <2>1 DEF NeedInv, Holders, Serving
  <2>3. Held(r) = per_slot_held[layer][slot[r]] /\ Len(Held(r)) \in Nat
    BY <1>0, <2>1, HeldIsList DEF Held
  <2> HIDE DEF r
  <2>4. /\ RowsOf(r) = End(r) /\ PagesFor(End(r)) \in Nat /\ PagesFor(First(r)) \in Nat
        /\ First(r) \in Nat /\ End(r) \in Nat /\ First(r) < End(r)
    BY <2>1, <2>2, RowsToCome, PagesDue
  <2> QED BY <2>1, <2>2, <2>3, <2>4 DEF r
<1>2. CASE Len(batch) = 1
  <2> DEFINE r == batch[1]
             k == Len(free[layer])
             n == Len(Held(r))
  <2>1. 1 \in DOMAIN batch /\ Missing(r) > k
    BY <1>2 DEF LacksPage, TypeInv, TypeOK
  <2>2. Missing(r) = IF PagesFor(End(r)) > n THEN PagesFor(End(r)) - n ELSE 0
    BY DEF Missing
  <2>3. /\ r \in Holders /\ n \in Nat /\ Held(r) = per_slot_held[layer][slot[r]]
        /\ RowsOf(r) = End(r) /\ PagesFor(End(r)) \in Nat
    BY <1>1, <2>1
  <2> HIDE DEF r, k
  <2>4. n + k < PagesFor(RowsOf(r))
    <3> HIDE DEF n
    <3> QED BY <1>0, <2>1, <2>2, <2>3 DEF k
  <2> QED BY <2>3, <2>4 DEF k
<1>3. CASE Len(batch) # 1
  <2> DEFINE r == batch[row]
             k == Len(free[layer])
             n == Len(Held(r))
  <2>1. /\ row \in DOMAIN batch /\ First(r) < MaxSeqLen /\ First(r) % PageSize = 0
        /\ free[layer] = <<>> \/ n >= MaxPagesPerSlot
    BY <1>3 DEF LacksPage, StartsPage
  <2>2. /\ r \in Requests /\ r \in Holders /\ Serving(r) /\ NeedFor(r) /\ slot[r] \in Slots
        /\ n \in Nat /\ Held(r) = per_slot_held[layer][slot[r]]
        /\ RowsOf(r) = End(r) /\ PagesFor(End(r)) \in Nat /\ PagesFor(First(r)) \in Nat
        /\ First(r) \in Nat /\ End(r) \in Nat /\ First(r) < End(r)
    BY <1>1, <2>1
  <2>3. ~Arranged(r, layer)
    BY <1>0, <2>1 DEF Arranged, NeedInv, IsInjective, Layers, TypeInv, TypeOK
  <2> HIDE DEF r, n
  <2>4. n <= PagesFor(First(r))
    BY <1>0, <2>2, <2>3 DEF NeedFor, RowsDue, RowsIn, n
  <2>5. PagesFor(First(r) + 1) = PagesFor(First(r)) + 1
    BY <2>1, <2>2, NextRow
  <2>6. PagesFor(First(r)) + 1 <= PagesFor(End(r))
    <3>1. First(r) + 1 <= End(r) /\ First(r) + 1 \in Nat
      BY <2>2
    <3>2. PagesFor(First(r) + 1) <= PagesFor(End(r))
      BY <2>2, <3>1, MoreRows
    <3> QED BY <2>5, <3>2
  <2>7. PagesFor(First(r)) + 1 <= MaxPagesPerSlot
    <3>1. First(r) + 1 <= MaxSeqLen /\ First(r) + 1 \in Nat /\ MaxSeqLen \in Nat
      BY <2>1, <2>2, PagedKvAssumption
    <3>2. PagesFor(First(r) + 1) <= MaxPagesPerSlot
      BY <3>1, MoreRows DEF MaxPagesPerSlot
    <3> QED BY <2>5, <3>2
  <2>8. MaxPagesPerSlot \in Nat
    BY PagedKvAssumption, PagesForValue DEF MaxPagesPerSlot
  <2>9. free[layer] = <<>>
    BY <2>1, <2>2, <2>4, <2>7, <2>8
  <2>10. Len(free[layer]) = 0
    BY <2>9
  <2>11. n + Len(free[layer]) < PagesFor(RowsOf(r))
    BY <2>2, <2>4, <2>6, <2>10
  <2> QED BY <2>2, <2>11 DEF n
<1> QED BY <1>2, <1>3

(* A forward runs out of pages only when the rows of the requests that have a *)
(* slot need more than the pool has, for every pool and page size, every cap  *)
(* and any prompts: whatever failed before, and however slots grew, none      *)
(* holds more pages than its rows need and none is held for nobody.           *)
THEOREM PoolRunsDryOnlyWhenNeeded == Spec => []ExhaustedOnlyWhenNeeded
<1>1. TypeInv /\ EmptyInv /\ PagesInv /\ NeedInv => ExhaustedOnlyWhenNeeded
  <2> SUFFICES ASSUME TypeInv, EmptyInv, PagesInv, NeedInv, LacksPage
               PROVE  SumFunctionOnSet([r \in Holders |-> PagesFor(RowsOf(r))], Holders) > NPages
    BY DEF ExhaustedOnlyWhenNeeded
  <2> DEFINE need == [r \in Holders |-> PagesFor(RowsOf(r))]
             n == [r \in Holders |-> Len(per_slot_held[layer][slot[r]])]
             k == Len(free[layer])
  <2>1. PICK q \in Holders : Len(per_slot_held[layer][slot[q]]) + k < PagesFor(RowsOf(q))
    BY LacksMeans
  <2>2. layer \in Layers /\ IsFiniteSet(Holders)
    BY HoldersAreFew DEF TypeInv, TypeOK
  <2>3. k \in Nat
    <3>1. free[layer] \in Seq(Pages)
      BY <2>2 DEF TypeInv, TypeOK
    <3> QED BY <3>1, LenProperties
  <2>4. ASSUME NEW r \in Holders
        PROVE  /\ PagesFor(RowsOf(r)) \in Nat /\ Len(per_slot_held[layer][slot[r]]) \in Nat
               /\ Len(per_slot_held[layer][slot[r]]) <= PagesFor(RowsOf(r))
    <3>1. r \in Requests /\ slot[r] \in Slots
      BY HolderHasSlot
    <3>2. UpTo(r) /\ Len(per_slot_held[layer][slot[r]]) <= PagesFor(RowsDue(r, layer))
      BY <2>2, <3>1 DEF NeedInv, NeedFor
    <3>3. /\ PagesFor(RowsOf(r)) \in Nat /\ PagesFor(RowsDue(r, layer)) \in Nat
          /\ Serving(r) => PagesFor(RowsDue(r, layer)) <= PagesFor(RowsOf(r))
      BY <3>1, <3>2, PagesDue
    <3>4. ~Serving(r) => RowsDue(r, layer) = RowsOf(r)
      BY DEF RowsDue
    <3>5. Len(per_slot_held[layer][slot[r]]) \in Nat
      BY <2>2, <3>1, HeldIsList
    <3> QED BY <3>2, <3>3, <3>4, <3>5
  <2>5. \A r \in Holders : need[r] \in Nat /\ n[r] \in Nat /\ n[r] <= need[r]
    BY <2>4
  <2>6. n[q] + k < need[q]
    BY <2>1
  <2>7. NPages <= k + SumFunctionOnSet(n, Holders)
    <3>1. \A r \in Holders : n[r] = Len(per_slot_held[layer][slot[r]])
      OBVIOUS
    <3> HIDE DEF n
    <3> QED BY <2>2, <3>1, PagesAreCounted DEF NeedInv
  <2> HIDE DEF need, n, k
  <2> DEFINE R == Holders \ {q}
  <2>8. /\ SumFunctionOnSet(n, Holders) = n[q] + SumFunctionOnSet(n, R)
        /\ SumFunctionOnSet(need, Holders) = need[q] + SumFunctionOnSet(need, R)
    BY <2>2, <2>5, SumWithout
  <2>9. IsFiniteSet(R) /\ R \subseteq Holders
    BY <2>2, FS_Subset
  <2> HIDE DEF R
  <2>10. /\ SumFunctionOnSet(n, R) <= SumFunctionOnSet(need, R)
         /\ SumFunctionOnSet(n, R) \in Nat /\ SumFunctionOnSet(need, R) \in Nat
    BY <2>5, <2>9, SumsCompare, SumIsNat
  <2>11. n[q] \in Nat /\ need[q] \in Nat /\ NPages \in Nat
    BY <2>5, PagedKvAssumption
  <2>12. SumFunctionOnSet(need, Holders) > NPages
    BY <2>3, <2>6, <2>7, <2>8, <2>10, <2>11
  <2> QED BY <2>12 DEF need
<1> QED BY <1>1, TypeInvariant, EmptyInvariant, PagesInvariant, NeedInvariant, PTL
=============================================================================
