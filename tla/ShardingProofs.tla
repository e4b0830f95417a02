---------------------------- MODULE ShardingProofs ----------------------------
(***************************************************************************)
(* Proofs about Sharding: which cuts fit together, for every geometry and  *)
(* every number of ranks.  The argument needs no history: a part that is   *)
(* loaded is the part the loader computes (Cut), and the rest is           *)
(* arithmetic of division with remainder.                                  *)
(***************************************************************************)
EXTENDS Sharding, TLAPS

Pos == Nat \ {0}

(* What a checkpoint promises: value heads are shared out over the key heads *)
(* and query heads over the key/value heads.                                 *)
Geometry ==
    /\ Checkpoints \subseteq [v : Pos, k : Pos, q : Pos, kv : Pos, experts : Pos,
                              hidden : Pos, inter : Pos, fused : BOOLEAN]
    /\ \A c \in Checkpoints : c.v % c.k = 0 /\ c.q % c.kv = 0
    /\ Worlds \subseteq Pos

-----------------------------------------------------------------------------
(* Division with remainder. *)
LEMMA DivMod ==
    ASSUME NEW a \in Nat, NEW d \in Pos
    PROVE  a = d * (a \div d) + (a % d) /\ a % d \in 0 .. d - 1 /\ a \div d \in Nat
BY SMT DEF Pos

LEMMA DivModUnique ==
    ASSUME NEW d \in Pos, NEW q \in Nat, NEW i \in 0 .. d - 1
    PROVE  (q * d + i) % d = i /\ (q * d + i) \div d = q
BY SMT DEF Pos

(* A multiple of d more changes the quotient and keeps the remainder. *)
LEMMA ModPlusMultiple ==
    ASSUME NEW d \in Pos, NEW q \in Nat, NEW h \in Nat
    PROVE  (q * d + h) % d = h % d /\ (q * d + h) \div d = q + (h \div d)
<1> DEFINE p == h \div d
           i == h % d
<1>1. h = d * p + i /\ i \in 0 .. d - 1 /\ p \in Nat
  BY DivMod
<1> HIDE DEF p, i
<1>2. q * d + h = (q + p) * d + i /\ q + p \in Nat
  BY <1>1, SMT DEF Pos
<1>3. ((q + p) * d + i) % d = i /\ ((q + p) * d + i) \div d = q + p
  BY <1>1, <1>2, DivModUnique
<1> QED
  BY <1>2, <1>3 DEF p, i

LEMMA ExactQuotient ==
    ASSUME NEW a \in Nat, NEW d \in Pos, a % d = 0
    PROVE  a = (a \div d) * d /\ a \div d \in Nat /\ (a > 0 => a \div d > 0)
<1> DEFINE p == a \div d
<1>1. a = d * p + (a % d) /\ p \in Nat
  BY DivMod
<1> HIDE DEF p
<1>2. a = p * d
  BY <1>1, SMT DEF Pos
<1> QED
  BY <1>1, <1>2, SMT DEF Pos, p

LEMMA DivOfMultiple ==
    ASSUME NEW a \in Nat, NEW d \in Pos
    PROVE  (a * d) \div d = a /\ (a * d) % d = 0
<1>1. 0 \in 0 .. d - 1 /\ a * d + 0 = a * d
  BY SMT DEF Pos
<1> QED
  BY <1>1, DivModUnique

(* A multiple of b by a times d, divided by a, is b. *)
LEMMA DivByQuotient ==
    ASSUME NEW a \in Pos, NEW d \in Pos
    PROVE  (a * d) \div ((a * d) \div d) = d
<1>1. (a * d) \div d = a
  BY DivOfMultiple DEF Pos
<1>2. a * d = d * a /\ d \in Nat
  BY SMT DEF Pos
<1>3. (d * a) \div a = d
  BY <1>2, DivOfMultiple
<1> QED
  BY <1>1, <1>2, <1>3

(* Equal runs cover a range and do not overlap. *)
LEMMA RunsPartition ==
    ASSUME NEW w \in Pos, NEW s \in Nat, NEW u \in 0 .. s * w - 1
    PROVE  /\ s \in Pos
           /\ u \div s \in 0 .. w - 1 /\ u % s \in 0 .. s - 1
           /\ u = (u \div s) * s + (u % s)
           /\ \A p \in 0 .. w - 1, j \in 0 .. s - 1 :
                u = p * s + j => p = u \div s /\ j = u % s
<1>1. s \in Pos /\ u \in Nat
  BY SMT DEF Pos
<1> DEFINE p == u \div s
           i == u % s
<1>2. u = s * p + i /\ i \in 0 .. s - 1 /\ p \in Nat
  BY <1>1, DivMod
<1>3. \A x \in 0 .. w - 1, j \in 0 .. s - 1 : u = x * s + j => x = p /\ j = i
  BY <1>1, DivModUnique, SMT DEF Pos
<1> HIDE DEF p, i
<1>4. p < w
  <2> SUFFICES ASSUME ~(p < w) PROVE FALSE
    OBVIOUS
  <2>1. p >= w
    BY <1>2, SMT DEF Pos
  <2>2. s * p >= s * w
    BY <2>1, <1>1, <1>2, SMT DEF Pos
  <2> QED
    BY <2>2, <1>1, <1>2, SMT DEF Pos
<1>5. u = p * s + i /\ p \in 0 .. w - 1
  BY <1>2, <1>4, <1>1, SMT DEF Pos
<1> QED
  BY <1>1, <1>2, <1>3, <1>5 DEF p, i
-----------------------------------------------------------------------------
(* What is loaded is what the loader computes from the file. *)
Cut ==
    /\ file \in Checkpoints /\ n \in Worlds
    /\ \A r \in RanksOf(n) :
         /\ gdn[r] # None => gdn[r] = Gdn(r) /\ GdnFits(file.v, file.k, n)
         /\ attn[r] # None => attn[r] = Attn(r) /\ AttnFits(file.q, file.kv, n)
         /\ ffn[r] # None => /\ ffn[r] = Ffn(r)
                             /\ RowsFit(file.inter, file.hidden, n)

Maps == /\ gdn = [r \in RanksOf(n) |-> gdn[r]]
        /\ attn = [r \in RanksOf(n) |-> attn[r]]
        /\ ffn = [r \in RanksOf(n) |-> ffn[r]]

LEMMA CutInit == Init => Cut /\ Maps
BY DEF Init, Cut, Maps

(* The parts of a rank depend on the file and the number of ranks alone. *)
LEMMA SameFile ==
    ASSUME file' = file, n' = n, NEW q
    PROVE  Gdn(q)' = Gdn(q) /\ Attn(q)' = Attn(q) /\ Ffn(q)' = Ffn(q)
<1>1. Gdn(q)' = Gdn(q)
  BY DEF Gdn
<1>2. Attn(q)' = Attn(q)
  BY DEF Attn
<1>3. Units(n)' = Units(n)
  BY DEF Units
<1>4. \A x : Gate(q, x)' = Gate(q, x) /\ Up(q, x)' = Up(q, x) /\ Down(q, x)' = Down(q, x)
  BY DEF Gate, Up, Down
<1>5. Ffn(q)' = Ffn(q)
  BY <1>3, <1>4, Zenon DEF Ffn
<1> QED
  BY <1>1, <1>2, <1>5

LEMMA CutStep == Cut /\ Maps /\ [Next]_vars => Cut' /\ Maps'
<1> SUFFICES ASSUME Cut, Maps, [Next]_vars PROVE Cut' /\ Maps'
  OBVIOUS
<1>1. file' = file /\ n' = n
  BY DEF Next, LoadGdn, LoadAttention, LoadFfn, vars
<1>2. \A q : Gdn(q)' = Gdn(q) /\ Attn(q)' = Attn(q) /\ Ffn(q)' = Ffn(q)
  BY <1>1, SameFile
<1>3. ASSUME NEW r \in RanksOf(n), LoadGdn(r) PROVE Cut' /\ Maps'
  <2>1. /\ gdn' = gdn \/ (gdn' = [gdn EXCEPT ![r] = Gdn(r)] /\ GdnFits(file.v, file.k, n))
        /\ attn' = attn /\ ffn' = ffn
    BY <1>3 DEF LoadGdn
  <2> QED
    BY <2>1, <1>1, <1>2 DEF Cut, Maps
<1>4. ASSUME NEW r \in RanksOf(n), LoadAttention(r) PROVE Cut' /\ Maps'
  <2>1. /\ attn' = attn \/ (attn' = [attn EXCEPT ![r] = Attn(r)] /\ AttnFits(file.q, file.kv, n))
        /\ gdn' = gdn /\ ffn' = ffn
    BY <1>4 DEF LoadAttention
  <2> QED
    BY <2>1, <1>1, <1>2 DEF Cut, Maps
<1>5. ASSUME NEW r \in RanksOf(n), LoadFfn(r) PROVE Cut' /\ Maps'
  <2>1. /\ ffn' = ffn \/ /\ ffn' = [ffn EXCEPT ![r] = Ffn(r)]
                         /\ RowsFit(file.inter, file.hidden, n)
        /\ gdn' = gdn /\ attn' = attn
    BY <1>5 DEF LoadFfn
  <2> QED
    BY <2>1, <1>1, <1>2 DEF Cut, Maps
<1>6. CASE UNCHANGED vars
  BY <1>6, <1>1, <1>2 DEF vars, Cut, Maps
<1> QED
  BY <1>3, <1>4, <1>5, <1>6 DEF Next

LEMMA PartsAreCutFromTheFile == Spec => []Cut
<1>1. Init => Cut /\ Maps
  BY CutInit
<1>2. Cut /\ Maps /\ [Next]_vars => (Cut /\ Maps)'
  BY CutStep
<1> QED
  BY <1>1, <1>2, PTL DEF Spec

-----------------------------------------------------------------------------
(* Recurrent layers, key heads replicated: the value heads of a rank are a   *)
(* whole number of rounds through the key heads, so cycling through them     *)
(* locally is cycling through them globally.                                 *)
LEMMA ReplicatedSlab ==
    ASSUME NEW v \in Pos, NEW k \in Pos, NEW w \in Pos, NEW r \in RanksOf(w),
           v % k = 0, KReplicates(v, k, w), GdnFits(v, k, w),
           NEW h \in 0 .. Share(v, w) - 1
    PROVE  LET key == KeyHeadOuter(h, Share(v, w), k)
               whole == KeyHeadOuter(Slab(v, k, w, r)[2 * k + h] - 2 * k, v, k)
           IN  Slab(v, k, w, r)[key] = whole /\ Slab(v, k, w, r)[k + key] = k + whole
<1> DEFINE vl == Share(v, w)
<1>1. vl \in Pos /\ vl % k = 0 /\ vl * w = v
  BY DivMod DEF GdnFits, GlobalV, Share, Pos
<1> HIDE DEF vl
<1>2. PICK m \in Pos : vl = m * k /\ m = vl \div k
  <2>1. vl \in Nat /\ vl > 0
    BY <1>1, SMT DEF Pos
  <2>2. vl = (vl \div k) * k /\ vl \div k \in Nat /\ vl \div k > 0
    BY <1>1, <2>1, ExactQuotient
  <2>3. vl \div k \in Pos
    BY <2>2, SMT DEF Pos
  <2> QED
    BY <2>2, <2>3
<1>3. PICK g \in Pos : v = g * k /\ g = v \div k
  BY ExactQuotient DEF Pos
<1>4. vl \div NRep(vl, k) = k /\ v \div NRep(v, k) = k
  BY <1>2, <1>3, DivByQuotient DEF NRep
<1>5. LocalK(v, k, w) = k /\ GlobalK(v, k, w) = k
  BY DEF LocalK, GlobalK
<1>6. h \in Nat /\ h < vl /\ r \in Nat /\ k \in Nat /\ r * vl \in Nat
  BY <1>1, SMT DEF vl, RanksOf, Pos
<1>7. DOMAIN Slab(v, k, w, r) = 0 .. 2 * k + vl - 1
  BY <1>5 DEF Slab, vl
<1>8. Slab(v, k, w, r)[2 * k + h] = 2 * k + r * vl + h
  <2>1. 2 * k + h \in 0 .. 2 * k + vl - 1
    BY <1>1, <1>6, SMT DEF Pos
  <2>2. Slab(v, k, w, r)[2 * k + h] = SlabRow(v, k, w, r, 2 * k + h)
    BY <2>1, <1>5 DEF Slab, vl
  <2>3. SlabRow(v, k, w, r, 2 * k + h) = 2 * k + r * vl + (2 * k + h - 2 * k)
    BY <1>5, <1>6, SMT DEF SlabRow, vl
  <2> QED
    BY <2>2, <2>3, <1>6, SMT
<1>9. KeyHeadOuter(h, vl, k) = h % k
  BY <1>4 DEF KeyHeadOuter
<1>10. KeyHeadOuter(Slab(v, k, w, r)[2 * k + h] - 2 * k, v, k) = h % k
  <2>1. Slab(v, k, w, r)[2 * k + h] - 2 * k = (r * m) * k + h /\ r * m \in Nat
    BY <1>2, <1>6, <1>8, SMT DEF Pos
  <2>2. ((r * m) * k + h) % k = h % k
    BY <2>1, <1>6, ModPlusMultiple
  <2> QED
    BY <2>1, <2>2, <1>4 DEF KeyHeadOuter
<1>11. h % k \in 0 .. k - 1
  BY <1>6, DivMod
<1> DEFINE x == h % k
<1> HIDE DEF x
<1>12. x \in 0 .. k - 1
  BY <1>11 DEF x
<1>13. Slab(v, k, w, r)[x] = x /\ Slab(v, k, w, r)[k + x] = k + x
  <2>1. x \in 0 .. 2 * k + vl - 1 /\ k + x \in 0 .. 2 * k + vl - 1
    BY <1>12, <1>1, SMT DEF Pos
  <2>2. /\ Slab(v, k, w, r)[x] = SlabRow(v, k, w, r, x)
        /\ Slab(v, k, w, r)[k + x] = SlabRow(v, k, w, r, k + x)
    BY <2>1, <1>5 DEF Slab, vl
  <2>3. SlabRow(v, k, w, r, x) = x /\ SlabRow(v, k, w, r, k + x) = k + x
    BY <1>5, <1>12, SMT DEF SlabRow, Pos
  <2> QED
    BY <2>2, <2>3
<1> QED
  BY <1>9, <1>10, <1>13 DEF vl, x

(* Where every rank count leaves whole rounds of value heads, the recurrent  *)
(* layers of all ranks pair their heads as one device does.                  *)
THEOREM RoundsOfValueHeadsPair ==
    ASSUME Geometry,
           \A c \in Checkpoints, w \in Worlds : KReplicates(c.v, c.k, w)
    PROVE  Spec => []GdnHeadsPair
<1>1. Cut => GdnHeadsPair
  <2> SUFFICES ASSUME Cut, NEW r \in RanksOf(n), gdn[r] # None,
                      NEW h \in 0 .. Share(file.v, n) - 1
               PROVE  LET k == file.k
                          kl == LocalK(file.v, k, n)
                          vl == Share(file.v, n)
                          key == KeyHeadOuter(h, vl, kl)
                          whole == KeyHeadOuter(gdn[r][2 * kl + h] - 2 * k, file.v, k)
                      IN  gdn[r][key] = whole /\ gdn[r][kl + key] = k + whole
    BY DEF GdnHeadsPair
  <2>1. file \in Checkpoints /\ n \in Worlds /\ KReplicates(file.v, file.k, n)
    BY DEF Cut
  <2>2. file.v \in Pos /\ file.k \in Pos /\ file.v % file.k = 0 /\ n \in Pos
    BY <2>1 DEF Geometry
  <2>3. gdn[r] = Slab(file.v, file.k, n, r) /\ GdnFits(file.v, file.k, n)
    BY DEF Cut, Gdn
  <2>4. LocalK(file.v, file.k, n) = file.k
    BY <2>1 DEF LocalK
  <2> QED
    BY <2>1, <2>2, <2>3, <2>4, ReplicatedSlab
<1> QED
  BY <1>1, PartsAreCutFromTheFile, PTL

-----------------------------------------------------------------------------
(* Recurrent layers, key heads cut like the value heads.                     *)
FullShard(v, k, w) ==
    v \in Pos /\ k \in Pos /\ w \in Pos /\ ~KReplicates(v, k, w) /\ v % k = 0 /\ k % w = 0

LEMMA CutSlab ==
    ASSUME NEW v, NEW k, NEW w, FullShard(v, k, w)
    PROVE  \E m \in Pos, a \in Pos :
              /\ k = a * w /\ v = m * (a * w) /\ Share(v, w) = m * a
              /\ LocalK(v, k, w) = a /\ GlobalK(v, k, w) = k
              /\ NRep(v, k) = m /\ NRep(Share(v, w), a) = m
              /\ \A r \in RanksOf(w) :
                   /\ \A i \in 0 .. a - 1 : /\ Slab(v, k, w, r)[i] = r * a + i
                                           /\ Slab(v, k, w, r)[a + i] = k + (r * a + i)
                   /\ \A h \in 0 .. m * a - 1 :
                        Slab(v, k, w, r)[2 * a + h] = 2 * k + (r * (m * a) + h)
<1> USE DEF FullShard
<1>1. PICK a \in Pos : k = a * w /\ a = k \div w
  <2>1. k \in Nat /\ k > 0
    BY SMT DEF Pos
  <2>2. k = (k \div w) * w /\ k \div w \in Nat /\ k \div w > 0
    BY <2>1, ExactQuotient
  <2> QED
    BY <2>2, SMT DEF Pos
<1>2. PICK m \in Pos : v = m * k /\ m = v \div k
  <2>1. v \in Nat /\ v > 0
    BY SMT DEF Pos
  <2>2. v = (v \div k) * k /\ v \div k \in Nat /\ v \div k > 0
    BY <2>1, ExactQuotient
  <2> QED
    BY <2>2, SMT DEF Pos
<1>3. v = (m * a) * w /\ m * a \in Pos
  <2>1. m * (a * w) = (m * a) * w /\ m * a \in Nat /\ m * a > 0
    BY SMT DEF Pos
  <2> QED
    BY <1>1, <1>2, <2>1 DEF Pos
<1>4. Share(v, w) = m * a
  <2>1. ((m * a) * w) \div w = m * a
    BY <1>3, DivOfMultiple DEF Pos
  <2> QED
    BY <1>3, <2>1 DEF Share
<1>5. LocalK(v, k, w) = a /\ GlobalK(v, k, w) = k
  BY <1>1 DEF LocalK, GlobalK, Share
<1>6. NRep(Share(v, w), a) = m
  <2>1. (m * a) \div a = m
    BY DivOfMultiple DEF Pos
  <2> QED
    BY <2>1, <1>4 DEF NRep
<1>7. ASSUME NEW r \in RanksOf(w), NEW i \in 0 .. a - 1
      PROVE  /\ Slab(v, k, w, r)[i] = r * a + i
             /\ Slab(v, k, w, r)[a + i] = k + (r * a + i)
  <2>1. i \in 0 .. 2 * a + m * a - 1 /\ a + i \in 0 .. 2 * a + m * a - 1
    BY <1>3, SMT DEF Pos
  <2>2. /\ Slab(v, k, w, r)[i] = SlabRow(v, k, w, r, i)
        /\ Slab(v, k, w, r)[a + i] = SlabRow(v, k, w, r, a + i)
    BY <2>1, <1>4, <1>5 DEF Slab
  <2>3. r * a \in Nat
    BY SMT DEF RanksOf, Pos
  <2>4. /\ SlabRow(v, k, w, r, i) = r * a + i
        /\ SlabRow(v, k, w, r, a + i) = k + (r * a + i)
    BY <1>5, <2>3, SMT DEF SlabRow, Pos
  <2> QED
    BY <2>2, <2>4
<1>8. ASSUME NEW r \in RanksOf(w), NEW h \in 0 .. m * a - 1
      PROVE  Slab(v, k, w, r)[2 * a + h] = 2 * k + (r * (m * a) + h)
  <2>1. 2 * a + h \in 0 .. 2 * a + m * a - 1 /\ ~(2 * a + h < a) /\ ~(2 * a + h < 2 * a)
    BY <1>3, SMT DEF Pos
  <2>2. Slab(v, k, w, r)[2 * a + h] = SlabRow(v, k, w, r, 2 * a + h)
    BY <2>1, <1>4, <1>5 DEF Slab
  <2>3. SlabRow(v, k, w, r, 2 * a + h) = 2 * k + r * (m * a) + ((2 * a + h) - 2 * a)
    <3>1. ASSUME NEW i, ~(i < a), ~(i < 2 * a)
          PROVE  SlabRow(v, k, w, r, i) = 2 * k + r * (m * a) + (i - 2 * a)
      BY <1>4, <1>5, <3>1 DEF SlabRow
    <3> QED
      BY <2>1, <3>1
  <2>4. r * (m * a) \in Nat
    BY <1>3, SMT DEF RanksOf, Pos
  <2> QED
    BY <2>2, <2>3, <2>4, SMT DEF Pos
<1>9. v = m * (a * w) /\ NRep(v, k) = m
  BY <1>1, <1>2 DEF NRep
<1> HIDE DEF FullShard
<1> WITNESS m \in Pos, a \in Pos
<1> QED
  BY <1>1, <1>4, <1>5, <1>6, <1>7, <1>8, <1>9, Zenon

(* A full shard fits a checkpoint whose value heads share a key head in runs *)
(* (rep-inner): the pairing GdnTpMode names for it.                          *)
THEOREM FullShardFitsRuns ==
    ASSUME NEW v, NEW k, NEW w, FullShard(v, k, w), NEW r \in RanksOf(w),
           NEW h \in 0 .. Share(v, w) - 1
    PROVE  LET kl == LocalK(v, k, w)
               key == KeyHeadInner(h, Share(v, w), kl)
               whole == KeyHeadInner(Slab(v, k, w, r)[2 * kl + h] - 2 * k, v, k)
           IN  Slab(v, k, w, r)[key] = whole /\ Slab(v, k, w, r)[kl + key] = k + whole
<1>1. PICK m \in Pos, a \in Pos :
              /\ k = a * w /\ v = m * (a * w) /\ Share(v, w) = m * a
              /\ LocalK(v, k, w) = a
              /\ NRep(v, k) = m /\ NRep(Share(v, w), a) = m
              /\ \A i \in 0 .. a - 1 : /\ Slab(v, k, w, r)[i] = r * a + i
                                      /\ Slab(v, k, w, r)[a + i] = k + (r * a + i)
              /\ \A i \in 0 .. m * a - 1 :
                   Slab(v, k, w, r)[2 * a + i] = 2 * k + (r * (m * a) + i)
  BY CutSlab
<1>2. h \in 0 .. m * a - 1 /\ h \in Nat /\ r \in Nat /\ k \in Nat
  BY <1>1, SMT DEF RanksOf, Pos, FullShard
<1> DEFINE x == h \div m
<1>3. x \in 0 .. a - 1
  BY <1>2, RunsPartition DEF Pos
<1>4. Slab(v, k, w, r)[2 * a + h] - 2 * k = (r * a) * m + h
  <2>1. Slab(v, k, w, r)[2 * a + h] = 2 * k + (r * (m * a) + h)
    BY <1>1, <1>2
  <2>2. r * (m * a) = (r * a) * m /\ r * (m * a) \in Nat
    BY <1>2, SMT DEF Pos
  <2> QED
    BY <2>1, <2>2, <1>2, SMT
<1>5. ((r * a) * m + h) \div m = r * a + x
  <2>1. r * a \in Nat
    BY <1>2, SMT DEF Pos
  <2> QED
    BY <2>1, <1>2, ModPlusMultiple
<1>6. Slab(v, k, w, r)[x] = r * a + x /\ Slab(v, k, w, r)[a + x] = k + (r * a + x)
  BY <1>1, <1>3
<1> QED
  BY <1>1, <1>4, <1>5, <1>6 DEF KeyHeadInner

(* Where value heads cycle through the key heads (rep-outer) and there are   *)
(* more of them than key heads, the first value head of rank 0's second      *)
(* round meets key head 0 instead of the one the next rank has.              *)
LEMMA SecondRoundMispairs ==
    ASSUME NEW v, NEW k, NEW w, FullShard(v, k, w), v # k
    PROVE  LET kl == LocalK(v, k, w)
               key == KeyHeadOuter(kl, Share(v, w), kl)
               whole == KeyHeadOuter(Slab(v, k, w, 0)[2 * kl + kl] - 2 * k, v, k)
           IN  /\ kl \in 0 .. Share(v, w) - 1
               /\ key = 0 /\ whole = kl /\ Slab(v, k, w, 0)[key] # whole
<1>1. PICK m \in Pos, a \in Pos :
              /\ k = a * w /\ v = m * (a * w) /\ Share(v, w) = m * a
              /\ LocalK(v, k, w) = a
              /\ NRep(v, k) = m /\ NRep(Share(v, w), a) = m
              /\ \A r \in RanksOf(w) :
                   /\ \A i \in 0 .. a - 1 : Slab(v, k, w, r)[i] = r * a + i
                   /\ \A h \in 0 .. m * a - 1 :
                        Slab(v, k, w, r)[2 * a + h] = 2 * k + (r * (m * a) + h)
  BY CutSlab
<1>2. m >= 2 /\ w >= 2
  <2>1. m # 1
    <3> SUFFICES ASSUME m = 1 PROVE FALSE
      OBVIOUS
    <3> QED
      BY <1>1, SMT DEF FullShard, Pos
  <2>2. w # 1
    BY DEF FullShard, KReplicates
  <2> QED
    BY <2>1, <2>2, SMT DEF FullShard, Pos
<1>3. a \in 0 .. m * a - 1 /\ 0 \in RanksOf(w) /\ 0 \in 0 .. a - 1
  BY <1>2, SMT DEF RanksOf, Pos, FullShard
<1>4. a < k /\ k \in Pos /\ a \in Nat /\ m \in Nat
  BY <1>1, <1>2, SMT DEF FullShard, Pos
<1>5. (m * a) \div m = a /\ v \div m = k
  <2>1. (a * m) \div m = a /\ (k * m) \div m = k
    BY <1>4, DivOfMultiple DEF Pos
  <2>2. m * a = a * m /\ v = k * m
    BY <1>1, <1>4, SMT DEF FullShard, Pos
  <2> QED
    BY <2>1, <2>2
<1>6. KeyHeadOuter(a, Share(v, w), a) = 0
  <2>1. a % a = 0
    BY DivModUnique, SMT DEF Pos
  <2> QED
    BY <2>1, <1>1, <1>5 DEF KeyHeadOuter
<1>7. Slab(v, k, w, 0)[2 * a + a] - 2 * k = a
  <2>1. Slab(v, k, w, 0)[2 * a + a] = 2 * k + (0 * (m * a) + a)
    BY <1>1, <1>3
  <2> QED
    BY <2>1, <1>4, SMT DEF Pos
<1>8. KeyHeadOuter(a, v, k) = a
  <2>1. a % k = a
    <3>1. a \in 0 .. k - 1 /\ 0 * k + a = a
      BY <1>4, SMT DEF Pos
    <3> QED
      BY <3>1, <1>4, DivModUnique
  <2> QED
    BY <2>1, <1>1, <1>5 DEF KeyHeadOuter
<1>9. Slab(v, k, w, 0)[0] = 0
  <2>1. Slab(v, k, w, 0)[0] = 0 * a + 0
    BY <1>1, <1>3
  <2> QED
    BY <2>1, SMT DEF Pos
<1> QED
  BY <1>1, <1>3, <1>6, <1>7, <1>8, <1>9, SMT DEF Pos

(* No full shard of a checkpoint with more value than key heads escapes: from *)
(* the moment rank 0 has loaded a recurrent layer, heads are mispaired.       *)
THEOREM FullShardBreaksCycles ==
    Spec => [](/\ FullShard(file.v, file.k, n) /\ file.v # file.k /\ gdn[0] # None
               => ~GdnHeadsPair)
<1> DEFINE Mispaired == /\ FullShard(file.v, file.k, n) /\ file.v # file.k /\ gdn[0] # None
                        => ~GdnHeadsPair
<1>1. Cut => Mispaired
  <2> SUFFICES ASSUME Cut, FullShard(file.v, file.k, n), file.v # file.k, gdn[0] # None,
                      GdnHeadsPair
               PROVE  FALSE
    OBVIOUS
  <2>1. 0 \in RanksOf(n)
    BY SMT DEF FullShard, RanksOf, Pos
  <2>2. gdn[0] = Slab(file.v, file.k, n, 0)
    BY <2>1 DEF Cut, Gdn
  <2> DEFINE kl == LocalK(file.v, file.k, n)
             key == KeyHeadOuter(kl, Share(file.v, n), kl)
             whole == KeyHeadOuter(gdn[0][2 * kl + kl] - 2 * file.k, file.v, file.k)
  <2>3. kl \in 0 .. Share(file.v, n) - 1 /\ gdn[0][key] # whole
    BY <2>2, SecondRoundMispairs
  <2>4. gdn[0][key] = whole
    BY <2>1, <2>3 DEF GdnHeadsPair
  <2> QED
    BY <2>3, <2>4
<1> QED
  BY <1>1, PartsAreCutFromTheFile, PTL

-----------------------------------------------------------------------------
(* Attention layers.  Cut key/value heads go with the query heads that share *)
(* them; a single one may be on every rank.                                  *)
LEMMA CutHeads ==
    ASSUME NEW q \in Pos, NEW kv \in Pos, NEW w \in Pos, NEW r \in RanksOf(w),
           q % kv = 0, kv % w = 0, NEW h \in 0 .. Share(q, w) - 1
    PROVE  KvRow(kv, w, r, KvHead(h, Share(q, w), LocalKv(kv, w)))
             = KvHead(SliceRow(q, w, r, h), q, kv)
<1>1. kv \in Nat /\ q \in Nat /\ kv > 0 /\ q > 0 /\ r \in Nat
  BY SMT DEF RanksOf, Pos
<1>2. PICK a \in Pos : kv = a * w /\ a = kv \div w
  <2>1. kv = (kv \div w) * w /\ kv \div w \in Nat /\ kv \div w > 0
    BY <1>1, ExactQuotient
  <2> QED
    BY <2>1, SMT DEF Pos
<1>3. PICK g \in Pos : q = g * kv /\ g = q \div kv
  <2>1. q = (q \div kv) * kv /\ q \div kv \in Nat /\ q \div kv > 0
    BY <1>1, ExactQuotient
  <2> QED
    BY <2>1, SMT DEF Pos
<1>4. ~KvReplicated(kv, w)
  BY <1>2, SMT DEF KvReplicated, Pos
<1>5. Share(q, w) = g * a /\ g * a \in Nat
  <2>1. g * (a * w) = (g * a) * w /\ g * a \in Nat
    BY SMT DEF Pos
  <2>2. ((g * a) * w) \div w = g * a
    BY <2>1, DivOfMultiple
  <2> QED
    BY <1>2, <1>3, <2>1, <2>2 DEF Share
<1>6. LocalKv(kv, w) = a /\ Share(kv, w) = a
  BY <1>2, <1>4 DEF LocalKv, Share
<1>7. (g * a) \div a = g
  BY DivOfMultiple DEF Pos
<1>8. KvRow(kv, w, r, KvHead(h, Share(q, w), LocalKv(kv, w))) = r * a + (h \div g)
  BY <1>4, <1>5, <1>6, <1>7 DEF KvRow, SliceRow, KvHead
<1>9. r * (g * a) + h = (r * a) * g + h /\ r * a \in Nat /\ h \in Nat
  BY <1>1, <1>5, SMT DEF Pos
<1>10. ((r * a) * g + h) \div g = r * a + (h \div g)
  BY <1>9, ModPlusMultiple
<1> QED
  BY <1>3, <1>5, <1>8, <1>9, <1>10 DEF KvHead, SliceRow

(* The head a kernel picks is one the rank has. *)
LEMMA LocalKvHead ==
    ASSUME NEW q \in Pos, NEW kv \in Pos, NEW w \in Pos, q % w = 0, q % kv = 0,
           kv % w = 0 \/ kv = 1, NEW h \in 0 .. Share(q, w) - 1
    PROVE  KvHead(h, Share(q, w), LocalKv(kv, w)) \in 0 .. LocalKv(kv, w) - 1
<1> DEFINE s == Share(q, w)
           l == LocalKv(kv, w)
<1>1. l \in Pos /\ s \in Pos /\ s % l = 0
  <2>1. CASE kv % w = 0
    <3>1. kv \in Nat /\ q \in Nat /\ kv > 0 /\ q > 0
      BY SMT DEF Pos
    <3>2. kv = (kv \div w) * w /\ kv \div w \in Nat /\ kv \div w > 0
      BY <2>1, <3>1, ExactQuotient
    <3>3. q = (q \div kv) * kv /\ q \div kv \in Nat /\ q \div kv > 0
      BY <3>1, ExactQuotient
    <3> DEFINE a == kv \div w
               g == q \div kv
    <3> HIDE DEF a, g
    <3>4. kv = a * w /\ a \in Pos /\ q = g * kv /\ g \in Pos
      BY <3>2, <3>3, SMT DEF Pos, a, g
    <3>5. ~(kv < w)
      BY <3>4, SMT DEF Pos
    <3>6. g * (a * w) = (g * a) * w /\ g * a \in Pos
      BY <3>4, SMT DEF Pos
    <3>7. s = g * a
      BY <3>4, <3>6, DivOfMultiple DEF Share, Pos
    <3>8. (g * a) % a = 0
      BY <3>4, DivOfMultiple DEF Pos
    <3> QED
      BY <3>4, <3>5, <3>6, <3>7, <3>8 DEF LocalKv, KvReplicated, Share, a
  <2>2. CASE kv = 1 /\ w > 1
    <3>1. l = 1
      BY <2>2 DEF LocalKv, KvReplicated
    <3>2. s \in Pos
      <4>1. q \in Nat /\ q > 0
        BY SMT DEF Pos
      <4>2. q \div w \in Nat /\ q \div w > 0
        BY <4>1, ExactQuotient
      <4> QED
        BY <4>2, SMT DEF Share, Pos
    <3>3. s % 1 = 0
      BY <3>2, SMT DEF Pos
    <3> QED
      BY <3>1, <3>2, <3>3 DEF Pos
  <2>3. CASE kv = 1 /\ w = 1
    BY <2>1, <2>3, SMT DEF Pos
  <2> QED
    BY <2>1, <2>2, <2>3, SMT DEF Pos
<1> HIDE DEF s, l
<1>2. s = (s \div l) * l /\ s \div l \in Nat /\ s \div l > 0
  <2>1. s \in Nat /\ s > 0
    BY <1>1, SMT DEF Pos
  <2> QED
    BY <1>1, <2>1, ExactQuotient
<1> DEFINE g == s \div l
<1> HIDE DEF g
<1>3. s = g * l /\ g \in Nat /\ g > 0
  BY <1>2 DEF g
<1>4. h \in 0 .. g * l - 1
  BY <1>3 DEF s
<1>5. h \div g \in 0 .. l - 1
  BY <1>1, <1>3, <1>4, RunsPartition
<1> QED
  BY <1>5 DEF KvHead, g, s, l

(* One key/value head, on every rank, is the head of all query heads. *)
LEMMA OneHead ==
    ASSUME NEW q \in Pos, NEW w \in Pos, NEW r \in RanksOf(w),
           q % w = 0, w > 1, NEW h \in 0 .. Share(q, w) - 1
    PROVE  KvRow(1, w, r, KvHead(h, Share(q, w), LocalKv(1, w)))
             = KvHead(SliceRow(q, w, r, h), q, 1)
<1> DEFINE s == Share(q, w)
<1>1. q = s * w /\ s \in Nat
  <2>1. q \in Nat
    BY DEF Pos
  <2> QED
    BY <2>1, ExactQuotient DEF Share
<1>2. LocalKv(1, w) = 1 /\ KvReplicated(1, w)
  BY DEF LocalKv, KvReplicated
<1> HIDE DEF s
<1>3. s \div 1 = s /\ q \div 1 = q
  <2>1. (s * 1) \div 1 = s /\ (q * 1) \div 1 = q
    BY <1>1, DivOfMultiple DEF Pos
  <2> QED
    BY <2>1, <1>1, SMT DEF Pos
<1>4. h \in 0 .. s - 1 /\ h \in Nat /\ r \in Nat /\ s \in Pos /\ r <= w - 1
  BY <1>1, SMT DEF s, RanksOf, Pos
<1>5. h \div s = 0
  <2>1. 0 * s + h = h
    BY <1>4, SMT DEF Pos
  <2> QED
    BY <2>1, <1>4, DivModUnique
<1>6. r * s + h \in 0 .. q - 1
  <2>1. r * s <= (w - 1) * s
    BY <1>4, SMT DEF Pos
  <2>2. (w - 1) * s = q - s /\ r * s \in Nat
    BY <1>1, <1>4, SMT DEF Pos
  <2> QED
    BY <2>1, <2>2, <1>4, SMT DEF Pos
<1>7. (r * s + h) \div q = 0
  <2>1. 0 * q + (r * s + h) = r * s + h
    BY <1>6, SMT DEF Pos
  <2> QED
    BY <2>1, <1>6, DivModUnique
<1> QED
  BY <1>2, <1>3, <1>5, <1>7 DEF KvRow, KvHead, SliceRow, s

(* Where the key/value heads divide over the ranks or there is one, every    *)
(* query head attends the key/value head it attends on one device.           *)
THEOREM CutOrSingleHeadsPair ==
    ASSUME Geometry,
           \A c \in Checkpoints, w \in Worlds : c.kv % w = 0 \/ c.kv = 1
    PROVE  Spec => []AttnHeadsPair
<1>1. Cut => AttnHeadsPair
  <2> SUFFICES ASSUME Cut, NEW r \in RanksOf(n), attn[r] # None,
                      NEW h \in 0 .. Share(file.q, n) - 1
               PROVE  attn[r].kv[KvHead(h, Share(file.q, n), LocalKv(file.kv, n))]
                        = KvHead(attn[r].q[h], file.q, file.kv)
    BY DEF AttnHeadsPair
  <2>1. file \in Checkpoints /\ n \in Worlds
    BY DEF Cut
  <2>2. /\ file.q \in Pos /\ file.kv \in Pos /\ n \in Pos /\ file.q % file.kv = 0
        /\ file.kv % n = 0 \/ file.kv = 1
    BY <2>1 DEF Geometry
  <2>3. attn[r] = Attn(r) /\ file.q % n = 0
    BY DEF Cut, AttnFits
  <2>4. attn[r].q[h] = SliceRow(file.q, n, r, h)
    BY <2>3 DEF Attn, Slice
  <2> DEFINE x == KvHead(h, Share(file.q, n), LocalKv(file.kv, n))
  <2>5. KvRow(file.kv, n, r, x) = KvHead(SliceRow(file.q, n, r, h), file.q, file.kv)
    <3>1. CASE file.kv % n = 0
      BY <2>2, <3>1, CutHeads
    <3>2. CASE file.kv = 1 /\ n > 1
      BY <2>2, <2>3, <3>2, OneHead
    <3>3. CASE n = 1
      <4>1. file.kv % n = 0
        BY <2>2, <3>3, SMT DEF Pos
      <4> QED
        BY <4>1, <2>2, CutHeads
    <3> QED
      BY <2>2, <3>1, <3>2, <3>3, SMT DEF Pos
  <2>6. x \in 0 .. LocalKv(file.kv, n) - 1
    BY <2>2, <2>3, LocalKvHead
  <2>7. attn[r].kv[x] = KvRow(file.kv, n, r, x)
    BY <2>3, <2>6 DEF Attn
  <2> QED
    BY <2>4, <2>5, <2>7
<1> QED
  BY <1>1, PartsAreCutFromTheFile, PTL

(* Several key/value heads that are replicated because there are fewer of    *)
(* them than ranks are shared out anew among a rank's own query heads: on    *)
(* rank 0 a query head attends the second of them, where on one device the   *)
(* first belongs to all of the rank's query heads.                           *)
THEOREM SeveralReplicatedHeadsMispair ==
    ASSUME NEW q \in Pos, NEW kv \in Pos, NEW w \in Pos, q % kv = 0, q % w = 0,
           KvReplicated(kv, w), kv > 1, Share(q, w) % kv = 0
    PROVE  LET h == Share(q, w) \div kv
           IN  /\ h \in 0 .. Share(q, w) - 1
               /\ KvRow(kv, w, 0, KvHead(h, Share(q, w), LocalKv(kv, w))) = 1
               /\ KvHead(SliceRow(q, w, 0, h), q, kv) = 0
<1> DEFINE s == Share(q, w)
           h == s \div kv
           g == q \div kv
<1>1. q = s * w /\ s \in Pos
  <2>1. q \in Nat /\ q > 0
    BY SMT DEF Pos
  <2>2. q = (q \div w) * w /\ q \div w \in Nat /\ q \div w > 0
    BY <2>1, ExactQuotient
  <2> QED
    BY <2>2, SMT DEF Share, Pos
<1>2. LocalKv(kv, w) = kv /\ kv < w
  BY DEF LocalKv, KvReplicated
<1>3. s % kv = 0
  OBVIOUS
<1> HIDE DEF s
<1>4. s = h * kv /\ h \in Nat /\ h > 0
  <2>1. s \in Nat /\ s > 0
    BY <1>1, SMT DEF Pos
  <2> QED
    BY <2>1, <1>3, ExactQuotient
<1>5. q = g * kv /\ g \in Nat /\ g > 0
  <2>1. q \in Nat /\ q > 0
    BY SMT DEF Pos
  <2> QED
    BY <2>1, ExactQuotient
<1>6. s \div kv = h
  OBVIOUS
<1>7. q \div kv = g
  OBVIOUS
<1> HIDE DEF h, g
<1>8. h < s
  BY <1>4, SMT DEF Pos
<1>9. h < g
  <2> SUFFICES ASSUME ~(h < g) PROVE FALSE
    OBVIOUS
  <2>1. g <= h
    BY <1>4, <1>5, SMT
  <2>2. g * kv <= h * kv
    BY <2>1, <1>4, <1>5, SMT DEF Pos
  <2>3. s < s * w
    BY <1>1, <1>2, SMT DEF Pos
  <2> QED
    BY <2>2, <2>3, <1>1, <1>4, <1>5, SMT DEF Pos
<1>10. h \div h = 1
  <2>1. 1 * h = h
    BY <1>4, SMT
  <2> QED
    BY <2>1, <1>4, DivOfMultiple DEF Pos
<1>11. h \div g = 0
  <2>1. 0 * g + h = h /\ h \in 0 .. g - 1
    BY <1>4, <1>5, <1>9, SMT
  <2> QED
    BY <2>1, <1>5, DivModUnique DEF Pos
<1>12. KvRow(kv, w, 0, KvHead(h, s, LocalKv(kv, w))) = 1
  BY <1>2, <1>6, <1>10 DEF KvRow, KvHead
<1>13. SliceRow(q, w, 0, h) = h
  <2>1. 0 * s + h = h
    BY <1>1, <1>4, SMT DEF Pos
  <2> QED
    BY <2>1 DEF SliceRow, s
<1>14. h \in 0 .. s - 1
  BY <1>1, <1>4, <1>8, SMT DEF Pos
<1> QED
  BY <1>6, <1>7, <1>11, <1>12, <1>13, <1>14 DEF KvHead, s

-----------------------------------------------------------------------------
(* Feed-forward layers: the offsets a loader adds up are the row-major       *)
(* address of an element of the checkpoint.                                  *)
LEMMA Distributes ==
    ASSUME NEW a \in Int, NEW b \in Int, NEW c \in Int PROVE (a + b) * c = a * c + b * c
BY SMT

LEMMA ColAddress ==
    ASSUME NEW rows \in Nat, NEW cols \in Nat, NEW s \in Nat,
           NEW r \in Nat, NEW e \in Nat, NEW i \in Nat, NEW j \in Nat
    PROVE  e * (rows * cols) + r * (s * cols) + i * cols + j
             = (e * rows + (r * s + i)) * cols + j
<1>1. e * (rows * cols) = (e * rows) * cols /\ r * (s * cols) = (r * s) * cols
  BY SMT
<1>2. e * rows \in Int /\ r * s \in Int /\ (r * s) * cols \in Int
      /\ (e * rows) * cols \in Int /\ i * cols \in Int
  BY SMT
<1>3. (r * s + i) * cols = (r * s) * cols + i * cols
  BY <1>2, Distributes
<1>4. (e * rows + (r * s + i)) * cols = (e * rows) * cols + (r * s + i) * cols
  BY <1>2, Distributes, SMT
<1> QED
  BY <1>1, <1>2, <1>3, <1>4, SMT

LEMMA RowAddress ==
    ASSUME NEW rows \in Nat, NEW cols \in Nat, NEW s \in Nat,
           NEW r \in Nat, NEW e \in Nat, NEW i \in Nat, NEW j \in Nat
    PROVE  e * (rows * cols) + i * cols + r * s + j = (e * rows + i) * cols + (r * s + j)
<1>1. e * (rows * cols) = (e * rows) * cols
  BY SMT
<1>2. e * rows \in Int /\ (e * rows) * cols \in Int /\ i * cols \in Int /\ r * s \in Int
  BY SMT
<1>3. (e * rows + i) * cols = (e * rows) * cols + i * cols
  BY <1>2, Distributes
<1> QED
  BY <1>1, <1>2, <1>3, SMT

LEMMA FusedAddress ==
    ASSUME NEW rows \in Nat, NEW cols \in Nat, NEW s \in Nat, NEW half \in {0, 1},
           NEW r \in Nat, NEW e \in Nat, NEW i \in Nat, NEW j \in Nat
    PROVE  e * (2 * (rows * cols)) + half * (rows * cols) + r * (s * cols) + i * cols + j
             = (e * (2 * rows) + ((r * s + i) + half * rows)) * cols + j
<1>1. r * (s * cols) = (r * s) * cols /\ e * (2 * (rows * cols)) = (e * (2 * rows)) * cols
      /\ half * (rows * cols) = (half * rows) * cols
  BY SMT
<1>2. /\ e * (2 * rows) \in Int /\ r * s \in Int /\ half * rows \in Int
      /\ (r * s) * cols \in Int /\ i * cols \in Int /\ (half * rows) * cols \in Int
      /\ (e * (2 * rows)) * cols \in Int
  BY SMT
<1>3. (r * s + i) * cols = (r * s) * cols + i * cols
  BY <1>2, Distributes
<1>4. ((r * s + i) + half * rows) * cols = (r * s + i) * cols + (half * rows) * cols
  <2>1. r * s + i \in Int
    BY <1>2, SMT
  <2> QED
    BY <2>1, <1>2, Distributes
<1>5. (e * (2 * rows) + ((r * s + i) + half * rows)) * cols
        = (e * (2 * rows)) * cols + ((r * s + i) + half * rows) * cols
  <2>1. (r * s + i) + half * rows \in Int
    BY <1>2, SMT
  <2> QED
    BY <2>1, <1>2, Distributes
<1> QED
  BY <1>1, <1>2, <1>3, <1>4, <1>5, SMT

(* Gate, up and down agree on every unit, and the units of all ranks are the *)
(* units of the checkpoint: the all-reduce adds up each unit once.           *)
THEOREM PartialsAlwaysSumToWhole ==
    ASSUME Geometry
    PROVE  Spec => []PartialsSumToWhole
<1>1. Cut => PartialsSumToWhole
  <2> SUFFICES ASSUME Cut PROVE PartialsSumToWhole
    OBVIOUS
  <2> DEFINE s == Share(file.inter, n)
  <2>1. /\ file \in Checkpoints /\ n \in Pos /\ file.inter \in Pos
        /\ file.hidden \in Pos /\ file.experts \in Pos /\ file.fused \in BOOLEAN
    BY DEF Cut, Geometry
  <2>2. s \in Nat
    BY <2>1, DivMod DEF Share, Pos
  <2> HIDE DEF s
  <2>3. ASSUME NEW r \in RanksOf(n), ffn[r] # None, NEW x \in Units(n)
        PROVE  LET u == UnitOf(r, x[2])
               IN  /\ ffn[r].gate[x] = At(UpRows, file.hidden, x[1], u, x[3])
                   /\ ffn[r].up[x] =
                        At(UpRows, file.hidden, x[1], u + UpRows - file.inter, x[3])
                   /\ ffn[r].down[x] = At(file.hidden, file.inter, x[1], x[3], u)
    <3>1. ffn[r] = Ffn(r)
      BY <2>3 DEF Cut
    <3>2. /\ ffn[r].gate[x] = Gate(r, x) /\ ffn[r].up[x] = Up(r, x)
          /\ ffn[r].down[x] = Down(r, x)
      BY <3>1 DEF Ffn
    <3>3. /\ r \in Nat /\ x[1] \in Nat /\ x[2] \in Nat /\ x[3] \in Nat
          /\ file.inter \in Nat /\ file.hidden \in Nat
      BY <2>1, <2>2, SMT DEF Units, RanksOf, Pos, s
    <3> DEFINE u == r * s + x[2]
    <3>4. UnitOf(r, x[2]) = u /\ u \in Nat
      BY <2>2, <3>3, SMT DEF UnitOf, SliceRow, s
    <3>5. Down(r, x) = At(file.hidden, file.inter, x[1], x[3], u)
      BY <2>2, <3>3, RowAddress DEF Down, RowSource, At, s
    <3>6. CASE file.fused
      <4>1. UpRows = 2 * file.inter /\ u + 2 * file.inter - file.inter = u + 1 * file.inter
            /\ u + 0 * file.inter = u
        BY <3>3, <3>4, <3>6, SMT DEF UpRows
      <4>2. Gate(r, x) = At(UpRows, file.hidden, x[1], u + 0 * file.inter, x[3])
        BY <2>2, <3>3, <3>6, <4>1, FusedAddress DEF Gate, FusedSource, At, s
      <4>3. Up(r, x) = At(UpRows, file.hidden, x[1], u + 1 * file.inter, x[3])
        BY <2>2, <3>3, <3>6, <4>1, FusedAddress DEF Up, FusedSource, At, s
      <4> QED
        BY <3>2, <3>4, <3>5, <4>1, <4>2, <4>3
    <3>7. CASE ~file.fused
      <4>1. UpRows = file.inter /\ u + file.inter - file.inter = u
        BY <3>3, <3>4, <3>7, SMT DEF UpRows
      <4>2. /\ Gate(r, x) = At(UpRows, file.hidden, x[1], u, x[3])
            /\ Up(r, x) = At(UpRows, file.hidden, x[1], u, x[3])
        BY <2>2, <3>3, <3>7, <4>1, ColAddress DEF Gate, Up, ColSource, At, s
      <4> QED
        BY <3>2, <3>4, <3>5, <4>1, <4>2
    <3> QED
      BY <3>6, <3>7
  <2>4. ASSUME \A r \in RanksOf(n) : Booted(r), NEW u \in 0 .. file.inter - 1
        PROVE  \E r \in RanksOf(n) : \E i \in 0 .. s - 1 :
                 /\ u = UnitOf(r, i)
                 /\ \A p \in RanksOf(n), j \in 0 .. s - 1 : u = UnitOf(p, j) => p = r /\ j = i
    <3>1. 0 \in RanksOf(n)
      BY <2>1, SMT DEF RanksOf, Pos
    <3>2. file.inter % n = 0
      BY <3>1, <2>4 DEF Cut, Booted, RowsFit
    <3>3. file.inter = s * n
      BY <2>1, <3>2, ExactQuotient DEF Share, s, Pos
    <3>4. u \in 0 .. s * n - 1
      BY <3>3
    <3>5. /\ u \div s \in 0 .. n - 1 /\ u % s \in 0 .. s - 1
          /\ u = (u \div s) * s + (u % s)
          /\ \A p \in 0 .. n - 1, j \in 0 .. s - 1 :
                u = p * s + j => p = u \div s /\ j = u % s
      BY <2>1, <2>2, <3>4, RunsPartition
    <3>6. \A p, j : UnitOf(p, j) = p * s + j
      BY DEF UnitOf, SliceRow, s
    <3> QED
      BY <3>5, <3>6 DEF RanksOf
  <2> QED
    BY <2>3, <2>4 DEF PartialsSumToWhole, s
<1> QED
  BY <1>1, PartsAreCutFromTheFile, PTL
=============================================================================
