------------------------------ MODULE Sharding -------------------------------
(***************************************************************************)
(* How tensor-parallel ranks cut the weights of a checkpoint at boot: the  *)
(* loaders of forward/src/loader.  Each rank reads the same file and keeps *)
(* its part of a recurrent (GDN) layer, of an attention layer and of a     *)
(* feed-forward layer.  Nothing is exchanged: what a rank computes later   *)
(* is right only if the parts all ranks took fit together, and only if the *)
(* head arithmetic a kernel does on a rank's own heads finds the key head  *)
(* it would find on one device.                                            *)
(*                                                                         *)
(* A head is one row of whole blocks (head_dim, and the gate beside a      *)
(* query head, only scale offsets), a weight is addressed by its element   *)
(* in row-major order, and quantised rows are cut at block boundaries or   *)
(* the load fails.  The fall-back that re-quantises F16 tensors cuts the   *)
(* same elements.  A dense feed-forward layer has one expert.              *)
(***************************************************************************)
EXTENDS Integers

CONSTANTS
    Checkpoints,  \* geometries: heads of each kind, experts, hidden, inter, fused
    Worlds,       \* numbers of tensor-parallel ranks
    Block,        \* elements of a quantisation block
    None          \* nothing loaded yet

VARIABLES
    file,   \* the checkpoint
    n,      \* ranks of this boot
    gdn,    \* rank |-> its recurrent layer
    attn,   \* rank |-> its attention layer
    ffn,    \* rank |-> its feed-forward layer
    failed  \* a rank reported a load error: the boot is over

vars == <<file, n, gdn, attn, ffn, failed>>

RanksOf(w) == 0 .. w - 1

-----------------------------------------------------------------------------
(* Cuts.  A slice of `size` rows takes the r-th of w equal runs.            *)
Share(size, w) == size \div w
SliceRow(size, w, r, i) == r * Share(size, w) + i
Slice(size, w, r) == [i \in 0 .. Share(size, w) - 1 |-> SliceRow(size, w, r, i)]

(* Element <<e, i, j>> of experts stacked in row-major order. *)
At(rows, cols, e, i, j) == (e * rows + i) * cols + j

(* The element of the file behind element <<e, i, j>> of a rank's part, when *)
(* each expert's rows, or each row's columns, are divided over the ranks.    *)
ColSource(rows, cols, w, r, e, i, j) ==
    e * (rows * cols) + r * (Share(rows, w) * cols) + i * cols + j
RowSource(rows, cols, w, r, e, i, j) ==
    e * (rows * cols) + i * cols + r * Share(cols, w) + j

(* The up half of a fused [gate | up] stack begins after `inter` rows. *)
FusedSource(inter, hidden, w, r, half, e, i, j) ==
    e * (2 * (inter * hidden)) + half * (inter * hidden)
      + r * (Share(inter, w) * hidden) + i * hidden + j

RowsFit(rows, cols, w) == rows % w = 0 /\ cols % Block = 0
ColsFit(cols, w) == cols % w = 0 /\ Share(cols, w) % Block = 0

-----------------------------------------------------------------------------
(* Recurrent layers: a fused [Q | K | V] tensor of k, k and v heads.        *)

KReplicates(v, k, w) == w <= 1 \/ Share(v, w) % k = 0
LocalK(v, k, w) == IF KReplicates(v, k, w) THEN k ELSE Share(k, w)

(* The loader rebuilds the global counts from the local ones. *)
GlobalK(v, k, w) == IF KReplicates(v, k, w) THEN k ELSE LocalK(v, k, w) * w
GlobalV(v, w) == Share(v, w) * w

(* Row i of the packed slab: all query and key rows or a slice of them, and  *)
(* a slice of the value rows.                                                *)
SlabRow(v, k, w, r, i) ==
    LET kl == LocalK(v, k, w)
        first == IF KReplicates(v, k, w) THEN 0 ELSE r * kl
    IN  IF i < kl THEN first + i
        ELSE IF i < 2 * kl THEN GlobalK(v, k, w) + first + (i - kl)
        ELSE 2 * GlobalK(v, k, w) + r * Share(v, w) + (i - 2 * kl)
Slab(v, k, w, r) ==
    [i \in 0 .. 2 * LocalK(v, k, w) + Share(v, w) - 1 |-> SlabRow(v, k, w, r, i)]

(* The per-head vectors (ssm_a, ssm_dt) must have the rebuilt length; the    *)
(* other checks compare a multiple of w with zero.                           *)
GdnFits(v, k, w) ==
    /\ KReplicates(v, k, w) => Share(v, w) % k = 0
    /\ GlobalV(v, w) = v

(* The recurrent kernels: the key head that value head h works with, among   *)
(* v value and k key heads.  Value heads cycle through the key heads         *)
(* (rep-outer, the layout the model loaders ask for), or share one in runs.  *)
NRep(v, k) == v \div k
KeyHeadOuter(h, v, k) == h % (v \div NRep(v, k))
KeyHeadInner(h, v, k) == h \div NRep(v, k)

-----------------------------------------------------------------------------
(* Attention layers: key/value heads below the number of ranks are not cut.  *)
KvReplicated(kv, w) == kv < w
AttnFits(q, kv, w) == q % w = 0 /\ (KvReplicated(kv, w) \/ kv % w = 0)
LocalKv(kv, w) == IF KvReplicated(kv, w) THEN kv ELSE Share(kv, w)
KvRow(kv, w, r, i) == IF KvReplicated(kv, w) THEN i ELSE SliceRow(kv, w, r, i)

(* The attention kernels: runs of query heads share a key/value head. *)
KvHead(h, q, kv) == h \div (q \div kv)

-----------------------------------------------------------------------------
Gdn(r) == Slab(file.v, file.k, n, r)
Attn(r) == [q |-> Slice(file.q, n, r),
            kv |-> [i \in 0 .. LocalKv(file.kv, n) - 1 |-> KvRow(file.kv, n, r, i)]]

(* Gate and up keep a slice of the intermediate rows, down the same slice of *)
(* its columns; local units and elements of the hidden vector index them.    *)
Units(w) == (0 .. file.experts - 1) \X (0 .. Share(file.inter, w) - 1) \X (0 .. file.hidden - 1)
Gate(r, x) ==
    IF file.fused THEN FusedSource(file.inter, file.hidden, n, r, 0, x[1], x[2], x[3])
    ELSE ColSource(file.inter, file.hidden, n, r, x[1], x[2], x[3])
Up(r, x) ==
    IF file.fused THEN FusedSource(file.inter, file.hidden, n, r, 1, x[1], x[2], x[3])
    ELSE ColSource(file.inter, file.hidden, n, r, x[1], x[2], x[3])
Down(r, x) == RowSource(file.hidden, file.inter, n, r, x[1], x[3], x[2])
Ffn(r) == [gate |-> [x \in Units(n) |-> Gate(r, x)],
           up   |-> [x \in Units(n) |-> Up(r, x)],
           down |-> [x \in Units(n) |-> Down(r, x)]]

Init ==
    /\ file \in Checkpoints
    /\ n \in Worlds
    /\ gdn = [r \in RanksOf(n) |-> None]
    /\ attn = [r \in RanksOf(n) |-> None]
    /\ ffn = [r \in RanksOf(n) |-> None]
    /\ failed = FALSE

(* Ranks are booted one after the other; the first layers are recurrent.     *)
Booted(r) == ffn[r] # None
MyTurn(r) == ~failed /\ \A p \in RanksOf(n) : p < r => Booted(p)

LoadGdn(r) ==
    /\ MyTurn(r) /\ gdn[r] = None
    /\ IF GdnFits(file.v, file.k, n)
         THEN gdn' = [gdn EXCEPT ![r] = Gdn(r)] /\ UNCHANGED failed
         ELSE failed' = TRUE /\ UNCHANGED gdn
    /\ UNCHANGED <<file, n, attn, ffn>>

LoadAttention(r) ==
    /\ MyTurn(r) /\ gdn[r] # None /\ attn[r] = None
    /\ IF AttnFits(file.q, file.kv, n)
         THEN attn' = [attn EXCEPT ![r] = Attn(r)] /\ UNCHANGED failed
         ELSE failed' = TRUE /\ UNCHANGED attn
    /\ UNCHANGED <<file, n, gdn, ffn>>

LoadFfn(r) ==
    /\ MyTurn(r) /\ attn[r] # None /\ ffn[r] = None
    /\ IF RowsFit(file.inter, file.hidden, n) /\ ColsFit(file.inter, n)
         THEN ffn' = [ffn EXCEPT ![r] = Ffn(r)] /\ UNCHANGED failed
         ELSE failed' = TRUE /\ UNCHANGED ffn
    /\ UNCHANGED <<file, n, gdn, attn>>

Next == \E r \in RanksOf(n) : LoadGdn(r) \/ LoadAttention(r) \/ LoadFfn(r)

Spec == Init /\ [][Next]_vars

-----------------------------------------------------------------------------
(* gdn_layer.rs, tp_layout.rs: a rank's slab holds the key heads its value   *)
(* heads need.  Each value head of a rank works with the query and key head  *)
(* it works with on one device, so the recurrent state it builds is the one  *)
(* the checkpoint was trained for.                                           *)
GdnHeadsPair ==
    \A r \in RanksOf(n) : gdn[r] # None =>
        LET k == file.k
            kl == LocalK(file.v, k, n)
            vl == Share(file.v, n)
        IN  \A h \in 0 .. vl - 1 :
              LET key == KeyHeadOuter(h, vl, kl)
                  whole == KeyHeadOuter(gdn[r][2 * kl + h] - 2 * k, file.v, k)
              IN  gdn[r][key] = whole /\ gdn[r][kl + key] = k + whole

(* dense_attn.rs: a rank's query heads attend the key/value heads they       *)
(* attend on one device, whether those were cut or replicated.               *)
AttnHeadsPair ==
    \A r \in RanksOf(n) : attn[r] # None =>
        \A h \in 0 .. Share(file.q, n) - 1 :
            attn[r].kv[KvHead(h, Share(file.q, n), LocalKv(file.kv, n))]
              = KvHead(attn[r].q[h], file.q, file.kv)

(* dense_ffn.rs, moe.rs: local unit i of expert e on rank r is one unit of   *)
(* the checkpoint in gate, up and down alike, and each unit of the           *)
(* checkpoint is on one rank: the sum of the ranks' partial outputs is the   *)
(* layer's output.                                                           *)
UnitOf(r, i) == SliceRow(file.inter, n, r, i)
UpRows == IF file.fused THEN 2 * file.inter ELSE file.inter
PartialsSumToWhole ==
    /\ \A r \in RanksOf(n) : ffn[r] # None =>
         \A x \in Units(n) :
           LET u == UnitOf(r, x[2])
           IN  /\ ffn[r].gate[x] = At(UpRows, file.hidden, x[1], u, x[3])
               /\ ffn[r].up[x] = At(UpRows, file.hidden, x[1], u + UpRows - file.inter, x[3])
               /\ ffn[r].down[x] = At(file.hidden, file.inter, x[1], x[3], u)
    /\ (\A r \in RanksOf(n) : Booted(r)) =>
         \A u \in 0 .. file.inter - 1 :
           \E r \in RanksOf(n) : \E i \in 0 .. Share(file.inter, n) - 1 :
             /\ u = UnitOf(r, i)
             /\ \A p \in RanksOf(n), j \in 0 .. Share(file.inter, n) - 1 :
                  u = UnitOf(p, j) => p = r /\ j = i
=============================================================================
