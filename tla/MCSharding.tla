----------------------------- MODULE MCSharding ------------------------------
(* An instance of Sharding for TLC: the head counts the repository's own test  *)
(* names (32 value and 16 key heads) and two others.                            *)
EXTENDS Sharding

Layer(v, k, q, kv) ==
    [v |-> v, k |-> k, q |-> q, kv |-> kv,
     experts |-> 2, hidden |-> 2, inter |-> 8, fused |-> FALSE]
MCCheckpoints ==
    {Layer(32, 16, 16, 4), Layer(16, 16, 8, 1),
     [Layer(4, 4, 4, 4) EXCEPT !.fused = TRUE]}
MCWorlds == {1, 2, 4}
=============================================================================
