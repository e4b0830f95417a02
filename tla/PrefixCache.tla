----------------------------- MODULE PrefixCache -----------------------------
(***************************************************************************)
(* The prefix cache (server/src/prefix_cache.rs): an index from terminal   *)
(* chunk keys to captured slot states, an LRU list of those keys and a     *)
(* byte count held against a budget.  A chunk key is a chained hash of the *)
(* whole prefix it ends; it is modelled by that prefix, so keys do not     *)
(* collide and an index cell holds at most one entry.  Topology and chunk  *)
(* size are those of the one server the cache lives in.                    *)
(*                                                                         *)
(* Each operation takes the cache's lock once; the caller's steps between  *)
(* two of them interleave with everyone else's.                            *)
(***************************************************************************)
EXTENDS Integers, Sequences, FiniteSets, SequencesExt

CONSTANTS
    Prompts,      \* the prompts the clients send, sequences of tokens
    ChunkTokens,  \* prefix_cache_chunk_tokens = prefill_chunk_tokens
    RowBytes,     \* bytes of one token's KV rows in a snapshot
    StateBytes,   \* bytes of the recurrent state in a snapshot
    LogitBytes,   \* bytes of one row of logits
    Budget,       \* vram_budget_bytes
    None

ASSUME CacheAssumption ==
    /\ \A p \in Prompts : p \in Seq(Nat \ {0}) /\ Len(p) > 0
    /\ ChunkTokens \in Nat \ {0}
    /\ {RowBytes, StateBytes, LogitBytes, Budget} \subseteq Nat

VARIABLES
    by_terminal,  \* key -> entry or None
    lru_order,    \* keys, the most recently touched first
    used_bytes

cacheVars == <<by_terminal, lru_order, used_bytes>>

-----------------------------------------------------------------------------
Prefix(p, n) == SubSeq(p, 1, n)

\* The prefixes of the prompts.
Keys == UNION {{Prefix(p, n) : n \in 1 .. Len(p)} : p \in Prompts}

\* PrefixKeys::from_prompt: the lengths its chunk keys stand for, a partial
\* last chunk included.
ChunkEnds(p) ==
    {i * ChunkTokens : i \in 1 .. (Len(p) \div ChunkTokens)} \cup {Len(p)}

\* A row of logits: the tokens it was computed from, and whether the stop
\* tokens were masked out of it.
Row(tokens, masked) == [of |-> tokens, masked |-> masked]

\* Snapshot and logits bytes of an entry, as snapshot_bytes_arc and lp.len().
KvBytes(e) == StateBytes + RowBytes * Len(e.kv)
RowOf(e) == IF e.last_logits = None THEN 0 ELSE LogitBytes

\* What an entry adds to and takes off the count.
Size(e) == IF e = None THEN 0 ELSE KvBytes(e) + RowOf(e)
Sizes(table) == [k \in DOMAIN table |-> Size(table[k])]

Resident == {k \in DOMAIN by_terminal : by_terminal[k] # None}
InList(k) == \E i \in 1 .. Len(lru_order) : lru_order[i] = k

CacheInit ==
    /\ by_terminal = [k \in Keys |-> None]
    /\ lru_order = <<>>
    /\ used_bytes = 0

-----------------------------------------------------------------------------
\* longest_match: the longest key of the prompt that has an entry.
LongestMatch(p) ==
    LET hits == {n \in ChunkEnds(p) : by_terminal[Prefix(p, n)] # None}
    IN  IF hits = {} THEN None
        ELSE Prefix(p, CHOOSE n \in hits : \A m \in hits : m <= n)

\* logits_for and snapshot_for: None when the entry is gone, or has no row.
LogitsFor(k) == IF by_terminal[k] = None THEN None ELSE by_terminal[k].last_logits
SnapshotFor(k) == IF by_terminal[k] = None THEN None ELSE by_terminal[k].kv

\* push_front alone: a key may come to stand in the list twice.
ToFrontTwice(k, list) == <<k>> \o list

\* lru_order.retain(not k)
Retained(list, k) ==
    FoldLeft(LAMBDA kept, x : IF x = k THEN kept ELSE Append(kept, x), <<>>, list)

\* ... and push_front(k).
ToFront(k, list) == <<k>> \o Retained(list, k)

\* touch adds the key whether or not its entry is still there.
Touch(k) ==
    /\ lru_order' = ToFront(k, lru_order)
    /\ UNCHANGED <<by_terminal, used_bytes>>

\* A subtraction that wraps.
MinusPlain(a, b) == a - b

\* saturating_sub
Minus(a, b) == IF a >= b THEN a - b ELSE 0

\* The keys popped when the loop takes n of them off the back of the list.
Popped(list, n) == {list[i] : i \in (Len(list) - n + 1) .. Len(list)}

\* What popping them frees: saturating subtractions add up.
Freed(table, list, n) == SumFunctionOnSet(Sizes(table), Popped(list, n))

\* A loop that stops one entry early.
EvictionsOneShort(table, list, used) ==
    LET enough == {n \in 0 .. Len(list) :
                     n = Len(list) \/ Minus(used, Freed(table, list, n + 1)) <= Budget}
    IN  CHOOSE n \in enough : \A m \in enough : n <= m

\* The eviction loop of insert_with_kv stops at the first n that brings the
\* count under the budget, or at the end of the list.
Evictions(table, list, used) ==
    LET enough == {n \in 0 .. Len(list) :
                     n = Len(list) \/ Minus(used, Freed(table, list, n)) <= Budget}
    IN  CHOOSE n \in enough : \A m \in enough : n <= m

\* A table without the keys of a set.
Without(table, gone) == [k \in DOMAIN table |-> IF k \in gone THEN None ELSE table[k]]

\* insert_with_kv: replace or push, account, move to the front, evict.  The
\* new entry adds its snapshot's bytes; an entry that goes takes its
\* snapshot's and its logits' bytes off the count.
InsertWithKv(k, entry) ==
    LET prior    == by_terminal[k]
        replaced == Size(prior)
        table    == [by_terminal EXCEPT ![k] = entry]
        list     == ToFront(k, lru_order)
        used     == Minus(used_bytes, replaced) + KvBytes(entry)
        n        == Evictions(table, list, used)
    IN  /\ by_terminal' = Without(table, Popped(list, n))
        /\ lru_order' = SubSeq(list, 1, Len(list) - n)
        /\ used_bytes' = Minus(used, Freed(table, list, n))

-----------------------------------------------------------------------------
\* An entry holds the state after exactly the tokens of its key, and a row of
\* logits computed from exactly those, before any mask: what
\* prefix_cache_insert_intermediate and prefix_cache_try_capture_full capture,
\* whoever captured it and whatever ran on the slot since (routes.rs,
\* decode_loop.rs: "Captured AFTER the first token is emitted ... but BEFORE
\* the first decode forward").
EntriesAreExact ==
    \A k \in Resident :
        LET e == by_terminal[k]
        IN  /\ e.kv = k
            /\ e.n_tokens = Len(k)
            /\ e.last_logits # None => e.last_logits = Row(k, FALSE)

\* Every entry can be evicted, once: its key is in the LRU list, which holds no
\* key twice (insert_with_kv, touch).  An entry outside the list would stay
\* for ever, one listed twice would be popped for nothing.
EveryEntryIsEvictable ==
    /\ \A k \in Resident : InList(k)
    /\ \A i, j \in 1 .. Len(lru_order) : lru_order[i] = lru_order[j] => i = j

\* What all snapshots take: the doc of used_bytes is "Total VRAM used by all
\* entries".
SnapshotBytes == SumFunctionOnSet([k \in Resident |-> KvBytes(by_terminal[k])], Resident)
=============================================================================
