----------------------------- MODULE MCPagedKv -----------------------------
(* Instances of PagedKv for TLC: pages of two rows, contexts of at most six. *)
EXTENDS PagedKv

CONSTANTS r1, r2, r3

(* Prompts that end inside a page: in the first, the second and the third.   *)
(* Chunks are of four tokens, so that r2 needs two pages at once and r3      *)
(* prefills in two chunks.                                                   *)
MCPromptLen == [r \in Requests |-> CASE r = r1 -> 1 [] r = r2 -> 3 [] r = r3 -> 5]
MCMaxTokens == [r \in Requests |-> CASE r = r1 -> 3 [] r = r2 -> 3 [] r = r3 -> 1]
=============================================================================
