---------------------------- MODULE MCScheduler ----------------------------
(* Instances of Scheduler for TLC. *)
EXTENDS Scheduler, TLC

CONSTANTS r1, r2, r3, r4

(* The prompt of r1 is one partial chunk, that of r2 a whole one, and r3 has *)
(* a chunk boundary inside its prompt (ChunkTokens is 2 in every run).       *)
MCPromptLen == [r \in Requests |-> CASE r = r1 -> 1 [] r = r2 -> 2 [] r = r3 -> 3
                                  [] r = r4 -> 1]
MCMaxTokens == [r \in Requests |-> IF r = r2 THEN 2 ELSE 3]

(* Slots are interchangeable; used with invariants only. *)
SlotSymmetry == Permutations(Slots)
=============================================================================
