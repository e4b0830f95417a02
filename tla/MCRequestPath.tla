---------------------------- MODULE MCRequestPath ----------------------------
(***************************************************************************)
(* Instances of RequestPath for TLC: a prompt of one chunk, and one of two *)
(* and a half chunks that begins with the first.                           *)
(***************************************************************************)
EXTENDS RequestPath, TLC

MCPrompts == {<<1, 1>>, <<1, 1, 2, 2, 1>>}
MCSymmetry == Permutations(Handlers)
=============================================================================
