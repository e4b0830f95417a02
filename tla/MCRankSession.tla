---------------------------- MODULE MCRankSession ----------------------------
(***************************************************************************)
(* Instances of RankSession for TLC: a stage of two ranks, a pipeline of   *)
(* three stages and a hybrid of two stages of one rank.                    *)
(***************************************************************************)
EXTENDS RankSession

MCLayouts == {[kind |-> "TP", stages |-> 1, width |-> 2],
              [kind |-> "PP", stages |-> 3, width |-> 1],
              [kind |-> "HYB", stages |-> 2, width |-> 1]}

\* A forward fails on a rank that nobody meets at a barrier; the operations on a
\* slot fail on any, here on those of the smaller layouts.
MCMayFail ==
    ({"PP", "HYB"} \X {"recv", "layers", "out"})
      \cup {<<"PP", "restore">>, <<"TP", "reset">>, <<"TP", "restore">>}
      \cup ({"HYB"} \X {"reset", "snapshot", "restore"})
=============================================================================
