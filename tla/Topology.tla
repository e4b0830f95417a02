------------------------------ MODULE Topology -------------------------------
(***************************************************************************)
(* The ranks of a forward runtime: stages of a pipeline, each of the same  *)
(* number of tensor-parallel ranks.  TP is one stage, PP has stages of one *)
(* rank, HYB (hybrid) has several of both.  Rank r sits in stage r \div    *)
(* width at place r % width.                                               *)
(***************************************************************************)
EXTENDS Integers, FiniteSets, Sequences

CONSTANTS
    Layouts,  \* the topologies a run starts in: [kind, stages, width]
    NAr       \* all-reduces of one stage in one forward

ASSUME TopologyAssumption ==
    /\ Layouts \subseteq [kind : {"TP", "PP", "HYB"}, stages : Nat \ {0}, width : Nat \ {0}]
    /\ \A l \in Layouts : /\ l.kind = "TP" => l.stages = 1
                          /\ l.kind = "PP" => l.width = 1
    /\ NAr \in Nat \ {0}

VARIABLES
    layout,  \* the topology of this run
    pc,      \* what a rank's worker thread does next
    cur,     \* the command it runs
    round    \* the all-reduce of the stage it is at

topologyVars == <<layout, pc, cur, round>>

Ranks == 0 .. layout.stages * layout.width - 1
Stages == 0 .. layout.stages - 1
Stage(r) == r \div layout.width
Place(r) == r % layout.width
Group(s) == {r \in Ranks : Stage(r) = s}
Peers(r) == Group(Stage(r)) \ {r}
IsFirst(r) == Stage(r) = 0
IsLast(r) == Stage(r) = layout.stages - 1

\* The rank a rank's edge leads to, and the one its own edge comes from.
Consumer(r) == r + layout.width
Producer(r) == r - layout.width

NoCommand == [op |-> "none", id |-> 0, size |-> 0]

TopologyInit ==
    /\ layout \in Layouts
    /\ pc = [r \in Ranks |-> "idle"]
    /\ cur = [r \in Ranks |-> NoCommand]
    /\ round = [r \in Ranks |-> 0]

GoesTo(r, p) == pc' = [pc EXCEPT ![r] = p]
=============================================================================
