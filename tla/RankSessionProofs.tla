------------------------- MODULE RankSessionProofs -------------------------
(***************************************************************************)
(* Theorems about RankSession.  The reusable barrier and the slab of a     *)
(* tensor-parallel stage stay in step, for any number of ranks, rounds and *)
(* calls and with both backends; its sums are always whole as long as no   *)
(* rank fails inside a forward; and in any layout, whatever fails, the     *)
(* ranks' recurrent states stay in step with each other.                   *)
(*                                                                         *)
(* The argument: no rank is ever more than one arrival ahead of the        *)
(* barrier, so a rank's own count of arrivals tells, modulo the barriers   *)
(* of a round, where every other rank can be; a rank has something in the  *)
(* slab exactly when it arrived in the round the clearing rank is in.      *)
(* For the recurrent states: commands come in the order of the calls, who  *)
(* has replied has nothing left to do, and what a call that gave up left   *)
(* behind can only be of an earlier call, which tore the slot unless it    *)
(* was a snapshot.                                                         *)
(* For the sums: the operations left in a stream lead its device from the  *)
(* spot in the forward where it is to the one that its host thread has     *)
(* brought the stream to, and at each spot it is known what the buffers    *)
(* hold, what the device has told its peers and what it knows of them.     *)
(* For the hand-off, with stages of one rank: a device that is in the      *)
(* forward stands behind the record of the stage before it, so that its    *)
(* load is of this forward; what an abandoned forward left in a stream     *)
(* waits for and records nothing that this one relies on, and an event     *)
(* left in an edge is overwritten before the stage behind looks at it.     *)
(***************************************************************************)
EXTENDS RankSession, FiniteSetTheorems, SequenceTheorems, TLAPS

Waiting == {"snap", "add", "clear", "done"}
Elsewhere == SlotOps \cup {"idle", "recv", "layers", "publish", "out", "sent"}

(* Barriers of one round, and how many of them a rank has arrived at. *)
PerRound == IF backend = "bar" THEN 4 ELSE 3
PhaseOf(p) == IF p = "snap" THEN 1 ELSE IF p = "add" THEN 2 ELSE IF p = "clear" THEN 3 ELSE 0

(* Arrivals of the clearing rank up to the round it is in. *)
Base == PerRound * (ticket[0] \div PerRound)

Arrived == {r \in Ranks : ticket[r] = passes[0] + 1}

BarrierTypes ==
  /\ DOMAIN pc = Ranks
  /\ ticket \in [Ranks -> Nat]
  /\ passes \in [Stages -> Nat]
  /\ arrived \in [Stages -> Nat]
  /\ DOMAIN slab = Ranks

(* The barrier: nobody is ahead of it by more than one, those that are wait at *)
(* it, and it has counted them.                                                 *)
BarrierInStep ==
  /\ \A r \in Ranks : ticket[r] = passes[0] \/ ticket[r] = passes[0] + 1
  /\ \A r \in Ranks : pc[r] \notin Waiting => ticket[r] = passes[0]
  /\ arrived[0] = Cardinality(Arrived)
  /\ arrived[0] < layout.width

PhasesInStep ==
  /\ \A r \in Ranks : ticket[r] % PerRound = PhaseOf(pc[r])
  /\ \A r \in Ranks : pc[r] = "clear" => backend = "bar"

SlabFull == \A r \in Ranks : slab[r] # None <=> ticket[r] > Base

StepInv == BarrierTypes /\ BarrierInStep /\ PhasesInStep /\ SlabFull
TpInv == layout \in Layouts /\ (layout.kind = "TP" => StepInv)

-----------------------------------------------------------------------------
(* A tensor-parallel layout is one stage, whose first rank is rank 0. *)
LEMMA TpLayout ==
  ASSUME layout \in Layouts, layout.kind = "TP"
  PROVE  /\ layout.width \in Nat /\ layout.width > 0
         /\ Ranks = 0 .. (layout.width - 1) /\ Stages = {0} /\ 0 \in Ranks
         /\ \A r \in Ranks : Stage(r) = 0 /\ Place(r) = r
         /\ Group(0) = Ranks
         /\ IsFiniteSet(Ranks) /\ Cardinality(Ranks) = layout.width
<1>1. /\ layout.width \in Nat /\ layout.width > 0 /\ layout.stages = 1
  BY TopologyAssumption
<1>2. Ranks = 0 .. (layout.width - 1) /\ Stages = {0} /\ 0 \in Ranks
  BY <1>1 DEF Ranks, Stages
<1>3. ASSUME NEW r \in Ranks PROVE Stage(r) = 0 /\ Place(r) = r
  BY <1>1, <1>2, <1>3 DEF Stage, Place
<1>4. Group(0) = Ranks
  BY <1>3 DEF Group
<1>5. IsFiniteSet(Ranks) /\ Cardinality(Ranks) = layout.width
  BY <1>1, <1>2, FS_Interval
<1> QED BY <1>1, <1>2, <1>3, <1>4, <1>5

(* Round numbers: a count and the next one belong to the same round unless the *)
(* next one is a multiple of the round's length.                                *)
LEMMA SameRound ==
  ASSUME NEW n \in Nat, NEW B \in {3, 4}
  PROVE  /\ n % B \in 0 .. (B - 1)
         /\ B * (n \div B) = n - (n % B)
         /\ (n + 1) % B = IF n % B = B - 1 THEN 0 ELSE (n % B) + 1
         /\ B * ((n + 1) \div B) = IF n % B = B - 1 THEN n + 1 ELSE n - (n % B)
<1>1. CASE B = 3
  BY <1>1
<1>2. CASE B = 4
  BY <1>2
<1> QED BY <1>1, <1>2

LEMMA PerRoundIs == PerRound \in {3, 4}
  BY DEF PerRound

(* An arrival at the barrier by a rank that is not ahead of it. *)
LEMMA ArriveInStep ==
  ASSUME layout \in Layouts, layout.kind = "TP", StepInv,
         NEW r \in Ranks, ticket[r] = passes[0], Arrive(r),
         layout' = layout, NEW p \in Waiting, GoesTo(r, p)
  PROVE  /\ ticket' = [ticket EXCEPT ![r] = passes[0] + 1]
         /\ DOMAIN pc' = Ranks /\ ticket' \in [Ranks -> Nat]
         /\ passes' \in [Stages -> Nat] /\ arrived' \in [Stages -> Nat]
         /\ BarrierInStep'
<1>1. /\ layout.width \in Nat /\ layout.width > 0 /\ Stages = {0} /\ Stage(r) = 0
      /\ IsFiniteSet(Ranks) /\ Cardinality(Ranks) = layout.width
      /\ Ranks' = Ranks /\ Stages' = Stages
  BY TpLayout DEF Ranks, Stages
<1>2. /\ passes[0] \in Nat /\ arrived[0] \in Nat /\ ticket \in [Ranks -> Nat]
      /\ DOMAIN pc = Ranks
      /\ \A q \in Ranks : ticket[q] = passes[0] \/ ticket[q] = passes[0] + 1
      /\ \A q \in Ranks : pc[q] \notin Waiting => ticket[q] = passes[0]
      /\ arrived[0] = Cardinality(Arrived) /\ arrived[0] < layout.width
  BY <1>1 DEF StepInv, BarrierTypes, BarrierInStep
<1>3. /\ ticket' = [ticket EXCEPT ![r] = passes[0] + 1]
      /\ pc' = [pc EXCEPT ![r] = p]
  BY <1>1 DEF Arrive, GoesTo
<1>4. /\ \A q \in Ranks : ticket'[q] = IF q = r THEN passes[0] + 1 ELSE ticket[q]
      /\ \A q \in Ranks : pc'[q] = IF q = r THEN p ELSE pc[q]
      /\ ticket' \in [Ranks -> Nat] /\ DOMAIN pc' = Ranks
  BY <1>2, <1>3
<1>5. IsFiniteSet(Arrived) /\ r \notin Arrived /\ Arrived \cup {r} \subseteq Ranks
  <2>1. Arrived \subseteq Ranks /\ r \notin Arrived
    BY <1>2 DEF Arrived
  <2> QED BY <2>1, <1>1, FS_Subset
<1>6. IsFiniteSet(Arrived \cup {r}) /\ Cardinality(Arrived \cup {r}) = arrived[0] + 1
  BY <1>2, <1>5, FS_AddElement
<1>7. CASE arrived[0] + 1 = layout.width
  <2>1. /\ passes' = [passes EXCEPT ![0] = @ + 1] /\ arrived' = [arrived EXCEPT ![0] = 0]
    BY <1>1, <1>7 DEF Arrive
  <2>2. /\ passes'[0] = passes[0] + 1 /\ arrived'[0] = 0
        /\ passes' \in [Stages -> Nat] /\ arrived' \in [Stages -> Nat]
    BY <1>1, <1>2, <2>1 DEF StepInv, BarrierTypes
  <2>3. Arrived \cup {r} = Ranks
    BY <1>1, <1>5, <1>6, <1>7, FS_Subset
  <2>4. \A q \in Ranks : ticket'[q] = passes'[0]
    BY <1>4, <2>2, <2>3 DEF Arrived
  <2>5. Arrived' = {}
    BY <1>1, <1>2, <2>2, <2>4 DEF Arrived
  <2>6. Cardinality(Arrived') = 0
    BY <2>5, FS_EmptySet
  <2> QED BY <1>1, <1>3, <1>4, <2>2, <2>4, <2>6 DEF BarrierInStep
<1>8. CASE arrived[0] + 1 # layout.width
  <2>1. passes' = passes /\ arrived' = [arrived EXCEPT ![0] = @ + 1]
    BY <1>1, <1>8 DEF Arrive
  <2>2. /\ passes'[0] = passes[0] /\ arrived'[0] = arrived[0] + 1
        /\ passes' \in [Stages -> Nat] /\ arrived' \in [Stages -> Nat]
    BY <1>1, <1>2, <2>1 DEF StepInv, BarrierTypes
  <2>3. Arrived' = Arrived \cup {r}
    BY <1>1, <1>2, <1>4, <2>2 DEF Arrived
  <2>4. arrived'[0] < layout'.width
    BY <1>1, <1>2, <1>8, <2>2
  <2>5. \A q \in Ranks : ticket'[q] = passes'[0] \/ ticket'[q] = passes'[0] + 1
    BY <1>2, <1>4, <2>2
  <2>6. \A q \in Ranks : pc'[q] \notin Waiting => ticket'[q] = passes'[0]
    BY <1>2, <1>4, <2>2
  <2> QED BY <1>1, <1>3, <1>4, <1>6, <2>2, <2>3, <2>4, <2>5, <2>6 DEF BarrierInStep
<1> QED BY <1>7, <1>8
(* A step that touches neither the barrier nor the slab, and takes a rank from *)
(* outside the all-reduce to outside of it.                                     *)
LEMMA QuietInStep ==
  ASSUME layout \in Layouts, layout.kind = "TP", StepInv,
         layout' = layout, UNCHANGED arVars,
         \/ pc' = pc
         \/ \E r \in Ranks, p \in Elsewhere :
              pc[r] \notin Waiting \ {"done"} /\ ticket[r] = passes[0] /\ GoesTo(r, p)
  PROVE  StepInv'
<1>1. /\ Ranks' = Ranks /\ Stages' = Stages /\ Arrived' = Arrived
      /\ PerRound' = PerRound /\ Base' = Base
      /\ ticket' = ticket /\ passes' = passes /\ arrived' = arrived /\ slab' = slab
      /\ backend' = backend
  BY DEF Ranks, Stages, arVars, Arrived, PerRound, Base
<1>2. /\ DOMAIN pc' = Ranks
      /\ \A q \in Ranks : /\ PhaseOf(pc'[q]) = PhaseOf(pc[q])
                          /\ pc'[q] \notin Waiting => ticket[q] = passes[0]
                          /\ pc'[q] = "clear" => pc[q] = "clear"
  <2>1. CASE pc' = pc
    BY <2>1 DEF StepInv, BarrierTypes, BarrierInStep
  <2>2. CASE \E r \in Ranks, p \in Elsewhere :
              pc[r] \notin Waiting \ {"done"} /\ ticket[r] = passes[0] /\ GoesTo(r, p)
    <3>1. PICK r \in Ranks, p \in Elsewhere :
              pc[r] \notin Waiting \ {"done"} /\ ticket[r] = passes[0] /\ GoesTo(r, p)
      BY <2>2
    <3>2. DOMAIN pc = Ranks /\ pc' = [pc EXCEPT ![r] = p]
      BY <3>1 DEF StepInv, BarrierTypes, GoesTo
    <3>3. PhaseOf(p) = 0 /\ PhaseOf(pc[r]) = 0
      BY <3>1 DEF PhaseOf, Waiting, Elsewhere, SlotOps
    <3> QED BY <3>1, <3>2, <3>3 DEF StepInv, BarrierInStep, Waiting, Elsewhere, SlotOps
  <2> QED BY <2>1, <2>2
<1> QED BY <1>1, <1>2 DEF StepInv, BarrierTypes, BarrierInStep, PhasesInStep, SlabFull

(* The numbers of a step that arrives: the rank's new phase, and the base, which *)
(* moves when rank 0 arrives at the last barrier of its round.                    *)
LEMMA ArriveNumbers ==
  ASSUME layout \in Layouts, layout.kind = "TP", StepInv, NEW r \in Ranks,
         ticket[r] = passes[0], ticket' = [ticket EXCEPT ![r] = passes[0] + 1],
         layout' = layout, backend' = backend
  PROVE  /\ passes[0] \in Nat /\ PerRound \in {3, 4} /\ PerRound' = PerRound
         /\ passes[0] % PerRound = PhaseOf(pc[r])
         /\ ticket'[r] % PerRound = IF PhaseOf(pc[r]) = PerRound - 1 THEN 0
                                    ELSE PhaseOf(pc[r]) + 1
         /\ PhaseOf(pc[r]) # PerRound - 1 =>
               Base = passes[0] - PhaseOf(pc[r]) /\ Base' = Base
         /\ PhaseOf(pc[r]) = PerRound - 1 =>
               /\ Base = IF ticket[0] = passes[0] THEN passes[0] - PhaseOf(pc[r])
                         ELSE passes[0] + 1
               /\ Base' = IF r = 0 THEN passes[0] + 1 ELSE Base
<1> DEFINE P == passes[0]
           B == PerRound
<1>1. /\ P \in Nat /\ 0 \in Ranks /\ ticket \in [Ranks -> Nat]
      /\ ticket[0] = P \/ ticket[0] = P + 1
      /\ P % B = PhaseOf(pc[r])
  BY TpLayout DEF StepInv, BarrierTypes, BarrierInStep, PhasesInStep
<1>2. B \in {3, 4} /\ PerRound' = B
  BY PerRoundIs DEF PerRound
<1>3. ticket'[r] = P + 1 /\ ticket'[0] = IF r = 0 THEN P + 1 ELSE ticket[0]
  BY <1>1
<1>4. /\ B * (P \div B) = P - (P % B)
      /\ (P + 1) % B = IF P % B = B - 1 THEN 0 ELSE (P % B) + 1
      /\ B * ((P + 1) \div B) = IF P % B = B - 1 THEN P + 1 ELSE P - (P % B)
  BY <1>1, <1>2, SameRound
<1>5. /\ Base = B * (ticket[0] \div B)
      /\ Base' = B * (ticket'[0] \div B)
  BY <1>2 DEF Base
<1> HIDE DEF B
<1>6. P % B # B - 1 => Base = P - PhaseOf(pc[r]) /\ Base' = Base
  BY <1>1, <1>3, <1>4, <1>5
<1>7. P % B = B - 1 =>
        /\ Base = IF ticket[0] = P THEN P - PhaseOf(pc[r]) ELSE P + 1
        /\ Base' = IF r = 0 THEN P + 1 ELSE Base
  BY <1>1, <1>3, <1>4, <1>5
<1> QED BY <1>1, <1>2, <1>3, <1>4, <1>6, <1>7 DEF B

(* An arrival that puts a rank into its next phase. *)
LEMMA ArriveKeepsPhases ==
  ASSUME layout \in Layouts, layout.kind = "TP", StepInv, NEW r \in Ranks,
         ticket[r] = passes[0], Arrive(r), layout' = layout, backend' = backend,
         NEW p \in Waiting, GoesTo(r, p),
         PhaseOf(p) = IF PhaseOf(pc[r]) = PerRound - 1 THEN 0 ELSE PhaseOf(pc[r]) + 1,
         p = "clear" => backend = "bar"
  PROVE  /\ BarrierInStep' /\ PhasesInStep'
         /\ ticket' = [ticket EXCEPT ![r] = passes[0] + 1]
         /\ DOMAIN slab' = Ranks => BarrierTypes'
<1>1. Ranks' = Ranks /\ Stages' = Stages
  BY DEF Ranks, Stages
<1>2. /\ ticket' = [ticket EXCEPT ![r] = passes[0] + 1]
      /\ DOMAIN pc' = Ranks /\ ticket' \in [Ranks -> Nat]
      /\ passes' \in [Stages -> Nat] /\ arrived' \in [Stages -> Nat]
      /\ BarrierInStep'
  BY ArriveInStep
<1>3. /\ \A q \in Ranks : pc'[q] = IF q = r THEN p ELSE pc[q]
      /\ \A q \in Ranks : q # r => ticket'[q] = ticket[q]
  BY <1>2 DEF GoesTo, StepInv, BarrierTypes
<1>4. PerRound' = PerRound /\ ticket'[r] % PerRound = PhaseOf(p)
  BY <1>2, ArriveNumbers
<1>5. PhasesInStep'
  BY <1>1, <1>3, <1>4 DEF PhasesInStep, StepInv
<1> QED BY <1>1, <1>2, <1>5 DEF BarrierTypes
-----------------------------------------------------------------------------
(* The steps of the all-reduce that arrive at the barrier.                   *)

LEMMA PointersAreSome == Pointer # None /\ \A c : HostCopy(c) # None
  BY DEF Pointer, HostCopy, None

(* Publishing puts something into the rank's own place. *)
LEMMA PublishInStep ==
  ASSUME layout \in Layouts, layout.kind = "TP", StepInv, NEW r \in Ranks, ArPublish(r)
  PROVE  StepInv'
<1> DEFINE P == passes[0]
<1>1. /\ pc[r] = "publish" /\ Arrive(r) /\ GoesTo(r, "snap")
      /\ layout' = layout /\ backend' = backend
  BY DEF ArPublish, ArSame
<1>2. PICK x : x # None /\ slab' = [slab EXCEPT ![r] = x]
  BY PointersAreSome DEF ArPublish, Publishes
<1>3. ticket[r] = P /\ PhaseOf(pc[r]) = 0 /\ PhaseOf("snap") = 1 /\ DOMAIN slab = Ranks
  BY <1>1 DEF StepInv, BarrierTypes, BarrierInStep, Waiting, PhaseOf
<1>4. PerRound \in {3, 4} /\ "snap" \in Waiting
  BY PerRoundIs DEF Waiting
<1>5. DOMAIN slab' = Ranks /\ Ranks' = Ranks
  BY <1>1, <1>2, <1>3 DEF Ranks
<1>6. BarrierTypes' /\ BarrierInStep' /\ PhasesInStep' /\ ticket' = [ticket EXCEPT ![r] = P + 1]
  BY <1>1, <1>3, <1>4, <1>5, ArriveKeepsPhases
<1>7. P \in Nat /\ Base' = Base /\ Base = P
  <2>1. PhaseOf(pc[r]) # PerRound - 1
    BY <1>3, <1>4
  <2>2. P \in Nat /\ Base = P - PhaseOf(pc[r]) /\ Base' = Base
    BY <1>1, <1>3, <1>6, <2>1, ArriveNumbers
  <2> QED BY <1>3, <2>2
<1>8. \A q \in Ranks : slab'[q] # None <=> ticket'[q] > Base'
  BY <1>2, <1>3, <1>6, <1>7 DEF StepInv, BarrierTypes, SlabFull
<1> QED BY <1>5, <1>6, <1>8 DEF StepInv, SlabFull

(* Arriving in the middle of a round leaves the slab alone. *)
LEMMA MiddleInStep ==
  ASSUME layout \in Layouts, layout.kind = "TP", StepInv, NEW r \in Ranks,
         pc[r] \in Waiting, Open(r), Arrive(r), layout' = layout, backend' = backend,
         slab' = slab, NEW p \in Waiting, GoesTo(r, p),
         PhaseOf(pc[r]) > 0, PhaseOf(p) = PhaseOf(pc[r]) + 1, PhaseOf(p) < PerRound,
         p = "clear" => backend = "bar"
  PROVE  StepInv'
<1> DEFINE P == passes[0]
<1>1. /\ Stage(r) = 0 /\ P \in Nat /\ ticket \in [Ranks -> Nat] /\ DOMAIN slab = Ranks
      /\ \A q \in Ranks : ticket[q] = P \/ ticket[q] = P + 1
      /\ Ranks' = Ranks
  BY TpLayout DEF StepInv, BarrierTypes, BarrierInStep, Ranks
<1>2. ticket[r] = P
  BY <1>1 DEF Open
<1>3. PhaseOf(pc[r]) # PerRound - 1 /\ PhaseOf(pc[r]) \in Nat
  BY PerRoundIs DEF PhaseOf
<1>4. BarrierTypes' /\ BarrierInStep' /\ PhasesInStep' /\ ticket' = [ticket EXCEPT ![r] = P + 1]
  BY <1>1, <1>2, <1>3, ArriveKeepsPhases
<1>5. Base' = Base /\ Base = P - PhaseOf(pc[r])
  BY <1>2, <1>3, <1>4, ArriveNumbers
<1>6. \A q \in Ranks : slab'[q] # None <=> ticket'[q] > Base'
  BY <1>1, <1>2, <1>3, <1>4, <1>5 DEF StepInv, SlabFull
<1> QED BY <1>1, <1>4, <1>6 DEF StepInv, SlabFull

(* The last barrier of a round: rank 0 has cleared the slab before it arrives. *)
LEMMA ClearInStep ==
  ASSUME layout \in Layouts, layout.kind = "TP", StepInv, NEW r \in Ranks,
         Open(r), Arrive(r), GoesTo(r, "done"), layout' = layout, backend' = backend,
         PhaseOf(pc[r]) = PerRound - 1,
         slab' = [q \in Ranks |-> IF Place(r) = 0 /\ Stage(q) = Stage(r) THEN None
                                  ELSE slab[q]]
  PROVE  StepInv'
<1> DEFINE P == passes[0]
           n == PhaseOf(pc[r])
<1>1. /\ Place(r) = r /\ Stage(r) = 0 /\ \A q \in Ranks : Stage(q) = 0
      /\ 0 \in Ranks /\ P \in Nat /\ ticket \in [Ranks -> Nat]
      /\ \A q \in Ranks : ticket[q] = P \/ ticket[q] = P + 1
      /\ Ranks' = Ranks
  BY TpLayout DEF StepInv, BarrierTypes, BarrierInStep, Ranks
<1>2. ticket[r] = P /\ n \in {2, 3} /\ PhaseOf("done") = 0 /\ "done" \in Waiting
  BY <1>1, PerRoundIs DEF Open, PhaseOf, Waiting
<1>3. BarrierTypes' /\ BarrierInStep' /\ PhasesInStep' /\ ticket' = [ticket EXCEPT ![r] = P + 1]
  <2>1. DOMAIN slab' = Ranks
    OBVIOUS
  <2> QED BY <1>1, <1>2, <2>1, ArriveKeepsPhases
<1>4. /\ Base = IF ticket[0] = P THEN P - n ELSE P + 1
      /\ Base' = IF r = 0 THEN P + 1 ELSE Base
  BY <1>2, <1>3, ArriveNumbers
<1>5. CASE r = 0
  <2>1. \A q \in Ranks : slab'[q] = None
    BY <1>1, <1>5
  <2>2. \A q \in Ranks : ticket'[q] <= Base'
    BY <1>1, <1>3, <1>4, <1>5
  <2>3. \A q \in Ranks : ticket'[q] \in Nat /\ Base' \in Nat
    BY <1>1, <1>3, <1>4, <1>5
  <2>4. \A q \in Ranks : slab'[q] # None <=> ticket'[q] > Base'
    BY <2>1, <2>2, <2>3
  <2> QED BY <1>1, <1>3, <2>4 DEF StepInv, SlabFull
<1>6. CASE r # 0
  <2>1. \A q \in Ranks : slab'[q] = slab[q]
    BY <1>1, <1>6
  <2>2. Base' = Base /\ (Base = P - n \/ Base = P + 1)
    BY <1>4, <1>6
  <2>3. \A q \in Ranks : ticket'[q] > Base' <=> ticket[q] > Base
    BY <1>1, <1>2, <1>3, <2>2
  <2>4. \A q \in Ranks : slab'[q] # None <=> ticket'[q] > Base'
    BY <2>1, <2>3 DEF StepInv, SlabFull
  <2> QED BY <1>1, <1>3, <2>4 DEF StepInv, SlabFull
<1> QED BY <1>5, <1>6

(* All steps of the all-reduce. *)
LEMMA ArStepInStep ==
  ASSUME layout \in Layouts, layout.kind = "TP", StepInv, NEW r \in Ranks, ArStep(r)
  PROVE  layout' = layout /\ StepInv'
<1>1. layout' = layout
  BY DEF ArStep, ArLayers, ArPublish, ArPull, ArAdd, ArClear, ArDone, ArSame
<1>2. CASE ArLayers(r)
  <2>1. UNCHANGED arVars /\ pc[r] = "layers" /\ ticket[r] = passes[0]
    BY <1>2 DEF ArLayers, StepInv, BarrierInStep, Waiting
  <2>2. \E p \in Elsewhere : GoesTo(r, p)
    <3>1. \/ GoesTo(r, IF round[r] + 1 = NAr THEN "out" ELSE "layers")
          \/ GoesTo(r, "publish")
      BY <1>2 DEF ArLayers
    <3>2. (IF round[r] + 1 = NAr THEN "out" ELSE "layers") \in Elsewhere
      BY DEF Elsewhere
    <3>3. "publish" \in Elsewhere
      BY DEF Elsewhere
    <3> QED BY <3>1, <3>2, <3>3, Zenon
  <2> QED BY <1>1, <2>1, <2>2, QuietInStep DEF Waiting
<1>3. CASE ArPublish(r)
  BY <1>1, <1>3, PublishInStep
<1>4. CASE ArPull(r)
  <2>1. /\ pc[r] = "snap" /\ Open(r) /\ Arrive(r) /\ GoesTo(r, "add")
        /\ slab' = slab /\ backend' = backend
    BY <1>4 DEF ArPull, ArSame
  <2>2. PhaseOf(pc[r]) = 1 /\ PhaseOf("add") = 2 /\ PerRound \in {3, 4}
    BY <2>1, PerRoundIs DEF PhaseOf
  <2>3. pc[r] \in Waiting /\ "add" \in Waiting
    BY <2>1 DEF Waiting
  <2> QED BY <1>1, <2>1, <2>2, <2>3, MiddleInStep
<1>5. CASE ArAdd(r) /\ backend = "bar"
  <2>1. /\ pc[r] = "add" /\ Open(r) /\ Arrive(r) /\ GoesTo(r, "clear")
        /\ slab' = slab /\ backend' = backend
    BY <1>5 DEF ArAdd, ArSame
  <2>2. PhaseOf(pc[r]) = 2 /\ PhaseOf("clear") = 3 /\ PerRound = 4
    BY <1>5, <2>1 DEF PhaseOf, PerRound
  <2>3. pc[r] \in Waiting /\ "clear" \in Waiting
    BY <2>1 DEF Waiting
  <2> QED BY <1>1, <1>5, <2>1, <2>2, <2>3, MiddleInStep
<1>6. CASE ArAdd(r) /\ backend # "bar"
  <2>1. /\ pc[r] = "add" /\ Open(r) /\ Arrive(r) /\ GoesTo(r, "done") /\ backend' = backend
        /\ slab' = [q \in Ranks |-> IF Place(r) = 0 /\ Stage(q) = Stage(r) THEN None
                                    ELSE slab[q]]
    BY <1>6 DEF ArAdd, ArSame
  <2>2. PhaseOf(pc[r]) = PerRound - 1
    BY <1>6, <2>1 DEF PhaseOf, PerRound
  <2> QED BY <1>1, <2>1, <2>2, ClearInStep
<1>7. CASE ArClear(r)
  <2>1. /\ pc[r] = "clear" /\ Open(r) /\ Arrive(r) /\ GoesTo(r, "done") /\ backend' = backend
        /\ slab' = [q \in Ranks |-> IF Place(r) = 0 /\ Stage(q) = Stage(r) THEN None
                                    ELSE slab[q]]
    BY <1>7 DEF ArClear, ArSame
  <2>2. PhaseOf(pc[r]) = PerRound - 1
    BY <2>1 DEF StepInv, PhasesInStep, PhaseOf, PerRound
  <2> QED BY <1>1, <2>1, <2>2, ClearInStep
<1>8. CASE ArDone(r)
  <2>1. UNCHANGED arVars /\ pc[r] = "done" /\ Open(r)
    BY <1>8 DEF ArDone, ArSame, arVars
  <2>2. ticket[r] = passes[0]
    BY <2>1, TpLayout DEF Open, StepInv, BarrierTypes, BarrierInStep
  <2>3. \E p \in Elsewhere : GoesTo(r, p)
    <3>1. GoesTo(r, IF round[r] = NAr THEN "out" ELSE "layers")
      BY <1>8 DEF ArDone
    <3>2. (IF round[r] = NAr THEN "out" ELSE "layers") \in Elsewhere
      BY DEF Elsewhere
    <3> QED BY <3>1, <3>2, Zenon
  <2> QED BY <1>1, <2>1, <2>2, <2>3, QuietInStep DEF Waiting
<1> QED BY <1>1, <1>2, <1>3, <1>4, <1>5, <1>6, <1>7, <1>8 DEF ArStep

-----------------------------------------------------------------------------
(* A step outside the all-reduce. *)
Outside(r) ==
  \/ pc' = pc
  \/ pc[r] \notin Waiting /\ \E p \in Elsewhere : GoesTo(r, p)

LEMMA GoesElsewhere ==
  ASSUME NEW r, pc[r] \in Elsewhere, NEW p \in Elsewhere, GoesTo(r, p)
  PROVE  Outside(r)
<1>1. pc[r] \notin Waiting
  BY DEF Elsewhere, Waiting, SlotOps
<1> QED BY <1>1, Zenon DEF Outside

(* All other steps leave the barrier and the slab alone. *)
LEMMA OtherSteps ==
  ASSUME [Next]_vars
  PROVE  \/ \E r \in Ranks : ArStep(r)
         \/ layout' = layout /\ UNCHANGED arVars /\ pc' = pc
         \/ layout' = layout /\ UNCHANGED arVars /\ \E r \in Ranks : Outside(r)
<1>1. CASE UNCHANGED vars
  BY <1>1 DEF vars, topologyVars
<1>2. CASE Forward \/ ResetKvSlot \/ SnapshotKvSlot \/ RestoreKvSlot \/ Receive
  BY <1>2 DEF Forward, ResetKvSlot, SnapshotKvSlot, RestoreKvSlot, Calls, Receive, topologyVars
<1>3. ASSUME NEW r \in Ranks, Device(r)
      PROVE  layout' = layout /\ UNCHANGED arVars /\ pc' = pc
  BY <1>3 DEF Device, Execute, topologyVars
<1> \A p \in SlotOps \cup {"idle", "recv", "layers", "out", "sent"} : p \in Elsewhere
  BY DEF Elsewhere
<1>4. ASSUME NEW r \in Ranks, PeerStep(r)
      PROVE  layout' = layout /\ UNCHANGED arVars /\ Outside(r)
  <2>1. CASE PeerRecv(r)
    <3>1. pc[r] = "recv" /\ GoesTo(r, "layers") /\ layout' = layout /\ UNCHANGED arVars
      BY <2>1 DEF PeerRecv
    <3> QED BY <3>1, GoesElsewhere
  <2>2. CASE GrowDst(r)
    BY <2>2 DEF GrowDst, topologyVars, Outside
  <2>3. CASE PeerSend(r)
    <3>1. pc[r] = "out" /\ GoesTo(r, "sent") /\ layout' = layout /\ UNCHANGED arVars
      BY <2>3 DEF PeerSend
    <3> QED BY <3>1, GoesElsewhere
  <2> QED BY <1>4, <2>1, <2>2, <2>3 DEF PeerStep, HandOffStep
<1>5. ASSUME NEW r \in Ranks, Take(r)
      PROVE  layout' = layout /\ UNCHANGED arVars /\ Outside(r)
  <2>1. /\ pc[r] = "idle" /\ layout' = layout /\ UNCHANGED arVars
        /\ \E p \in SlotOps \cup {"layers", "recv"} : GoesTo(r, p)
    BY <1>5 DEF Take
  <2> QED BY <2>1, GoesElsewhere
<1>6. ASSUME NEW r \in Ranks,
             Reset(r) \/ Snapshot(r) \/ Restore(r) \/ Finish(r) \/ TimeOut(r) \/ TimeOutEarly(r) \/ Fail(r)
      PROVE  layout' = layout /\ UNCHANGED arVars /\ Outside(r)
  <2>1. /\ layout' = layout /\ UNCHANGED arVars /\ GoesTo(r, "idle")
        /\ pc[r] \in SlotOps \cup {"sent", "out", "recv", "layers"}
    BY <1>6 DEF Reset, Snapshot, Restore, Finish, TimeOut, TimeOutEarly, Fail, Answers,
                AnswersWith, SlotOps
  <2> QED BY <2>1, GoesElsewhere
<1>7. ASSUME NEW r \in Ranks, AllReduceStep(r) PROVE ArStep(r)
  BY <1>7 DEF AllReduceStep
<1> QED BY <1>1, <1>2, <1>3, <1>4, <1>5, <1>6, <1>7 DEF Next, Works

LEMMA TpInitially == Init => TpInv
<1>1. SUFFICES ASSUME Init, layout.kind = "TP" PROVE layout \in Layouts /\ StepInv
  BY DEF TpInv, Init, TopologyInit
<1>2. layout \in Layouts
  BY <1>1 DEF Init, TopologyInit
<1>3. /\ Stages = {0} /\ 0 \in Ranks /\ layout.width > 0 /\ layout.width \in Nat
  BY <1>1, <1>2, TpLayout
<1>4. /\ pc = [r \in Ranks |-> "idle"] /\ ticket = [r \in Ranks |-> 0]
      /\ slab = [r \in Ranks |-> None]
      /\ arrived = [s \in Stages |-> 0] /\ passes = [s \in Stages |-> 0]
  BY <1>1 DEF Init, TopologyInit, ArInit
<1>5. BarrierTypes
  BY <1>3, <1>4 DEF BarrierTypes
<1>6. Arrived = {}
  BY <1>3, <1>4 DEF Arrived
<1>7. BarrierInStep
  BY <1>3, <1>4, <1>6, FS_EmptySet DEF BarrierInStep
<1>8. 0 % PerRound = 0 /\ Base = 0
  BY <1>3, <1>4, PerRoundIs DEF Base
<1>9. PhasesInStep /\ SlabFull
  BY <1>3, <1>4, <1>8 DEF PhasesInStep, SlabFull, PhaseOf
<1> QED BY <1>2, <1>5, <1>7, <1>9 DEF StepInv

LEMMA TpInductive == TpInv /\ [Next]_vars => TpInv'
<1>1. SUFFICES ASSUME TpInv, [Next]_vars PROVE TpInv'
  OBVIOUS
<1>2. layout' = layout
  BY <1>1, OtherSteps
     DEF ArStep, ArLayers, ArPublish, ArPull, ArAdd, ArClear, ArDone, ArSame
<1>3. CASE layout.kind = "TP"
  <2>1. ASSUME NEW r \in Ranks, ArStep(r) PROVE StepInv'
    BY <1>1, <1>3, <2>1, ArStepInStep DEF TpInv
  <2>2. CASE UNCHANGED arVars /\ pc' = pc
    BY <1>1, <1>2, <1>3, <2>2, QuietInStep DEF TpInv
  <2>3. ASSUME NEW r \in Ranks, UNCHANGED arVars, Outside(r) PROVE StepInv'
    BY <1>1, <1>2, <1>3, <2>3, QuietInStep DEF TpInv, Outside, StepInv, BarrierInStep
  <2> QED BY <1>1, <1>2, <2>1, <2>2, <2>3, OtherSteps DEF TpInv
<1>4. CASE layout.kind # "TP"
  BY <1>1, <1>2, <1>4 DEF TpInv
<1> QED BY <1>3, <1>4

LEMMA SlabFollows ==
  ASSUME TpInv
  PROVE  SlabIsInStep
<1>1. SUFFICES ASSUME layout.kind = "TP", NEW r \in Ranks
               PROVE  /\ pc[r] = "publish" => slab[r] = None
                      /\ pc[r] = "snap" /\ Open(r)
                            => \A q \in Group(Stage(r)) : slab[q] # None
  BY DEF SlabIsInStep
<1> DEFINE P == passes[0]
           B == PerRound
<1>2. /\ Stage(r) = 0 /\ Group(0) = Ranks /\ 0 \in Ranks
      /\ P \in Nat /\ ticket \in [Ranks -> Nat]
      /\ \A q \in Ranks : ticket[q] = P \/ ticket[q] = P + 1
      /\ B \in {3, 4}
  BY <1>1, TpLayout, PerRoundIs DEF TpInv, StepInv, BarrierTypes, BarrierInStep
<1>3. CASE pc[r] = "publish"
  <2>1. ticket[r] = P /\ P % B = 0
    BY <1>1, <1>3 DEF TpInv, StepInv, BarrierInStep, PhasesInStep, PhaseOf, Waiting
  <2>2. Base = P
    <3> HIDE DEF P, B
    <3>1. /\ B * (P \div B) = P - (P % B)
          /\ B * ((P + 1) \div B) = IF P % B = B - 1 THEN P + 1 ELSE P - (P % B)
      BY <1>2, SameRound
    <3>2. B * (P \div B) = P /\ B * ((P + 1) \div B) = P
      BY <1>2, <2>1, <3>1
    <3> USE DEF P, B
    <3> QED BY <1>2, <3>2 DEF Base
  <2> QED BY <1>1, <1>2, <1>3, <2>1, <2>2 DEF TpInv, StepInv, SlabFull
<1>4. CASE pc[r] = "snap" /\ Open(r)
  <2>1. ticket[r] = P /\ P % B = 1
    BY <1>1, <1>2, <1>4 DEF TpInv, StepInv, PhasesInStep, PhaseOf, Open
  <2>2. Base = P - 1
    BY <1>2, <2>1, SameRound DEF Base
  <2> QED BY <1>1, <1>2, <1>4, <2>2 DEF TpInv, StepInv, SlabFull
<1> QED BY <1>3, <1>4

(* In a stage of any number of ranks, with either backend, a rank publishes into *)
(* an empty place of the slab, and past the first barrier every rank it is going  *)
(* to read has published: one barrier, reused three or four times a round, keeps  *)
(* ranks that run ahead from meeting the ones of the round before.                *)
THEOREM SlabIsAlwaysInStep == Spec => []SlabIsInStep
<1>1. Init => TpInv
  BY TpInitially
<1>2. TpInv /\ [Next]_vars => TpInv'
  BY TpInductive
<1>3. TpInv => SlabIsInStep
  BY SlabFollows
<1> QED BY <1>1, <1>2, <1>3, PTL DEF Spec

-----------------------------------------------------------------------------
(* The session and its workers, in any layout and whatever fails: what a rank *)
(* has of the calls, against the session's call and history.                  *)
Ops == SlotOps \cup {"forward"}
Commands == [op : Ops, id : Nat \ {0}, size : Nat]

(* Where a forward is that went through a layer. *)
Begun == {"publish", "out", "sent"} \cup Waiting

PlaceInv(r) ==
  /\ pc[r] = "idle" => cur[r] = NoCommand
  /\ pc[r] # "idle" => cur[r] \in Commands
  /\ pc[r] \in SlotOps => cur[r].op = pc[r]
  /\ pc[r] \notin SlotOps \cup {"idle"} => cur[r].op = "forward"
  /\ pc[r] \in Begun => round[r] > 0

(* Commands are of the current call or of earlier ones, and come in order. *)
OrderInv(r) ==
  /\ inbox[r] \in Seq(Commands)
  /\ cur[r].id <= call.id
  /\ \A i \in DOMAIN inbox[r] :
       /\ inbox[r][i].id <= call.id
       /\ cur[r].id < call.id
       /\ i < Len(inbox[r]) => inbox[r][i].id < call.id

(* What a command is that a rank has: the current call's, or one that a failed *)
(* call left behind, which is a snapshot unless the slot is torn.              *)
Expected(c) ==
  /\ c.id = call.id /\ ~ Idle => c.op = call.op
  /\ ~ torn => c.op \in {"none", "snapshot"} \/ (c.id = call.id /\ ~ Idle)

CommandInv(r) ==
  /\ Expected(cur[r])
  /\ \A i \in DOMAIN inbox[r] : Expected(inbox[r][i])

Replied(r) == reply[r].id # 0

(* Who has replied has done all it was told; whose turn is to come was not told. *)
ReplyInv(r) ==
  /\ Replied(r) => reply[r].id = call.id /\ pc[r] = "idle" /\ inbox[r] = <<>>
  /\ ~ Idle /\ InTurn /\ call.op = "forward" /\ r > call.at =>
       /\ ~ Replied(r) /\ cur[r].id < call.id
       /\ \A i \in DOMAIN inbox[r] : inbox[r][i].id < call.id

(* A rank's recurrent state, against what returned. *)
StateInv(r) ==
  /\ ~ torn /\ (Idle \/ call.op = "snapshot") => kv[r] = hist
  /\ ~ torn /\ call.op = "forward" /\ ~ Replied(r) =>
       kv[r] = IF cur[r].id = call.id /\ round[r] > 0 THEN Append(hist, call.id) ELSE hist
  /\ Replied(r) /\ reply[r].ok =>
       /\ ~ torn /\ call.op = "forward" => kv[r] = Append(hist, call.id)
       /\ call.op = "reset" => kv[r] = <<>>
       /\ call.op = "restore" => kv[r] = snaps.kv[r]
       /\ call.op = "snapshot" => reply[r].kv = hist

RankInv(r) == PlaceInv(r) /\ OrderInv(r) /\ CommandInv(r) /\ ReplyInv(r) /\ StateInv(r)

SessionTypes ==
  /\ layout \in Layouts
  /\ call \in [op : Ops \cup {"none"}, id : Nat, size : Nat, at : Nat]
  /\ DOMAIN pc = Ranks /\ DOMAIN cur = Ranks /\ round \in [Ranks -> Nat]
  /\ DOMAIN inbox = Ranks /\ DOMAIN reply = Ranks /\ DOMAIN kv = Ranks

CallInv ==
  /\ ~ Idle => call.at \in Ranks /\ call.id > 0
  /\ ~ Idle => \A q \in Ranks : q < call.at => Replied(q) /\ reply[q].ok
  /\ call.op = "snapshot" => ~ torn
  /\ Idle /\ answer.op \in Ops => \A q \in Ranks : Replied(q)
  /\ \A q \in Ranks : snaps.kv[q] = snaps.of

SessionInv == SessionTypes /\ CallInv /\ \A r \in Ranks : RankInv(r)

(* The ranks are numbered from 0. *)
LEMMA RanksAre ==
  ASSUME layout \in Layouts
  PROVE  /\ Ranks \subseteq Nat /\ 0 \in Ranks
         /\ \A r \in Ranks, q \in Nat : q <= r => q \in Ranks
         /\ \A r \in Ranks : r + 1 \notin Ranks => \A q \in Ranks : q <= r
<1> DEFINE n == layout.stages * layout.width
<1>1. layout.stages \in Nat \ {0} /\ layout.width \in Nat \ {0}
  BY TopologyAssumption
<1>2. n \in Nat /\ n > 0
  BY <1>1
<1>3. Ranks = 0 .. (n - 1)
  BY DEF Ranks
<1> HIDE DEF n
<1> QED BY <1>2, <1>3

(* The steps of a worker: of what a rank has and does, only its own changes. *)
OthersSame(r) ==
  /\ UNCHANGED <<layout, call, answer, hist, torn, snaps>>
  /\ DOMAIN pc' = DOMAIN pc /\ DOMAIN cur' = DOMAIN cur /\ round' \in [Ranks -> Nat]
  /\ DOMAIN inbox' = DOMAIN inbox /\ DOMAIN reply' = DOMAIN reply /\ DOMAIN kv' = DOMAIN kv
  /\ \A q \in Ranks \ {r} :
       /\ pc'[q] = pc[q] /\ cur'[q] = cur[q] /\ round'[q] = round[q]
       /\ inbox'[q] = inbox[q] /\ reply'[q] = reply[q] /\ kv'[q] = kv[q]

LEMMA SameRank ==
  ASSUME UNCHANGED <<layout, call, hist, torn, snaps>>, NEW q,
         pc'[q] = pc[q], cur'[q] = cur[q], round'[q] = round[q],
         inbox'[q] = inbox[q], reply'[q] = reply[q], kv'[q] = kv[q], RankInv(q)
  PROVE  RankInv(q)'
<1>1. PlaceInv(q)'
  BY DEF RankInv, PlaceInv
<1>2. OrderInv(q)'
  BY DEF RankInv, OrderInv
<1>3. CommandInv(q)'
  BY DEF RankInv, CommandInv, Expected, Idle
<1>4. ReplyInv(q)'
  BY DEF RankInv, ReplyInv, Replied, Idle, InTurn
<1>5. StateInv(q)'
  BY DEF RankInv, StateInv, Replied, Idle
<1> QED BY <1>1, <1>2, <1>3, <1>4, <1>5 DEF RankInv

LEMMA WorkerKeeps ==
  ASSUME SessionInv, NEW r \in Ranks, OthersSame(r), RankInv(r)',
         Replied(r) => reply'[r] = reply[r]
  PROVE  SessionInv'
<1>1. layout' = layout /\ Ranks' = Ranks /\ Idle' = Idle
  BY DEF OthersSame, Ranks, Idle
<1>2. SessionTypes'
  BY <1>1 DEF SessionInv, SessionTypes, OthersSame
<1>3. \A q \in Ranks : Replied(q) => reply'[q] = reply[q]
  BY DEF OthersSame
<1>4. CallInv'
  BY <1>1, <1>3 DEF SessionInv, CallInv, OthersSame, Replied
<1>5. ASSUME NEW q \in Ranks, q # r PROVE RankInv(q)'
  BY <1>5, SameRank DEF SessionInv, OthersSame
<1> QED BY <1>1, <1>2, <1>4, <1>5 DEF SessionInv

(* A worker that is at something has not replied. *)
LEMMA BusyHasNotReplied ==
  ASSUME SessionInv, NEW r \in Ranks, pc[r] # "idle"
  PROVE  /\ ~ Replied(r) /\ reply[r].id = 0
         /\ cur[r] \in Commands /\ cur[r].id > 0 /\ cur[r].id \in Nat
         /\ cur[r].op = IF pc[r] \in SlotOps THEN pc[r] ELSE "forward"
<1>1. cur[r] \in Commands /\ cur[r].op = IF pc[r] \in SlotOps THEN pc[r] ELSE "forward"
  BY DEF SessionInv, RankInv, PlaceInv
<1>2. cur[r].id > 0 /\ cur[r].id \in Nat
  BY <1>1 DEF Commands
<1>3. ~ Replied(r)
  BY DEF SessionInv, RankInv, ReplyInv
<1> QED BY <1>1, <1>2, <1>3 DEF Replied

(* What a rank is at is the current call's command, unless the slot is torn or *)
(* it is a snapshot.                                                            *)
Current(r) == cur[r].id = call.id /\ ~ Idle

LEMMA BusyWith ==
  ASSUME SessionInv, NEW r \in Ranks, pc[r] # "idle"
  PROVE  /\ Current(r) => call.op = cur[r].op
         /\ ~ torn /\ pc[r] # "snapshot" => Current(r)
<1>1. Expected(cur[r])
  BY DEF SessionInv, RankInv, CommandInv
<1>2. cur[r] \in Commands /\ cur[r].op = IF pc[r] \in SlotOps THEN pc[r] ELSE "forward"
  BY BusyHasNotReplied
<1>3. cur[r].op \in {"none", "snapshot"} => pc[r] = "snapshot"
  BY <1>2 DEF Commands, Ops, SlotOps
<1> QED BY <1>1, <1>3 DEF Expected, Current

LEMMA NothingIn ==
  ASSUME NEW S, NEW list \in Seq(S), \A i \in DOMAIN list : FALSE
  PROVE  list = <<>>
<1>1. DOMAIN list = 1 .. Len(list) /\ Len(list) \in Nat
  OBVIOUS
<1>2. 1 \notin 1 .. Len(list)
  BY <1>1, Zenon
<1>3. Len(list) \notin Nat \ {0}
  BY <1>2
<1> QED BY <1>1, <1>3, EmptySeq

(* What a rank that answers must have done to its state: nothing for a command *)
(* left behind by a snapshot, else what the call says.                          *)
Fits(r, ok, state, k) ==
  /\ ~ torn /\ ~ Current(r) => k = kv[r]
  /\ ~ torn /\ Current(r) /\ call.op = "snapshot" => k = kv[r]
  /\ Current(r) /\ ok =>
       /\ ~ torn /\ call.op = "forward" => k = Append(hist, call.id)
       /\ call.op = "reset" => k = <<>>
       /\ call.op = "restore" => k = snaps.kv[r]
       /\ call.op = "snapshot" => state = hist

StateBecomes(r, k) ==
  /\ DOMAIN kv' = DOMAIN kv
  /\ kv'[r] = k
  /\ \A q \in Ranks \ {r} : kv'[q] = kv[q]

LEMMA AnswerKeeps ==
  ASSUME SessionInv, NEW r \in Ranks, pc[r] # "idle", NEW ok \in BOOLEAN, NEW logits, NEW state,
         AnswersWith(r, ok, logits, state),
         UNCHANGED <<layout, round, inbox, call, answer, hist, torn, snaps>>,
         NEW k, StateBecomes(r, k), Fits(r, ok, state, k)
  PROVE  SessionInv'
<1>1. /\ DOMAIN pc = Ranks /\ DOMAIN cur = Ranks /\ DOMAIN reply = Ranks /\ DOMAIN kv = Ranks
      /\ call.id \in Nat
  BY DEF SessionInv, SessionTypes
<1>2. /\ ~ Replied(r) /\ reply[r].id = 0 /\ cur[r] \in Commands
      /\ cur[r].id > 0 /\ cur[r].id \in Nat
  BY BusyHasNotReplied
<1>3. /\ pc' = [pc EXCEPT ![r] = "idle"] /\ cur' = [cur EXCEPT ![r] = NoCommand]
      /\ reply' = IF Current(r)
                    THEN [reply EXCEPT ![r] = [ok |-> ok, id |-> cur[r].id, logits |-> logits,
                                               kv |-> state]]
                    ELSE reply
  BY DEF AnswersWith, GoesTo, Current
<1>4. /\ pc'[r] = "idle" /\ cur'[r] = NoCommand /\ kv'[r] = k
      /\ round'[r] = round[r] /\ inbox'[r] = inbox[r]
      /\ Idle' = Idle /\ InTurn' = InTurn
  BY <1>1, <1>3 DEF Idle, InTurn, StateBecomes
<1>5. /\ Current(r) => reply'[r].id = call.id /\ reply'[r].ok = ok /\ reply'[r].kv = state
                       /\ call.id > 0
      /\ ~ Current(r) => reply'[r] = reply[r]
  BY <1>1, <1>2, <1>3 DEF Current
<1>6. OthersSame(r)
  BY <1>1, <1>3 DEF OthersSame, SessionInv, SessionTypes, StateBecomes
<1>7. /\ PlaceInv(r) /\ OrderInv(r) /\ CommandInv(r) /\ ReplyInv(r) /\ StateInv(r)
  BY DEF SessionInv, RankInv
<1>8. PlaceInv(r)'
  BY <1>4 DEF PlaceInv, SlotOps, Begun, Waiting
<1>9. NoCommand.id = 0 /\ NoCommand.op = "none"
  BY DEF NoCommand
<1>10. OrderInv(r)'
  <2>1. call'.id = call.id
    OBVIOUS
  <2>2. \A i \in DOMAIN inbox[r] : 0 < call.id
    BY <1>1, <1>2, <1>7 DEF OrderInv
  <2> QED BY <1>1, <1>4, <1>7, <1>9, <2>1, <2>2 DEF OrderInv
<1>11. CommandInv(r)'
  <2>1. Expected(NoCommand)'
    <3>1. ~ Idle => call.id > 0
      BY DEF SessionInv, CallInv
    <3> QED BY <1>4, <1>9, <3>1 DEF Expected
  <2>2. \A c : Expected(c) <=> Expected(c)'
    BY <1>4 DEF Expected
  <2> QED BY <1>4, <1>7, <2>1, <2>2 DEF CommandInv
<1>12. ReplyInv(r)'
  <2>1. CASE Current(r)
    <3>1. inbox[r] = <<>>
      <4>1. \A i \in DOMAIN inbox[r] : FALSE
        BY <1>1, <1>2, <1>7, <2>1 DEF OrderInv, Current
      <4>2. inbox[r] \in Seq(Commands)
        BY <1>7 DEF OrderInv
      <4> QED BY <4>1, <4>2, NothingIn
    <3>2. ~ (~ Idle /\ InTurn /\ call.op = "forward" /\ r > call.at)
      BY <1>1, <1>2, <1>7, <2>1 DEF ReplyInv, Current
    <3> QED BY <1>4, <1>5, <2>1, <3>1, <3>2 DEF ReplyInv, Replied
  <2>2. CASE ~ Current(r)
    <3>1. ~ Replied(r)'
      BY <1>2, <1>5, <2>2 DEF Replied
    <3>2. ~ Idle => call.id > 0
      BY DEF SessionInv, CallInv
    <3> QED BY <1>4, <1>7, <1>9, <3>1, <3>2 DEF ReplyInv
  <2> QED BY <2>1, <2>2
<1>13. StateInv(r)'
  <2>1. CASE Current(r)
    <3>1. Replied(r)'
      BY <1>5, <2>1 DEF Replied
    <3>2. ~ torn /\ (Idle \/ call.op = "snapshot") => k = hist
      BY <1>7, <2>1 DEF StateInv, Current, Fits
    <3> QED BY <1>4, <1>5, <2>1, <3>1, <3>2 DEF StateInv, Fits
  <2>2. CASE ~ Current(r)
    <3>1. ~ Replied(r)' /\ (~ torn => k = kv[r])
      BY <1>2, <1>5, <2>2 DEF Replied, Fits
    <3>2. cur'[r].id # call.id \/ Idle
      <4>1. ~ Idle => call.id > 0
        BY DEF SessionInv, CallInv
      <4> QED BY <1>4, <1>9, <4>1
    <3>3. call.op = "forward" => ~ Idle
      BY DEF Idle
    <3> QED BY <1>2, <1>4, <1>7, <2>2, <3>1, <3>2, <3>3 DEF StateInv, Current
  <2> QED BY <2>1, <2>2
<1>14. RankInv(r)'
  BY <1>8, <1>10, <1>11, <1>12, <1>13 DEF RankInv
<1> QED BY <1>2, <1>6, <1>14, WorkerKeeps

(* A command is taken. *)
LEMMA TakeKeeps ==
  ASSUME SessionInv, NEW r \in Ranks, Take(r)
  PROVE  SessionInv'
<1> DEFINE c == Head(inbox[r])
           box == inbox[r]
<1>1. /\ pc[r] = "idle" /\ box # <<>>
      /\ cur' = [cur EXCEPT ![r] = c] /\ inbox' = [inbox EXCEPT ![r] = Tail(@)]
      /\ round' = [round EXCEPT ![r] = 0]
      /\ \/ c.op = "forward" /\ GoesTo(r, "layers")
         \/ c.op = "forward" /\ GoesTo(r, "recv")
         \/ c.op \in SlotOps /\ GoesTo(r, c.op)
      /\ UNCHANGED <<layout, reply, call, answer, kv, hist, torn, snaps>>
  BY DEF Take
<1>2. /\ DOMAIN pc = Ranks /\ DOMAIN cur = Ranks /\ DOMAIN inbox = Ranks
      /\ round \in [Ranks -> Nat] /\ call.id \in Nat
  BY DEF SessionInv, SessionTypes
<1>3. PlaceInv(r) /\ OrderInv(r) /\ CommandInv(r) /\ ReplyInv(r) /\ StateInv(r)
  BY DEF SessionInv, RankInv
<1>4. /\ box \in Seq(Commands) /\ c \in Commands /\ c = box[1] /\ Tail(box) \in Seq(Commands)
      /\ 1 \in DOMAIN box
      /\ Len(box) \in Nat /\ Len(Tail(box)) = Len(box) - 1
      /\ DOMAIN box = 1 .. Len(box) /\ DOMAIN Tail(box) = 1 .. (Len(box) - 1)
      /\ \A i \in DOMAIN Tail(box) : Tail(box)[i] = box[i + 1] /\ i + 1 \in DOMAIN box
  <2>1. box \in Seq(Commands) /\ box # <<>>
    BY <1>1, <1>3 DEF OrderInv
  <2> HIDE DEF box
  <2>2. Len(box) \in Nat \ {0}
    BY <2>1, EmptySeq
  <2>3. /\ c = box[1] /\ c \in Commands /\ Tail(box) \in Seq(Commands)
        /\ Len(Tail(box)) = Len(box) - 1
        /\ \A i \in 1 .. Len(Tail(box)) : Tail(box)[i] = box[i + 1]
    BY <2>1, HeadTailProperties DEF box
  <2>4. DOMAIN box = 1 .. Len(box) /\ DOMAIN Tail(box) = 1 .. (Len(box) - 1)
    BY <2>1, <2>3, LenProperties
  <2> QED BY <2>1, <2>2, <2>3, <2>4
<1>5. /\ \/ pc'[r] \in {"layers", "recv"} /\ c.op = "forward"
         \/ pc'[r] = c.op /\ c.op \in SlotOps
      /\ cur'[r] = c /\ inbox'[r] = Tail(box) /\ round'[r] = 0
      /\ reply'[r] = reply[r] /\ kv'[r] = kv[r]
      /\ Idle' = Idle /\ InTurn' = InTurn
  BY <1>1, <1>2 DEF GoesTo, Idle, InTurn
<1> HIDE DEF c, box
<1>6. cur[r] = NoCommand /\ NoCommand.id = 0 /\ NoCommand.op = "none"
  BY <1>1, <1>3 DEF PlaceInv, NoCommand
<1>7. /\ c.id \in Nat /\ c.id > 0 /\ c.id <= call.id
      /\ \A i \in DOMAIN Tail(box) :
           /\ c.id < call.id
           /\ Tail(box)[i].id <= call.id
           /\ i < Len(Tail(box)) => Tail(box)[i].id < call.id
  <2>1. c.id \in Nat /\ c.id > 0 /\ c.id <= call.id
    BY <1>3, <1>4 DEF OrderInv, Commands, box
  <2>2. ASSUME NEW i \in DOMAIN Tail(box)
        PROVE  /\ c.id < call.id
               /\ Tail(box)[i].id <= call.id
               /\ i < Len(Tail(box)) => Tail(box)[i].id < call.id
    <3>1. 1 < Len(box) /\ Tail(box)[i] = box[i + 1] /\ i + 1 \in DOMAIN box
      BY <1>4
    <3>2. box[1].id < call.id
      BY <1>3, <1>4, <3>1 DEF OrderInv, box
    <3>3. box[i + 1].id <= call.id /\ (i + 1 < Len(box) => box[i + 1].id < call.id)
      BY <1>3, <3>1 DEF OrderInv, box
    <3> QED BY <1>4, <3>1, <3>2, <3>3
  <2> QED BY <2>1, <2>2
<1>8. PlaceInv(r)'
  BY <1>4, <1>5 DEF PlaceInv, Begun, Waiting, SlotOps
<1>9. OrderInv(r)'
  BY <1>1, <1>4, <1>5, <1>7 DEF OrderInv
<1>10. CommandInv(r)'
  <2>1. \A x : Expected(x) <=> Expected(x)'
    BY <1>1, <1>5 DEF Expected
  <2>2. Expected(c) /\ \A i \in DOMAIN Tail(box) : Expected(Tail(box)[i])
    BY <1>3, <1>4 DEF CommandInv, box
  <2> QED BY <1>5, <2>1, <2>2 DEF CommandInv
<1>11. ~ Replied(r) /\ ~ Replied(r)'
  BY <1>1, <1>3, <1>5 DEF ReplyInv, Replied, box
<1>12. ReplyInv(r)'
  <2>1. (~ Idle /\ InTurn /\ call.op = "forward" /\ r > call.at) =>
           /\ c.id < call.id
           /\ \A i \in DOMAIN Tail(box) : Tail(box)[i].id < call.id
    BY <1>3, <1>4 DEF ReplyInv, box
  <2> QED BY <1>1, <1>5, <1>11, <2>1 DEF ReplyInv
<1>13. StateInv(r)'
  <2>1. ~ torn /\ call.op = "forward" => kv[r] = hist
    <3>1. call.op = "forward" => ~ Idle
      BY DEF Idle
    <3>2. ~ Idle => call.id > 0
      BY DEF SessionInv, CallInv
    <3> QED BY <1>3, <1>6, <1>11, <3>1, <3>2 DEF StateInv
  <2> QED BY <1>1, <1>3, <1>5, <1>11, <2>1 DEF StateInv
<1>14. RankInv(r)'
  BY <1>8, <1>9, <1>10, <1>12, <1>13 DEF RankInv
<1>15. OthersSame(r)
  BY <1>1, <1>2 DEF OthersSame, GoesTo
<1> QED BY <1>5, <1>14, <1>15, WorkerKeeps

(* Answers. *)
LEMMA AnswersKeep ==
  ASSUME SessionInv, NEW r \in Ranks,
         Reset(r) \/ Snapshot(r) \/ Restore(r) \/ Finish(r) \/ TimeOut(r) \/ TimeOutEarly(r)
           \/ Fail(r)
  PROVE  SessionInv'
<1>0. /\ DOMAIN kv = Ranks
      /\ StateInv(r) /\ PlaceInv(r)
  BY DEF SessionInv, SessionTypes, RankInv
<1>1. CASE Reset(r)
  <2>1. /\ pc[r] = "reset" /\ AnswersWith(r, TRUE, Bad, <<>>) /\ StateBecomes(r, <<>>)
        /\ UNCHANGED <<layout, round, inbox, call, answer, hist, torn, snaps>>
    BY <1>0, <1>1 DEF Reset, Answers, StateBecomes
  <2>2. Current(r) => call.op = "reset"
    BY <2>1, BusyWith, BusyHasNotReplied DEF SlotOps
  <2>3. ~ torn => Current(r)
    BY <2>1, BusyWith
  <2>4. Fits(r, TRUE, <<>>, <<>>)
    BY <2>2, <2>3 DEF Fits
  <2> QED BY <2>1, <2>4, AnswerKeeps
<1>2. CASE Snapshot(r)
  <2>1. /\ pc[r] = "snapshot" /\ AnswersWith(r, TRUE, Bad, kv[r]) /\ StateBecomes(r, kv[r])
        /\ UNCHANGED <<layout, round, inbox, call, answer, hist, torn, snaps>>
    BY <1>2 DEF Snapshot, StateBecomes
  <2>2. Current(r) => call.op = "snapshot"
    BY <2>1, BusyWith, BusyHasNotReplied DEF SlotOps
  <2>3. call.op = "snapshot" => kv[r] = hist
    BY <1>0 DEF SessionInv, CallInv, StateInv
  <2>4. Fits(r, TRUE, kv[r], kv[r])
    BY <2>2, <2>3 DEF Fits
  <2> QED BY <2>1, <2>4, AnswerKeeps
<1>3. CASE Restore(r)
  <2>1. /\ pc[r] = "restore" /\ AnswersWith(r, TRUE, Bad, <<>>)
        /\ StateBecomes(r, snaps.kv[r])
        /\ UNCHANGED <<layout, round, inbox, call, answer, hist, torn, snaps>>
    BY <1>0, <1>3 DEF Restore, Answers, StateBecomes
  <2>2. Current(r) => call.op = "restore"
    BY <2>1, BusyWith, BusyHasNotReplied DEF SlotOps
  <2>3. ~ torn => Current(r)
    BY <2>1, BusyWith
  <2>4. Fits(r, TRUE, <<>>, snaps.kv[r])
    BY <2>2, <2>3 DEF Fits
  <2> QED BY <2>1, <2>4, AnswerKeeps
<1>4. CASE Finish(r)
  <2>1. PICK logits : /\ pc[r] \in {"sent", "out"} /\ AnswersWith(r, TRUE, logits, <<>>)
                      /\ StateBecomes(r, kv[r])
                      /\ UNCHANGED <<layout, round, inbox, call, answer, hist, torn, snaps>>
    BY <1>4 DEF Finish, Answers, StateBecomes
  <2>2. Current(r) => call.op = "forward" /\ cur[r].id = call.id
    BY <2>1, BusyWith, BusyHasNotReplied DEF SlotOps, Current
  <2>3. ~ Replied(r) /\ round[r] > 0
    BY <1>0, <2>1, BusyHasNotReplied DEF PlaceInv, Begun
  <2>4. ~ torn /\ Current(r) => kv[r] = Append(hist, call.id)
    BY <1>0, <2>2, <2>3 DEF StateInv
  <2>5. Fits(r, TRUE, <<>>, kv[r])
    BY <2>2, <2>4 DEF Fits
  <2> QED BY <2>1, <2>5, AnswerKeeps
<1>5. CASE TimeOut(r) \/ TimeOutEarly(r)
  <2>1. /\ pc[r] = "recv" /\ AnswersWith(r, FALSE, Bad, <<>>) /\ StateBecomes(r, kv[r])
        /\ UNCHANGED <<layout, round, inbox, call, answer, hist, torn, snaps>>
    BY <1>5 DEF TimeOut, TimeOutEarly, Answers, StateBecomes
  <2>2. Fits(r, FALSE, <<>>, kv[r])
    BY DEF Fits
  <2> QED BY <2>1, <2>2, AnswerKeeps
<1>6. CASE Fail(r)
  <2>1. /\ pc[r] # "idle" /\ AnswersWith(r, FALSE, Bad, <<>>)
        /\ UNCHANGED <<layout, round, inbox, call, answer, hist, torn, snaps>>
        /\ kv' = IF pc[r] \in {"reset", "restore"} THEN [kv EXCEPT ![r] = <<0, 0>>] ELSE kv
    BY <1>6 DEF Fail, Answers, SlotOps
  <2>2. CASE pc[r] \in {"reset", "restore"}
    <3>1. Current(r) => call.op = pc[r]
      BY <2>1, <2>2, BusyWith, BusyHasNotReplied DEF SlotOps
    <3>2. ~ torn => Current(r)
      BY <2>1, <2>2, BusyWith
    <3>3. Fits(r, FALSE, <<>>, <<0, 0>>)
      BY <2>2, <3>1, <3>2 DEF Fits
    <3>4. StateBecomes(r, <<0, 0>>)
      BY <1>0, <2>1, <2>2 DEF StateBecomes
    <3> QED BY <2>1, <3>3, <3>4, AnswerKeeps
  <2>3. CASE pc[r] \notin {"reset", "restore"}
    <3>1. StateBecomes(r, kv[r])
      BY <2>1, <2>3 DEF StateBecomes
    <3>2. Fits(r, FALSE, <<>>, kv[r])
      BY DEF Fits
    <3> QED BY <2>1, <3>1, <3>2, AnswerKeeps
  <2> QED BY <2>2, <2>3
<1> QED BY <1>1, <1>2, <1>3, <1>4, <1>5, <1>6

(* A rank goes on with its command, and has been through a layer as before. *)
LEMMA GoesOnKeeps ==
  ASSUME SessionInv, NEW r \in Ranks, pc[r] \notin SlotOps \cup {"idle"},
         NEW p \in Begun \cup {"layers"}, GoesTo(r, p),
         UNCHANGED <<layout, cur, inbox, reply, call, answer, hist, torn, snaps>>,
         NEW n \in Nat, round' = [round EXCEPT ![r] = n], p \in Begun => n > 0,
         StateBecomes(r, IF round[r] = 0 /\ n > 0 THEN Append(kv[r], cur[r].id) ELSE kv[r]),
         n = 0 => round[r] = 0
  PROVE  SessionInv'
<1>1. /\ DOMAIN pc = Ranks /\ round \in [Ranks -> Nat] /\ DOMAIN kv = Ranks
  BY DEF SessionInv, SessionTypes
<1>2. /\ pc'[r] = p /\ cur'[r] = cur[r] /\ inbox'[r] = inbox[r] /\ reply'[r] = reply[r]
      /\ round'[r] = n /\ Idle' = Idle /\ InTurn' = InTurn
      /\ kv'[r] = IF round[r] = 0 /\ n > 0 THEN Append(kv[r], cur[r].id) ELSE kv[r]
  BY <1>1 DEF GoesTo, Idle, InTurn, StateBecomes
<1>3. PlaceInv(r) /\ OrderInv(r) /\ CommandInv(r) /\ ReplyInv(r) /\ StateInv(r)
  BY DEF SessionInv, RankInv
<1>4. /\ ~ Replied(r) /\ cur[r] \in Commands /\ cur[r].op = "forward"
      /\ p \notin SlotOps \cup {"idle"}
  BY BusyHasNotReplied DEF SlotOps, Begun, Waiting
<1>5. PlaceInv(r)'
  BY <1>2, <1>4 DEF PlaceInv
<1>6. OrderInv(r)'
  BY <1>2, <1>3 DEF OrderInv
<1>7. CommandInv(r)'
  BY <1>2, <1>3 DEF CommandInv, Expected
<1>8. ReplyInv(r)'
  BY <1>2, <1>3, <1>4 DEF ReplyInv, Replied
<1>9. StateInv(r)'
  <2>1. ~ torn => call.op = "forward" /\ cur[r].id = call.id /\ ~ Idle
    BY <1>4, BusyWith DEF Current, SlotOps
  <2>2. ~ torn => kv[r] = IF round[r] > 0 THEN Append(hist, call.id) ELSE hist
    BY <1>3, <1>4, <2>1 DEF StateInv
  <2>3. round[r] \in Nat
    BY <1>1
  <2>4. ~ torn => kv'[r] = IF n > 0 THEN Append(hist, call.id) ELSE hist
    BY <1>2, <2>1, <2>2, <2>3
  <2>5. ~ Replied(r)'
    BY <1>2, <1>4 DEF Replied
  <2> QED BY <1>2, <2>1, <2>4, <2>5 DEF StateInv
<1>10. RankInv(r)'
  BY <1>5, <1>6, <1>7, <1>8, <1>9 DEF RankInv
<1>11. OthersSame(r)
  BY <1>1 DEF OthersSame, StateBecomes, GoesTo
<1> QED BY <1>2, <1>10, <1>11, WorkerKeeps

(* The layers and the all-reduces of a forward. *)
LEMMA AllReduceKeeps ==
  ASSUME SessionInv, NEW r \in Ranks, AllReduceStep(r)
  PROVE  SessionInv'
<1>1. /\ ArStep(r)
      /\ kv' = IF pc[r] = "layers" /\ round[r] = 0
                 THEN [kv EXCEPT ![r] = Append(@, cur[r].id)] ELSE kv
      /\ UNCHANGED <<inbox, reply, call, answer, hist, torn, snaps>>
  BY DEF AllReduceStep
<1>2. round \in [Ranks -> Nat] /\ DOMAIN kv = Ranks /\ PlaceInv(r)
  BY DEF SessionInv, SessionTypes, RankInv
<1>3. CASE ArLayers(r)
  <2> DEFINE n == round[r] + 1
             k == IF round[r] = 0 /\ n > 0 THEN Append(kv[r], cur[r].id) ELSE kv[r]
  <2>1. /\ pc[r] = "layers" /\ UNCHANGED <<layout, cur>>
        /\ round' = [round EXCEPT ![r] = n]
    BY <1>3 DEF ArLayers
  <2>2. \E p \in Begun \cup {"layers"} : GoesTo(r, p)
    <3>1. \/ GoesTo(r, IF n = NAr THEN "out" ELSE "layers")
          \/ GoesTo(r, "publish")
      BY <1>3 DEF ArLayers
    <3>2. (IF n = NAr THEN "out" ELSE "layers") \in Begun \cup {"layers"}
          /\ "publish" \in Begun \cup {"layers"}
      BY DEF Begun
    <3> QED BY <3>1, <3>2, Zenon
  <2>3. n \in Nat /\ n > 0
    BY <1>2
  <2>4. pc[r] \notin SlotOps \cup {"idle"}
    BY <2>1 DEF SlotOps
  <2>5. StateBecomes(r, k)
    BY <1>1, <1>2, <2>1, <2>3 DEF StateBecomes
  <2> HIDE DEF n
  <2>6. PICK p \in Begun \cup {"layers"} : GoesTo(r, p)
    BY <2>2
  <2>7. UNCHANGED <<layout, cur, inbox, reply, call, answer, hist, torn, snaps>> /\ n # 0
    BY <1>1, <2>1, <2>3
  <2>8. StateBecomes(r, IF round[r] = 0 /\ n > 0 THEN Append(kv[r], cur[r].id) ELSE kv[r])
    BY <2>5
  <2> HIDE DEF k
  <2> QED BY <2>1, <2>3, <2>4, <2>6, <2>7, <2>8, GoesOnKeeps
<1>4. CASE ~ ArLayers(r)
  <2>1. /\ pc[r] \in Waiting \cup {"publish"} /\ UNCHANGED <<layout, cur, round>>
        /\ \E p \in Begun \cup {"layers"} : GoesTo(r, p)
    <3> \A p \in {"snap", "add", "clear", "done", "out", "layers"} : p \in Begun \cup {"layers"}
      BY DEF Begun, Waiting
    <3>1. CASE ArPublish(r) \/ ArPull(r)
      BY <3>1 DEF ArPublish, ArPull, ArSame, Waiting
    <3>2. CASE ArAdd(r) \/ ArClear(r)
      BY <3>2 DEF ArAdd, ArClear, ArSame, Waiting
    <3>3. CASE ArDone(r)
      <4>1. GoesTo(r, IF round[r] = NAr THEN "out" ELSE "layers")
        BY <3>3 DEF ArDone
      <4>2. (IF round[r] = NAr THEN "out" ELSE "layers") \in Begun \cup {"layers"}
        OBVIOUS
      <4> QED BY <3>3, <4>1, <4>2, Zenon DEF ArDone, ArSame, Waiting
    <3> QED BY <1>1, <1>4, <3>1, <3>2, <3>3 DEF ArStep
  <2>2. round[r] > 0 /\ round[r] \in Nat /\ pc[r] \notin SlotOps \cup {"idle", "layers"}
    BY <1>2, <2>1 DEF PlaceInv, Begun, Waiting, SlotOps
  <2>3. round' = [round EXCEPT ![r] = round[r]]
    BY <1>2, <2>1
  <2>4. StateBecomes(r, IF round[r] = 0 /\ round[r] > 0 THEN Append(kv[r], cur[r].id) ELSE kv[r])
    BY <1>1, <2>2 DEF StateBecomes
  <2> QED BY <1>1, <2>1, <2>2, <2>3, <2>4, GoesOnKeeps
<1> QED BY <1>3, <1>4

(* The hand-off. *)
LEMMA PeerKeeps ==
  ASSUME SessionInv, NEW r \in Ranks, PeerStep(r)
  PROVE  SessionInv'
<1>1. round \in [Ranks -> Nat] /\ DOMAIN kv = Ranks /\ PlaceInv(r)
      /\ UNCHANGED sessionVars
  BY DEF SessionInv, SessionTypes, RankInv, PeerStep
<1>2. CASE GrowDst(r)
  <2>1. OthersSame(r) /\ UNCHANGED <<pc, cur, round, inbox, reply, kv, layout>>
    BY <1>1, <1>2 DEF GrowDst, topologyVars, sessionVars, OthersSame
  <2>2. RankInv(r)'
    BY <1>1, <2>1, SameRank DEF SessionInv, sessionVars
  <2> QED BY <2>1, <2>2, WorkerKeeps
<1>3. CASE PeerRecv(r) \/ PeerSend(r)
  <2>1. /\ UNCHANGED <<layout, cur, round>>
        /\ \/ pc[r] = "recv" /\ GoesTo(r, "layers")
           \/ pc[r] = "out" /\ GoesTo(r, "sent")
    BY <1>3 DEF PeerRecv, PeerSend
  <2>2. /\ pc[r] \notin SlotOps \cup {"idle"} /\ round[r] \in Nat
        /\ round' = [round EXCEPT ![r] = round[r]]
        /\ StateBecomes(r, IF round[r] = 0 /\ round[r] > 0 THEN Append(kv[r], cur[r].id)
                           ELSE kv[r])
    BY <1>1, <2>1 DEF sessionVars, StateBecomes, SlotOps
  <2>3. \E p \in Begun \cup {"layers"} : GoesTo(r, p) /\ (p \in Begun => round[r] > 0)
    <3>1. CASE pc[r] = "recv" /\ GoesTo(r, "layers")
      <4>1. "layers" \notin Begun
        BY DEF Begun, Waiting
      <4> QED BY <3>1, <4>1
    <3>2. CASE pc[r] = "out" /\ GoesTo(r, "sent")
      <4>1. round[r] > 0 /\ "sent" \in Begun
        BY <1>1, <3>2 DEF PlaceInv, Begun
      <4> QED BY <3>2, <4>1
    <3> QED BY <2>1, <3>1, <3>2
  <2> QED BY <1>1, <2>1, <2>2, <2>3, GoesOnKeeps DEF sessionVars
<1> QED BY <1>2, <1>3 DEF PeerStep, HandOffStep

(* A command goes to a rank that has only earlier ones. *)
LEMMA SentTo ==
  ASSUME NEW c \in Commands, NEW box \in Seq(Commands)
  PROVE  /\ Append(box, c) \in Seq(Commands)
         /\ Len(Append(box, c)) = Len(box) + 1 /\ Len(box) \in Nat
         /\ \A i \in DOMAIN Append(box, c) :
              \/ i \in DOMAIN box /\ Append(box, c)[i] = box[i] /\ i < Len(Append(box, c))
              \/ i = Len(Append(box, c)) /\ Append(box, c)[i] = c
<1>1. DOMAIN box = 1 .. Len(box) /\ Len(box) \in Nat
  OBVIOUS
<1>2. /\ Append(box, c) \in Seq(Commands) /\ Len(Append(box, c)) = Len(box) + 1
      /\ \A i \in 1 .. Len(box) : Append(box, c)[i] = box[i]
      /\ Append(box, c)[Len(box) + 1] = c
  BY AppendProperties
<1>3. DOMAIN Append(box, c) = 1 .. (Len(box) + 1)
  BY <1>1, <1>2
<1> QED BY <1>1, <1>2, <1>3

(* A call begins. *)
LEMMA CallsKeep ==
  ASSUME SessionInv, NEW op \in Ops, NEW n \in Nat, NEW rs, Calls(op, n, rs),
         op = "snapshot" => ~ torn,
         InTurn /\ op = "forward" => rs = {0}
  PROVE  SessionInv'
<1>0. PICK c : c = [op |-> op, id |-> NextId, size |-> n]
  OBVIOUS
<1>1. /\ Idle /\ call' = [op |-> op, id |-> NextId, size |-> n, at |-> 0]
      /\ inbox' = [r \in Ranks |-> IF r \in rs THEN Append(inbox[r], c) ELSE inbox[r]]
      /\ reply' = [r \in Ranks |-> NoReply] /\ answer' = NoAnswer
      /\ UNCHANGED <<layout, pc, cur, round, kv, hist, torn, snaps>>
  BY <1>0 DEF Calls, Sends, Command, topologyVars
<1>2. /\ SessionTypes /\ call.id \in Nat /\ NextId = call.id + 1
      /\ Ranks' = Ranks /\ InTurn' = InTurn /\ call'.op = op /\ call'.id = NextId
      /\ call'.at = 0 /\ NextId > 0 /\ NextId > call.id /\ NextId \in Nat
  BY <1>1 DEF SessionInv, SessionTypes, Ranks, NextId, InTurn
<1>3. ~ Idle' /\ c \in Commands /\ c.id = NextId /\ c.op = op
  BY <1>0, <1>1, <1>2 DEF Idle, Ops, SlotOps, Commands
<1>4. SessionTypes'
  BY <1>1, <1>2 DEF SessionTypes
<1>5. CallInv'
  <2>1. 0 \in Ranks /\ \A q \in Ranks : ~ (q < 0)
    BY <1>2, RanksAre DEF SessionTypes
  <2> QED BY <1>1, <1>2, <1>3, <2>1 DEF SessionInv, CallInv
<1>6. ASSUME NEW r \in Ranks PROVE RankInv(r)'
  <2>1. PlaceInv(r) /\ OrderInv(r) /\ CommandInv(r) /\ ReplyInv(r) /\ StateInv(r)
    BY DEF SessionInv, RankInv
  <2>2. inbox'[r] = IF r \in rs THEN Append(inbox[r], c) ELSE inbox[r]
    BY <1>1
  <2>3. /\ inbox[r] \in Seq(Commands) /\ cur[r].id <= call.id
        /\ \A i \in DOMAIN inbox[r] : inbox[r][i].id <= call.id /\ inbox[r][i] \in Commands
    <3>1. inbox[r] \in Seq(Commands) /\ cur[r].id <= call.id
          /\ \A i \in DOMAIN inbox[r] : inbox[r][i].id <= call.id
      BY <2>1 DEF OrderInv
    <3> QED BY <3>1
  <2>4. cur[r].id \in Nat /\ \A i \in DOMAIN inbox[r] : inbox[r][i].id \in Nat
    BY <2>1, <2>3 DEF PlaceInv, Commands, NoCommand
  <2>5. cur[r].id < NextId /\ \A i \in DOMAIN inbox[r] : inbox[r][i].id < NextId
    BY <1>2, <2>3, <2>4
  <2>6. ASSUME NEW i \in DOMAIN inbox'[r]
        PROVE  \/ i \in DOMAIN inbox[r] /\ inbox'[r][i] = inbox[r][i]
               \/ i = Len(inbox'[r]) /\ inbox'[r][i] = c /\ r \in rs
    BY <1>3, <2>2, <2>3, <2>6, SentTo
  <2>7. inbox'[r] \in Seq(Commands)
    BY <1>3, <2>2, <2>3, SentTo
  <2>8. PlaceInv(r)'
    BY <1>1, <2>1 DEF PlaceInv
  <2>9. OrderInv(r)'
    <3>1. \A i \in DOMAIN inbox'[r] :
             /\ inbox'[r][i].id <= NextId
             /\ i < Len(inbox'[r]) => inbox'[r][i].id < NextId
      <4>1. Len(inbox'[r]) \in Nat
        BY <2>7
      <4> QED BY <1>2, <1>3, <2>4, <2>5, <2>6, <4>1
    <3> QED BY <1>1, <1>2, <2>4, <2>5, <2>7, <3>1 DEF OrderInv
  <2>10. CommandInv(r)'
    <3>1. Expected(c)'
      BY <1>1, <1>2, <1>3 DEF Expected
    <3>2. \A x : x.id < NextId /\ x.id \in Nat /\ Expected(x) => Expected(x)'
      BY <1>1, <1>2, <1>3 DEF Expected
    <3>3. Expected(cur[r])'
      BY <1>1, <2>1, <2>4, <2>5, <3>2 DEF CommandInv
    <3>4. ASSUME NEW i \in DOMAIN inbox'[r] PROVE Expected(inbox[r][i])'
      BY <2>1, <2>4, <2>5, <2>6, <3>1, <3>2 DEF CommandInv
    <3> QED BY <3>3, <3>4 DEF CommandInv
  <2>11. reply'[r].id = 0
    BY <1>1 DEF NoReply
  <2>12. ReplyInv(r)'
    <3>1. ASSUME InTurn, op = "forward", r > 0
          PROVE  \A i \in DOMAIN inbox'[r] : inbox'[r][i].id < NextId
      <4>1. inbox'[r] = inbox[r]
        BY <2>2, <3>1
      <4> QED BY <2>5, <4>1
    <3> QED BY <1>1, <1>2, <2>5, <2>11, <3>1 DEF ReplyInv, Replied
  <2>13. StateInv(r)'
    <3>1. ~ torn => kv[r] = hist
      BY <1>1, <2>1 DEF StateInv
    <3>2. cur[r].id # NextId
      BY <1>2, <2>4, <2>5
    <3> QED BY <1>1, <1>2, <1>3, <2>11, <3>1, <3>2 DEF StateInv, Replied
  <2> QED BY <2>8, <2>9, <2>10, <2>12, <2>13 DEF RankInv
<1> QED BY <1>2, <1>4, <1>5, <1>6 DEF SessionInv

(* What Receive leaves alone. *)
LEMMA ReceiveLeaves ==
  ASSUME SessionInv, Receive
  PROVE  /\ ~ Idle /\ call.at \in Ranks /\ call.id > 0 /\ call.id \in Nat
         /\ call.op \in Ops /\ Replied(call.at)
         /\ UNCHANGED <<layout, pc, cur, round, reply, kv>>
         /\ Ranks' = Ranks /\ InTurn' = InTurn
<1>1. /\ ~ Idle /\ reply[call.at].id = call.id /\ UNCHANGED <<topologyVars, reply, kv>>
  BY DEF Receive
<1>2. call.at \in Ranks /\ call.id > 0 /\ call.id \in Nat /\ call.op \in Ops
  BY <1>1 DEF SessionInv, SessionTypes, CallInv, Idle
<1> QED BY <1>1, <1>2 DEF topologyVars, Ranks, InTurn, Replied

(* The call is over: its record, and what that says of a rank. *)
LEMMA CallOver ==
  ASSUME SessionInv, Receive, NEW a, Returns(a)
  PROVE  /\ Idle' /\ call'.id = call.id /\ call'.op = "none"
         /\ call' \in [op : Ops \cup {"none"}, id : Nat, size : Nat, at : Nat]
         /\ answer' = a
<1>1. call' = [op |-> "none", id |-> call.id, size |-> 0, at |-> 0] /\ answer' = a
  BY DEF Returns, NoCall
<1>2. call.id \in Nat
  BY ReceiveLeaves
<1> QED BY <1>1, <1>2 DEF Idle

LEMMA GivesUpKeeps ==
  ASSUME SessionInv, Receive, GivesUp, UNCHANGED inbox
  PROVE  SessionInv'
<1>1. /\ torn' = (torn \/ call.op # "snapshot") /\ UNCHANGED <<hist, snaps>>
      /\ Idle' /\ call'.id = call.id /\ call'.op = "none" /\ answer' = Failed
      /\ call' \in [op : Ops \cup {"none"}, id : Nat, size : Nat, at : Nat]
  BY CallOver DEF GivesUp
<1>2. /\ ~ Idle /\ UNCHANGED <<layout, pc, cur, round, reply, kv, inbox>>
      /\ Ranks' = Ranks /\ InTurn' = InTurn
  BY ReceiveLeaves
<1>3. SessionTypes'
  BY <1>1, <1>2 DEF SessionInv, SessionTypes
<1>4. CallInv'
  <2>1. answer'.op \notin Ops
    BY <1>1 DEF Failed, Ops, SlotOps
  <2> QED BY <1>1, <1>2, <2>1 DEF SessionInv, CallInv
<1>5. ASSUME NEW r \in Ranks PROVE RankInv(r)'
  <2>1. PlaceInv(r) /\ OrderInv(r) /\ CommandInv(r) /\ ReplyInv(r) /\ StateInv(r)
    BY DEF SessionInv, RankInv
  <2>2. \A c : Expected(c) => Expected(c)'
    BY <1>1, <1>2 DEF Expected
  <2>3. PlaceInv(r)' /\ OrderInv(r)'
    BY <1>1, <1>2, <2>1 DEF PlaceInv, OrderInv
  <2>4. CommandInv(r)'
    BY <1>2, <2>1, <2>2 DEF CommandInv
  <2>5. ReplyInv(r)'
    BY <1>1, <1>2, <2>1 DEF ReplyInv, Replied
  <2>6. StateInv(r)'
    BY <1>1, <1>2, <2>1 DEF StateInv, Replied
  <2> QED BY <2>3, <2>4, <2>5, <2>6 DEF RankInv
<1> QED BY <1>2, <1>3, <1>4, <1>5 DEF SessionInv

(* All ranks have replied: the call has done what it says to each. *)
LEMMA DoneKeeps ==
  ASSUME SessionInv, Receive, NEW a, a.op = call.op, Returns(a), Done, UNCHANGED inbox,
         \A q \in Ranks : Replied(q) /\ reply[q].ok
  PROVE  SessionInv'
<1>1. /\ Idle' /\ call'.id = call.id /\ call'.op = "none"
      /\ call' \in [op : Ops \cup {"none"}, id : Nat, size : Nat, at : Nat]
  BY CallOver
<1>2. /\ ~ Idle /\ UNCHANGED <<layout, pc, cur, round, reply, kv, inbox>>
      /\ Ranks' = Ranks /\ InTurn' = InTurn /\ call.op \in Ops
  BY ReceiveLeaves
<1>3. SessionTypes'
  BY <1>1, <1>2 DEF SessionInv, SessionTypes
<1>4. /\ torn' = (torn /\ call.op \notin {"reset", "restore"})
      /\ snaps' = IF call.op = "snapshot"
                    THEN [of |-> hist, kv |-> [q \in Ranks |-> reply[q].kv]] ELSE snaps
      /\ call.op = "forward" => hist' = Append(hist, call.id)
      /\ call.op = "reset" => hist' = <<>>
      /\ call.op = "restore" => hist' = snaps.of
      /\ call.op = "snapshot" => hist' = hist
  BY DEF Done
<1>5. \A r \in Ranks : PlaceInv(r) /\ OrderInv(r) /\ CommandInv(r) /\ ReplyInv(r) /\ StateInv(r)
  BY DEF SessionInv, RankInv
<1>6. \A q \in Ranks : snaps'.kv[q] = snaps'.of
  <2>1. CASE call.op = "snapshot"
    <3>1. \A q \in Ranks : reply[q].kv = hist
      BY <1>5, <2>1 DEF StateInv
    <3> QED BY <1>4, <2>1, <3>1
  <2>2. CASE call.op # "snapshot"
    BY <1>4, <2>2 DEF SessionInv, CallInv
  <2> QED BY <2>1, <2>2
<1>7. CallInv'
  BY <1>1, <1>2, <1>6 DEF CallInv, Replied
<1>8. ASSUME NEW r \in Ranks PROVE RankInv(r)'
  <2>1. /\ cur[r] = NoCommand /\ inbox[r] = <<>> /\ pc[r] = "idle" /\ reply[r].id = call.id
    BY <1>5 DEF ReplyInv, PlaceInv
  <2>2. PlaceInv(r)' /\ OrderInv(r)'
    BY <1>1, <1>2, <1>5 DEF PlaceInv, OrderInv
  <2>3. CommandInv(r)'
    <3>1. Expected(NoCommand)'
      BY <1>1 DEF Expected, NoCommand
    <3>2. DOMAIN inbox'[r] = {}
      BY <1>2, <2>1
    <3> QED BY <1>2, <2>1, <3>1, <3>2 DEF CommandInv
  <2>4. ReplyInv(r)'
    BY <1>1, <1>2, <1>5 DEF ReplyInv, Replied
  <2>5. StateInv(r)'
    <3>1. ~ torn' => kv[r] = hist'
      <4>1. CASE call.op = "forward"
        BY <1>4, <1>5, <4>1 DEF StateInv
      <4>2. CASE call.op = "reset"
        BY <1>4, <1>5, <4>2 DEF StateInv
      <4>3. CASE call.op = "restore"
        BY <1>4, <1>5, <4>3 DEF StateInv, SessionInv, CallInv
      <4>4. CASE call.op = "snapshot"
        BY <1>4, <1>5, <4>4 DEF StateInv
      <4> QED BY <1>2, <4>1, <4>2, <4>3, <4>4 DEF Ops, SlotOps
    <3> QED BY <1>1, <1>2, <3>1 DEF StateInv
  <2> QED BY <2>2, <2>3, <2>4, <2>5 DEF RankInv
<1> QED BY <1>2, <1>3, <1>7, <1>8 DEF SessionInv

(* The next rank's reply is waited for; in a pipeline's forward that rank is *)
(* told only now.                                                            *)
LEMMA NextKeeps ==
  ASSUME SessionInv, Receive, reply[call.at].ok, call.at + 1 \in Ranks,
         call' = [call EXCEPT !.at = call.at + 1],
         Sends(call, IF InTurn /\ call.op = "forward" THEN {call.at + 1} ELSE {}),
         UNCHANGED <<answer, hist, torn, snaps>>
  PROVE  SessionInv'
<1>0. PICK t : t = call.at + 1
  OBVIOUS
<1>1. /\ ~ Idle /\ call.at \in Ranks /\ call.id > 0 /\ call.id \in Nat /\ call.op \in Ops
      /\ Replied(call.at) /\ UNCHANGED <<layout, pc, cur, round, reply, kv>>
      /\ Ranks' = Ranks /\ InTurn' = InTurn /\ SessionTypes
  BY ReceiveLeaves DEF SessionInv
<1>2. /\ call'.op = call.op /\ call'.id = call.id /\ call'.at = t /\ ~ Idle'
      /\ call' \in [op : Ops \cup {"none"}, id : Nat, size : Nat, at : Nat]
      /\ t \in Ranks /\ call.at \in Nat /\ t = call.at + 1 /\ t \in Nat
  BY <1>0, <1>1 DEF SessionTypes, Idle
<1>3. PICK c : c = [op |-> call.op, id |-> call.id, size |-> call.size]
  OBVIOUS
<1>4. c \in Commands /\ c.id = call.id /\ c.op = call.op
  BY <1>1, <1>3 DEF Commands, SessionTypes
<1>5. inbox' = [q \in Ranks |-> IF InTurn /\ call.op = "forward" /\ q = t
                                  THEN Append(inbox[q], c) ELSE inbox[q]]
  BY <1>0, <1>3 DEF Sends, Command
<1>6. SessionTypes'
  BY <1>1, <1>2, <1>5 DEF SessionTypes
<1>7. Ranks \subseteq Nat
  BY <1>1, RanksAre DEF SessionTypes
<1>8. CallInv'
  <2>1. ASSUME NEW q \in Ranks, q < t PROVE Replied(q) /\ reply[q].ok
    <3>1. q < call.at \/ q = call.at
      BY <1>2, <1>7, <2>1
    <3> QED BY <1>1, <3>1 DEF SessionInv, CallInv
  <2> QED BY <1>1, <1>2, <2>1 DEF SessionInv, CallInv, Replied
<1>9. \A x : Expected(x) <=> Expected(x)'
  BY <1>1, <1>2 DEF Expected
<1>10. ASSUME NEW r \in Ranks PROVE RankInv(r)'
  <2>1. PlaceInv(r) /\ OrderInv(r) /\ CommandInv(r) /\ ReplyInv(r) /\ StateInv(r)
    BY DEF SessionInv, RankInv
  <2>2. PlaceInv(r)'
    BY <1>1, <2>1 DEF PlaceInv
  <2>3. StateInv(r)'
    BY <1>1, <1>2, <2>1 DEF StateInv, Replied
  <2>4. CASE InTurn /\ call.op = "forward" /\ r = t
    <3>1. /\ ~ Replied(r) /\ cur[r].id < call.id
          /\ \A i \in DOMAIN inbox[r] : inbox[r][i].id < call.id
      BY <1>1, <1>2, <2>1, <2>4 DEF ReplyInv
    <3>2. inbox'[r] = Append(inbox[r], c) /\ inbox[r] \in Seq(Commands)
      BY <1>5, <2>1, <2>4 DEF OrderInv
    <3>3. \A i \in DOMAIN inbox'[r] :
             \/ i \in DOMAIN inbox[r] /\ inbox'[r][i] = inbox[r][i]
             \/ i = Len(inbox'[r]) /\ inbox'[r][i] = c
      BY <1>4, <3>2, SentTo
    <3>4. inbox'[r] \in Seq(Commands) /\ Len(inbox'[r]) \in Nat
      BY <1>4, <3>2, SentTo
    <3>5. OrderInv(r)'
      BY <1>1, <1>2, <1>4, <2>1, <3>1, <3>3, <3>4 DEF OrderInv
    <3>6. CommandInv(r)'
      <4>1. Expected(c)
        BY <1>1, <1>4 DEF Expected
      <4>2. ASSUME NEW i \in DOMAIN inbox'[r] PROVE Expected(inbox[r][i])'
        BY <1>9, <2>1, <3>3, <4>1 DEF CommandInv
      <4>3. Expected(cur[r])'
        BY <1>1, <1>9, <2>1 DEF CommandInv
      <4> QED BY <4>2, <4>3 DEF CommandInv
    <3>7. ReplyInv(r)'
      <4>1. ~ (r > call'.at)
        BY <1>2, <2>4
      <4> QED BY <1>1, <3>1, <4>1 DEF ReplyInv, Replied
    <3> QED BY <2>2, <2>3, <3>5, <3>6, <3>7 DEF RankInv
  <2>5. CASE ~ (InTurn /\ call.op = "forward" /\ r = t)
    <3>1. inbox'[r] = inbox[r]
      BY <1>5, <2>5
    <3>2. OrderInv(r)'
      BY <1>1, <1>2, <2>1, <3>1 DEF OrderInv
    <3>3. CommandInv(r)'
      BY <1>1, <1>9, <2>1, <3>1 DEF CommandInv
    <3>4. ReplyInv(r)'
      <4>1. r > t => r > call.at
        BY <1>2, <1>7
      <4> QED BY <1>1, <1>2, <2>1, <3>1, <4>1 DEF ReplyInv, Replied
    <3> QED BY <2>2, <2>3, <3>2, <3>3, <3>4 DEF RankInv
  <2> QED BY <2>4, <2>5
<1> QED BY <1>1, <1>6, <1>8, <1>10 DEF SessionInv

LEMMA ReceiveKeeps ==
  ASSUME SessionInv, Receive
  PROVE  SessionInv'
<1>1. /\ call.at \in Ranks /\ Replied(call.at) /\ ~ Idle
      /\ \A q \in Ranks : q < call.at => Replied(q) /\ reply[q].ok
      /\ layout \in Layouts
  BY ReceiveLeaves DEF SessionInv, CallInv, SessionTypes
<1>2. CASE ~ reply[call.at].ok
  <2>1. GivesUp /\ UNCHANGED inbox
    BY <1>2 DEF Receive
  <2> QED BY <2>1, GivesUpKeeps
<1>3. CASE reply[call.at].ok /\ call.at + 1 \in Ranks
  <2>1. /\ call' = [call EXCEPT !.at = call.at + 1]
        /\ Sends(call, IF InTurn /\ call.op = "forward" THEN {call.at + 1} ELSE {})
        /\ UNCHANGED <<answer, hist, torn, snaps>>
    BY <1>3 DEF Receive
  <2> QED BY <1>3, <2>1, NextKeeps
<1>4. CASE reply[call.at].ok /\ call.at + 1 \notin Ranks
  <2> DEFINE a == [op |-> call.op, logits |-> reply[call.at].logits]
  <2>1. Returns(a) /\ Done /\ UNCHANGED inbox
    BY <1>4 DEF Receive
  <2>2. \A q \in Ranks : q <= call.at
    BY <1>1, <1>4, RanksAre
  <2>3. \A q \in Ranks : Replied(q) /\ reply[q].ok
    <3>1. ASSUME NEW q \in Ranks PROVE q < call.at \/ q = call.at
      <4>1. q \in Nat /\ call.at \in Nat
        BY <1>1, RanksAre
      <4> QED BY <2>2, <4>1
    <3> QED BY <1>1, <1>4, <3>1
  <2>4. a.op = call.op
    OBVIOUS
  <2> HIDE DEF a
  <2> QED BY <2>1, <2>3, <2>4, DoneKeeps
<1> QED BY <1>2, <1>3, <1>4

LEMMA SessionInductive == SessionInv /\ [Next]_vars => SessionInv'
<1> SUFFICES ASSUME SessionInv, [Next]_vars PROVE SessionInv'
  OBVIOUS
<1>1. CASE Forward
  <2>1. PICK n \in Sizes : Calls("forward", n, IF InTurn THEN {0} ELSE Ranks)
    BY <1>1 DEF Forward
  <2>2. n \in Nat /\ "forward" \in Ops
    BY SessionAssumption DEF Ops
  <2>3. InTurn => (IF InTurn THEN {0} ELSE Ranks) = {0}
    OBVIOUS
  <2> QED BY <2>1, <2>2, <2>3, CallsKeep
<1>2. CASE ResetKvSlot
  BY <1>2, CallsKeep DEF ResetKvSlot, Ops, SlotOps
<1>3. CASE RestoreKvSlot
  BY <1>3, CallsKeep DEF RestoreKvSlot, Ops, SlotOps
<1>4. CASE SnapshotKvSlot
  BY <1>4, CallsKeep DEF SnapshotKvSlot, Ops, SlotOps
<1>5. CASE Receive
  BY <1>5, ReceiveKeeps
<1>6. ASSUME NEW r \in Ranks, Works(r) \/ Fail(r) \/ TimeOutEarly(r) PROVE SessionInv'
  BY <1>6, TakeKeeps, AnswersKeep, AllReduceKeeps, PeerKeeps DEF Works
<1>7. CASE UNCHANGED vars \/ \E r \in Ranks : Device(r)
  <2>1. UNCHANGED <<layout, pc, cur, round, inbox, reply, call, answer, kv, hist, torn, snaps>>
    BY <1>7 DEF vars, topologyVars, sessionVars, Device, Execute
  <2>2. Ranks' = Ranks /\ Idle' = Idle
    BY <2>1 DEF Ranks, Idle
  <2>3. \A r \in Ranks : RankInv(r)'
    BY <2>1, SameRank DEF SessionInv
  <2>4. SessionTypes' /\ CallInv'
    BY <2>1, <2>2 DEF SessionInv, SessionTypes, CallInv, Replied
  <2> QED BY <2>2, <2>3, <2>4 DEF SessionInv
<1> QED BY <1>1, <1>2, <1>3, <1>4, <1>5, <1>6, <1>7 DEF Next

LEMMA SessionInitially == Init => SessionInv
<1> SUFFICES ASSUME Init PROVE SessionInv
  OBVIOUS
<1>1. /\ layout \in Layouts /\ pc = [r \in Ranks |-> "idle"] /\ cur = [r \in Ranks |-> NoCommand]
      /\ round = [r \in Ranks |-> 0] /\ inbox = [r \in Ranks |-> <<>>]
      /\ reply = [r \in Ranks |-> NoReply] /\ call = NoCall /\ answer = NoAnswer
      /\ kv = [r \in Ranks |-> <<>>] /\ hist = <<>> /\ torn = FALSE
      /\ snaps = [of |-> <<0>>, kv |-> [r \in Ranks |-> <<0>>]]
  BY DEF Init, TopologyInit
<1>2. Idle /\ call.id = 0 /\ call.op = "none" /\ call \in [op : Ops \cup {"none"}, id : Nat, size : Nat, at : Nat]
  BY <1>1 DEF NoCall, Idle
<1>3. SessionTypes
  BY <1>1, <1>2 DEF SessionTypes
<1>4. CallInv
  <2>1. answer.op \notin Ops
    BY <1>1 DEF NoAnswer, Ops, SlotOps
  <2>2. \A q \in Ranks : snaps.kv[q] = snaps.of
    BY <1>1
  <2> QED BY <1>2, <2>1, <2>2 DEF CallInv
<1>5. ASSUME NEW r \in Ranks PROVE RankInv(r)
  <2>1. pc[r] = "idle" /\ cur[r] = NoCommand /\ inbox[r] = <<>> /\ kv[r] = hist /\ reply[r] = NoReply
    BY <1>1
  <2>2. PlaceInv(r)
    BY <2>1 DEF PlaceInv, SlotOps, Begun, Waiting
  <2>3. OrderInv(r) /\ CommandInv(r)
    BY <1>2, <2>1 DEF OrderInv, CommandInv, Expected, NoCommand
  <2>4. ReplyInv(r) /\ StateInv(r)
    BY <1>2, <2>1 DEF ReplyInv, StateInv, Replied, NoReply
  <2> QED BY <2>2, <2>3, <2>4 DEF RankInv
<1> QED BY <1>3, <1>4, <1>5 DEF SessionInv

LEMMA SessionInvariant == Spec => []SessionInv
BY SessionInitially, SessionInductive, PTL DEF Spec

(* In any layout, wherever ranks fail and whatever a call that gave up left     *)
(* behind: when a call has returned without an error, every rank is through     *)
(* with it, and unless a failure since the reset has torn the slot, the         *)
(* recurrent state of every rank went through exactly the forwards that         *)
(* returned; and what a snapshot has of each rank is of the same forwards.      *)
THEOREM RanksAlwaysStayInStep == Spec => []RanksStayInStep
<1>1. SessionInv => RanksStayInStep
  <2> SUFFICES ASSUME SessionInv PROVE RanksStayInStep
    OBVIOUS
  <2>1. ASSUME Idle, answer.op \in Ops, NEW r \in Ranks
        PROVE  inbox[r] = <<>> /\ pc[r] = "idle" /\ (~ torn => kv[r] = hist)
    <3>1. Replied(r)
      BY <2>1 DEF SessionInv, CallInv
    <3> QED BY <2>1, <3>1 DEF SessionInv, RankInv, ReplyInv, StateInv
  <2>2. \A r \in Ranks : snaps.kv[r] = snaps.of
    BY DEF SessionInv, CallInv
  <2>3. {"forward", "reset", "snapshot", "restore"} = Ops
    BY DEF Ops, SlotOps
  <2> QED BY <2>1, <2>2, <2>3 DEF RanksStayInStep
<1> QED BY <1>1, SessionInvariant, PTL

-----------------------------------------------------------------------------
(* The streams of a tensor-parallel stage.  Where a rank's device is in a      *)
(* forward: after a round's sum or in a round, what it has told its peers and   *)
(* what it knows of them.                                                       *)
Spots == [round : Nat, has : {"nothing", "whole", "part"}, told : 0 .. 2, pulled : BOOLEAN,
          seen : SUBSET Nat, got : SUBSET Nat, clear : SUBSET Nat]

Start == [round |-> 0, has |-> "nothing", told |-> 0, pulled |-> FALSE,
          seen |-> {}, got |-> {}, clear |-> {}]
WholeOf(j) == [Start EXCEPT !.round = j, !.has = "whole"]
PartOf(j) == [Start EXCEPT !.round = j, !.has = "part"]
ToldOf(j) == [PartOf(j) EXCEPT !.told = 2]
SeenOf(j, peers) == [ToldOf(j) EXCEPT !.seen = peers]
PulledOf(j, peers) == [SeenOf(j, peers) EXCEPT !.pulled = TRUE, !.got = peers]
CopiedOf(j, peers) == [PartOf(j) EXCEPT !.got = peers]

WaitFor(e, n) == [op |-> "wait", e |-> e, n |-> n]

(* A forward on a rank, as its device's steps need to know it; written and       *)
(* pulled are the records of its events before the forward.                      *)
Frames == [forward : Nat, rank : Nat, peers : SUBSET Nat, events : BOOLEAN, bar : BOOLEAN,
           written : Nat, pulled : Nat]

(* What an operation does to the device of c.rank in forward c.forward, if it    *)
(* comes in its turn.                                                            *)
Moves(c, o, s, t) ==
  \/ /\ o = Embed(c.forward) /\ s = Start
     /\ t = WholeOf(0)
  \/ /\ o = Layer(c.forward, s.round + 1) /\ s = WholeOf(s.round)
     /\ t = IF c.peers = {} THEN WholeOf(s.round + 1) ELSE PartOf(s.round + 1)
  \/ /\ o = Flush /\ s.has = "part" /\ s.told = 0
     /\ t = [s EXCEPT !.told = 1]
  \/ /\ o = Record(<<"written", c.rank>>) /\ s.has = "part" /\ s.told = 1 /\ c.events
     /\ t = [s EXCEPT !.told = 2]
  \/ /\ s.has = "part" /\ s.told = 2 /\ ~ s.pulled
     /\ \E q \in c.peers : /\ o = WaitFor(<<"written", q>>, c.written + s.round) /\ c.events
                           /\ t = [s EXCEPT !.seen = @ \cup {q}]
  \/ /\ s.has = "part" /\ s.told = 2 /\ ~ s.pulled
     /\ \E q \in c.peers : /\ o = Pull(q) /\ q \in s.seen /\ c.bar
                           /\ t = [s EXCEPT !.got = @ \cup {q}]
  \/ /\ o = Record(<<"pulled", c.rank>>) /\ s.has = "part" /\ s.told = 2 /\ s.got = c.peers
     /\ ~ s.pulled /\ c.bar
     /\ t = [s EXCEPT !.pulled = TRUE]
  \/ /\ s.has = "part" /\ s.told = 2 /\ s.pulled
     /\ \E q \in c.peers : /\ o = WaitFor(<<"pulled", q>>, c.pulled + s.round)
                           /\ t = [s EXCEPT !.clear = @ \cup {q}]
  \/ /\ o = SumUp /\ s.has = "part" /\ s.told = 2 /\ s.pulled
     /\ s.got = c.peers /\ s.clear = c.peers
     /\ t = WholeOf(s.round)

(* A stream with these operations brings the device from one spot to another. *)
Leads(c, ops, s, t) ==
  \E h \in [1 .. Len(ops) + 1 -> Spots] :
    /\ h[1] = s /\ h[Len(ops) + 1] = t
    /\ \A i \in 1 .. Len(ops) : Moves(c, ops[i], h[i], h[i + 1])

LEMMA NowhereLeads ==
  ASSUME NEW c, NEW s \in Spots
  PROVE  /\ Leads(c, <<>>, s, s)
         /\ \A t : Leads(c, <<>>, s, t) => t = s
<1>1. Len(<<>>) = 0
  OBVIOUS
<1>2. Leads(c, <<>>, s, s)
  <2> DEFINE h == [i \in 1 .. 1 |-> s]
  <2>1. h \in [1 .. 1 -> Spots] /\ h[1] = s
    OBVIOUS
  <2>2. 1 .. 0 = {}
    OBVIOUS
  <2> HIDE DEF h
  <2> QED BY <1>1, <2>1, <2>2 DEF Leads
<1>3. ASSUME NEW t, Leads(c, <<>>, s, t) PROVE t = s
  BY <1>1, <1>3 DEF Leads
<1> QED BY <1>2, <1>3

LEMMA OneLeads ==
  ASSUME NEW c, NEW o, NEW s \in Spots, NEW t \in Spots, Moves(c, o, s, t)
  PROVE  Leads(c, <<o>>, s, t)
<1> DEFINE h == [i \in 1 .. 2 |-> IF i = 1 THEN s ELSE t]
<1>1. Len(<<o>>) = 1 /\ <<o>>[1] = o
  OBVIOUS
<1>2. h \in [1 .. 2 -> Spots] /\ h[1] = s /\ h[2] = t
  OBVIOUS
<1>3. 1 .. 1 = {1} /\ 1 + 1 = 2
  OBVIOUS
<1> HIDE DEF h
<1> QED BY <1>1, <1>2, <1>3 DEF Leads

LEMMA BothLead ==
  ASSUME NEW c, NEW S, NEW a \in Seq(S), NEW b \in Seq(S), NEW s, NEW t, NEW u,
         Leads(c, a, s, t), Leads(c, b, t, u)
  PROVE  Leads(c, a \o b, s, u)
<1>1. PICK g \in [1 .. Len(a) + 1 -> Spots] :
         /\ g[1] = s /\ g[Len(a) + 1] = t
         /\ \A i \in 1 .. Len(a) : Moves(c, a[i], g[i], g[i + 1])
  BY DEF Leads
<1>2. PICK h \in [1 .. Len(b) + 1 -> Spots] :
         /\ h[1] = t /\ h[Len(b) + 1] = u
         /\ \A i \in 1 .. Len(b) : Moves(c, b[i], h[i], h[i + 1])
  BY DEF Leads
<1>3. PICK m : m = Len(a)
  OBVIOUS
<1>4. PICK n : n = Len(b)
  OBVIOUS
<1>5. /\ m \in Nat /\ n \in Nat /\ Len(a \o b) = m + n
      /\ \A i \in 1 .. m : (a \o b)[i] = a[i]
      /\ \A i \in m + 1 .. m + n : (a \o b)[i] = b[i - m]
  BY <1>3, <1>4, ConcatProperties, LenProperties
<1> DEFINE f == [i \in 1 .. m + n + 1 |-> IF i <= m THEN g[i] ELSE h[i - m]]
<1>6. f \in [1 .. m + n + 1 -> Spots]
  BY <1>1, <1>2, <1>3, <1>4, <1>5
<1>7. f[1] = s /\ f[m + n + 1] = u
  BY <1>1, <1>2, <1>3, <1>4, <1>5
<1>8. ASSUME NEW i \in 1 .. m + n PROVE Moves(c, (a \o b)[i], f[i], f[i + 1])
  <2>1. CASE i <= m
    <3>1. f[i] = g[i] /\ f[i + 1] = g[i + 1] /\ i \in 1 .. m
      BY <1>1, <1>2, <1>3, <1>5, <2>1
    <3> HIDE DEF f
    <3> QED BY <1>1, <1>3, <1>5, <3>1
  <2>2. CASE i > m
    <3>1. f[i] = h[i - m] /\ f[i + 1] = h[(i - m) + 1] /\ i - m \in 1 .. n /\ i \in m + 1 .. m + n
      <4>1. i - m \in 1 .. n /\ i \in m + 1 .. m + n
        BY <1>5, <2>2
      <4>2. (i + 1) - m = (i - m) + 1 /\ ~ (i + 1 <= m) /\ i + 1 \in 1 .. m + n + 1
        BY <1>5, <2>2
      <4> QED BY <1>5, <2>2, <4>1, <4>2
    <3> HIDE DEF f
    <3> QED BY <1>2, <1>4, <1>5, <3>1
  <2> QED BY <1>5, <2>1, <2>2
<1>9. Len(a \o b) + 1 = m + n + 1
  BY <1>5
<1> HIDE DEF f
<1> QED BY <1>5, <1>6, <1>7, <1>8, <1>9 DEF Leads

LEMMA HeadLeads ==
  ASSUME NEW c, NEW S, NEW a \in Seq(S), a # <<>>, NEW s, NEW t, Leads(c, a, s, t)
  PROVE  \E u \in Spots : Moves(c, Head(a), s, u) /\ Leads(c, Tail(a), u, t)
<1>1. PICK n : n = Len(a)
  OBVIOUS
<1>2. /\ n \in Nat /\ n > 0 /\ Len(Tail(a)) = n - 1
      /\ Head(a) = a[1]
      /\ \A i \in 1 .. n - 1 : Tail(a)[i] = a[i + 1]
  BY <1>1, HeadTailProperties, LenProperties, EmptySeq
<1>3. PICK h \in [1 .. n + 1 -> Spots] :
         /\ h[1] = s /\ h[n + 1] = t
         /\ \A i \in 1 .. n : Moves(c, a[i], h[i], h[i + 1])
  BY <1>1 DEF Leads
<1> DEFINE g == [i \in 1 .. n |-> h[i + 1]]
<1>4. h[2] \in Spots /\ Moves(c, Head(a), s, h[2])
  BY <1>2, <1>3
<1>5. g \in [1 .. n -> Spots] /\ g[1] = h[2] /\ g[n] = t
  BY <1>2, <1>3
<1>6. ASSUME NEW i \in 1 .. n - 1 PROVE Moves(c, Tail(a)[i], g[i], g[i + 1])
  <2>1. g[i] = h[i + 1] /\ g[i + 1] = h[(i + 1) + 1] /\ i + 1 \in 1 .. n
    BY <1>2
  <2> HIDE DEF g
  <2> QED BY <1>2, <1>3, <2>1
<1>7. Leads(c, Tail(a), h[2], t)
  <2>1. Len(Tail(a)) + 1 = n
    BY <1>2
  <2> HIDE DEF g
  <2> QED BY <1>2, <1>5, <1>6, <2>1 DEF Leads
<1> QED BY <1>4, <1>7

(* A finite set in a sequence: every element is in it, and once. *)
LEMMA SetInSequence ==
  ASSUME NEW S, IsFiniteSet(S)
  PROVE  /\ SetToSeq(S) \in Seq(S)
         /\ \A x \in S : \E i \in 1 .. Len(SetToSeq(S)) : SetToSeq(S)[i] = x
         /\ \A i, j \in 1 .. Len(SetToSeq(S)) : SetToSeq(S)[i] = SetToSeq(S)[j] => i = j
<1>1. PICK n \in Nat : n = Cardinality(S)
  BY FS_CardinalityType
<1>2. \E f \in [1 .. n -> S] : IsInjective(f)
  <2>1. ExistsBijection(1 .. n, S)
    BY <1>1, FS_CardinalityType
  <2> QED BY <2>1 DEF ExistsBijection, Bijection, Injection
<1>3. PICK f : f = SetToSeq(S)
  OBVIOUS
<1>4. f \in [1 .. n -> S] /\ IsInjective(f)
  BY <1>1, <1>2, <1>3 DEF SetToSeq
<1>5. f \in Seq(S) /\ Len(f) = n
  BY <1>4
<1>6. f \in Surjection(1 .. n, S)
  <2>1. f \in Injection(1 .. n, S)
    BY <1>4 DEF Injection
  <2>2. Cardinality(1 .. n) = n
    BY FS_Interval
  <2> QED BY <1>1, <2>1, <2>2, FS_Injection
<1>7. \A x \in S : \E i \in 1 .. n : f[i] = x
  BY <1>6 DEF Surjection
<1>8. \A i, j \in 1 .. n : f[i] = f[j] => i = j
  BY <1>4 DEF IsInjective
<1> QED BY <1>3, <1>5, <1>7, <1>8

(* One operation for every peer, in any order: what each one adds adds up. *)
OneEach(c, peers, op, at) ==
  /\ \A q, p \in peers : op[q] = op[p] => q = p
  /\ \A A \in SUBSET peers, q \in peers : Moves(c, op[q], at[A], at[A \cup {q}])

LEMMA AllLead ==
  ASSUME NEW c, NEW peers, IsFiniteSet(peers), NEW O, NEW op \in [peers -> O],
         O = {op[q] : q \in peers}, NEW at \in [SUBSET peers -> Spots],
         OneEach(c, peers, op, at)
  PROVE  /\ Leads(c, SetToSeq(O), at[{}], at[peers])
         /\ SetToSeq(O) \in Seq(O)
<1>0. /\ \A q, p \in peers : op[q] = op[p] => q = p
      /\ \A A \in SUBSET peers, q \in peers : Moves(c, op[q], at[A], at[A \cup {q}])
  BY DEF OneEach
<1>1. IsFiniteSet(O)
  <2>1. op \in [peers -> O]
    OBVIOUS
  <2>2. op \in Surjection(peers, O)
    BY <2>1 DEF Surjection
  <2> QED BY <2>2, FS_Surjection
<1>2. PICK s : s = SetToSeq(O)
  OBVIOUS
<1>3. /\ s \in Seq(O)
      /\ \A x \in O : \E i \in 1 .. Len(s) : s[i] = x
      /\ \A i, j \in 1 .. Len(s) : s[i] = s[j] => i = j
  <2>1. /\ SetToSeq(O) \in Seq(O)
        /\ \A x \in O : \E i \in 1 .. Len(SetToSeq(O)) : SetToSeq(O)[i] = x
        /\ \A i, j \in 1 .. Len(SetToSeq(O)) : SetToSeq(O)[i] = SetToSeq(O)[j] => i = j
    BY <1>1, SetInSequence, Zenon
  <2> QED BY <1>2, <2>1
<1>4. PICK n \in Nat : n = Len(s)
  BY <1>3
<1> DEFINE Before(i) == {q \in peers : \E k \in 1 .. n : k < i /\ s[k] = op[q]}
           h == [i \in 1 .. n + 1 |-> at[Before(i)]]
<1>5. h \in [1 .. n + 1 -> Spots]
  OBVIOUS
<1>6. h[1] = at[{}]
  <2>1. Before(1) = {}
    OBVIOUS
  <2> QED BY <2>1
<1>7. h[n + 1] = at[peers]
  <2>1. \A q \in peers : \E k \in 1 .. n : s[k] = op[q]
    BY <1>3, <1>4
  <2>2. Before(n + 1) = peers
    BY <2>1
  <2> HIDE DEF Before
  <2> QED BY <2>2
<1>8. ASSUME NEW i \in 1 .. n PROVE Moves(c, s[i], h[i], h[i + 1])
  <2>1. s[i] \in O
    BY <1>3, <1>4
  <2>2. PICK q \in peers : s[i] = op[q]
    BY <2>1
  <2>3. Before(i + 1) = Before(i) \cup {q}
    <3>1. ASSUME NEW p \in Before(i + 1) PROVE p \in Before(i) \cup {q}
      <4>1. PICK k \in 1 .. n : k < i + 1 /\ s[k] = op[p]
        BY <3>1
      <4>2. CASE k = i
        BY <1>0, <2>2, <3>1, <4>1, <4>2
      <4>3. CASE k # i
        BY <3>1, <4>1, <4>3
      <4> QED BY <4>2, <4>3
    <3>2. Before(i) \subseteq Before(i + 1)
      OBVIOUS
    <3>3. q \in Before(i + 1)
      BY <2>2
    <3> HIDE DEF Before
    <3> QED BY <3>1, <3>2, <3>3
  <2>4. h[i] = at[Before(i)] /\ h[i + 1] = at[Before(i + 1)]
    OBVIOUS
  <2>5. Before(i) \in SUBSET peers
    OBVIOUS
  <2> HIDE DEF Before, h
  <2> QED BY <1>0, <2>2, <2>3, <2>4, <2>5
<1>9. Leads(c, s, at[{}], at[peers])
  <2> HIDE DEF h
  <2> QED BY <1>4, <1>5, <1>6, <1>7, <1>8 DEF Leads
<1> QED BY <1>2, <1>3, <1>9

LEMMA SpotsAre ==
  ASSUME NEW j \in Nat, NEW A \in SUBSET Nat
  PROVE  /\ Start \in Spots /\ WholeOf(j) \in Spots /\ PartOf(j) \in Spots
         /\ ToldOf(j) \in Spots /\ SeenOf(j, A) \in Spots /\ PulledOf(j, A) \in Spots
         /\ CopiedOf(j, A) \in Spots
<1>1. Start \in Spots
  BY DEF Spots, Start
<1>2. WholeOf(j) \in Spots /\ PartOf(j) \in Spots
  BY <1>1 DEF Spots, WholeOf, PartOf
<1>3. ToldOf(j) \in Spots /\ CopiedOf(j, A) \in Spots
  BY <1>2 DEF Spots, ToldOf, CopiedOf
<1>4. SeenOf(j, A) \in Spots
  BY <1>3 DEF Spots, SeenOf
<1>5. PulledOf(j, A) \in Spots
  BY <1>4 DEF Spots, PulledOf
<1> QED BY <1>1, <1>2, <1>3, <1>4, <1>5

(* The waits for the peers' partials, the pulls, and the waits for their pulls. *)
LEMMA WaitsLead ==
  ASSUME NEW c \in Frames, c.events, IsFiniteSet(c.peers), NEW j \in Nat
  PROVE  LET ops == {WaitFor(<<"written", q>>, c.written + j) : q \in c.peers}
         IN  /\ Leads(c, SetToSeq(ops), ToldOf(j), SeenOf(j, c.peers))
             /\ SetToSeq(ops) \in Seq(ops)
<1> DEFINE op == [q \in c.peers |-> WaitFor(<<"written", q>>, c.written + j)]
           at == [A \in SUBSET c.peers |-> SeenOf(j, A)]
<1>1. c.peers \in SUBSET Nat
  BY DEF Frames
<1>2. \A q, p \in c.peers : op[q] = op[p] => q = p
  BY DEF WaitFor
<1>3. at \in [SUBSET c.peers -> Spots]
  <2>1. \A A \in SUBSET c.peers : SeenOf(j, A) \in Spots
    BY <1>1, SpotsAre
  <2> QED BY <2>1
<1>4. ASSUME NEW A \in SUBSET c.peers, NEW q \in c.peers
      PROVE  Moves(c, op[q], at[A], at[A \cup {q}])
  <2>1. at[A] = SeenOf(j, A) /\ at[A \cup {q}] = SeenOf(j, A \cup {q})
    OBVIOUS
  <2>2. SeenOf(j, A \cup {q}) = [SeenOf(j, A) EXCEPT !.seen = @ \cup {q}]
    BY DEF SeenOf, ToldOf, PartOf, Start
  <2>3. /\ SeenOf(j, A).has = "part" /\ SeenOf(j, A).told = 2 /\ ~ SeenOf(j, A).pulled
        /\ SeenOf(j, A).round = j
    BY DEF SeenOf, ToldOf, PartOf, Start
  <2>4. op[q] = WaitFor(<<"written", q>>, c.written + SeenOf(j, A).round)
    BY <2>3
  <2> HIDE DEF op, at
  <2> QED BY <2>1, <2>2, <2>3, <2>4 DEF Moves
<1>5. at[{}] = ToldOf(j) /\ at[c.peers] = SeenOf(j, c.peers)
  <2>1. ToldOf(j).seen = {}
    BY DEF ToldOf, PartOf, Start
  <2>2. ToldOf(j) \in Spots
    BY <1>1, SpotsAre
  <2>3. SeenOf(j, {}) = ToldOf(j)
    BY <2>1, <2>2 DEF SeenOf, Spots
  <2> QED BY <2>3
<1>6. {op[q] : q \in c.peers} = {WaitFor(<<"written", q>>, c.written + j) : q \in c.peers}
  OBVIOUS
<1>7. op \in [c.peers -> {op[q] : q \in c.peers}]
  OBVIOUS
<1>8. OneEach(c, c.peers, op, at)
  <2> HIDE DEF op, at
  <2> QED BY <1>2, <1>4 DEF OneEach
<1> HIDE DEF op, at
<1>9. PICK O : O = {WaitFor(<<"written", q>>, c.written + j) : q \in c.peers}
  OBVIOUS
<1>10. Leads(c, SetToSeq(O), at[{}], at[c.peers]) /\ SetToSeq(O) \in Seq(O)
  BY <1>3, <1>6, <1>7, <1>8, <1>9, AllLead
<1> QED BY <1>5, <1>9, <1>10

LEMMA PullsLead ==
  ASSUME NEW c \in Frames, c.bar, IsFiniteSet(c.peers), NEW j \in Nat
  PROVE  LET ops == {Pull(q) : q \in c.peers}
         IN  /\ Leads(c, SetToSeq(ops) \o <<Record(<<"pulled", c.rank>>)>>,
                      SeenOf(j, c.peers), PulledOf(j, c.peers))
             /\ SetToSeq(ops) \in Seq(ops)
<1> DEFINE op == [q \in c.peers |-> Pull(q)]
           ops == {Pull(q) : q \in c.peers}
           at == [A \in SUBSET c.peers |-> [SeenOf(j, c.peers) EXCEPT !.got = A]]
           last == Record(<<"pulled", c.rank>>)
<1>1. c.peers \in SUBSET Nat
  BY DEF Frames
<1>2. \A q, p \in c.peers : op[q] = op[p] => q = p
  BY DEF Pull
<1>3. at \in [SUBSET c.peers -> Spots]
  <2>1. SeenOf(j, c.peers) \in Spots
    BY <1>1, SpotsAre
  <2>2. \A A \in SUBSET c.peers : [SeenOf(j, c.peers) EXCEPT !.got = A] \in Spots
    BY <1>1, <2>1 DEF Spots
  <2> QED BY <2>2
<1>s. /\ SeenOf(j, c.peers).has = "part" /\ SeenOf(j, c.peers).told = 2
      /\ ~ SeenOf(j, c.peers).pulled /\ SeenOf(j, c.peers).seen = c.peers
      /\ SeenOf(j, c.peers).got = {}
  BY DEF SeenOf, ToldOf, PartOf, Start
<1>t. SeenOf(j, c.peers) \in Spots
  BY <1>1, SpotsAre
<1>4. ASSUME NEW A \in SUBSET c.peers, NEW q \in c.peers
      PROVE  Moves(c, op[q], at[A], at[A \cup {q}])
  <2>1. PICK s \in Spots : s = SeenOf(j, c.peers)
    BY <1>t
  <2>2. at[A] = [s EXCEPT !.got = A] /\ at[A \cup {q}] = [s EXCEPT !.got = A \cup {q}]
    BY <2>1
  <2>3. /\ at[A].has = "part" /\ at[A].told = 2 /\ ~ at[A].pulled /\ q \in at[A].seen
        /\ at[A \cup {q}] = [at[A] EXCEPT !.got = @ \cup {q}]
    BY <1>s, <2>1, <2>2 DEF Spots
  <2>4. op[q] = Pull(q)
    OBVIOUS
  <2> HIDE DEF op, at
  <2> QED BY <2>3, <2>4 DEF Moves
<1>5. at[{}] = SeenOf(j, c.peers)
  BY <1>s, <1>t DEF Spots
<1>6. {op[q] : q \in c.peers} = ops
  OBVIOUS
<1>7. op \in [c.peers -> ops]
  OBVIOUS
<1>8. Leads(c, SetToSeq(ops), at[{}], at[c.peers]) /\ SetToSeq(ops) \in Seq(ops)
  <2> HIDE DEF op, at, ops
  <2>1. OneEach(c, c.peers, op, at)
    BY <1>2, <1>4 DEF OneEach
  <2> QED BY <1>3, <1>6, <1>7, <2>1, AllLead
<1>9. Leads(c, <<last>>, at[c.peers], PulledOf(j, c.peers))
  <2>1. PulledOf(j, c.peers) = [at[c.peers] EXCEPT !.pulled = TRUE]
    BY DEF PulledOf, SeenOf, ToldOf, PartOf, Start
  <2>2. /\ at[c.peers].has = "part" /\ at[c.peers].told = 2 /\ at[c.peers].got = c.peers
        /\ ~ at[c.peers].pulled
    BY <1>s, <1>t DEF Spots
  <2>3. Moves(c, last, at[c.peers], PulledOf(j, c.peers))
    <3> HIDE DEF at
    <3> QED BY <2>1, <2>2 DEF Moves
  <2>4. at[c.peers] \in Spots /\ PulledOf(j, c.peers) \in Spots
    BY <1>1, <1>3, SpotsAre
  <2> HIDE DEF at, last
  <2> QED BY <2>3, <2>4, OneLeads
<1>10. SetToSeq(ops) \in Seq(ops \cup {last}) /\ <<last>> \in Seq(ops \cup {last})
  <2> HIDE DEF ops, last
  <2> QED BY <1>8
<1> HIDE DEF at, ops, last
<1>11. Leads(c, SetToSeq(ops) \o <<last>>, at[{}], PulledOf(j, c.peers))
  BY <1>8, <1>9, <1>10, BothLead
<1> QED BY <1>5, <1>8, <1>11 DEF ops, last

LEMMA AddsLead ==
  ASSUME NEW c \in Frames, IsFiniteSet(c.peers), NEW j \in Nat
  PROVE  LET ops == {WaitFor(<<"pulled", q>>, c.pulled + j) : q \in c.peers}
         IN  /\ Leads(c, SetToSeq(ops) \o <<SumUp>>, PulledOf(j, c.peers), WholeOf(j))
             /\ SetToSeq(ops) \in Seq(ops)
<1> DEFINE op == [q \in c.peers |-> WaitFor(<<"pulled", q>>, c.pulled + j)]
           ops == {WaitFor(<<"pulled", q>>, c.pulled + j) : q \in c.peers}
           at == [A \in SUBSET c.peers |-> [PulledOf(j, c.peers) EXCEPT !.clear = A]]
<1>1. c.peers \in SUBSET Nat
  BY DEF Frames
<1>2. \A q, p \in c.peers : op[q] = op[p] => q = p
  BY DEF WaitFor
<1>t. PulledOf(j, c.peers) \in Spots /\ WholeOf(j) \in Spots
  BY <1>1, SpotsAre
<1>s. /\ PulledOf(j, c.peers).has = "part" /\ PulledOf(j, c.peers).told = 2
      /\ PulledOf(j, c.peers).pulled /\ PulledOf(j, c.peers).got = c.peers
      /\ PulledOf(j, c.peers).clear = {} /\ PulledOf(j, c.peers).round = j
  BY DEF PulledOf, SeenOf, ToldOf, PartOf, Start
<1>3. at \in [SUBSET c.peers -> Spots]
  <2>1. \A A \in SUBSET c.peers : [PulledOf(j, c.peers) EXCEPT !.clear = A] \in Spots
    BY <1>1, <1>t DEF Spots
  <2> QED BY <2>1
<1>4. ASSUME NEW A \in SUBSET c.peers, NEW q \in c.peers
      PROVE  Moves(c, op[q], at[A], at[A \cup {q}])
  <2>1. PICK s \in Spots : s = PulledOf(j, c.peers)
    BY <1>t
  <2>2. at[A] = [s EXCEPT !.clear = A] /\ at[A \cup {q}] = [s EXCEPT !.clear = A \cup {q}]
    BY <2>1
  <2>3. /\ at[A].has = "part" /\ at[A].told = 2 /\ at[A].pulled /\ at[A].round = j
        /\ at[A \cup {q}] = [at[A] EXCEPT !.clear = @ \cup {q}]
    <3>1. s.has = "part" /\ s.told = 2 /\ s.pulled /\ s.round = j
      BY <1>s, <2>1
    <3>2. PICK a : a = at[A]
      OBVIOUS
    <3>3. a = [s EXCEPT !.clear = A] /\ at[A \cup {q}] = [s EXCEPT !.clear = A \cup {q}]
      BY <2>2, <3>2
    <3> HIDE DEF at
    <3>4. a.has = "part" /\ a.told = 2 /\ a.pulled /\ a.round = j /\ a.clear = A
      BY <3>1, <3>3 DEF Spots
    <3>5. [a EXCEPT !.clear = a.clear \cup {q}] = [s EXCEPT !.clear = A \cup {q}]
      BY <3>3, <3>4 DEF Spots
    <3> QED BY <3>2, <3>3, <3>4, <3>5
  <2>4. op[q] = WaitFor(<<"pulled", q>>, c.pulled + at[A].round)
    BY <2>3
  <2> HIDE DEF op, at
  <2> QED BY <2>3, <2>4 DEF Moves
<1>5. at[{}] = PulledOf(j, c.peers)
  BY <1>s, <1>t DEF Spots
<1>6. {op[q] : q \in c.peers} = ops
  OBVIOUS
<1>7. op \in [c.peers -> ops]
  OBVIOUS
<1>8. Leads(c, SetToSeq(ops), at[{}], at[c.peers]) /\ SetToSeq(ops) \in Seq(ops)
  <2> HIDE DEF op, at, ops
  <2>1. OneEach(c, c.peers, op, at)
    BY <1>2, <1>4 DEF OneEach
  <2> QED BY <1>3, <1>6, <1>7, <2>1, AllLead
<1>9. Leads(c, <<SumUp>>, at[c.peers], WholeOf(j))
  <2>2. /\ at[c.peers].has = "part" /\ at[c.peers].got = c.peers /\ at[c.peers].round = j
        /\ at[c.peers].told = 2
        /\ at[c.peers].pulled /\ at[c.peers].clear = c.peers
    BY <1>s, <1>t DEF Spots
  <2>3. Moves(c, SumUp, at[c.peers], WholeOf(j))
    <3> HIDE DEF at
    <3> QED BY <2>2 DEF Moves
  <2>4. at[c.peers] \in Spots
    BY <1>3
  <2> HIDE DEF at
  <2> QED BY <1>t, <2>3, <2>4, OneLeads
<1>10. SetToSeq(ops) \in Seq(ops \cup {SumUp}) /\ <<SumUp>> \in Seq(ops \cup {SumUp})
  <2> HIDE DEF ops
  <2> QED BY <1>8
<1> HIDE DEF at, ops
<1>11. Leads(c, SetToSeq(ops) \o <<SumUp>>, at[{}], WholeOf(j))
  BY <1>8, <1>9, <1>10, BothLead
<1> QED BY <1>5, <1>8, <1>11 DEF ops

-----------------------------------------------------------------------------
(* The devices, the host threads and the current call of a tensor-parallel       *)
(* stage in which no rank fails inside a forward.                                *)
Names == {"written", "pulled", "sent"} \X Nat
Instructions ==
  [op : {"embed", "load"}, f : Nat] \cup [op : {"layer"}, f : Nat, j : Nat]
    \cup [op : {"flush", "sum", "send"}] \cup [op : {"pull"}, q : Nat]
    \cup [op : {"record"}, e : Names] \cup [op : {"wait"}, e : Names, n : Nat]

StreamTypes ==
  /\ queue \in [Ranks -> Seq(Instructions)]
  /\ asked \in [Events -> Nat] /\ fired \in [Events -> Nat]
  /\ DOMAIN buf = Ranks /\ DOMAIN dram = Ranks /\ DOMAIN staging = Ranks
  /\ \A r \in Ranks : DOMAIN staging[r] = Ranks

Underway == call.op = "forward"
Runs(r) == cur[r].op = "forward"
ByEvents == backend = "bar" /\ call.size <= Small

(* Where the host has brought a rank's stream to. *)
HostSpot(r) ==
  IF Runs(r)
  THEN IF pc[r] \in {"layers", "out", "clear"} \/ (pc[r] = "done" /\ backend = "bar")
       THEN WholeOf(round[r])
       ELSE IF backend = "bounce"
            THEN IF pc[r] \in {"add", "done"} THEN CopiedOf(round[r], Peers(r))
                 ELSE PartOf(round[r])
            ELSE IF pc[r] = "add" THEN PulledOf(round[r], Peers(r))
                 ELSE IF pc[r] = "publish" /\ ~ ByEvents THEN PartOf(round[r])
                      ELSE ToldOf(round[r])
  ELSE IF Underway /\ Replied(r) THEN WholeOf(NAr) ELSE Start

(* Rounds a device has told its peers of, has pulled and has added up. *)
TimesTold(s) == IF s.has = "part" /\ s.told < 2 THEN s.round - 1 ELSE s.round
TimesPulled(s) == IF s.has = "part" /\ ~ s.pulled THEN s.round - 1 ELSE s.round
TimesSummed(s) == IF s.has = "part" THEN s.round - 1 ELSE s.round

FrameOf(r, w, p) == [forward |-> call.id, rank |-> r, peers |-> Peers(r), events |-> ByEvents,
                     bar |-> (backend = "bar"), written |-> w, pulled |-> p]

(* The records of its two events: w and p before the forward. *)
Records(count, w, p, r, s) ==
  /\ count[<<"written", r>>] = w + (IF ByEvents THEN TimesTold(s) ELSE 0)
  /\ count[<<"pulled", r>>] = p + (IF backend = "bar" THEN TimesPulled(s) ELSE 0)

(* What the memories show of a device's spot. *)
Shows(r, s) ==
  /\ s.has = "whole" => buf[r] = Content(call.id, s.round, Ranks)
  /\ s.has = "part" => buf[r] = Content(call.id, s.round, {r}) /\ s.round > 0
  /\ s.has = "part" /\ s.told > 0 => dram[r] = buf[r]
  /\ s.got \subseteq Ranks /\ \A q \in s.got : staging[r][q] = Content(call.id, s.round, {q})

(* What two devices know of each other: it told, it pulled, and nobody adds in *)
(* place what the other has yet to pull.                                         *)
Knows(s, q, t) ==
  /\ q \in s.seen => TimesTold(t) >= s.round
  /\ q \in s.clear => TimesPulled(t) >= s.round
  /\ backend = "bar" => TimesPulled(t) >= TimesSummed(s)

(* A rank that drained its stream before it met its peers has told them. *)
ToldByHost(r, s) ==
  backend = "bar" /\ Runs(r) /\ pc[r] \in {"snap", "add"} /\ ~ ByEvents
    => TimesTold(s) >= round[r]

At(r, w, p, s) ==
  /\ Leads(FrameOf(r, w, p), queue[r], s, HostSpot(r))
  /\ Shows(r, s) /\ ToldByHost(r, s)
  /\ Records(fired, w, p, r, s) /\ Records(asked, w, p, r, HostSpot(r))

Devices(w, p, G) ==
  /\ \A r \in Ranks : At(r, w, p, G[r])
  /\ \A r, q \in Ranks : r # q => Knows(G[r], q, G[q])

DeviceInv == \E w, p \in Nat, G \in [Ranks -> Spots] : Devices(w, p, G)

(* Rounds a host thread is through with, and the barriers it has arrived at. *)
Through(r) ==
  IF Runs(r) THEN IF pc[r] \in {"publish", "snap", "add", "clear"} THEN round[r] - 1 ELSE round[r]
  ELSE IF Underway /\ Replied(r) THEN NAr ELSE 0

Ticket(r, k) == ticket[r] = PerRound * (k + Through(r)) + PhaseOf(pc[r])
TicketInv == layout.width > 1 => \E k \in Nat : \A r \in Ranks : Ticket(r, k)

ForwardInv(r) ==
  /\ Runs(r) => Underway /\ cur[r].id = call.id /\ cur[r].size = call.size
  /\ \A i \in DOMAIN inbox[r] :
       inbox[r][i].op = "forward" =>
         Underway /\ inbox[r][i].id = call.id /\ inbox[r][i].size = call.size
  /\ Underway /\ Replied(r) => reply[r].ok /\ reply[r].logits = Content(call.id, NAr, Ranks)
  /\ pc[r] \notin {"recv", "sent"}
  /\ Runs(r) => round[r] <= NAr
  /\ pc[r] = "layers" => round[r] < NAr
  /\ pc[r] = "out" => round[r] = NAr
  /\ pc[r] \in Waiting \cup {"publish"} => layout.width > 1

DrainedInv(r) ==
  /\ ~ Runs(r) => queue[r] = <<>>
  /\ backend = "bounce" /\ pc[r] \in {"snap", "add", "done"} => queue[r] = <<>>
  /\ backend = "bar" /\ ~ ByEvents /\ pc[r] = "snap" => queue[r] = <<>>
  /\ backend = "bounce" /\ pc[r] \in {"snap", "add"} /\ slab[r] # None =>
       slab[r].sum = Content(call.id, round[r], {r})

BackendInv == backend \in IF layout.width = 1 THEN {"none"} ELSE {"bar", "bounce"}
AnswerInv == answer.op = "forward" => answer.logits = Content(call.id, NAr, Ranks)

HostInv(r) == ForwardInv(r) /\ DrainedInv(r)
StreamInv ==
  /\ StreamTypes /\ BackendInv /\ AnswerInv /\ TicketInv /\ DeviceInv
  /\ \A r \in Ranks : HostInv(r)

-----------------------------------------------------------------------------
LEMMA TpPeers ==
  ASSUME layout \in Layouts, layout.kind = "TP"
  PROVE  /\ Ranks \subseteq Nat /\ 0 \in Ranks
         /\ \A r \in Ranks : /\ Peers(r) = Ranks \ {r} /\ IsFiniteSet(Peers(r))
                             /\ Group(Stage(r)) = Ranks /\ Peers(r) \in SUBSET Nat
                             /\ {r} \cup Peers(r) = Ranks
                             /\ layout.width = 1 => Peers(r) = {} /\ Ranks = {r}
                             /\ layout.width > 1 => Peers(r) # {}
<1>1. /\ Ranks = 0 .. (layout.width - 1) /\ 0 \in Ranks /\ IsFiniteSet(Ranks)
      /\ layout.width \in Nat /\ Group(0) = Ranks /\ \A r \in Ranks : Stage(r) = 0
  BY TpLayout
<1>2. Ranks \subseteq Nat
  BY <1>1
<1>3. ASSUME NEW r \in Ranks
      PROVE  /\ Peers(r) = Ranks \ {r} /\ Group(Stage(r)) = Ranks
             /\ Peers(r) \in SUBSET Nat /\ {r} \cup Peers(r) = Ranks
  BY <1>1, <1>2 DEF Peers
<1>4. ASSUME NEW r \in Ranks PROVE IsFiniteSet(Peers(r))
  BY <1>1, <1>3, FS_Subset
<1>5. ASSUME NEW r \in Ranks, layout.width = 1 PROVE Peers(r) = {} /\ Ranks = {r}
  BY <1>1, <1>3, <1>5
<1>6. ASSUME NEW r \in Ranks, layout.width > 1 PROVE Peers(r) # {}
  <2>1. 0 \in Ranks /\ 1 \in Ranks
    BY <1>1, <1>6
  <2> QED BY <1>3, <2>1
<1> QED BY <1>1, <1>2, <1>3, <1>4, <1>5, <1>6

LEMMA FrameIs ==
  ASSUME layout \in Layouts, layout.kind = "TP", call.id \in Nat, NEW r \in Ranks,
         NEW w \in Nat, NEW p \in Nat, NEW c, c = FrameOf(r, w, p)
  PROVE  /\ c \in Frames /\ c.forward = call.id /\ c.rank = r /\ c.peers = Peers(r)
         /\ c.events = ByEvents /\ c.bar = (backend = "bar") /\ c.written = w /\ c.pulled = p /\ IsFiniteSet(c.peers)
<1>1. ByEvents \in BOOLEAN
  BY DEF ByEvents
<1>2. Peers(r) \in SUBSET Nat /\ r \in Nat /\ IsFiniteSet(Peers(r))
  BY TpPeers
<1> HIDE DEF ByEvents
<1> QED BY <1>1, <1>2 DEF FrameOf, Frames

(* What a step does to the spot of a device, one field at a time. *)
InRound(s, t) ==
  /\ s.has = "part" /\ t.has = "part" /\ t.round = s.round
  /\ t.told >= s.told /\ (s.pulled => t.pulled)
KnowsSame(s, t) == t.seen = s.seen /\ t.got = s.got /\ t.clear = s.clear

Flushes(c, o, s, t) ==
  /\ InRound(s, t) /\ KnowsSame(s, t) /\ t.pulled = s.pulled
  /\ o = Flush /\ s.told = 0 /\ t.told = 1
Tells(c, o, s, t) ==
  /\ InRound(s, t) /\ KnowsSame(s, t) /\ t.pulled = s.pulled
  /\ o = Record(<<"written", c.rank>>) /\ s.told = 1 /\ t.told = 2 /\ c.events
Sees(c, o, s, t) ==
  /\ InRound(s, t) /\ t.told = s.told /\ t.pulled = s.pulled
  /\ s.told = 2 /\ ~ s.pulled /\ t.got = s.got /\ t.clear = s.clear /\ c.events
  /\ \E q \in c.peers : /\ o = WaitFor(<<"written", q>>, c.written + s.round)
                        /\ t.seen = s.seen \cup {q}
Pulls(c, o, s, t) ==
  /\ InRound(s, t) /\ t.told = s.told /\ t.pulled = s.pulled
  /\ s.told = 2 /\ ~ s.pulled /\ t.seen = s.seen /\ t.clear = s.clear
  /\ \E q \in c.peers : /\ o = Pull(q) /\ q \in s.seen /\ c.bar
                        /\ t.got = s.got \cup {q}
HasPulled(c, o, s, t) ==
  /\ InRound(s, t) /\ KnowsSame(s, t) /\ t.told = s.told
  /\ o = Record(<<"pulled", c.rank>>) /\ s.told = 2 /\ s.got = c.peers /\ ~ s.pulled /\ t.pulled
  /\ c.bar
Clears(c, o, s, t) ==
  /\ InRound(s, t) /\ t.told = s.told /\ t.pulled = s.pulled
  /\ s.told = 2 /\ s.pulled /\ t.seen = s.seen /\ t.got = s.got
  /\ \E q \in c.peers : /\ o = WaitFor(<<"pulled", q>>, c.pulled + s.round)
                        /\ t.clear = s.clear \cup {q}
Adds(c, o, s, t) ==
  /\ o = SumUp /\ s.has = "part" /\ s.told = 2 /\ s.pulled
  /\ s.got = c.peers /\ s.clear = c.peers
  /\ t = WholeOf(s.round)

LEMMA MoveKinds ==
  ASSUME NEW c \in Frames, NEW o, NEW s \in Spots, NEW t \in Spots, Moves(c, o, s, t)
  PROVE  \/ o = Embed(c.forward) /\ s = Start /\ t = WholeOf(0)
         \/ /\ o = Layer(c.forward, s.round + 1) /\ s = WholeOf(s.round)
            /\ c.peers = {} /\ t = WholeOf(s.round + 1)
         \/ /\ o = Layer(c.forward, s.round + 1) /\ s = WholeOf(s.round)
            /\ c.peers # {} /\ t = PartOf(s.round + 1)
         \/ Flushes(c, o, s, t) \/ Tells(c, o, s, t) \/ Sees(c, o, s, t)
         \/ Pulls(c, o, s, t) \/ HasPulled(c, o, s, t) \/ Clears(c, o, s, t)
         \/ Adds(c, o, s, t)
<1> USE DEF Spots, InRound, KnowsSame
<1>1. CASE o = Embed(c.forward) /\ s = Start /\ t = WholeOf(0)
  BY <1>1
<1>2. CASE /\ o = Layer(c.forward, s.round + 1) /\ s = WholeOf(s.round)
           /\ t = IF c.peers = {} THEN WholeOf(s.round + 1) ELSE PartOf(s.round + 1)
  BY <1>2
<1>3. CASE o = Flush /\ s.has = "part" /\ s.told = 0 /\ t = [s EXCEPT !.told = 1]
  <2>1. Flushes(c, o, s, t)
    BY <1>3 DEF Flushes
  <2> QED BY <2>1
<1>4. CASE /\ o = Record(<<"written", c.rank>>) /\ s.has = "part" /\ s.told = 1 /\ c.events
           /\ t = [s EXCEPT !.told = 2]
  <2>1. Tells(c, o, s, t)
    BY <1>4 DEF Tells
  <2> QED BY <2>1
<1>5. CASE /\ s.has = "part" /\ s.told = 2 /\ ~ s.pulled
           /\ \E q \in c.peers : /\ o = WaitFor(<<"written", q>>, c.written + s.round) /\ c.events
                                 /\ t = [s EXCEPT !.seen = @ \cup {q}]
  <2>1. Sees(c, o, s, t)
    BY <1>5 DEF Sees
  <2> QED BY <2>1
<1>6. CASE /\ s.has = "part" /\ s.told = 2 /\ ~ s.pulled
           /\ \E q \in c.peers : /\ o = Pull(q) /\ q \in s.seen /\ c.bar
                                 /\ t = [s EXCEPT !.got = @ \cup {q}]
  <2>1. Pulls(c, o, s, t)
    BY <1>6 DEF Pulls
  <2> QED BY <2>1
<1>7. CASE /\ o = Record(<<"pulled", c.rank>>) /\ s.has = "part" /\ s.told = 2 /\ s.got = c.peers
           /\ ~ s.pulled /\ c.bar /\ t = [s EXCEPT !.pulled = TRUE]
  <2>1. HasPulled(c, o, s, t)
    BY <1>7 DEF HasPulled
  <2> QED BY <2>1
<1>8. CASE /\ s.has = "part" /\ s.told = 2 /\ s.pulled
           /\ \E q \in c.peers : /\ o = WaitFor(<<"pulled", q>>, c.pulled + s.round)
                                 /\ t = [s EXCEPT !.clear = @ \cup {q}]
  <2>1. PICK q \in c.peers : /\ o = WaitFor(<<"pulled", q>>, c.pulled + s.round)
                             /\ t = [s EXCEPT !.clear = @ \cup {q}]
    BY <1>8
  <2>2. /\ t.has = s.has /\ t.round = s.round /\ t.told = s.told /\ t.pulled = s.pulled
        /\ t.seen = s.seen /\ t.got = s.got /\ t.clear = s.clear \cup {q} /\ s.told \in 0 .. 2
    BY <2>1
  <2>3. InRound(s, t)
    BY <1>8, <2>2
  <2>4. Clears(c, o, s, t)
    BY <1>8, <2>1, <2>2, <2>3 DEF Clears
  <2> QED BY <2>4
<1>9. CASE /\ o = SumUp /\ s.has = "part" /\ s.told = 2 /\ s.pulled
           /\ s.got = c.peers /\ s.clear = c.peers
           /\ t = WholeOf(s.round)
  BY <1>9 DEF Adds
<1> QED BY <1>1, <1>2, <1>3, <1>4, <1>5, <1>6, <1>7, <1>8, <1>9 DEF Moves

LEMMA FieldsAre ==
  ASSUME NEW j \in Nat
  PROVE  /\ Start.has = "nothing" /\ Start.round = 0 /\ Start.seen = {} /\ Start.got = {}
         /\ Start.clear = {} /\ Start.told = 0 /\ ~ Start.pulled
         /\ WholeOf(j).has = "whole" /\ WholeOf(j).round = j /\ WholeOf(j).seen = {}
         /\ WholeOf(j).got = {} /\ WholeOf(j).clear = {}
         /\ PartOf(j).has = "part" /\ PartOf(j).round = j /\ PartOf(j).seen = {}
         /\ PartOf(j).got = {} /\ PartOf(j).clear = {} /\ PartOf(j).told = 0 /\ ~ PartOf(j).pulled
         /\ ToldOf(j).has = "part" /\ ToldOf(j).round = j /\ ToldOf(j).seen = {}
         /\ ToldOf(j).got = {} /\ ToldOf(j).clear = {} /\ ToldOf(j).told = 2 /\ ~ ToldOf(j).pulled
<1>1. Start \in Spots /\ PartOf(j) \in Spots
  <2>1. {} \in SUBSET Nat
    OBVIOUS
  <2> QED BY <2>1, SpotsAre
<1>2. /\ Start.has = "nothing" /\ Start.round = 0 /\ Start.seen = {} /\ Start.got = {}
      /\ Start.clear = {} /\ Start.told = 0 /\ ~ Start.pulled
  BY DEF Start
<1>3. /\ WholeOf(j).has = "whole" /\ WholeOf(j).round = j /\ WholeOf(j).seen = {}
      /\ WholeOf(j).got = {} /\ WholeOf(j).clear = {}
  BY <1>1, <1>2 DEF WholeOf, Spots
<1>4. /\ PartOf(j).has = "part" /\ PartOf(j).round = j /\ PartOf(j).seen = {}
      /\ PartOf(j).got = {} /\ PartOf(j).clear = {} /\ PartOf(j).told = 0 /\ ~ PartOf(j).pulled
  BY <1>1, <1>2 DEF PartOf, Spots
<1>5. /\ ToldOf(j).has = "part" /\ ToldOf(j).round = j /\ ToldOf(j).seen = {}
      /\ ToldOf(j).got = {} /\ ToldOf(j).clear = {} /\ ToldOf(j).told = 2 /\ ~ ToldOf(j).pulled
  BY <1>1, <1>4 DEF ToldOf, Spots
<1> QED BY <1>2, <1>3, <1>4, <1>5

LEMMA PeerFieldsAre ==
  ASSUME NEW j \in Nat, NEW A \in SUBSET Nat
  PROVE  /\ SeenOf(j, A).has = "part" /\ SeenOf(j, A).round = j /\ SeenOf(j, A).seen = A
         /\ SeenOf(j, A).got = {} /\ SeenOf(j, A).clear = {} /\ SeenOf(j, A).told = 2
         /\ ~ SeenOf(j, A).pulled
         /\ PulledOf(j, A).has = "part" /\ PulledOf(j, A).round = j /\ PulledOf(j, A).seen = A
         /\ PulledOf(j, A).got = A /\ PulledOf(j, A).clear = {} /\ PulledOf(j, A).told = 2
         /\ PulledOf(j, A).pulled
         /\ CopiedOf(j, A).has = "part" /\ CopiedOf(j, A).round = j /\ CopiedOf(j, A).seen = {}
         /\ CopiedOf(j, A).got = A /\ CopiedOf(j, A).clear = {} /\ CopiedOf(j, A).told = 0
         /\ ~ CopiedOf(j, A).pulled
<1>1. PartOf(j) \in Spots /\ ToldOf(j) \in Spots /\ SeenOf(j, A) \in Spots
  BY SpotsAre
<1>6. /\ SeenOf(j, A).has = "part" /\ SeenOf(j, A).round = j /\ SeenOf(j, A).seen = A
      /\ SeenOf(j, A).got = {} /\ SeenOf(j, A).clear = {} /\ SeenOf(j, A).told = 2
      /\ ~ SeenOf(j, A).pulled
  BY <1>1, FieldsAre DEF SeenOf, Spots
<1>7. /\ PulledOf(j, A).has = "part" /\ PulledOf(j, A).round = j /\ PulledOf(j, A).seen = A
      /\ PulledOf(j, A).got = A /\ PulledOf(j, A).clear = {} /\ PulledOf(j, A).told = 2
      /\ PulledOf(j, A).pulled
  BY <1>1, <1>6 DEF PulledOf, Spots
<1>8. /\ CopiedOf(j, A).has = "part" /\ CopiedOf(j, A).round = j /\ CopiedOf(j, A).seen = {}
      /\ CopiedOf(j, A).got = A /\ CopiedOf(j, A).clear = {} /\ CopiedOf(j, A).told = 0
      /\ ~ CopiedOf(j, A).pulled
  BY <1>1, FieldsAre DEF CopiedOf, Spots
<1> QED BY <1>6, <1>7, <1>8

LEMMA CountsAre ==
  ASSUME NEW j \in Nat
  PROVE  /\ TimesTold(Start) = 0 /\ TimesPulled(Start) = 0 /\ TimesSummed(Start) = 0
         /\ TimesTold(WholeOf(j)) = j /\ TimesPulled(WholeOf(j)) = j
         /\ TimesSummed(WholeOf(j)) = j
         /\ TimesTold(PartOf(j)) = j - 1 /\ TimesPulled(PartOf(j)) = j - 1
         /\ TimesSummed(PartOf(j)) = j - 1
         /\ TimesTold(ToldOf(j)) = j /\ TimesPulled(ToldOf(j)) = j - 1
         /\ TimesSummed(ToldOf(j)) = j - 1
BY FieldsAre DEF TimesTold, TimesPulled, TimesSummed

LEMMA PeerCountsAre ==
  ASSUME NEW j \in Nat, NEW A \in SUBSET Nat
  PROVE  /\ TimesTold(SeenOf(j, A)) = j /\ TimesPulled(SeenOf(j, A)) = j - 1
         /\ TimesSummed(SeenOf(j, A)) = j - 1
         /\ TimesTold(PulledOf(j, A)) = j /\ TimesPulled(PulledOf(j, A)) = j
         /\ TimesTold(CopiedOf(j, A)) = j - 1 /\ TimesPulled(CopiedOf(j, A)) = j - 1
         /\ TimesSummed(CopiedOf(j, A)) = j - 1
BY PeerFieldsAre DEF TimesTold, TimesPulled, TimesSummed

(* The counts of a spot never fall. *)
LEMMA CountsRise ==
  ASSUME NEW c \in Frames, NEW o, NEW s \in Spots, NEW t \in Spots, Moves(c, o, s, t)
  PROVE  /\ TimesTold(t) >= TimesTold(s) /\ TimesPulled(t) >= TimesPulled(s)
         /\ TimesTold(s) \in Int /\ TimesPulled(s) \in Int /\ TimesSummed(s) \in Int
         /\ TimesTold(t) \in Int /\ TimesPulled(t) \in Int /\ TimesSummed(t) \in Int
         /\ TimesSummed(t) = TimesSummed(s) \/ o = SumUp \/ c.peers = {}
<1>1. /\ s.round \in Nat /\ t.round \in Nat /\ s.told \in 0 .. 2 /\ t.told \in 0 .. 2
  BY DEF Spots
<1>2. /\ TimesTold(s) \in Int /\ TimesPulled(s) \in Int /\ TimesSummed(s) \in Int
      /\ TimesTold(t) \in Int /\ TimesPulled(t) \in Int /\ TimesSummed(t) \in Int
  BY <1>1 DEF TimesTold, TimesPulled, TimesSummed
<1>0. {} \in SUBSET Nat /\ 0 \in Nat
  OBVIOUS
<1>3. CASE s = Start /\ t = WholeOf(0)
  <2>1. /\ TimesTold(s) = 0 /\ TimesPulled(s) = 0 /\ TimesSummed(s) = 0
        /\ TimesTold(t) = 0 /\ TimesPulled(t) = 0 /\ TimesSummed(t) = 0
    BY <1>0, <1>3, CountsAre
  <2> QED BY <2>1
<1>4. CASE s = WholeOf(s.round) /\ t = WholeOf(s.round + 1) /\ c.peers = {}
  <2>1. PICK j \in Nat : j = s.round /\ s = WholeOf(j) /\ t = WholeOf(j + 1) /\ j + 1 \in Nat
    BY <1>1, <1>4
  <2>2. /\ TimesTold(s) = j /\ TimesPulled(s) = j /\ TimesSummed(s) = j
        /\ TimesTold(t) = j + 1 /\ TimesPulled(t) = j + 1 /\ TimesSummed(t) = j + 1
    BY <1>0, <2>1, CountsAre
  <2> QED BY <1>4, <2>2
<1>5. CASE s = WholeOf(s.round) /\ t = PartOf(s.round + 1)
  <2>1. PICK j \in Nat : j = s.round /\ s = WholeOf(j) /\ t = PartOf(j + 1) /\ j + 1 \in Nat
    BY <1>1, <1>5
  <2>2. /\ TimesTold(s) = j /\ TimesPulled(s) = j /\ TimesSummed(s) = j
        /\ TimesTold(t) = (j + 1) - 1 /\ TimesPulled(t) = (j + 1) - 1
        /\ TimesSummed(t) = (j + 1) - 1
    BY <1>0, <2>1, CountsAre
  <2> QED BY <2>2
<1>6. CASE InRound(s, t)
  BY <1>1, <1>6 DEF InRound, TimesTold, TimesPulled, TimesSummed
<1>7. CASE Adds(c, o, s, t)
  <2>1. TimesTold(t) = s.round /\ TimesPulled(t) = s.round /\ TimesSummed(t) = s.round
    BY <1>0, <1>1, <1>7, CountsAre DEF Adds
  <2> QED BY <1>1, <1>2, <1>7, <2>1 DEF TimesTold, TimesPulled, TimesSummed, Adds
<1>8. InRound(s, t) \/ Adds(c, o, s, t) \/ (s = Start /\ t = WholeOf(0))
        \/ (s = WholeOf(s.round) /\ t = WholeOf(s.round + 1) /\ c.peers = {})
        \/ (s = WholeOf(s.round) /\ t = PartOf(s.round + 1))
  BY MoveKinds DEF Flushes, Tells, Sees, Pulls, HasPulled, Clears
<1> QED BY <1>3, <1>4, <1>5, <1>6, <1>7, <1>8

-----------------------------------------------------------------------------
(* A step of a device. *)
Ready(w, p, G) ==
  /\ layout \in Layouts /\ layout.kind = "TP" /\ call.id \in Nat
  /\ BackendInv /\ StreamTypes /\ round \in [Ranks -> Nat]
  /\ w \in Nat /\ p \in Nat /\ G \in [Ranks -> Spots] /\ Devices(w, p, G)

MemoryTypes ==
  /\ fired \in [Events -> Nat]
  /\ DOMAIN buf = Ranks /\ DOMAIN dram = Ranks /\ DOMAIN staging = Ranks
  /\ \A q \in Ranks : DOMAIN staging[q] = Ranks

OthersKept(r) ==
  \A q \in Ranks \ {r} :
    /\ buf'[q] = buf[q] /\ dram'[q] = dram[q] /\ staging'[q] = staging[q]
    /\ fired'[<<"written", q>>] = fired[<<"written", q>>]
    /\ fired'[<<"pulled", q>>] = fired[<<"pulled", q>>]

Effect(r, w, p, G, u) ==
  /\ Shows(r, u)' /\ Records(fired', w, p, r, u)
  /\ \A q \in Ranks \ {r} : Knows(u, q, G[q])
  /\ OthersKept(r) /\ MemoryTypes'

(* What a device has when it starts to move. *)
Moving(r, w, p, G, s, u, c, o) ==
  /\ s = G[r] /\ s \in Spots /\ u \in Spots /\ c = FrameOf(r, w, p)
  /\ o = Head(queue[r]) /\ Moves(c, o, s, u)

MoveFacts(r, w, p, G, s, c) ==
  /\ s \in Spots /\ s.round \in Nat /\ s.got \subseteq Ranks
  /\ c.forward = call.id /\ c.rank = r /\ c.peers = Ranks \ {r} /\ c.events = ByEvents
  /\ c.written = w /\ c.pulled = p /\ c.bar = (backend = "bar")
  /\ w \in Nat /\ p \in Nat /\ Group(Stage(r)) = Ranks /\ Peers(r) = Ranks \ {r}
  /\ {r} \cup Peers(r) = Ranks
  /\ Shows(r, s) /\ Records(fired, w, p, r, s)
  /\ \A q \in Ranks \ {r} : Knows(s, q, G[q]) /\ Knows(G[q], r, s)
  /\ UNCHANGED <<layout, call, backend>> /\ Ranks' = Ranks
  /\ fired \in [Events -> Nat] /\ <<"written", r>> \in Events /\ <<"pulled", r>> \in Events
  /\ MemoryTypes

LEMMA MovingFacts ==
  ASSUME NEW w, NEW p, NEW G, Ready(w, p, G), NEW r \in Ranks, Device(r),
         NEW s, NEW u, NEW c, NEW o, Moving(r, w, p, G, s, u, c, o)
  PROVE  MoveFacts(r, w, p, G, s, c)
<1>1. /\ layout \in Layouts /\ layout.kind = "TP" /\ call.id \in Nat /\ StreamTypes
      /\ w \in Nat /\ p \in Nat /\ G \in [Ranks -> Spots] /\ Devices(w, p, G)
  BY DEF Ready
<1>2. s = G[r] /\ s \in Spots /\ c = FrameOf(r, w, p) /\ s.round \in Nat
  BY DEF Moving, Spots
<1>3. /\ c.forward = call.id /\ c.rank = r /\ c.peers = Peers(r) /\ c.events = ByEvents
      /\ c.written = w /\ c.pulled = p /\ c.bar = (backend = "bar")
  BY <1>1, <1>2, FrameIs
<1>4. /\ Group(Stage(r)) = Ranks /\ Peers(r) = Ranks \ {r} /\ {r} \cup Peers(r) = Ranks
  BY <1>1, TpPeers
<1>5. Shows(r, s) /\ Records(fired, w, p, r, s)
  BY <1>1, <1>2 DEF Devices, At
<1>6. \A q \in Ranks \ {r} : Knows(s, q, G[q]) /\ Knows(G[q], r, s)
  BY <1>1, <1>2 DEF Devices
<1>7. UNCHANGED <<layout, call, backend>> /\ Ranks' = Ranks
  BY DEF Device, Execute, topologyVars, arVars, sessionVars, Ranks
<1>8. /\ fired \in [Events -> Nat] /\ MemoryTypes
      /\ <<"written", r>> \in Events /\ <<"pulled", r>> \in Events
  BY <1>1 DEF StreamTypes, MemoryTypes, Events
<1>9. s.got \subseteq Ranks
  BY <1>5 DEF Shows
<1> QED BY <1>1, <1>2, <1>3, <1>4, <1>5, <1>6, <1>7, <1>8, <1>9 DEF MoveFacts

(* Writing its own buffer leaves a device with a whole or a part of it. *)
LEMMA BufferMove ==
  ASSUME NEW w, NEW p, NEW G, Ready(w, p, G), NEW r \in Ranks, Device(r),
         NEW s, NEW u, NEW c, NEW o, Moving(r, w, p, G, s, u, c, o),
         NEW j \in Nat, NEW x, buf' = [buf EXCEPT ![r] = x],
         UNCHANGED <<dram, staging, fired>>,
         \/ u = WholeOf(j) /\ x = Content(call.id, j, Ranks)
         \/ u = PartOf(j) /\ x = Content(call.id, j, {r}) /\ j > 0,
         Records(fired, w, p, r, u), backend = "bar" => \A q \in Ranks \ {r} : TimesPulled(G[q]) >= TimesSummed(u)
  PROVE  Effect(r, w, p, G, u)
<1>1. /\ UNCHANGED <<layout, call, backend>> /\ Ranks' = Ranks /\ MemoryTypes
  BY MovingFacts DEF MoveFacts
<1>3. /\ u.seen = {} /\ u.clear = {} /\ u.got = {} /\ u.round = j
      /\ u = WholeOf(j) => u.has = "whole"
      /\ u = PartOf(j) => u.has = "part" /\ u.told = 0
  BY FieldsAre
<1>4. buf'[r] = x /\ \A q \in Ranks \ {r} : buf'[q] = buf[q]
  BY <1>1 DEF MemoryTypes
<1>5. Shows(r, u)'
  <2>1. CASE u = WholeOf(j) /\ x = Content(call.id, j, Ranks)
    BY <1>1, <1>3, <1>4, <2>1 DEF Shows
  <2>2. CASE u = PartOf(j) /\ x = Content(call.id, j, {r}) /\ j > 0
    BY <1>1, <1>3, <1>4, <2>2 DEF Shows
  <2> QED BY <2>1, <2>2
<1>6. \A q \in Ranks \ {r} : Knows(u, q, G[q])
  BY <1>3 DEF Knows
<1>7. OthersKept(r) /\ MemoryTypes'
  BY <1>1, <1>4 DEF OthersKept, MemoryTypes, Events
<1> QED BY <1>5, <1>6, <1>7 DEF Effect

(* The steps that write the buffer: the embedding, the layers, the sum. *)
LEMMA WritingMoves ==
  ASSUME NEW w, NEW p, NEW G, Ready(w, p, G), NEW r \in Ranks, Device(r),
         NEW s, NEW u, NEW c, NEW o, Moving(r, w, p, G, s, u, c, o),
         \/ o = Embed(c.forward) /\ s = Start /\ u = WholeOf(0)
         \/ /\ o = Layer(c.forward, s.round + 1) /\ s = WholeOf(s.round)
            /\ c.peers = {} /\ u = WholeOf(s.round + 1)
         \/ /\ o = Layer(c.forward, s.round + 1) /\ s = WholeOf(s.round)
            /\ c.peers # {} /\ u = PartOf(s.round + 1)
         \/ Adds(c, o, s, u)
  PROVE  Effect(r, w, p, G, u)
<1>1. /\ s \in Spots /\ s.round \in Nat
      /\ c.forward = call.id /\ c.peers = Ranks \ {r}
      /\ w \in Nat /\ p \in Nat /\ Group(Stage(r)) = Ranks /\ Peers(r) = Ranks \ {r}
      /\ {r} \cup Peers(r) = Ranks
      /\ Shows(r, s) /\ Records(fired, w, p, r, s)
      /\ \A q \in Ranks \ {r} : Knows(s, q, G[q])
  <2>1. MoveFacts(r, w, p, G, s, c)
    BY MovingFacts
  <2> QED BY <2>1 DEF MoveFacts
<1>2. Execute(r) /\ o = Head(queue[r])
  BY DEF Device, Moving
<1>3. 0 \in Nat
  OBVIOUS
<1>4. CASE o = Embed(c.forward) /\ s = Start /\ u = WholeOf(0)
  <2>1. o.op = "embed" /\ o.f = call.id
    BY <1>1, <1>4 DEF Embed
  <2>2. /\ buf' = [buf EXCEPT ![r] = Content(call.id, 0, Ranks)]
        /\ UNCHANGED <<dram, staging, fired>>
    BY <1>1, <1>2, <2>1 DEF Execute, Writes
  <2>3. Records(fired, w, p, r, u)
    BY <1>1, <1>3, <1>4, CountsAre DEF Records
  <2>4. \A q \in Ranks \ {r} : backend = "bar" => TimesPulled(G[q]) >= TimesSummed(u)
    BY <1>1, <1>3, <1>4, CountsAre DEF Knows
  <2> QED BY <1>3, <1>4, <2>2, <2>3, <2>4, BufferMove
<1>5. ASSUME o = Layer(c.forward, s.round + 1), s = WholeOf(s.round),
             \/ c.peers = {} /\ u = WholeOf(s.round + 1)
             \/ c.peers # {} /\ u = PartOf(s.round + 1)
      PROVE  Effect(r, w, p, G, u)
  <2>1. PICK j \in Nat : j = s.round /\ j + 1 \in Nat /\ j + 1 > 0 /\ (j + 1) - 1 = j /\ s = WholeOf(j)
    BY <1>1, <1>5
  <2>2. o.op = "layer" /\ o.f = call.id /\ o.j = j + 1
    BY <1>1, <1>5, <2>1 DEF Layer
  <2>3. buf[r] = Content(call.id, j, Ranks)
    BY <1>1, <1>3, <2>1, FieldsAre DEF Shows
  <2>4. /\ buf' = [buf EXCEPT ![r] = Content(call.id, j + 1, {r})]
        /\ UNCHANGED <<dram, staging, fired>>
    <3>1. LayerOn(buf[r], r, o.f, o.j) = Content(call.id, j + 1, {r})
      BY <1>1, <2>1, <2>2, <2>3 DEF LayerOn
    <3> QED BY <1>2, <2>2, <3>1 DEF Execute, Writes
  <2>5. CASE c.peers # {} /\ u = PartOf(j + 1)
    <3>1. /\ TimesTold(u) = TimesTold(s) /\ TimesPulled(u) = TimesPulled(s)
          /\ TimesSummed(u) = TimesSummed(s)
      <4>1. TimesTold(s) = j /\ TimesPulled(s) = j /\ TimesSummed(s) = j
        BY <2>1, CountsAre
      <4>2. /\ TimesTold(u) = (j + 1) - 1 /\ TimesPulled(u) = (j + 1) - 1
            /\ TimesSummed(u) = (j + 1) - 1
        BY <2>1, <2>5, CountsAre
      <4> QED BY <2>1, <4>1, <4>2
    <3>2. Records(fired, w, p, r, u)
      BY <1>1, <3>1 DEF Records
    <3>3. \A q \in Ranks \ {r} : backend = "bar" => TimesPulled(G[q]) >= TimesSummed(u)
      BY <1>1, <3>1 DEF Knows
    <3> QED BY <2>1, <2>4, <2>5, <3>2, <3>3, BufferMove
  <2>6. CASE c.peers = {} /\ u = WholeOf(j + 1)
    <3>1. Ranks = {r}
      BY <1>1, <2>6
    <3>2. backend # "bar"
      <4>1. layout \in Layouts /\ layout.kind = "TP" /\ BackendInv
        BY DEF Ready
      <4>2. layout.width = 1
        <5>1. layout.width \in Nat /\ layout.width > 0
          BY <4>1, TpLayout
        <5> QED BY <1>1, <2>6, <4>1, <5>1, TpPeers
      <4> QED BY <4>1, <4>2 DEF BackendInv
    <3>3. Records(fired, w, p, r, u)
      BY <1>1, <3>2 DEF Records, ByEvents
    <3> QED BY <2>1, <2>4, <2>6, <3>1, <3>2, <3>3, BufferMove
  <2> QED BY <1>5, <2>1, <2>5, <2>6
<1>6. CASE Adds(c, o, s, u)
  <2>1. PICK j \in Nat : j = s.round
    BY <1>1
  <2>2. /\ o.op = "sum" /\ s.has = "part" /\ s.told = 2 /\ s.pulled /\ s.got = Peers(r) /\ s.clear = Peers(r)
        /\ u = WholeOf(j)
    BY <1>1, <1>6, <2>1 DEF Adds, SumUp
  <2>3. buf[r] = Content(call.id, j, {r}) /\ \A q \in Peers(r) : staging[r][q] = Content(call.id, j, {q})
    BY <1>1, <2>1, <2>2 DEF Shows
  <2>4. Total(buf[r], staging[r], Peers(r)) = Content(call.id, j, Ranks)
    <3>1. /\ buf[r].forward = call.id /\ buf[r].round = j /\ buf[r].of = {r}
          /\ {r} \cup Peers(r) = Ranks /\ \A q \in Peers(r) : q \notin {r}
      BY <1>1, <2>3 DEF Content
    <3>2. \A q \in Peers(r) : staging[r][q] = Content(buf[r].forward, buf[r].round, {q})
      BY <2>3, <3>1
    <3> QED BY <3>1, <3>2 DEF Total
  <2>5. /\ buf' = [buf EXCEPT ![r] = Content(call.id, j, Ranks)]
        /\ UNCHANGED <<dram, staging, fired>>
    BY <1>2, <2>2, <2>4 DEF Execute, Writes
  <2>6. Records(fired, w, p, r, u)
    <3>1. TimesPulled(s) = TimesPulled(u) /\ TimesPulled(u) = j /\ TimesTold(u) = j
      BY <1>3, <2>1, <2>2, CountsAre DEF TimesPulled
    <3>2. TimesTold(s) = j
      BY <2>1, <2>2 DEF TimesTold
    <3> QED BY <1>1, <3>1, <3>2 DEF Records
  <2>7. \A q \in Ranks \ {r} : TimesPulled(G[q]) >= TimesSummed(u)
    BY <1>1, <1>3, <2>1, <2>2, CountsAre DEF Knows
  <2> QED BY <2>2, <2>5, <2>6, <2>7, BufferMove
<1> QED BY <1>4, <1>5, <1>6

(* The steps that tell a peer or learn from one, and the copies. *)
LEMMA TellingMoves ==
  ASSUME NEW w, NEW p, NEW G, Ready(w, p, G), NEW r \in Ranks, Device(r),
         NEW s, NEW u, NEW c, NEW o, Moving(r, w, p, G, s, u, c, o),
         Flushes(c, o, s, u) \/ Tells(c, o, s, u) \/ HasPulled(c, o, s, u)
  PROVE  Effect(r, w, p, G, u)
<1>0. MoveFacts(r, w, p, G, s, c)
  BY MovingFacts
<1>1. /\ s \in Spots /\ s.round \in Nat /\ s.got \subseteq Ranks
      /\ c.rank = r /\ c.peers = Ranks \ {r} /\ c.events = ByEvents
      /\ c.bar = (backend = "bar")
      /\ Shows(r, s) /\ Records(fired, w, p, r, s) /\ w \in Nat /\ p \in Nat
      /\ \A q \in Ranks \ {r} : Knows(s, q, G[q])
      /\ UNCHANGED <<layout, call, backend>> /\ Ranks' = Ranks
      /\ fired \in [Events -> Nat] /\ <<"written", r>> \in Events /\ <<"pulled", r>> \in Events
      /\ MemoryTypes
  BY <1>0 DEF MoveFacts
<1>2. Execute(r) /\ o = Head(queue[r])
  BY DEF Device, Moving
<1>3. /\ s.has = "part" /\ u.has = "part" /\ u.round = s.round
      /\ u.seen = s.seen /\ u.got = s.got /\ u.clear = s.clear
      /\ TimesSummed(u) = TimesSummed(s)
  BY DEF Flushes, Tells, HasPulled, InRound, KnowsSame, TimesSummed
<1>4. \A q \in Ranks \ {r} : Knows(u, q, G[q])
  BY <1>1, <1>3 DEF Knows
<1>5. CASE Flushes(c, o, s, u)
  <2>1. o.op = "flush" /\ s.told = 0 /\ u.told = 1 /\ u.pulled = s.pulled
    BY <1>5 DEF Flushes, Flush
  <2>2. dram' = [dram EXCEPT ![r] = buf[r]] /\ UNCHANGED <<buf, staging, fired>>
    BY <1>2, <2>1 DEF Execute
  <2>3. dram'[r] = buf'[r]
    BY <1>1, <2>2 DEF MemoryTypes
  <2>4. Shows(r, u)'
    BY <1>1, <1>3, <2>2, <2>3 DEF Shows
  <2>5. Records(fired', w, p, r, u)
    <3>1. TimesTold(u) = TimesTold(s) /\ TimesPulled(u) = TimesPulled(s)
      BY <1>3, <2>1 DEF TimesTold, TimesPulled
    <3> QED BY <1>1, <2>2, <3>1 DEF Records
  <2>6. OthersKept(r) /\ MemoryTypes'
    BY <1>1, <2>2 DEF OthersKept, MemoryTypes, Events
  <2> QED BY <1>4, <2>4, <2>5, <2>6 DEF Effect
<1>6. ASSUME NEW k \in {"written", "pulled"}, o.op = "record", o.e = <<k, r>>,
             s.told > 0, TimesTold(u) = TimesTold(s) + (IF k = "written" THEN 1 ELSE 0),
             TimesPulled(u) = TimesPulled(s) + (IF k = "written" THEN 0 ELSE 1),
             k = "written" => ByEvents, k = "pulled" => backend = "bar"
      PROVE  Effect(r, w, p, G, u)
  <2>1. fired' = [fired EXCEPT ![<<k, r>>] = @ + 1] /\ UNCHANGED <<buf, dram, staging>>
    BY <1>2, <1>6 DEF Execute
  <2>2. Shows(r, u)'
    BY <1>1, <1>3, <1>6, <2>1 DEF Shows
  <2>3. Records(fired', w, p, r, u)
    <3>1. TimesTold(s) \in Int /\ TimesPulled(s) \in Int
      BY <1>1 DEF TimesTold, TimesPulled
    <3>2. CASE k = "written"
      <4>1. /\ fired'[<<"written", r>>] = fired[<<"written", r>>] + 1
            /\ fired'[<<"pulled", r>>] = fired[<<"pulled", r>>]
        BY <1>1, <2>1, <3>2
      <4> QED BY <1>1, <1>6, <3>1, <3>2, <4>1 DEF Records
    <3>3. CASE k = "pulled"
      <4>1. /\ fired'[<<"written", r>>] = fired[<<"written", r>>]
            /\ fired'[<<"pulled", r>>] = fired[<<"pulled", r>>] + 1
        BY <1>1, <2>1, <3>3
      <4> QED BY <1>1, <1>6, <3>1, <3>3, <4>1 DEF Records
    <3> QED BY <3>2, <3>3
  <2>4. fired' \in [Events -> Nat]
    BY <1>1, <2>1
  <2>5. OthersKept(r)
    <3>1. ASSUME NEW q \in Ranks \ {r}
          PROVE  /\ fired'[<<"written", q>>] = fired[<<"written", q>>]
                 /\ fired'[<<"pulled", q>>] = fired[<<"pulled", q>>]
      <4>1. <<"written", q>> # <<k, r>> /\ <<"pulled", q>> # <<k, r>>
        OBVIOUS
      <4>2. <<"written", q>> \in Events /\ <<"pulled", q>> \in Events
        BY DEF Events
      <4> QED BY <1>1, <2>1, <4>1, <4>2
    <3> QED BY <2>1, <3>1 DEF OthersKept
  <2>6. MemoryTypes'
    BY <1>1, <2>1, <2>4 DEF MemoryTypes, Events
  <2> QED BY <1>4, <2>2, <2>3, <2>5, <2>6 DEF Effect
<1>7. CASE Tells(c, o, s, u)
  <2>1. /\ o.op = "record" /\ o.e = <<"written", r>> /\ s.told = 1 /\ u.told = 2 /\ ByEvents
        /\ u.pulled = s.pulled
    BY <1>1, <1>7 DEF Tells, Record
  <2>2. TimesTold(u) = TimesTold(s) + 1 /\ TimesPulled(u) = TimesPulled(s)
    BY <1>1, <1>3, <2>1 DEF TimesTold, TimesPulled
  <2>3. TimesPulled(s) \in Int
    BY <1>1 DEF TimesPulled
  <2> QED BY <1>6, <2>1, <2>2, <2>3
<1>8. CASE HasPulled(c, o, s, u)
  <2>1. /\ o.op = "record" /\ o.e = <<"pulled", r>> /\ s.told = 2 /\ u.told = 2
        /\ ~ s.pulled /\ u.pulled /\ s.got = Ranks \ {r}
    BY <1>1, <1>8 DEF HasPulled, Record
  <2>2. TimesTold(u) = TimesTold(s) /\ TimesPulled(u) = TimesPulled(s) + 1
    BY <1>1, <1>3, <2>1 DEF TimesTold, TimesPulled
  <2>3. TimesTold(s) \in Int
    BY <1>1 DEF TimesTold
  <2>4. backend = "bar"
    BY <1>1, <1>8 DEF HasPulled
  <2> QED BY <1>6, <2>1, <2>2, <2>3, <2>4
<1> QED BY <1>5, <1>7, <1>8

LEMMA PeerFacts ==
  ASSUME NEW w, NEW p, NEW G, Ready(w, p, G), NEW r \in Ranks, NEW q \in Ranks, q # r
  PROVE  /\ G[q] \in Spots /\ Shows(q, G[q]) /\ Records(fired, w, p, q, G[q])
         /\ Knows(G[r], q, G[q]) /\ Knows(G[q], r, G[r])
BY DEF Ready, Devices, At

(* A pull finds its peer's partial of the round: the peer has told, and has yet *)
(* to be told of the pull before it adds in place.                                *)
LEMMA PullFinds ==
  ASSUME NEW w, NEW p, NEW G, Ready(w, p, G), NEW r \in Ranks, NEW q \in Ranks, q # r,
         G[r] \in Spots, G[r].has = "part", ~ G[r].pulled, q \in G[r].seen, G[r].round > 0,
         backend = "bar"
  PROVE  buf[q] = Content(call.id, G[r].round, {q}) /\ dram[q] = buf[q]
<1>1. PICK t \in Spots : t = G[q]
  BY PeerFacts
<1>2. PICK j \in Nat : j = G[r].round
  BY DEF Spots
<1>3. Shows(q, t) /\ TimesTold(t) >= j /\ j - 1 >= TimesSummed(t)
  <2>1. TimesPulled(G[r]) = j - 1
    BY <1>2 DEF TimesPulled
  <2>2. Shows(q, t) /\ Knows(G[r], q, t) /\ Knows(t, r, G[r])
    BY <1>1, PeerFacts
  <2> QED BY <1>2, <2>1, <2>2 DEF Knows
<1>4. t.round \in Nat /\ t.told \in 0 .. 2 /\ t.has \in {"nothing", "whole", "part"}
  BY DEF Spots
<1>5. t.has = "part" /\ t.round = j /\ t.told = 2
  BY <1>3, <1>4 DEF TimesTold, TimesSummed
<1> QED BY <1>2, <1>3, <1>5 DEF Shows

LEMMA LearningMoves ==
  ASSUME NEW w, NEW p, NEW G, Ready(w, p, G), NEW r \in Ranks, Device(r),
         NEW s, NEW u, NEW c, NEW o, Moving(r, w, p, G, s, u, c, o),
         Sees(c, o, s, u) \/ Pulls(c, o, s, u) \/ Clears(c, o, s, u)
  PROVE  Effect(r, w, p, G, u)
<1>0. MoveFacts(r, w, p, G, s, c)
  BY MovingFacts
<1>1. /\ s \in Spots /\ s.round \in Nat /\ s.got \subseteq Ranks
      /\ c.rank = r /\ c.peers = Ranks \ {r} /\ c.events = ByEvents
      /\ c.bar = (backend = "bar") /\ c.written = w /\ c.pulled = p
      /\ Shows(r, s) /\ Records(fired, w, p, r, s) /\ w \in Nat /\ p \in Nat
      /\ \A q \in Ranks \ {r} : Knows(s, q, G[q])
      /\ UNCHANGED <<layout, call, backend>> /\ Ranks' = Ranks
      /\ fired \in [Events -> Nat]
      /\ MemoryTypes
  BY <1>0 DEF MoveFacts
<1>2. Execute(r) /\ o = Head(queue[r]) /\ s = G[r]
  BY DEF Device, Moving
<1>3. /\ s.has = "part" /\ u.has = "part" /\ u.round = s.round /\ u.told = s.told
      /\ u.pulled = s.pulled /\ s.told = 2 /\ s.round > 0
      /\ TimesTold(u) = TimesTold(s) /\ TimesPulled(u) = TimesPulled(s)
      /\ TimesSummed(u) = TimesSummed(s)
  <2>1. /\ InRound(s, u) /\ u.told = s.told /\ u.pulled = s.pulled /\ s.told = 2
    BY DEF Sees, Pulls, Clears
  <2> QED BY <1>1, <2>1 DEF InRound, TimesTold, TimesPulled, TimesSummed, Shows
<1>4. ASSUME UNCHANGED <<buf, dram, staging, fired>>, u.got = s.got,
             \A q \in Ranks \ {r} : Knows(u, q, G[q])
      PROVE  Effect(r, w, p, G, u)
  <2>1. Shows(r, u)'
    BY <1>1, <1>3, <1>4 DEF Shows
  <2>2. Records(fired', w, p, r, u)
    BY <1>1, <1>3, <1>4 DEF Records
  <2>3. OthersKept(r) /\ MemoryTypes'
    BY <1>1, <1>4 DEF OthersKept, MemoryTypes, Events
  <2> QED BY <1>4, <2>1, <2>2, <2>3 DEF Effect
<1>5. CASE Sees(c, o, s, u)
  <2>1. PICK q \in Ranks \ {r} : /\ o = WaitFor(<<"written", q>>, w + s.round)
                                /\ u.seen = s.seen \cup {q}
    BY <1>1, <1>5 DEF Sees
  <2>2. u.got = s.got /\ u.clear = s.clear /\ ByEvents
    BY <1>1, <1>5 DEF Sees
  <2>3. o.op = "wait" /\ o.e = <<"written", q>> /\ o.n = w + s.round
    BY <2>1 DEF WaitFor
  <2>4. UNCHANGED <<buf, dram, staging, fired>> /\ fired[<<"written", q>>] >= w + s.round
    BY <1>2, <2>3 DEF Execute
  <2>5. TimesTold(G[q]) >= s.round
    <3>1. Records(fired, w, p, q, G[q]) /\ G[q] \in Spots
      BY <2>1, PeerFacts
    <3>2. TimesTold(G[q]) \in Int
      BY <3>1 DEF TimesTold, Spots
    <3>3. fired[<<"written", q>>] = w + TimesTold(G[q])
      BY <2>2, <3>1 DEF Records
    <3> QED BY <1>1, <2>4, <3>2, <3>3
  <2>6. \A x \in Ranks \ {r} : Knows(u, x, G[x])
    BY <1>1, <1>3, <2>1, <2>2, <2>5 DEF Knows
  <2> QED BY <1>4, <2>2, <2>4, <2>6
<1>6. CASE Clears(c, o, s, u)
  <2>1. PICK q \in Ranks \ {r} : /\ o = WaitFor(<<"pulled", q>>, p + s.round)
                                /\ u.clear = s.clear \cup {q}
    BY <1>1, <1>6 DEF Clears
  <2>2. u.got = s.got /\ u.seen = s.seen
    BY <1>6 DEF Clears
  <2>3. o.op = "wait" /\ o.e = <<"pulled", q>> /\ o.n = p + s.round
    BY <2>1 DEF WaitFor
  <2>4. UNCHANGED <<buf, dram, staging, fired>> /\ fired[<<"pulled", q>>] >= p + s.round
    BY <1>2, <2>3 DEF Execute
  <2>5. TimesPulled(G[q]) >= s.round
    <3>1. Records(fired, w, p, q, G[q]) /\ G[q] \in Spots
      BY <2>1, PeerFacts
    <3>2. TimesPulled(G[q]) \in Int
      BY <3>1 DEF TimesPulled, Spots
    <3>3. fired[<<"pulled", q>>] = p + (IF backend = "bar" THEN TimesPulled(G[q]) ELSE 0)
      BY <3>1 DEF Records
    <3> QED BY <1>1, <1>3, <2>4, <3>2, <3>3
  <2>6. \A x \in Ranks \ {r} : Knows(u, x, G[x])
    BY <1>1, <1>3, <2>1, <2>2, <2>5 DEF Knows
  <2> QED BY <1>4, <2>2, <2>4, <2>6
<1>7. CASE Pulls(c, o, s, u)
  <2>1. PICK q \in Ranks \ {r} : o = Pull(q) /\ q \in s.seen /\ u.got = s.got \cup {q} /\ c.bar
    BY <1>1, <1>7 DEF Pulls
  <2>2. u.seen = s.seen /\ u.clear = s.clear /\ ~ s.pulled
    BY <1>7 DEF Pulls
  <2>3. o.op = "pull" /\ o.q = q
    BY <2>1 DEF Pull
  <2>4. PICK x \in {dram[q], buf[q]} : staging' = [staging EXCEPT ![r][q] = x]
    BY <1>2, <2>3 DEF Execute
  <2>5. UNCHANGED <<buf, dram, fired>>
    BY <1>2, <2>3 DEF Execute
  <2>6. x = Content(call.id, s.round, {q})
    <3>1. buf[q] = Content(call.id, G[r].round, {q}) /\ dram[q] = buf[q]
      <4>1. backend = "bar"
        BY <1>1, <2>1
      <4>2. /\ G[r] \in Spots /\ G[r].has = "part" /\ ~ G[r].pulled /\ q \in G[r].seen
            /\ G[r].round > 0 /\ q \in Ranks /\ q # r
        BY <1>1, <1>2, <1>3, <2>1, <2>2
      <4> QED BY <4>1, <4>2, PullFinds
    <3> QED BY <1>2, <2>4, <3>1
  <2>7. /\ staging'[r][q] = x
        /\ \A y \in Ranks \ {q} : staging'[r][y] = staging[r][y]
        /\ \A y \in Ranks \ {r} : staging'[y] = staging[y]
        /\ DOMAIN staging' = Ranks /\ DOMAIN staging'[r] = Ranks
    BY <1>1, <2>4 DEF MemoryTypes
  <2>8. Shows(r, u)'
    <3>1. /\ buf' = buf /\ dram' = dram /\ call'.id = call.id /\ Ranks' = Ranks
          /\ u.round = s.round /\ u.has = s.has /\ u.told = s.told
      BY <1>1, <1>3, <2>5
    <3>2. u.got \subseteq Ranks
      BY <1>1, <2>1
    <3>3. ASSUME NEW y \in u.got PROVE staging'[r][y] = Content(call.id, s.round, {y})
      <4>1. CASE y = q
        BY <2>6, <2>7, <4>1
      <4>2. CASE y # q
        BY <1>1, <2>1, <2>7, <4>2 DEF Shows
      <4> QED BY <4>1, <4>2
    <3>4. Shows(r, s)
      BY <1>1
    <3> QED BY <3>1, <3>2, <3>3, <3>4 DEF Shows
  <2>9. Records(fired', w, p, r, u)
    BY <1>1, <1>3, <2>5 DEF Records
  <2>10. OthersKept(r) /\ MemoryTypes'
    BY <1>1, <2>5, <2>7 DEF OthersKept, MemoryTypes, Events
  <2>11. \A y \in Ranks \ {r} : Knows(u, y, G[y])
    BY <1>1, <1>3, <2>2 DEF Knows
  <2> QED BY <2>8, <2>9, <2>10, <2>11 DEF Effect
<1> QED BY <1>5, <1>6, <1>7

LEMMA MoveHasEffect ==
  ASSUME NEW w, NEW p, NEW G, Ready(w, p, G), NEW r \in Ranks, Device(r),
         NEW s, NEW u, NEW c, NEW o, Moving(r, w, p, G, s, u, c, o)
  PROVE  Effect(r, w, p, G, u)
<1>1. layout \in Layouts /\ layout.kind = "TP" /\ call.id \in Nat /\ w \in Nat /\ p \in Nat
  BY DEF Ready
<1>2. c \in Frames /\ s \in Spots /\ u \in Spots /\ Moves(c, o, s, u)
  BY <1>1, FrameIs DEF Moving
<1>3. CASE \/ o = Embed(c.forward) /\ s = Start /\ u = WholeOf(0)
           \/ /\ o = Layer(c.forward, s.round + 1) /\ s = WholeOf(s.round)
              /\ c.peers = {} /\ u = WholeOf(s.round + 1)
           \/ /\ o = Layer(c.forward, s.round + 1) /\ s = WholeOf(s.round)
              /\ c.peers # {} /\ u = PartOf(s.round + 1)
           \/ Adds(c, o, s, u)
  BY <1>3, WritingMoves
<1>4. CASE Flushes(c, o, s, u) \/ Tells(c, o, s, u) \/ HasPulled(c, o, s, u)
  BY <1>4, TellingMoves
<1>5. CASE Sees(c, o, s, u) \/ Pulls(c, o, s, u) \/ Clears(c, o, s, u)
  BY <1>5, LearningMoves
<1> QED BY <1>2, <1>3, <1>4, <1>5, MoveKinds

-----------------------------------------------------------------------------
(* What a step leaves of a rank. *)
SameCall ==
  /\ UNCHANGED <<layout, backend>>
  /\ call'.op = call.op /\ call'.id = call.id /\ call'.size = call.size

LEMMA FrameSame ==
  ASSUME SameCall
  PROVE  /\ Ranks' = Ranks /\ Events' = Events /\ ByEvents' = ByEvents /\ Underway' = Underway
         /\ \A r : Peers(r)' = Peers(r)
         /\ \A r, w, p : FrameOf(r, w, p)' = FrameOf(r, w, p)
<1>1. layout' = layout /\ backend' = backend /\ call'.op = call.op /\ call'.id = call.id
      /\ call'.size = call.size
  BY DEF SameCall
<1>2. Ranks' = Ranks /\ ByEvents' = ByEvents /\ Underway' = Underway
  BY <1>1 DEF Ranks, ByEvents, Underway
<1>3. Events' = Events
  BY <1>2 DEF Events
<1>4. \A r : Peers(r)' = Peers(r)
  BY <1>1, <1>2 DEF Peers, Group, Stage
<1>5. \A r, w, p : FrameOf(r, w, p)' = FrameOf(r, w, p)
  BY <1>1, <1>2, <1>4 DEF FrameOf
<1> QED BY <1>2, <1>3, <1>4, <1>5

LEMMA AtKept ==
  ASSUME SameCall, NEW q, NEW w, NEW p, NEW s, At(q, w, p, s),
         queue'[q] = queue[q], HostSpot(q)' = HostSpot(q),
         Shows(q, s)', ToldByHost(q, s)', Records(fired', w, p, q, s),
         asked'[<<"written", q>>] = asked[<<"written", q>>],
         asked'[<<"pulled", q>>] = asked[<<"pulled", q>>]
  PROVE  At(q, w, p, s)'
<1>1. ByEvents' = ByEvents /\ backend' = backend /\ FrameOf(q, w, p)' = FrameOf(q, w, p)
  BY FrameSame DEF SameCall
<1>2. Leads(FrameOf(q, w, p)', queue'[q], s, HostSpot(q)')
  BY <1>1 DEF At
<1>3. Records(fired, w, p, q, s)'
  BY <1>1 DEF Records
<1>4. Records(asked, w, p, q, HostSpot(q))
  BY DEF At
<1>5. Records(asked', w, p, q, HostSpot(q))
  BY <1>4 DEF Records
<1>6. Records(asked, w, p, q, HostSpot(q))'
  BY <1>1, <1>5 DEF Records
<1> QED BY <1>2, <1>3, <1>6 DEF At

LEMMA ShowsSame ==
  ASSUME SameCall, NEW q, NEW s, Shows(q, s),
         buf'[q] = buf[q], dram'[q] = dram[q], staging'[q] = staging[q]
  PROVE  Shows(q, s)'
<1>1. Ranks' = Ranks /\ call'.id = call.id
  BY FrameSame DEF SameCall
<1> QED BY <1>1 DEF Shows

(* A rank whose stream, memory and thread a step leaves alone. *)
StreamSame(q) ==
  /\ queue'[q] = queue[q]
  /\ buf'[q] = buf[q] /\ dram'[q] = dram[q] /\ staging'[q] = staging[q]
  /\ fired'[<<"written", q>>] = fired[<<"written", q>>]
  /\ fired'[<<"pulled", q>>] = fired[<<"pulled", q>>]
  /\ asked'[<<"written", q>>] = asked[<<"written", q>>]
  /\ asked'[<<"pulled", q>>] = asked[<<"pulled", q>>]
ThreadSame(q) ==
  pc'[q] = pc[q] /\ cur'[q] = cur[q] /\ round'[q] = round[q] /\ reply'[q] = reply[q]

LEMMA SpotSame ==
  ASSUME SameCall, NEW q, ThreadSame(q)
  PROVE  HostSpot(q)' = HostSpot(q) /\ \A s : ToldByHost(q, s) => ToldByHost(q, s)'
<1>1. /\ ByEvents' = ByEvents /\ Underway' = Underway /\ backend' = backend
      /\ Peers(q)' = Peers(q)
  BY FrameSame DEF SameCall
<1>2. pc'[q] = pc[q] /\ cur'[q] = cur[q] /\ round'[q] = round[q] /\ reply'[q] = reply[q]
  BY DEF ThreadSame
<1>3. Runs(q)' = Runs(q) /\ Replied(q)' = Replied(q)
  BY <1>2 DEF Runs, Replied
<1>4. HostSpot(q)' = HostSpot(q)
  BY <1>1, <1>2, <1>3 DEF HostSpot
<1>5. \A s : ToldByHost(q, s) => ToldByHost(q, s)'
  BY <1>1, <1>2, <1>3 DEF ToldByHost
<1> QED BY <1>4, <1>5

LEMMA AtSame ==
  ASSUME SameCall, NEW q, NEW w, NEW p, NEW s, At(q, w, p, s), StreamSame(q), ThreadSame(q)
  PROVE  At(q, w, p, s)'
<1>1. HostSpot(q)' = HostSpot(q) /\ ToldByHost(q, s)'
  BY SpotSame DEF At
<1>2. Shows(q, s)'
  BY ShowsSame DEF At, StreamSame
<1>3. Records(fired', w, p, q, s)
  BY DEF At, StreamSame, Records
<1> QED BY <1>1, <1>2, <1>3, AtKept DEF StreamSame

(* When one device or thread moves. *)
LEMMA OneMoves ==
  ASSUME NEW w \in Nat, NEW p \in Nat, NEW G \in [Ranks -> Spots], Devices(w, p, G),
         SameCall, NEW r \in Ranks, NEW u \in Spots, At(r, w, p, u)',
         \A q \in Ranks \ {r} : StreamSame(q) /\ ThreadSame(q),
         TimesTold(u) >= TimesTold(G[r]), TimesPulled(u) >= TimesPulled(G[r]),
         \A q \in Ranks \ {r} : Knows(u, q, G[q])
  PROVE  [G EXCEPT ![r] = u] \in [Ranks -> Spots] /\ Devices(w, p, [G EXCEPT ![r] = u])'
<1> DEFINE H == [G EXCEPT ![r] = u]
<1>1. H \in [Ranks -> Spots] /\ H[r] = u /\ \A q \in Ranks \ {r} : H[q] = G[q]
  OBVIOUS
<1>2. Ranks' = Ranks /\ backend' = backend
  BY FrameSame DEF SameCall
<1> HIDE DEF H
<1>3. ASSUME NEW q \in Ranks PROVE At(q, w, p, H[q])'
  <2>1. CASE q = r
    BY <1>1, <2>1
  <2>2. CASE q # r
    <3>1. At(q, w, p, G[q]) /\ StreamSame(q) /\ ThreadSame(q)
      BY <2>2 DEF Devices
    <3> QED BY <1>1, <2>2, <3>1, AtSame
  <2> QED BY <2>1, <2>2
<1>4. ASSUME NEW x \in Ranks, NEW y \in Ranks, x # y PROVE Knows(H[x], y, H[y])'
  <2>1. Knows(H[x], y, H[y])
    <3>1. CASE x = r
      BY <1>1, <1>4, <3>1
    <3>2. CASE y = r
      <4>1. Knows(G[x], r, G[r]) /\ H[x] = G[x] /\ H[y] = u
        BY <1>1, <1>4, <3>2 DEF Devices
      <4>2. /\ TimesTold(G[r]) \in Int /\ TimesTold(u) \in Int
            /\ TimesPulled(G[r]) \in Int /\ TimesPulled(u) \in Int /\ TimesSummed(G[x]) \in Int
            /\ G[x].round \in Int
        BY DEF Spots, TimesTold, TimesPulled, TimesSummed
      <4> QED BY <3>2, <4>1, <4>2 DEF Knows
    <3>3. CASE x # r /\ y # r
      BY <1>1, <1>4, <3>3 DEF Devices
    <3> QED BY <3>1, <3>2, <3>3
  <2> QED BY <1>2, <2>1 DEF Knows
<1>5. Devices(w, p, H)'
  BY <1>2, <1>3, <1>4 DEF Devices
<1> QED BY <1>1, <1>5 DEF H

LEMMA DeviceKeeps ==
  ASSUME NEW w, NEW p, NEW G, Ready(w, p, G), NEW r \in Ranks, Device(r)
  PROVE  StreamTypes' /\ \E H \in [Ranks -> Spots] : Devices(w, p, H)'
<1>1. /\ layout \in Layouts /\ layout.kind = "TP" /\ call.id \in Nat /\ StreamTypes
      /\ w \in Nat /\ p \in Nat /\ G \in [Ranks -> Spots] /\ Devices(w, p, G)
  BY DEF Ready
<1>2. /\ queue[r] # <<>> /\ queue' = [queue EXCEPT ![r] = Tail(@)]
      /\ UNCHANGED <<topologyVars, asked, arVars, sessionVars>>
  BY DEF Device, Execute
<1>3. queue \in [Ranks -> Seq(Instructions)] /\ queue[r] \in Seq(Instructions)
  BY <1>1 DEF StreamTypes
<1>4. SameCall /\ \A q \in Ranks : ThreadSame(q)
  BY <1>2 DEF SameCall, ThreadSame, topologyVars, arVars, sessionVars
<1>5. PICK c : c = FrameOf(r, w, p)
  OBVIOUS
<1>6. PICK s \in Spots : s = G[r]
  BY <1>1
<1>7. At(r, w, p, s)
  BY <1>1, <1>6 DEF Devices
<1>8. PICK u \in Spots : Moves(c, Head(queue[r]), s, u) /\ Leads(c, Tail(queue[r]), u, HostSpot(r))
  BY <1>2, <1>3, <1>5, <1>7, HeadLeads DEF At
<1>9. Moving(r, w, p, G, s, u, c, Head(queue[r]))
  BY <1>5, <1>6, <1>8 DEF Moving
<1>10. Effect(r, w, p, G, u)
  BY <1>9, MoveHasEffect
<1>11. c \in Frames
  BY <1>1, <1>5, FrameIs
<1>12. TimesTold(u) >= TimesTold(s) /\ TimesPulled(u) >= TimesPulled(s)
       /\ TimesTold(u) \in Int /\ TimesTold(s) \in Int
  BY <1>8, <1>11, CountsRise
<1>13. /\ Ranks' = Ranks /\ ByEvents' = ByEvents /\ FrameOf(r, w, p)' = FrameOf(r, w, p)
       /\ HostSpot(r)' = HostSpot(r) /\ backend' = backend /\ Events' = Events
  BY <1>4, FrameSame, SpotSame DEF SameCall
<1>14. queue'[r] = Tail(queue[r]) /\ queue' \in [Ranks -> Seq(Instructions)]
       /\ \A q \in Ranks \ {r} : queue'[q] = queue[q]
  <2>1. Tail(queue[r]) \in Seq(Instructions)
    BY <1>2, <1>3, HeadTailProperties
  <2> QED BY <1>2, <1>3, <2>1
<1>15. At(r, w, p, u)'
  <2>1. Leads(FrameOf(r, w, p)', queue'[r], u, HostSpot(r)')
    BY <1>5, <1>8, <1>13, <1>14
  <2>2. ToldByHost(r, u)'
    <3>1. ToldByHost(r, s)'
      BY <1>4, <1>7, SpotSame DEF At
    <3>2. round'[r] \in Int
      BY <1>2 DEF Ready, topologyVars
    <3> QED BY <1>12, <3>1, <3>2 DEF ToldByHost
  <2>3. Records(fired, w, p, r, u)'
    BY <1>10, <1>13 DEF Effect, Records
  <2>4. Records(asked, w, p, r, HostSpot(r))'
    <3>1. Records(asked, w, p, r, HostSpot(r)) /\ asked' = asked
      BY <1>2, <1>7 DEF At
    <3>2. Records(asked', w, p, r, HostSpot(r)')
      BY <1>13, <3>1
    <3> QED BY <1>13, <3>2 DEF Records
  <2> QED BY <1>10, <2>1, <2>2, <2>3, <2>4 DEF At, Effect
<1>16. \A q \in Ranks \ {r} : StreamSame(q) /\ ThreadSame(q)
  BY <1>2, <1>4, <1>10, <1>14 DEF Effect, OthersKept, StreamSame
<1>17. [G EXCEPT ![r] = u] \in [Ranks -> Spots] /\ Devices(w, p, [G EXCEPT ![r] = u])'
  BY <1>1, <1>4, <1>6, <1>8, <1>10, <1>12, <1>15, <1>16, OneMoves DEF Effect
<1>18. StreamTypes'
  BY <1>1, <1>2, <1>10, <1>13, <1>14 DEF StreamTypes, Effect, MemoryTypes
<1> QED BY <1>17, <1>18

-----------------------------------------------------------------------------
(* The host threads of the stage: which round each is in. *)
TpState ==
  /\ layout \in Layouts /\ layout.kind = "TP"
  /\ SessionInv /\ StepInv /\ StreamInv

LEMMA RoundsMeet ==
  ASSUME NEW B \in {3, 4}, NEW a \in Int, NEW b \in Int,
         NEW x \in 0 .. B - 1, NEW y \in 0 .. B - 1, B * a + x = B * b + y
  PROVE  a = b /\ x = y
<1>1. CASE B = 3
  BY <1>1
<1>2. CASE B = 4
  BY <1>2
<1> QED BY <1>1, <1>2

LEMMA RankTypes ==
  ASSUME TpState, NEW q \in Ranks
  PROVE  /\ round[q] \in Nat /\ Through(q) \in Int /\ ticket[q] \in Nat
         /\ PhaseOf(pc[q]) \in 0 .. PerRound - 1 /\ passes[0] \in Nat
         /\ Stage(q) = 0
         /\ pc[q] # "idle" /\ pc[q] \notin SlotOps => Runs(q)
         /\ pc[q] = "idle" \/ pc[q] \in SlotOps => ~ Runs(q)
         /\ HostInv(q) /\ RankInv(q)
<1>1. /\ round[q] \in Nat /\ SessionTypes /\ RankInv(q) /\ HostInv(q)
      /\ ticket \in [Ranks -> Nat] /\ passes \in [Stages -> Nat] /\ PhasesInStep
  BY DEF TpState, SessionInv, SessionTypes, StreamInv, StepInv, BarrierTypes
<1>2. Stages = {0} /\ Stage(q) = 0
  BY TpLayout DEF TpState
<1>3. Through(q) \in Int
  BY <1>1, TopologyAssumption DEF Through
<1>4. PhaseOf(pc[q]) \in 0 .. PerRound - 1
  BY <1>1 DEF PhaseOf, PerRound, PhasesInStep
<1>5. pc[q] # "idle" /\ pc[q] \notin SlotOps => Runs(q)
  BY <1>1 DEF RankInv, PlaceInv, Runs
<1>6. pc[q] = "idle" \/ pc[q] \in SlotOps => ~ Runs(q)
  BY <1>1 DEF RankInv, PlaceInv, Runs, NoCommand, SlotOps
<1> QED BY <1>1, <1>2, <1>3, <1>4, <1>5, <1>6

(* Behind an open barrier the peers are at it too, or have gone on to the next. *)
LEMMA PeersBehind ==
  ASSUME TpState, NEW r \in Ranks, pc[r] \in {"snap", "add"}, Open(r), NEW q \in Ranks
  PROVE  /\ Runs(q) /\ round[q] = round[r] /\ Runs(r)
         /\ pc[r] = "snap" => pc[q] \in {"snap", "add"}
         /\ pc[r] = "add" /\ backend = "bar" => pc[q] \in {"add", "clear"}
         /\ pc[r] = "add" /\ backend # "bar" => pc[q] \in {"add", "done"}
<1>1. PICK B \in {3, 4} : B = PerRound /\ (backend = "bar" <=> B = 4)
  BY DEF PerRound
<1>2. layout.width > 1
  BY RankTypes DEF HostInv, ForwardInv, Waiting
<1>3. PICK k \in Nat : \A x \in Ranks : ticket[x] = B * (k + Through(x)) + PhaseOf(pc[x])
  BY <1>1, <1>2 DEF TpState, StreamInv, TicketInv, Ticket
<1>4. PICK P \in Nat : P = passes[0]
  BY RankTypes
<1>5. ticket[r] = P /\ (ticket[q] = P \/ ticket[q] = P + 1)
  <2>1. \A x \in Ranks : ticket[x] = P \/ ticket[x] = P + 1
    BY <1>4 DEF TpState, StepInv, BarrierInStep
  <2>2. P >= ticket[r]
    BY <1>4, RankTypes DEF Open
  <2> QED BY <2>1, <2>2
<1>6. pc[q] \notin Waiting => ticket[q] = P
  BY <1>4 DEF TpState, StepInv, BarrierInStep
<1>7. PICK m, n \in Int : m = k + Through(r) /\ n = k + Through(q)
  BY <1>3, RankTypes
<1>8. /\ PhaseOf(pc[r]) \in 0 .. B - 1 /\ PhaseOf(pc[q]) \in 0 .. B - 1
      /\ P = B * m + PhaseOf(pc[r]) /\ ticket[q] = B * n + PhaseOf(pc[q])
  <2>1. PhaseOf(pc[r]) \in 0 .. B - 1 /\ PhaseOf(pc[q]) \in 0 .. B - 1
    BY <1>1, RankTypes
  <2>2. ticket[r] = B * m + PhaseOf(pc[r]) /\ ticket[q] = B * n + PhaseOf(pc[q])
    BY <1>3, <1>7
  <2> QED BY <1>5, <2>1, <2>2
<1>9. PICK f : f = PhaseOf(pc[r])
  OBVIOUS
<1>10. f = IF pc[r] = "snap" THEN 1 ELSE 2
  BY <1>9 DEF PhaseOf
<1>11. \/ m = n /\ PhaseOf(pc[q]) = f
       \/ m = n /\ PhaseOf(pc[q]) = f + 1 /\ ticket[q] = P + 1
       \/ n = m + 1 /\ PhaseOf(pc[q]) = 0 /\ f = B - 1 /\ ticket[q] = P + 1
  <2>1. CASE ticket[q] = P
    BY <1>8, <1>9, <2>1, RoundsMeet
  <2>0. f \in Int
    BY <1>10
  <2>2. CASE ticket[q] = P + 1 /\ f + 1 <= B - 1
    <3>1. f + 1 \in 0 .. B - 1 /\ B * m + (f + 1) = B * n + PhaseOf(pc[q])
      <4>1. PICK z \in Int : z = B * m
        BY <1>1
      <4> QED BY <1>8, <1>9, <1>10, <2>2, <4>1
    <3> QED BY <1>8, <2>2, <3>1, RoundsMeet
  <2>3. CASE ticket[q] = P + 1 /\ f + 1 > B - 1
    <3>1. f = B - 1 /\ B * (m + 1) + 0 = B * n + PhaseOf(pc[q]) /\ 0 \in 0 .. B - 1 /\ m + 1 \in Int
      BY <1>8, <1>9, <1>10, <2>3
    <3> QED BY <1>8, <2>3, <3>1, RoundsMeet
  <2> QED BY <1>5, <2>0, <2>1, <2>2, <2>3
<1>12. Runs(r)
  BY RankTypes DEF SlotOps
<1>13. Through(r) = round[r] - 1 /\ round[r] \in Nat /\ round[q] \in Nat
  BY <1>12, RankTypes DEF Through
<1>14. CASE m = n /\ PhaseOf(pc[q]) \in {f, f + 1}
  <2>1. pc[q] \in {"snap", "add", "clear"}
    BY <1>10, <1>14 DEF PhaseOf
  <2>2. Runs(q)
    BY <2>1, RankTypes DEF SlotOps
  <2>3. Through(q) = round[q] - 1
    BY <2>1, <2>2 DEF Through
  <2>4. round[q] = round[r]
    BY <1>3, <1>7, <1>13, <1>14, <2>3
  <2>5. pc[r] = "snap" => pc[q] \in {"snap", "add"}
    BY <1>10, <1>14 DEF PhaseOf
  <2>6. pc[r] = "add" => pc[q] \in {"add", "clear"}
    BY <1>10, <1>14 DEF PhaseOf
  <2>7. pc[q] = "clear" => backend = "bar"
    BY DEF TpState, StepInv, PhasesInStep
  <2> QED BY <1>12, <2>2, <2>4, <2>5, <2>6, <2>7
<1>15. CASE n = m + 1 /\ PhaseOf(pc[q]) = 0 /\ f = B - 1 /\ ticket[q] = P + 1
  <2>1. pc[q] \in Waiting
    BY <1>6, <1>15
  <2>2. pc[q] = "done"
    BY <1>15, <2>1 DEF Waiting, PhaseOf
  <2>3. pc[r] = "add" /\ B = 3
    BY <1>10, <1>15
  <2>4. Runs(q)
    BY <2>2, RankTypes DEF SlotOps
  <2>5. Through(q) = round[q]
    BY <2>2, <2>4 DEF Through
  <2>6. round[q] = round[r]
    <3>1. PICK a, b \in Int : a = round[r] /\ b = round[q]
      BY <1>13
    <3>2. m = k + (a - 1) /\ n = k + b /\ n = m + 1
      BY <1>7, <1>13, <1>15, <2>5, <3>1
    <3>3. PICK i \in Int : i = k
      BY <1>3
    <3> QED BY <3>1, <3>2, <3>3
  <2> QED BY <1>1, <1>12, <2>2, <2>3, <2>4, <2>6
<1> QED BY <1>11, <1>14, <1>15

(* The tickets stay in step when each one's own does. *)
LEMMA TicketsKept ==
  ASSUME TpState, SameCall, NEW r \in Ranks,
         \A k \in Nat : Ticket(r, k) => Ticket(r, k)',
         \A q \in Ranks \ {r} : ThreadSame(q) /\ ticket'[q] = ticket[q]
  PROVE  TicketInv'
<1>1. Ranks' = Ranks /\ backend' = backend /\ layout' = layout /\ Underway' = Underway
  BY FrameSame DEF SameCall
<1>2. SUFFICES ASSUME layout.width > 1 PROVE \E k \in Nat : \A q \in Ranks : Ticket(q, k)'
  BY <1>1 DEF TicketInv
<1>3. PICK k \in Nat : \A q \in Ranks : Ticket(q, k)
  BY <1>2 DEF TpState, StreamInv, TicketInv
<1>4. ASSUME NEW q \in Ranks, q # r PROVE Ticket(q, k)'
  <2>1. Ticket(q, k) /\ ticket'[q] = ticket[q] /\ ThreadSame(q)
    BY <1>3, <1>4
  <2>2. Through(q)' = Through(q) /\ pc'[q] = pc[q]
    BY <1>1, <2>1 DEF ThreadSame, Through, Runs, Replied
  <2> QED BY <1>1, <2>1, <2>2 DEF Ticket, PerRound
<1> QED BY <1>3, <1>4

(* An arrival at the next barrier. *)
LEMMA TicketArrives ==
  ASSUME TpState, SameCall, NEW r \in Ranks, ticket[r] = passes[0], Arrive(r),
         \/ PhaseOf(pc'[r]) = PhaseOf(pc[r]) + 1 /\ Through(r)' = Through(r)
         \/ /\ PhaseOf(pc[r]) = PerRound - 1 /\ PhaseOf(pc'[r]) = 0
            /\ Through(r)' = Through(r) + 1,
         \A q \in Ranks \ {r} : ThreadSame(q)
  PROVE  TicketInv'
<1>1. PICK B \in {3, 4} : B = PerRound
  BY DEF PerRound
<1>2. PerRound' = PerRound
  BY DEF SameCall, PerRound
<1>3. ticket'[r] = ticket[r] + 1 /\ \A q \in Ranks \ {r} : ticket'[q] = ticket[q]
  <2>1. Stage(r) = 0 /\ ticket \in [Ranks -> Nat]
    BY RankTypes DEF TpState, StepInv, BarrierTypes
  <2> QED BY <2>1 DEF Arrive
<1>4. ASSUME NEW k \in Nat, Ticket(r, k) PROVE Ticket(r, k)'
  <2>1. PICK t \in Int : t = Through(r)
    BY RankTypes
  <2>2. ticket[r] = B * (k + t) + PhaseOf(pc[r]) /\ PhaseOf(pc[r]) \in Int
    BY <1>1, <1>4, <2>1, RankTypes DEF Ticket
  <2>3. CASE PhaseOf(pc'[r]) = PhaseOf(pc[r]) + 1 /\ Through(r)' = Through(r)
    <3>1. PICK z \in Int : z = B * (k + t)
      BY <1>1
    <3>2. ticket'[r] = B * (k + t) + PhaseOf(pc'[r])
      BY <1>3, <2>2, <2>3, <3>1
    <3> QED BY <1>1, <1>2, <2>1, <2>3, <3>2 DEF Ticket
  <2>4. CASE /\ PhaseOf(pc[r]) = PerRound - 1 /\ PhaseOf(pc'[r]) = 0
             /\ Through(r)' = Through(r) + 1
    <3>1. ticket'[r] = B * (k + (t + 1)) + 0
      BY <1>1, <1>3, <2>2, <2>4
    <3> QED BY <1>1, <1>2, <2>1, <2>4, <3>1 DEF Ticket
  <2> QED BY <2>3, <2>4
<1> QED BY <1>3, <1>4, TicketsKept

-----------------------------------------------------------------------------
(* What a thread enqueues. *)
Asks(ops, e) == \E i \in DOMAIN ops : ops[i] = Record(e)

LEMMA AsksBoth ==
  ASSUME NEW S, NEW a \in Seq(S), NEW b \in Seq(S), NEW e
  PROVE  Asks(a \o b, e) <=> Asks(a, e) \/ Asks(b, e)
<1>1. PICK m : m = Len(a)
  OBVIOUS
<1>2. PICK n : n = Len(b)
  OBVIOUS
<1>3. /\ m \in Nat /\ n \in Nat /\ DOMAIN a = 1 .. m /\ DOMAIN b = 1 .. n
      /\ DOMAIN (a \o b) = 1 .. m + n
      /\ \A i \in 1 .. m : (a \o b)[i] = a[i]
      /\ \A i \in m + 1 .. m + n : (a \o b)[i] = b[i - m]
  BY <1>1, <1>2, ConcatProperties, LenProperties
<1>4. PICK x : x = Record(e)
  OBVIOUS
<1>5. PICK ab : ab = a \o b
  OBVIOUS
<1>6. ASSUME NEW i \in 1 .. m + n, ab[i] = x
      PROVE  (\E j \in 1 .. m : a[j] = x) \/ \E j \in 1 .. n : b[j] = x
  <2>1. CASE i <= m
    BY <1>3, <1>5, <1>6, <2>1
  <2>2. CASE i > m
    <3>1. i - m \in 1 .. n /\ i \in m + 1 .. m + n
      BY <1>3, <2>2
    <3> QED BY <1>3, <1>5, <1>6, <3>1
  <2> QED BY <1>3, <2>1, <2>2
<1>7. ASSUME NEW j \in 1 .. m, a[j] = x PROVE \E i \in 1 .. m + n : ab[i] = x
  BY <1>3, <1>5, <1>7
<1>8. ASSUME NEW j \in 1 .. n, b[j] = x PROVE \E i \in 1 .. m + n : ab[i] = x
  <2>1. j + m \in m + 1 .. m + n /\ (j + m) - m = j /\ j + m \in 1 .. m + n
    BY <1>3
  <2> QED BY <1>3, <1>5, <1>8, <2>1
<1>9. Asks(a \o b, e) <=> \E i \in 1 .. m + n : ab[i] = x
  BY <1>3, <1>4, <1>5 DEF Asks
<1>10. /\ Asks(a, e) <=> \E i \in 1 .. m : a[i] = x
       /\ Asks(b, e) <=> \E i \in 1 .. n : b[i] = x
  BY <1>3, <1>4 DEF Asks
<1> QED BY <1>6, <1>7, <1>8, <1>9, <1>10

LEMMA AsksNothing ==
  ASSUME NEW S, NEW a \in Seq(S), NEW e, \A x \in S : x # Record(e)
  PROVE  ~ Asks(a, e)
<1>1. \A i \in DOMAIN a : a[i] \in S
  OBVIOUS
<1> QED BY <1>1 DEF Asks

LEMMA EnqueueIs ==
  ASSUME StreamTypes, NEW r \in Ranks, NEW ops \in Seq(Instructions), Enqueue(r, ops)
  PROVE  /\ queue' \in [Ranks -> Seq(Instructions)] /\ queue'[r] = queue[r] \o ops
         /\ \A q \in Ranks \ {r} : queue'[q] = queue[q]
         /\ asked' \in [Events -> Nat]
         /\ \A e \in Events : asked'[e] = IF Asks(ops, e) THEN asked[e] + 1 ELSE asked[e]
         /\ UNCHANGED <<buf, dram, staging, dst, fired>>
<1>1. queue \in [Ranks -> Seq(Instructions)] /\ asked \in [Events -> Nat]
  BY DEF StreamTypes
<1>2. queue' = [queue EXCEPT ![r] = @ \o ops]
  BY DEF Enqueue
<1>3. queue[r] \o ops \in Seq(Instructions)
  BY <1>1, ConcatProperties
<1>4. asked' = [e \in Events |-> IF Asks(ops, e) THEN asked[e] + 1 ELSE asked[e]]
  BY DEF Enqueue, Asks
<1>5. UNCHANGED <<buf, dram, staging, dst, fired>>
  BY DEF Enqueue
<1> QED BY <1>1, <1>2, <1>3, <1>4, <1>5

LEMMA AtBecomes ==
  ASSUME SameCall, NEW q, NEW w, NEW p, NEW u,
         Leads(FrameOf(q, w, p), queue'[q], u, HostSpot(q)'),
         Shows(q, u)', ToldByHost(q, u)', Records(fired', w, p, q, u),
         Records(asked', w, p, q, HostSpot(q)')
  PROVE  At(q, w, p, u)'
<1>1. ByEvents' = ByEvents /\ backend' = backend /\ FrameOf(q, w, p)' = FrameOf(q, w, p)
  BY FrameSame DEF SameCall
<1>2. Records(fired, w, p, q, u)'
  BY <1>1 DEF Records
<1>3. Records(asked, w, p, q, HostSpot(q))'
  BY <1>1 DEF Records
<1> QED BY <1>1, <1>2, <1>3 DEF At

(* A thread that does nothing to its device's place: enqueues what the device   *)
(* has yet to do, or nothing.                                                      *)
LEMMA PlaceKept ==
  ASSUME NEW w, NEW p, NEW G, Ready(w, p, G), SameCall, NEW r \in Ranks,
         At(r, w, p, G[r])',
         \A q \in Ranks \ {r} : StreamSame(q) /\ ThreadSame(q)
  PROVE  \E H \in [Ranks -> Spots] : Devices(w, p, H)'
<1>1. w \in Nat /\ p \in Nat /\ G \in [Ranks -> Spots] /\ Devices(w, p, G)
  BY DEF Ready
<1>2. PICK u \in Spots : u = G[r]
  BY <1>1
<1>3. TimesTold(u) >= TimesTold(G[r]) /\ TimesPulled(u) >= TimesPulled(G[r])
  <2>1. TimesTold(u) \in Int /\ TimesPulled(u) \in Int
    BY DEF Spots, TimesTold, TimesPulled
  <2> QED BY <1>2, <2>1
<1>4. \A q \in Ranks \ {r} : Knows(u, q, G[q])
  BY <1>1, <1>2 DEF Devices
<1> QED BY <1>1, <1>2, <1>3, <1>4, OneMoves

OwnEvents(r) == {<<"written", r>>, <<"pulled", r>>}

LEMMA ThreadEnqueues ==
  ASSUME NEW w, NEW p, NEW G, Ready(w, p, G), SameCall, NEW r \in Ranks,
         NEW ops \in Seq(Instructions), Enqueue(r, ops),
         \A e \in Events : Asks(ops, e) => e \in OwnEvents(r),
         Leads(FrameOf(r, w, p), ops, HostSpot(r), HostSpot(r)'),
         ToldByHost(r, G[r])', Records(asked', w, p, r, HostSpot(r)'),
         \A q \in Ranks \ {r} : ThreadSame(q)
  PROVE  StreamTypes' /\ \E H \in [Ranks -> Spots] : Devices(w, p, H)'
<1>1. w \in Nat /\ p \in Nat /\ G \in [Ranks -> Spots] /\ Devices(w, p, G) /\ StreamTypes
  BY DEF Ready
<1>2. /\ queue' \in [Ranks -> Seq(Instructions)] /\ queue'[r] = queue[r] \o ops
      /\ \A q \in Ranks \ {r} : queue'[q] = queue[q]
      /\ asked' \in [Events -> Nat]
      /\ \A e \in Events : asked'[e] = IF Asks(ops, e) THEN asked[e] + 1 ELSE asked[e]
      /\ UNCHANGED <<buf, dram, staging, dst, fired>>
  BY <1>1, EnqueueIs
<1>3. Ranks' = Ranks /\ Events' = Events
  BY FrameSame
<1>4. At(r, w, p, G[r])
  BY <1>1 DEF Devices
<1>5. Leads(FrameOf(r, w, p), queue'[r], G[r], HostSpot(r)')
  <2>1. Leads(FrameOf(r, w, p), queue[r], G[r], HostSpot(r)) /\ queue[r] \in Seq(Instructions)
    BY <1>1, <1>4 DEF At, StreamTypes
  <2> QED BY <1>2, <2>1, BothLead
<1>6. Shows(r, G[r])'
  BY <1>2, <1>4, ShowsSame DEF At
<1>7. Records(fired', w, p, r, G[r])
  BY <1>2, <1>4 DEF At
<1>8. At(r, w, p, G[r])'
  BY <1>5, <1>6, <1>7, AtBecomes
<1>9. ASSUME NEW q \in Ranks, q # r PROVE StreamSame(q)
  <2>1. <<"written", q>> \in Events /\ <<"pulled", q>> \in Events
    BY DEF Events
  <2>2. ~ Asks(ops, <<"written", q>>) /\ ~ Asks(ops, <<"pulled", q>>)
    BY <1>9, <2>1 DEF OwnEvents
  <2>3. /\ asked'[<<"written", q>>] = asked[<<"written", q>>]
        /\ asked'[<<"pulled", q>>] = asked[<<"pulled", q>>]
    BY <1>2, <2>1, <2>2
  <2> QED BY <1>2, <1>9, <2>3 DEF StreamSame
<1>10. StreamTypes'
  BY <1>1, <1>2, <1>3 DEF StreamTypes
<1> QED BY <1>8, <1>9, <1>10, PlaceKept

LEMMA ThreadWaits ==
  ASSUME NEW w, NEW p, NEW G, Ready(w, p, G), SameCall, NEW r \in Ranks,
         UNCHANGED streamVars, HostSpot(r)' = HostSpot(r), ToldByHost(r, G[r])',
         \A q \in Ranks \ {r} : ThreadSame(q)
  PROVE  StreamTypes' /\ \E H \in [Ranks -> Spots] : Devices(w, p, H)'
<1>1. w \in Nat /\ p \in Nat /\ G \in [Ranks -> Spots] /\ Devices(w, p, G) /\ StreamTypes
  BY DEF Ready
<1>2. At(r, w, p, G[r]) /\ \A q \in Ranks : StreamSame(q)
  BY <1>1 DEF Devices, streamVars, StreamSame
<1>3. UNCHANGED <<queue, buf, dram, staging, dst, asked, fired>>
  BY DEF streamVars
<1>4. Leads(FrameOf(r, w, p), queue'[r], G[r], HostSpot(r)')
  BY <1>2, <1>3 DEF At
<1>5. Shows(r, G[r])'
  BY <1>2, <1>3, ShowsSame DEF At
<1>6. Records(fired', w, p, r, G[r]) /\ Records(asked', w, p, r, HostSpot(r)')
  <2>1. Records(fired, w, p, r, G[r]) /\ Records(asked, w, p, r, HostSpot(r))
    BY <1>2 DEF At
  <2> QED BY <1>3, <2>1
<1>7. At(r, w, p, G[r])'
  BY <1>4, <1>5, <1>6, AtBecomes
<1>8. StreamTypes'
  BY <1>1, <1>3, FrameSame DEF StreamTypes
<1> QED BY <1>2, <1>7, <1>8, PlaceKept

(* A drained stream is where the host has brought it. *)
LEMMA DrainedSpot ==
  ASSUME NEW w, NEW p, NEW G, Ready(w, p, G), NEW r \in Ranks, queue[r] = <<>>
  PROVE  G[r] = HostSpot(r)
<1>1. G[r] \in Spots /\ Leads(FrameOf(r, w, p), <<>>, G[r], HostSpot(r))
  BY DEF Ready, Devices, At
<1> QED BY <1>1, NowhereLeads

(* What a thread's step leaves of the other threads. *)
LEMMA HostKept ==
  ASSUME SameCall, NEW q, HostInv(q), ThreadSame(q), inbox'[q] = inbox[q],
         queue'[q] = queue[q], slab'[q] = slab[q] \/ slab'[q] = None
  PROVE  HostInv(q)'
<1>1. /\ ByEvents' = ByEvents /\ Underway' = Underway /\ backend' = backend
      /\ layout' = layout /\ Ranks' = Ranks /\ call'.id = call.id /\ call'.size = call.size
  BY FrameSame DEF SameCall
<1>2. pc'[q] = pc[q] /\ cur'[q] = cur[q] /\ round'[q] = round[q] /\ reply'[q] = reply[q]
  BY DEF ThreadSame
<1>3. Runs(q)' = Runs(q) /\ Replied(q)' = Replied(q)
  BY <1>2 DEF Runs, Replied
<1>4. ForwardInv(q)'
  BY <1>1, <1>2, <1>3 DEF HostInv, ForwardInv
<1>5. DrainedInv(q)'
  BY <1>1, <1>2, <1>3 DEF HostInv, DrainedInv
<1> QED BY <1>4, <1>5 DEF HostInv

-----------------------------------------------------------------------------
(* The steps of a thread through the layers and the all-reduces. *)
InForward(r) ==
  /\ SameCall /\ UNCHANGED <<layout, cur, backend, reply, inbox, call, answer>>
  /\ Runs(r) /\ Runs(r)' /\ Underway /\ cur[r].id = call.id
  /\ (backend = "bar" /\ EventPath(r)) = ByEvents
  /\ \A q \in Ranks \ {r} : ThreadSame(q)
  /\ round[r] \in Nat /\ DOMAIN pc = Ranks /\ DOMAIN slab = Ranks
  /\ pc[r] # "layers" => round' = round

LEMMA ForwardFrame ==
  ASSUME TpState, NEW r \in Ranks, AllReduceStep(r)
  PROVE  InForward(r) /\ HostInv(r)
<1>1. /\ UNCHANGED <<layout, cur, backend, reply, inbox, call, answer>>
  BY DEF AllReduceStep, ArStep, ArLayers, ArPublish, ArPull, ArAdd, ArClear, ArDone, ArSame,
         arVars
<1>2. pc[r] \in Waiting \cup {"layers", "publish"}
  BY DEF AllReduceStep, ArStep, ArLayers, ArPublish, ArPull, ArAdd, ArClear, ArDone, Waiting
<1>3. HostInv(r) /\ Runs(r) /\ round[r] \in Nat
  BY <1>2, RankTypes DEF SlotOps, Waiting
<1>4. Underway /\ cur[r].id = call.id /\ cur[r].size = call.size
  BY <1>3 DEF HostInv, ForwardInv
<1>5. (backend = "bar" /\ EventPath(r)) = ByEvents
  BY <1>4 DEF EventPath, ByEvents
<1>6. DOMAIN pc = Ranks /\ DOMAIN slab = Ranks /\ round \in [Ranks -> Nat]
  BY DEF TpState, StepInv, BarrierTypes, SessionInv, SessionTypes
<1>7. \E x : GoesTo(r, x)
  BY Zenon DEF AllReduceStep, ArStep, ArLayers, ArPublish, ArPull, ArAdd, ArClear, ArDone
<1>8. \/ pc[r] = "layers" /\ round' = [round EXCEPT ![r] = round[r] + 1]
      \/ pc[r] # "layers" /\ round' = round
  BY DEF AllReduceStep, ArStep, ArLayers, ArPublish, ArPull, ArAdd, ArClear, ArDone
<1>9. \A q \in Ranks \ {r} : ThreadSame(q)
  BY <1>1, <1>6, <1>7, <1>8 DEF GoesTo, ThreadSame
<1>10. Runs(r)' /\ SameCall
  BY <1>1, <1>3 DEF Runs, SameCall
<1> QED BY <1>1, <1>3, <1>4, <1>5, <1>6, <1>8, <1>9, <1>10 DEF InForward

LEMMA GoesOnInForward ==
  ASSUME NEW r \in Ranks, InForward(r), HostInv(r),
         pc'[r] \notin {"recv", "sent", "idle"}, round'[r] <= NAr,
         pc'[r] = "layers" => round'[r] < NAr, pc'[r] = "out" => round'[r] = NAr,
         pc'[r] \in Waiting \cup {"publish"} => layout.width > 1
  PROVE  ForwardInv(r)'
<1>1. /\ Underway' = Underway /\ layout' = layout /\ Ranks' = Ranks /\ call'.id = call.id
      /\ call'.size = call.size
  BY FrameSame DEF InForward, SameCall
<1>2. /\ cur' = cur /\ reply' = reply /\ inbox' = inbox /\ ForwardInv(r) /\ Runs(r)
  BY DEF InForward, HostInv
<1>3. Replied(r)' = Replied(r)
  BY <1>2 DEF Replied
<1>4. Runs(r)' = Runs(r)
  BY <1>2 DEF Runs
<1> QED BY <1>1, <1>2, <1>3, <1>4 DEF ForwardInv

Progress(r) ==
  /\ StreamTypes' /\ DeviceInv' /\ TicketInv' /\ HostInv(r)'
  /\ \A q \in Ranks \ {r} : queue'[q] = queue[q] /\ (slab'[q] = slab[q] \/ slab'[q] = None)

LEMMA ReadyIs ==
  ASSUME TpState
  PROVE  \E w, p \in Nat : \E G \in [Ranks -> Spots] : Ready(w, p, G)
<1>1. /\ layout \in Layouts /\ layout.kind = "TP" /\ call.id \in Nat
      /\ BackendInv /\ StreamTypes /\ round \in [Ranks -> Nat] /\ DeviceInv
  BY DEF TpState, StreamInv, SessionInv, SessionTypes
<1> QED BY <1>1 DEF DeviceInv, Ready

LEMMA DevicesInv ==
  ASSUME SameCall, NEW w \in Nat, NEW p \in Nat, \E H \in [Ranks -> Spots] : Devices(w, p, H)'
  PROVE  DeviceInv'
<1>1. Ranks' = Ranks
  BY FrameSame
<1> QED BY <1>1 DEF DeviceInv

LEMMA OperationsAre ==
  ASSUME NEW f \in Nat, NEW j \in Nat, NEW r \in Nat
  PROVE  /\ Embed(f) \in Instructions /\ Layer(f, j) \in Instructions
         /\ Flush \in Instructions /\ SumUp \in Instructions
         /\ Record(<<"written", r>>) \in Instructions
         /\ Record(<<"pulled", r>>) \in Instructions
         /\ Pull(r) \in Instructions
         /\ WaitFor(<<"written", r>>, j) \in Instructions
         /\ WaitFor(<<"pulled", r>>, j) \in Instructions
<1>1. <<"written", r>> \in Names /\ <<"pulled", r>> \in Names
  BY DEF Names
<1> QED BY <1>1 DEF Instructions, Embed, Layer, Flush, SumUp, Record, Pull, WaitFor

(* The records among an operation or three. *)
LEMMA RecordsAre ==
  ASSUME NEW e, NEW a, NEW b
  PROVE  /\ \A f, j : Layer(f, j) # Record(e)
         /\ \A f : Embed(f) # Record(e)
         /\ \A q : Pull(q) # Record(e)
         /\ \A n, x : WaitFor(x, n) # Record(e)
         /\ SumUp # Record(e) /\ Flush # Record(e)
         /\ Record(a) = Record(b) => a = b
<1>1. Record(e).op = "record"
  BY DEF Record
<1>2. /\ \A f, j : Layer(f, j).op = "layer"
      /\ \A f : Embed(f).op = "embed"
      /\ \A q : Pull(q).op = "pull"
      /\ \A n, x : WaitFor(x, n).op = "wait"
      /\ SumUp.op = "sum" /\ Flush.op = "flush"
  BY DEF Layer, Embed, Pull, WaitFor, SumUp, Flush
<1>3. Record(a).e = a /\ Record(b).e = b
  BY DEF Record
<1> QED BY <1>1, <1>2, <1>3

LEMMA AsksOne ==
  ASSUME NEW e, NEW o
  PROVE  Asks(<<o>>, e) <=> o = Record(e)
<1>1. DOMAIN <<o>> = {1} /\ <<o>>[1] = o
  OBVIOUS
<1> QED BY <1>1 DEF Asks

LEMMA AsksThree ==
  ASSUME NEW e, NEW o, NEW x, NEW y
  PROVE  Asks(<<o, x, y>>, e) <=> o = Record(e) \/ x = Record(e) \/ y = Record(e)
<1>1. DOMAIN <<o, x, y>> = {1, 2, 3} /\ <<o, x, y>>[1] = o /\ <<o, x, y>>[2] = x /\ <<o, x, y>>[3] = y
  OBVIOUS
<1>2. PICK s : s = <<o, x, y>>
  OBVIOUS
<1>3. DOMAIN s = {1, 2, 3} /\ s[1] = o /\ s[2] = x /\ s[3] = y
  BY <1>1, <1>2
<1>4. PICK z : z = Record(e)
  OBVIOUS
<1>5. (\E i \in DOMAIN s : s[i] = z) <=> o = z \/ x = z \/ y = z
  BY <1>3
<1> QED BY <1>2, <1>4, <1>5 DEF Asks

-----------------------------------------------------------------------------
LEMMA ThreeLead ==
  ASSUME NEW c, NEW o, NEW x, NEW y, NEW s \in Spots, NEW t \in Spots, NEW u \in Spots,
         NEW v \in Spots, Moves(c, o, s, t), Moves(c, x, t, u), Moves(c, y, u, v)
  PROVE  Leads(c, <<o, x, y>>, s, v)
<1>1. PICK ops : ops = <<o, x, y>>
  OBVIOUS
<1>2. Len(ops) = 3 /\ ops[1] = o /\ ops[2] = x /\ ops[3] = y
  BY <1>1
<1>3. PICK h : h = [i \in 1 .. 4 |-> IF i = 1 THEN s ELSE IF i = 2 THEN t ELSE IF i = 3 THEN u ELSE v]
  OBVIOUS
<1>4. h \in [1 .. 4 -> Spots] /\ h[1] = s /\ h[2] = t /\ h[3] = u /\ h[4] = v
  BY <1>3
<1>5. 1 .. 3 = {1, 2, 3} /\ 1 + 1 = 2 /\ 2 + 1 = 3 /\ 3 + 1 = 4
  OBVIOUS
<1>6. \A i \in 1 .. 3 : Moves(c, ops[i], h[i], h[i + 1])
  BY <1>2, <1>4, <1>5
<1> QED BY <1>1, <1>2, <1>4, <1>5, <1>6 DEF Leads

(* The layers of a round, alone or with the flush and the record behind them. *)
LEMMA LayersMove ==
  ASSUME NEW c \in Frames, NEW j \in Nat
  PROVE  LET f == c.forward
             o == Layer(f, j + 1)
         IN  /\ c.peers = {} => Leads(c, <<o>>, WholeOf(j), WholeOf(j + 1))
             /\ c.peers # {} => Leads(c, <<o>>, WholeOf(j), PartOf(j + 1))
             /\ c.peers # {} /\ c.events =>
                  Leads(c, <<o, Flush, Record(<<"written", c.rank>>)>>, WholeOf(j), ToldOf(j + 1))
<1> DEFINE f == c.forward
           o == Layer(f, j + 1)
           rec == Record(<<"written", c.rank>>)
           told == [PartOf(j + 1) EXCEPT !.told = 1]
<1>1. /\ WholeOf(j) \in Spots /\ WholeOf(j + 1) \in Spots /\ PartOf(j + 1) \in Spots
      /\ ToldOf(j + 1) \in Spots
  <2>1. {} \in SUBSET Nat /\ j + 1 \in Nat
    OBVIOUS
  <2> QED BY <2>1, SpotsAre
<1>2. WholeOf(j).round = j
  BY FieldsAre
<1>3. Moves(c, o, WholeOf(j), IF c.peers = {} THEN WholeOf(j + 1) ELSE PartOf(j + 1))
  <2>1. o = Layer(c.forward, WholeOf(j).round + 1) /\ WholeOf(j) = WholeOf(WholeOf(j).round)
    BY <1>2
  <2>2. (IF c.peers = {} THEN WholeOf(j + 1) ELSE PartOf(j + 1))
          = IF c.peers = {} THEN WholeOf(WholeOf(j).round + 1) ELSE PartOf(WholeOf(j).round + 1)
    BY <1>2
  <2> HIDE DEF o
  <2> QED BY <2>1, <2>2 DEF Moves
<1>4. PICK t : t = told
  OBVIOUS
<1>5. t \in Spots /\ t.has = "part" /\ t.told = 1 /\ ToldOf(j + 1) = [t EXCEPT !.told = 2]
  <2>1. PICK s \in Spots : s = PartOf(j + 1)
    BY <1>1
  <2>2. t = [s EXCEPT !.told = 1] /\ s.has = "part"
    <3>1. j + 1 \in Nat
      OBVIOUS
    <3> QED BY <1>4, <2>1, <3>1, FieldsAre
  <2>3. t \in Spots /\ t.has = "part" /\ t.told = 1
    BY <2>2 DEF Spots
  <2>4. [s EXCEPT !.told = 2] = [t EXCEPT !.told = 2]
    BY <2>2 DEF Spots
  <2> QED BY <2>1, <2>3, <2>4 DEF ToldOf
<1>6. Moves(c, Flush, PartOf(j + 1), t)
  <2>1. PartOf(j + 1).has = "part" /\ PartOf(j + 1).told = 0
    BY FieldsAre
  <2> QED BY <1>4, <2>1 DEF Moves
<1>7. c.events => Moves(c, rec, t, ToldOf(j + 1))
  BY <1>5 DEF Moves
<1> HIDE DEF o, rec
<1>8. c.peers = {} => Leads(c, <<o>>, WholeOf(j), WholeOf(j + 1))
  BY <1>1, <1>3, OneLeads
<1>9. c.peers # {} => Leads(c, <<o>>, WholeOf(j), PartOf(j + 1))
  BY <1>1, <1>3, OneLeads
<1>10. ASSUME c.peers # {}, c.events
       PROVE  Leads(c, <<o, Flush, rec>>, WholeOf(j), ToldOf(j + 1))
  BY <1>1, <1>3, <1>5, <1>6, <1>7, <1>10, ThreeLead
<1> QED BY <1>8, <1>9, <1>10 DEF o, rec

(* A thread that stays where it is between barriers keeps its ticket. *)
LEMMA SameTicket ==
  ASSUME TpState, NEW r \in Ranks, InForward(r), ticket' = ticket,
         PhaseOf(pc'[r]) = PhaseOf(pc[r]), layout.width > 1 => Through(r)' = Through(r)
  PROVE  TicketInv'
<1>1. layout' = layout /\ SameCall /\ backend' = backend
  BY DEF InForward
<1>2. CASE layout.width > 1
  <2>1. ASSUME NEW k \in Nat, Ticket(r, k) PROVE Ticket(r, k)'
    BY <1>1, <1>2, <2>1 DEF Ticket, PerRound
  <2>2. \A q \in Ranks \ {r} : ThreadSame(q) /\ ticket'[q] = ticket[q]
    BY DEF InForward
  <2> QED BY <1>1, <2>1, <2>2, TicketsKept
<1>3. CASE ~ layout.width > 1
  BY <1>1, <1>3 DEF TicketInv
<1> QED BY <1>2, <1>3

(* What a layer's step enqueues, and where it brings the stream. *)
LEMMA LayersEnqueue ==
  ASSUME NEW w, NEW p, NEW G, Ready(w, p, G), NEW r \in Ranks, InForward(r),
         NEW ops \in Seq(Instructions), Enqueue(r, ops), NEW j \in Nat,
         HostSpot(r) = WholeOf(j), pc'[r] \notin {"snap", "add"},
         \/ /\ Leads(FrameOf(r, w, p), ops, WholeOf(j), HostSpot(r)')
            /\ backend = "none" /\ \A e \in Events : ~ Asks(ops, e)
         \/ /\ Leads(FrameOf(r, w, p), ops, WholeOf(j), HostSpot(r)')
            /\ HostSpot(r)' = PartOf(j + 1)
            /\ ~ ByEvents /\ \A e \in Events : ~ Asks(ops, e)
         \/ /\ Leads(FrameOf(r, w, p), ops, WholeOf(j), HostSpot(r)')
            /\ HostSpot(r)' = ToldOf(j + 1) /\ ByEvents
            /\ \A e \in Events : Asks(ops, e) <=> e = <<"written", r>>
  PROVE  StreamTypes' /\ DeviceInv'
<1>1. /\ StreamTypes /\ Devices(w, p, G) /\ w \in Nat /\ p \in Nat /\ G \in [Ranks -> Spots]
      /\ SameCall /\ \A q \in Ranks \ {r} : ThreadSame(q)
  BY DEF Ready, InForward
<1>2. \A e \in Events : asked'[e] = IF Asks(ops, e) THEN asked[e] + 1 ELSE asked[e]
  BY <1>1, EnqueueIs
<1>3. <<"written", r>> \in Events /\ <<"pulled", r>> \in Events
      /\ <<"written", r>> # <<"pulled", r>>
  BY DEF Events
<1>4. Records(asked, w, p, r, WholeOf(j))
  BY <1>1 DEF Devices, At
<1>5. /\ TimesTold(WholeOf(j)) = j /\ TimesPulled(WholeOf(j)) = j
      /\ TimesTold(PartOf(j + 1)) = j /\ TimesPulled(PartOf(j + 1)) = j
      /\ TimesTold(ToldOf(j + 1)) = j + 1 /\ TimesPulled(ToldOf(j + 1)) = j
  <2>1. /\ TimesTold(WholeOf(j)) = j /\ TimesPulled(WholeOf(j)) = j
    BY CountsAre
  <2>2. PICK i \in Nat : i = j + 1
    OBVIOUS
  <2>3. /\ TimesTold(PartOf(i)) = i - 1 /\ TimesPulled(PartOf(i)) = i - 1
        /\ TimesTold(ToldOf(i)) = i /\ TimesPulled(ToldOf(i)) = i - 1
    BY CountsAre
  <2> QED BY <2>1, <2>2, <2>3
<1>6. PICK a, b \in Nat : a = asked[<<"written", r>>] /\ b = asked[<<"pulled", r>>]
  BY <1>1, <1>3 DEF StreamTypes
<1>7. a = w + (IF ByEvents THEN j ELSE 0) /\ b = p + (IF backend = "bar" THEN j ELSE 0)
  BY <1>4, <1>5, <1>6 DEF Records
<1>8. Records(asked', w, p, r, HostSpot(r)')
  <2>1. CASE backend = "none" /\ \A e \in Events : ~ Asks(ops, e)
    BY <1>2, <1>3, <1>6, <1>7, <2>1 DEF Records, ByEvents
  <2>2. CASE HostSpot(r)' = PartOf(j + 1) /\ ~ ByEvents /\ \A e \in Events : ~ Asks(ops, e)
    BY <1>2, <1>3, <1>5, <1>6, <1>7, <2>2 DEF Records
  <2>3. CASE /\ HostSpot(r)' = ToldOf(j + 1) /\ ByEvents
             /\ \A e \in Events : Asks(ops, e) <=> e = <<"written", r>>
    <3>1. asked'[<<"written", r>>] = a + 1 /\ asked'[<<"pulled", r>>] = b
      BY <1>2, <1>3, <1>6, <2>3
    <3>2. backend = "bar" /\ a + 1 = w + j + 1 /\ b = p + j
      BY <1>1, <1>7, <2>3 DEF ByEvents
    <3>3. w + j + 1 = w + (j + 1)
      BY <1>1
    <3> QED BY <1>5, <2>3, <3>1, <3>2, <3>3 DEF Records
  <2> QED BY <2>1, <2>2, <2>3
<1>9. ToldByHost(r, G[r])'
  BY DEF ToldByHost
<1>10. \A e \in Events : Asks(ops, e) => e \in OwnEvents(r)
  BY DEF OwnEvents
<1>11. Leads(FrameOf(r, w, p), ops, HostSpot(r), HostSpot(r)')
  OBVIOUS
<1>12. StreamTypes' /\ \E H \in [Ranks -> Spots] : Devices(w, p, H)'
  BY <1>1, <1>8, <1>9, <1>10, <1>11, ThreadEnqueues
<1> QED BY <1>1, <1>12, DevicesInv

LEMMA LayersProgress ==
  ASSUME TpState, NEW r \in Ranks, AllReduceStep(r), ArLayers(r)
  PROVE  Progress(r)
<1>1. InForward(r) /\ HostInv(r)
  BY ForwardFrame
<1>2. /\ SameCall /\ Runs(r) /\ Runs(r)' /\ Underway /\ cur[r].id = call.id
      /\ (backend = "bar" /\ EventPath(r)) = ByEvents
      /\ \A q \in Ranks \ {r} : ThreadSame(q)
      /\ DOMAIN pc = Ranks
  BY <1>1 DEF InForward
<1>3. PICK j \in Nat : j = round[r]
  BY <1>1 DEF InForward
<1>4. PICK f : f = call.id
  OBVIOUS
<1>5. /\ pc[r] = "layers" /\ j < NAr /\ UNCHANGED arVars /\ round'[r] = j + 1
      /\ f \in Nat /\ BackendInv /\ NAr \in Nat /\ round \in [Ranks -> Nat]
      /\ StreamTypes /\ layout \in Layouts /\ layout.kind = "TP"
  <2>1. pc[r] = "layers" /\ UNCHANGED arVars /\ round' = [round EXCEPT ![r] = round[r] + 1]
    BY DEF ArLayers
  <2>2. j < NAr
    BY <1>1, <1>3, <2>1 DEF HostInv, ForwardInv
  <2>3. f \in Nat /\ BackendInv /\ round \in [Ranks -> Nat]
    BY <1>4 DEF TpState, SessionInv, SessionTypes, StreamInv
  <2> QED BY <1>3, <2>1, <2>2, <2>3, TopologyAssumption DEF TpState, StreamInv
<1>6. PICK w, p \in Nat : \E G \in [Ranks -> Spots] : Ready(w, p, G)
  BY ReadyIs
<1>7. PICK G \in [Ranks -> Spots] : Ready(w, p, G)
  BY <1>6
<1>8. PICK c : c = FrameOf(r, w, p)
  OBVIOUS
<1>9. /\ c \in Frames /\ c.forward = f /\ c.rank = r /\ c.peers = Peers(r)
      /\ c.events = ByEvents
  BY <1>4, <1>5, <1>8, FrameIs
<1>10. HostSpot(r) = WholeOf(j)
  BY <1>2, <1>3, <1>5 DEF HostSpot
<1>11. /\ r \in Nat /\ layout.width \in Nat /\ layout.width > 0
       /\ layout.width = 1 => Peers(r) = {}
       /\ layout.width > 1 => Peers(r) # {}
  BY <1>5, TpPeers, TpLayout
<1>12. PICK o : o = Layer(f, j + 1)
  OBVIOUS
<1>13. PICK three : three = <<o, Flush, Record(<<"written", r>>)>>
  OBVIOUS
<1>14. /\ <<o>> \in Seq(Instructions) /\ three \in Seq(Instructions)
       /\ \A e \in Events : ~ Asks(<<o>>, e)
       /\ \A e \in Events : Asks(three, e) <=> e = <<"written", r>>
  <2>1. /\ o \in Instructions /\ Flush \in Instructions
        /\ Record(<<"written", r>>) \in Instructions
    <3>1. PICK i \in Nat : i = j + 1
      OBVIOUS
    <3> QED BY <1>5, <1>11, <1>12, <3>1, OperationsAre
  <2>2. \A e \in Events : ~ Asks(<<o>>, e)
    BY <1>12, AsksOne, RecordsAre
  <2>3. \A e \in Events : Asks(three, e) <=> e = <<"written", r>>
    BY <1>12, <1>13, AsksThree, RecordsAre
  <2>4. <<o>> \in Seq(Instructions)
    BY <2>1
  <2>5. three \in Seq(Instructions)
    <3>1. PICK x, y \in Instructions : x = Flush /\ y = Record(<<"written", r>>)
      BY <2>1
    <3> QED BY <1>13, <2>1, <3>1
  <2> QED BY <2>2, <2>3, <2>4, <2>5
<1>15. /\ \A q \in Ranks \ {r} : slab'[q] = slab[q]
       /\ ticket' = ticket /\ backend' = backend
  BY <1>5 DEF arVars
<1>16. CASE layout.width = 1
  <2>1. Enqueue(r, <<o>>) /\ GoesTo(r, IF j + 1 = NAr THEN "out" ELSE "layers")
    BY <1>2, <1>3, <1>4, <1>12, <1>16 DEF ArLayers
  <2>2. pc'[r] \in {"out", "layers"} /\ pc'[r] = IF j + 1 = NAr THEN "out" ELSE "layers"
    BY <1>2, <2>1 DEF GoesTo
  <2>3. HostSpot(r)' = WholeOf(j + 1)
    BY <1>2, <1>5, <2>2 DEF HostSpot
  <2>4. backend = "none"
    BY <1>5, <1>16 DEF BackendInv
  <2>5. Leads(c, <<o>>, WholeOf(j), WholeOf(j + 1))
    BY <1>9, <1>11, <1>12, <1>16, LayersMove
  <2>6. pc'[r] \notin {"snap", "add"}
    BY <2>2
  <2>7. StreamTypes' /\ DeviceInv'
    <3>1. PICK l : l = <<o>>
      OBVIOUS
    <3>2. Leads(FrameOf(r, w, p), l, WholeOf(j), HostSpot(r)') /\ \A e \in Events : ~ Asks(l, e)
      BY <1>8, <1>14, <2>3, <2>5, <3>1
    <3>3. l \in Seq(Instructions) /\ Enqueue(r, l)
      BY <1>14, <2>1, <3>1
    <3> QED BY <1>1, <1>7, <1>10, <2>4, <2>6, <3>2, <3>3, LayersEnqueue
  <2>8. TicketInv'
    <3>1. layout' = layout
      BY <1>2 DEF SameCall
    <3> QED BY <1>16, <3>1 DEF TicketInv
  <2>9. ForwardInv(r)'
    <3>1. pc'[r] \notin {"recv", "sent", "idle"} /\ pc'[r] \notin Waiting \cup {"publish"}
      BY <2>2 DEF Waiting
    <3> QED BY <1>1, <1>5, <2>2, <3>1, GoesOnInForward
  <2>10. DrainedInv(r)'
    BY <1>2, <2>2 DEF DrainedInv
  <2>11. \A q \in Ranks \ {r} : queue'[q] = queue[q]
    BY <1>5, <1>14, <2>1, EnqueueIs
  <2> QED BY <1>15, <2>7, <2>8, <2>9, <2>10, <2>11 DEF Progress, HostInv
<1>17. CASE layout.width > 1
  <2> DEFINE ops == IF ByEvents THEN three ELSE <<o>>
  <2>0. PICK l : l = ops
    OBVIOUS
  <2>1. Enqueue(r, l) /\ GoesTo(r, "publish")
    <3>1. layout.width # 1
      BY <1>11, <1>17
    <3> QED BY <1>2, <1>3, <1>4, <1>12, <1>13, <2>0, <3>1 DEF ArLayers
  <2>2. pc'[r] = "publish"
    BY <1>2, <2>1 DEF GoesTo
  <2>3. backend \in {"bar", "bounce"} /\ ByEvents' = ByEvents
    BY <1>2, <1>5, <1>17, FrameSame DEF BackendInv
  <2>4. HostSpot(r)' = IF ByEvents THEN ToldOf(j + 1) ELSE PartOf(j + 1)
    <3>1. ByEvents => backend = "bar"
      BY DEF ByEvents
    <3>2. HostSpot(r)' = IF backend = "bounce" THEN PartOf(j + 1)
                         ELSE IF ~ ByEvents THEN PartOf(j + 1) ELSE ToldOf(j + 1)
      BY <1>2, <1>5, <1>15, <2>2, <2>3 DEF HostSpot
    <3> QED BY <3>1, <3>2
  <2>5. /\ ~ ByEvents => Leads(c, l, WholeOf(j), PartOf(j + 1))
        /\ ByEvents => Leads(c, l, WholeOf(j), ToldOf(j + 1))
    <3>1. c.peers # {}
      BY <1>9, <1>11, <1>17
    <3>2. Leads(c, <<o>>, WholeOf(j), PartOf(j + 1))
      BY <1>9, <1>12, <3>1, LayersMove
    <3>3. ByEvents => Leads(c, three, WholeOf(j), ToldOf(j + 1))
      BY <1>9, <1>12, <1>13, <3>1, LayersMove
    <3> QED BY <2>0, <3>2, <3>3
  <2>6. /\ l \in Seq(Instructions)
        /\ ~ ByEvents => \A e \in Events : ~ Asks(l, e)
        /\ ByEvents => \A e \in Events : Asks(l, e) <=> e = <<"written", r>>
    BY <1>14, <2>0
  <2>7. pc'[r] \notin {"snap", "add"}
    BY <2>2
  <2>8. StreamTypes' /\ DeviceInv'
    <3>1. CASE ByEvents
      BY <1>1, <1>7, <1>8, <1>10, <2>1, <2>4, <2>5, <2>6, <2>7, <3>1, LayersEnqueue
    <3>2. CASE ~ ByEvents
      BY <1>1, <1>7, <1>8, <1>10, <2>1, <2>4, <2>5, <2>6, <2>7, <3>2, LayersEnqueue
    <3> QED BY <3>1, <3>2
  <2>9. TicketInv'
    <3>1. PhaseOf(pc'[r]) = PhaseOf(pc[r])
      BY <1>5, <2>2 DEF PhaseOf
    <3>2. Through(r)' = Through(r)
      BY <1>2, <1>3, <1>5, <2>2 DEF Through
    <3> QED BY <1>1, <1>15, <3>1, <3>2, SameTicket
  <2>10. ForwardInv(r)'
    BY <1>1, <1>5, <1>17, <2>2, GoesOnInForward
  <2>11. DrainedInv(r)'
    BY <1>2, <2>2 DEF DrainedInv
  <2>12. \A q \in Ranks \ {r} : queue'[q] = queue[q]
    BY <1>5, <2>1, <2>6, EnqueueIs
  <2> QED BY <1>15, <2>8, <2>9, <2>10, <2>11, <2>12 DEF Progress, HostInv
<1> QED BY <1>11, <1>16, <1>17

-----------------------------------------------------------------------------
(* A thread that arrives at the next barrier. *)
LEMMA NextTicket ==
  ASSUME TpState, NEW r \in Ranks, InForward(r), pc[r] # "layers", Arrive(r),
         pc[r] \notin Waiting \/ Open(r),
         \/ /\ PhaseOf(pc'[r]) = PhaseOf(pc[r]) + 1
            /\ {pc[r], pc'[r]} \subseteq {"publish", "snap", "add", "clear"}
         \/ /\ PhaseOf(pc[r]) = PerRound - 1 /\ PhaseOf(pc'[r]) = 0
            /\ pc[r] \in {"publish", "snap", "add", "clear"} /\ pc'[r] = "done"
  PROVE  TicketInv'
<1>1. /\ SameCall /\ Runs(r) /\ Runs(r)' /\ round' = round /\ round[r] \in Nat
      /\ \A q \in Ranks \ {r} : ThreadSame(q)
  BY DEF InForward
<1>2. ticket[r] = passes[0]
  <2>1. pc[r] \notin Waiting => ticket[r] = passes[0]
    BY DEF TpState, StepInv, BarrierInStep
  <2>2. Open(r) => ticket[r] = passes[0]
    BY RankTypes DEF TpState, StepInv, BarrierInStep, Open
  <2> QED BY <2>1, <2>2
<1>3. CASE /\ PhaseOf(pc'[r]) = PhaseOf(pc[r]) + 1
           /\ {pc[r], pc'[r]} \subseteq {"publish", "snap", "add", "clear"}
  <2>1. Through(r)' = Through(r)
    BY <1>1, <1>3 DEF Through
  <2> QED BY <1>1, <1>2, <1>3, <2>1, TicketArrives
<1>4. CASE /\ PhaseOf(pc[r]) = PerRound - 1 /\ PhaseOf(pc'[r]) = 0
           /\ pc[r] \in {"publish", "snap", "add", "clear"} /\ pc'[r] = "done"
  <2>1. Through(r)' = Through(r) + 1
    BY <1>1, <1>4 DEF Through
  <2> QED BY <1>1, <1>2, <1>4, <2>1, TicketArrives
<1> QED BY <1>3, <1>4

(* A drained stream whose device's place the thread changes for it. *)
LEMMA ThreadJumps ==
  ASSUME NEW w, NEW p, NEW G, Ready(w, p, G), SameCall, NEW r \in Ranks, NEW u \in Spots,
         queue[r] = <<>>, At(r, w, p, u)',
         \A q \in Ranks \ {r} : StreamSame(q) /\ ThreadSame(q),
         TimesTold(u) >= TimesTold(HostSpot(r)), TimesPulled(u) >= TimesPulled(HostSpot(r)),
         \A q \in Ranks \ {r} : Knows(u, q, G[q])
  PROVE  DeviceInv'
<1>1. w \in Nat /\ p \in Nat /\ G \in [Ranks -> Spots] /\ Devices(w, p, G)
  BY DEF Ready
<1>2. G[r] = HostSpot(r)
  BY DrainedSpot
<1>3. \E H \in [Ranks -> Spots] : Devices(w, p, H)'
  BY <1>1, <1>2, OneMoves
<1> QED BY <1>1, <1>3, DevicesInv

LEMMA PublishProgress ==
  ASSUME TpState, NEW r \in Ranks, AllReduceStep(r), ArPublish(r)
  PROVE  Progress(r)
<1>1. InForward(r) /\ HostInv(r)
  BY ForwardFrame
<1>2. /\ SameCall /\ Runs(r) /\ Runs(r)' /\ Underway /\ cur[r].id = call.id
      /\ (backend = "bar" /\ EventPath(r)) = ByEvents
      /\ \A q \in Ranks \ {r} : ThreadSame(q)
      /\ DOMAIN pc = Ranks /\ DOMAIN slab = Ranks
  BY <1>1 DEF InForward
<1>3. PICK j \in Nat : j = round[r]
  BY <1>1 DEF InForward
<1>4. /\ pc[r] = "publish" /\ pc'[r] = "snap" /\ Arrive(r) /\ round' = round
      /\ layout.width > 1 /\ j <= NAr
  <2>1. pc[r] = "publish" /\ GoesTo(r, "snap") /\ Arrive(r) /\ round' = round
    BY DEF ArPublish
  <2> QED BY <1>1, <1>2, <1>3, <2>1 DEF GoesTo, HostInv, ForwardInv
<1>5. PICK w, p \in Nat : \E G \in [Ranks -> Spots] : Ready(w, p, G)
  BY ReadyIs
<1>6. PICK G \in [Ranks -> Spots] : Ready(w, p, G)
  BY <1>5
<1>7. /\ Devices(w, p, G) /\ StreamTypes /\ layout \in Layouts /\ layout.kind = "TP"
      /\ call.id \in Nat
  BY <1>6 DEF Ready
<1>8. TicketInv'
  <2>1. PhaseOf(pc'[r]) = PhaseOf(pc[r]) + 1
    BY <1>4 DEF PhaseOf
  <2> QED BY <1>1, <1>4, <2>1, NextTicket DEF Waiting
<1>9. ForwardInv(r)'
  BY <1>1, <1>3, <1>4, GoesOnInForward
<1>10. \A q \in Ranks \ {r} : slab'[q] = slab[q]
  BY <1>2 DEF ArPublish, Publishes
<1>11. /\ ByEvents' = ByEvents /\ backend' = backend /\ FrameOf(r, w, p)' = FrameOf(r, w, p)
       /\ Ranks' = Ranks /\ call'.id = call.id
  BY <1>2, FrameSame DEF SameCall
<1>12. CASE ByEvents
  <2>1. UNCHANGED streamVars /\ backend = "bar"
    BY <1>2, <1>12 DEF ArPublish, ByEvents
  <2>2. HostSpot(r)' = HostSpot(r)
    BY <1>2, <1>4, <1>11, <1>12, <2>1 DEF HostSpot
  <2>3. ToldByHost(r, G[r])'
    BY <1>11, <1>12 DEF ToldByHost
  <2>4. StreamTypes' /\ DeviceInv'
    BY <1>2, <1>5, <1>6, <2>1, <2>2, <2>3, ThreadWaits, DevicesInv
  <2>5. DrainedInv(r)'
    BY <1>2, <1>11, <1>12, <2>1 DEF DrainedInv
  <2>6. queue' = queue
    BY <2>1 DEF streamVars
  <2> QED BY <1>8, <1>9, <1>10, <2>4, <2>5, <2>6 DEF Progress, HostInv
<1>13. CASE ~ ByEvents /\ backend = "bar"
  <2>1. /\ queue[r] = <<>> /\ dram' = [dram EXCEPT ![r] = buf[r]]
        /\ UNCHANGED <<queue, buf, staging, dst, asked, fired>>
    BY <1>2, <1>13 DEF ArPublish, Drained
  <2>2. HostSpot(r) = PartOf(j) /\ HostSpot(r)' = ToldOf(j)
    BY <1>2, <1>3, <1>4, <1>11, <1>13 DEF HostSpot
  <2>3. G[r] = PartOf(j)
    BY <1>6, <2>1, <2>2, DrainedSpot
  <2>4. At(r, w, p, PartOf(j))
    BY <1>7, <2>3 DEF Devices
  <2>5. /\ TimesTold(PartOf(j)) = j - 1 /\ TimesPulled(PartOf(j)) = j - 1
        /\ TimesSummed(PartOf(j)) = j - 1
        /\ TimesTold(ToldOf(j)) = j /\ TimesPulled(ToldOf(j)) = j - 1
        /\ TimesSummed(ToldOf(j)) = j - 1
    BY CountsAre
  <2>6. PICK u \in Spots : u = ToldOf(j)
    <3>1. {} \in SUBSET Nat
      OBVIOUS
    <3> QED BY <3>1, SpotsAre
  <2>7. /\ u.has = "part" /\ u.round = j /\ u.seen = {} /\ u.got = {} /\ u.clear = {}
        /\ PartOf(j).has = "part" /\ PartOf(j).round = j
    BY <2>6, FieldsAre
  <2>8. Leads(FrameOf(r, w, p), queue'[r], u, HostSpot(r)')
    BY <2>1, <2>2, <2>6, NowhereLeads
  <2>9. Shows(r, u)'
    <3>1. buf[r] = Content(call.id, j, {r}) /\ j > 0
      BY <2>4, <2>7 DEF At, Shows
    <3>2. dram'[r] = buf[r] /\ buf' = buf
      BY <1>7, <2>1 DEF StreamTypes
    <3> QED BY <1>11, <2>7, <3>1, <3>2 DEF Shows
  <2>10. ToldByHost(r, u)'
    <3>1. TimesTold(u) = j /\ round'[r] = j
      BY <1>3, <1>4, <2>5, <2>6
    <3> QED BY <3>1 DEF ToldByHost
  <2>11. Records(fired', w, p, r, u) /\ Records(asked', w, p, r, HostSpot(r)')
    <3>1. Records(fired, w, p, r, PartOf(j)) /\ Records(asked, w, p, r, PartOf(j))
      BY <2>2, <2>4 DEF At
    <3> QED BY <1>13, <2>1, <2>2, <2>5, <2>6, <3>1 DEF Records
  <2>12. At(r, w, p, u)'
    BY <1>2, <2>8, <2>9, <2>10, <2>11, AtBecomes
  <2>13. ASSUME NEW q \in Ranks \ {r} PROVE StreamSame(q) /\ ThreadSame(q)
    BY <1>2, <1>7, <2>1 DEF StreamSame, StreamTypes
  <2>14. ASSUME NEW q \in Ranks \ {r} PROVE Knows(u, q, G[q])
    <3>1. Knows(PartOf(j), q, G[q])
      BY <1>7, <2>3 DEF Devices
    <3>2. TimesSummed(u) = TimesSummed(PartOf(j))
      BY <2>5, <2>6
    <3> QED BY <2>7, <3>1, <3>2 DEF Knows
  <2>15. TimesTold(u) >= TimesTold(HostSpot(r)) /\ TimesPulled(u) >= TimesPulled(HostSpot(r))
    BY <2>2, <2>5, <2>6
  <2>16. DeviceInv'
    BY <1>2, <1>6, <2>1, <2>12, <2>13, <2>14, <2>15, ThreadJumps
  <2>17. StreamTypes'
    BY <1>2, <1>7, <2>1, FrameSame DEF StreamTypes
  <2>18. DrainedInv(r)'
    BY <1>2, <1>4, <1>11, <1>13, <2>1 DEF DrainedInv
  <2> QED BY <1>8, <1>9, <1>10, <2>1, <2>16, <2>17, <2>18 DEF Progress, HostInv
<1>14. CASE ~ ByEvents /\ backend = "bounce"
  <2>1. /\ queue[r] = <<>> /\ UNCHANGED streamVars /\ Publishes(r, HostCopy(buf[r]))
    BY <1>2, <1>14 DEF ArPublish, Drained
  <2>2. HostSpot(r) = PartOf(j) /\ HostSpot(r)' = HostSpot(r)
    BY <1>2, <1>3, <1>4, <1>11, <1>14 DEF HostSpot
  <2>3. ToldByHost(r, G[r])'
    BY <1>11, <1>14 DEF ToldByHost
  <2>4. StreamTypes' /\ DeviceInv'
    BY <1>2, <1>5, <1>6, <2>1, <2>2, <2>3, ThreadWaits, DevicesInv
  <2>5. buf[r] = Content(call.id, j, {r})
    <3>1. G[r] = PartOf(j)
      BY <1>6, <2>1, <2>2, DrainedSpot
    <3>2. Shows(r, PartOf(j))
      BY <1>7, <3>1 DEF Devices, At
    <3> QED BY <3>2, FieldsAre DEF Shows
  <2>6. slab'[r].sum = buf[r] /\ queue' = queue
    BY <1>2, <2>1 DEF Publishes, HostCopy, streamVars
  <2>7. DrainedInv(r)'
    BY <1>2, <1>3, <1>4, <1>11, <1>14, <2>1, <2>5, <2>6 DEF DrainedInv
  <2> QED BY <1>8, <1>9, <1>10, <2>4, <2>6, <2>7 DEF Progress, HostInv
<1>15. backend \in {"bar", "bounce"}
  BY <1>4, <1>6 DEF Ready, BackendInv
<1> QED BY <1>12, <1>13, <1>14, <1>15

-----------------------------------------------------------------------------
LEMMA NothingInOrder == SetToSeq({}) = <<>>
<1>1. SetToSeq({}) \in Seq({})
  BY FS_EmptySet, SetInSequence
<1>2. PICK a : a = SetToSeq({})
  OBVIOUS
<1>3. \A i \in DOMAIN a : FALSE
  <2>1. \A i \in DOMAIN a : a[i] \in {}
    BY <1>1, <1>2, LenProperties
  <2> QED BY <2>1
<1> QED BY <1>1, <1>2, <1>3, NothingIn

LEMMA ValuesAreFinite ==
  ASSUME NEW T, IsFiniteSet(T), NEW U, NEW f \in [T -> U], \A y \in U : \E x \in T : f[x] = y
  PROVE  IsFiniteSet(U)
<1>1. f \in Surjection(T, U)
  BY DEF Surjection
<1> QED BY <1>1, FS_Surjection

(* The pulls of a round, with the record behind them. *)
LEMMA PullsAre ==
  ASSUME layout \in Layouts, layout.kind = "TP", NEW r \in Ranks, NEW pulls,
         pulls = SetToSeq({Pull(q) : q \in Peers(r)}),
         NEW ops, ops = pulls \o <<Record(<<"pulled", r>>)>>
  PROVE  /\ pulls \in Seq(Instructions) /\ <<Record(<<"pulled", r>>)>> \in Seq(Instructions)
         /\ ops \in Seq(Instructions)
         /\ \A e \in Events : Asks(ops, e) <=> e = <<"pulled", r>>
<1> DEFINE S == {Pull(q) : q \in Peers(r)}
<1>1. IsFiniteSet(Peers(r)) /\ Peers(r) \in SUBSET Nat /\ r \in Nat
  BY TpPeers
<1>2. S \subseteq Instructions /\ Record(<<"pulled", r>>) \in Instructions
  <2>1. \A q \in Peers(r) : Pull(q) \in Instructions
    BY <1>1 DEF Instructions, Pull
  <2>2. Record(<<"pulled", r>>) \in Instructions
    BY <1>1 DEF Instructions, Record, Names
  <2> QED BY <2>1, <2>2
<1>3. pulls \in Seq(S)
  <2>1. IsFiniteSet(S)
    <3>1. PICK f : f = [q \in Peers(r) |-> Pull(q)]
      OBVIOUS
    <3>2. f \in [Peers(r) -> S] /\ \A y \in S : \E q \in Peers(r) : f[q] = y
      BY <3>1
    <3> HIDE DEF S
    <3> QED BY <1>1, <3>2, ValuesAreFinite
  <2> QED BY <2>1, SetInSequence
<1>4. pulls \in Seq(Instructions)
  BY <1>2, <1>3, SeqMonotonic, Zenon
<1>5. <<Record(<<"pulled", r>>)>> \in Seq(Instructions)
  <2>1. PICK x \in Instructions : x = Record(<<"pulled", r>>)
    BY <1>2
  <2> QED BY <2>1
<1>6. ops \in Seq(Instructions)
  BY <1>4, <1>5, ConcatProperties, Zenon
<1>7. \A e : ~ Asks(pulls, e)
  <2>1. \A e : \A x \in S : x # Record(e)
    BY RecordsAre
  <2> HIDE DEF S
  <2> QED BY <1>3, <2>1, AsksNothing
<1>8. \A e \in Events : Asks(ops, e) <=> Asks(<<Record(<<"pulled", r>>)>>, e)
  BY <1>4, <1>5, <1>7, AsksBoth
<1>9. \A e : Asks(<<Record(<<"pulled", r>>)>>, e) <=> Record(<<"pulled", r>>) = Record(e)
  BY AsksOne
<1> QED BY <1>4, <1>5, <1>6, <1>8, <1>9, RecordsAre

LEMMA WaitsAre ==
  ASSUME NEW peers \in SUBSET Nat, IsFiniteSet(peers), NEW n \in Nat,
         NEW name \in {"written", "pulled"},
         NEW waits, waits = SetToSeq({WaitFor(<<name, q>>, n) : q \in peers})
  PROVE  waits \in Seq(Instructions) /\ \A e : ~ Asks(waits, e)
<1> DEFINE S == {WaitFor(<<name, q>>, n) : q \in peers}
<1>1. S \subseteq Instructions
  BY DEF Instructions, WaitFor, Names
<1>2. waits \in Seq(S)
  <2>1. IsFiniteSet(S)
    <3>1. PICK f : f = [q \in peers |-> WaitFor(<<name, q>>, n)]
      OBVIOUS
    <3>2. f \in [peers -> S] /\ \A y \in S : \E q \in peers : f[q] = y
      BY <3>1
    <3> HIDE DEF S
    <3> QED BY <3>2, ValuesAreFinite
  <2> QED BY <2>1, SetInSequence
<1>3. waits \in Seq(Instructions)
  BY <1>1, <1>2, SeqMonotonic, Zenon
<1>4. \A e : \A x \in S : x # Record(e)
  BY RecordsAre
<1> HIDE DEF S
<1>5. \A e : ~ Asks(waits, e)
  BY <1>2, <1>4, AsksNothing
<1> QED BY <1>3, <1>5

(* What a rank past a barrier finds of a peer's records. *)
LEMMA AskedOf ==
  ASSUME TpState, NEW w, NEW p, NEW G, Ready(w, p, G), NEW r \in Ranks, NEW q \in Ranks,
         pc[r] \in {"snap", "add"}, Open(r), backend = "bar"
  PROVE  /\ pc[r] = "snap" /\ ByEvents => asked[<<"written", q>>] = w + round[r]
         /\ pc[r] = "add" => asked[<<"pulled", q>>] = p + round[r]
<1>1. PICK j \in Nat : j = round[r]
  BY RankTypes
<1>2. /\ Runs(q) /\ round[q] = j
      /\ pc[r] = "snap" => pc[q] \in {"snap", "add"}
      /\ pc[r] = "add" => pc[q] \in {"add", "clear"}
  BY <1>1, PeersBehind
<1>3. Records(asked, w, p, q, HostSpot(q)) /\ Peers(q) \in SUBSET Nat
  BY TpPeers DEF Ready, Devices, At
<1>4. /\ TimesTold(ToldOf(j)) = j /\ TimesTold(PulledOf(j, Peers(q))) = j
      /\ TimesPulled(PulledOf(j, Peers(q))) = j /\ TimesPulled(WholeOf(j)) = j
  BY <1>3, CountsAre, PeerCountsAre
<1>5. ASSUME pc[r] = "snap", ByEvents PROVE asked[<<"written", q>>] = w + j
  <2>1. HostSpot(q) = ToldOf(j) \/ HostSpot(q) = PulledOf(j, Peers(q))
    BY <1>2, <1>5 DEF HostSpot
  <2> QED BY <1>3, <1>4, <1>5, <2>1 DEF Records
<1>6. ASSUME pc[r] = "add" PROVE asked[<<"pulled", q>>] = p + j
  <2>1. HostSpot(q) = WholeOf(j) \/ HostSpot(q) = PulledOf(j, Peers(q))
    BY <1>2, <1>6 DEF HostSpot
  <2> QED BY <1>3, <1>4, <2>1 DEF Records
<1> QED BY <1>1, <1>5, <1>6

-----------------------------------------------------------------------------
(* A rank past the first barrier. *)
Pulling(r, j) ==
  /\ InForward(r) /\ HostInv(r) /\ pc[r] = "snap" /\ pc'[r] = "add" /\ Open(r) /\ Arrive(r)
  /\ round' = round /\ round[r] = j /\ layout.width > 1 /\ j <= NAr /\ j > 0 /\ slab' = slab
  /\ \A q \in Ranks : Runs(q) /\ round[q] = j /\ pc[q] \in {"snap", "add"}

LEMMA PullingIs ==
  ASSUME TpState, NEW r \in Ranks, AllReduceStep(r), ArPull(r)
  PROVE  \E j \in Nat : Pulling(r, j)
<1>1. InForward(r) /\ HostInv(r)
  BY ForwardFrame
<1>2. PICK j \in Nat : j = round[r]
  BY <1>1 DEF InForward
<1>3. /\ pc[r] = "snap" /\ Open(r) /\ Arrive(r) /\ round' = round /\ slab' = slab
      /\ GoesTo(r, "add")
  BY DEF ArPull
<1>4. pc'[r] = "add"
  BY <1>1, <1>3 DEF InForward, GoesTo
<1>5. layout.width > 1 /\ j <= NAr
  BY <1>1, <1>2, <1>3 DEF HostInv, ForwardInv, InForward, Waiting
<1>6. j > 0
  BY <1>2, <1>3, RankTypes DEF RankInv, PlaceInv, Begun, Waiting
<1>7. \A q \in Ranks : Runs(q) /\ round[q] = j /\ pc[q] \in {"snap", "add"}
  BY <1>2, <1>3, PeersBehind
<1> QED BY <1>1, <1>2, <1>3, <1>4, <1>5, <1>6, <1>7 DEF Pulling

(* The records behind a round's pulls. *)
LEMMA PullRecords ==
  ASSUME NEW w, NEW p, NEW G, Ready(w, p, G), NEW r \in Ranks, NEW j \in Nat,
         HostSpot(r) = ToldOf(j), backend = "bar",
         asked' \in [Events -> Nat],
         \A e \in Events : asked'[e] = IF e = <<"pulled", r>> THEN asked[e] + 1 ELSE asked[e]
  PROVE  Records(asked', w, p, r, PulledOf(j, Peers(r)))
<1>1. <<"written", r>> \in Events /\ <<"pulled", r>> \in Events
      /\ <<"written", r>> # <<"pulled", r>>
  BY DEF Events
<1>2. Records(asked, w, p, r, ToldOf(j)) /\ Peers(r) \in SUBSET Nat
  BY TpPeers DEF Ready, Devices, At
<1>3. /\ TimesTold(ToldOf(j)) = j /\ TimesPulled(ToldOf(j)) = j - 1
      /\ TimesTold(PulledOf(j, Peers(r))) = j /\ TimesPulled(PulledOf(j, Peers(r))) = j
  BY <1>2, CountsAre, PeerCountsAre
<1>4. w \in Nat /\ p \in Nat /\ asked \in [Events -> Nat]
  BY DEF Ready, StreamTypes
<1>5. PICK a, b \in Nat : a = asked[<<"written", r>>] /\ b = asked[<<"pulled", r>>]
  BY <1>1, <1>4
<1>6. asked'[<<"written", r>>] = a /\ asked'[<<"pulled", r>>] = b + 1
  BY <1>1, <1>5
<1>7. a = w + (IF ByEvents THEN j ELSE 0) /\ b = p + (j - 1)
  BY <1>2, <1>3, <1>5 DEF Records
<1> QED BY <1>3, <1>4, <1>6, <1>7 DEF Records

LEMMA FrameHas ==
  ASSUME NEW w, NEW p, NEW G, Ready(w, p, G), NEW r \in Ranks, NEW c, c = FrameOf(r, w, p)
  PROVE  /\ c \in Frames /\ c.rank = r /\ c.peers = Peers(r) /\ c.written = w /\ c.pulled = p
         /\ ByEvents => c.events
         /\ backend = "bar" => c.bar
         /\ IsFiniteSet(c.peers) /\ Peers(r) \in SUBSET Nat /\ Peers(r) \subseteq Ranks
<1>1. /\ layout \in Layouts /\ layout.kind = "TP" /\ call.id \in Nat /\ w \in Nat /\ p \in Nat
  BY DEF Ready
<1>2. /\ c \in Frames /\ c.rank = r /\ c.peers = Peers(r) /\ c.events = ByEvents
      /\ c.bar = (backend = "bar") /\ c.written = w /\ c.pulled = p /\ IsFiniteSet(c.peers)
  BY <1>1, FrameIs
<1>3. Peers(r) \in SUBSET Nat /\ Peers(r) = Ranks \ {r}
  BY <1>1, TpPeers
<1>4. ByEvents => c.events
  BY <1>2
<1>5. backend = "bar" => c.bar
  BY <1>2
<1> QED BY <1>2, <1>3, <1>4, <1>5

LEMMA PullByEvents ==
  ASSUME TpState, NEW w, NEW p, NEW G, Ready(w, p, G), NEW r \in Ranks,
         NEW j \in Nat, Pulling(r, j), ArPull(r), ByEvents
  PROVE  StreamTypes' /\ DeviceInv' /\ \A q \in Ranks \ {r} : queue'[q] = queue[q]
<1>1. /\ layout \in Layouts /\ layout.kind = "TP" /\ call.id \in Nat /\ StreamTypes
      /\ w \in Nat /\ p \in Nat /\ backend = "bar"
  BY DEF Ready, ByEvents
<1>2. /\ SameCall /\ Runs(r) /\ Runs(r)' /\ EventPath(r)
      /\ pc[r] = "snap" /\ pc'[r] = "add" /\ round[r] = j /\ round'[r] = j /\ Open(r)
      /\ \A q \in Ranks \ {r} : ThreadSame(q)
  BY DEF Pulling, InForward
<1>3. PICK c : c = FrameOf(r, w, p)
  OBVIOUS
<1>4. /\ c \in Frames /\ c.rank = r /\ c.peers = Peers(r) /\ c.events /\ c.bar /\ c.written = w
      /\ IsFiniteSet(c.peers) /\ Peers(r) \in SUBSET Nat /\ Peers(r) \subseteq Ranks
  BY <1>1, <1>3, FrameHas
<1>5. PICK waits : waits = SetToSeq({WaitFor(<<"written", q>>, w + j) : q \in Peers(r)})
  OBVIOUS
<1>6. PICK pulls : pulls = SetToSeq({Pull(q) : q \in Peers(r)})
  OBVIOUS
<1>7. PICK rec : rec = <<Record(<<"pulled", r>>)>>
  OBVIOUS
<1>8. waits \in Seq(Instructions) /\ \A e : ~ Asks(waits, e)
  <2>1. w + j \in Nat
    BY <1>1
  <2> QED BY <1>4, <1>5, <2>1, WaitsAre
<1>9. PICK rest : rest = pulls \o rec
  OBVIOUS
<1>10. /\ pulls \in Seq(Instructions) /\ rec \in Seq(Instructions) /\ rest \in Seq(Instructions)
       /\ \A e \in Events : Asks(rest, e) <=> e = <<"pulled", r>>
  BY <1>1, <1>6, <1>7, <1>9, PullsAre
<1>11. PICK ops : ops = waits \o rest
  OBVIOUS
<1>12. /\ ops \in Seq(Instructions) /\ ops = waits \o pulls \o rec
       /\ \A e \in Events : Asks(ops, e) <=> e = <<"pulled", r>>
  <2>1. ops \in Seq(Instructions)
    BY <1>8, <1>10, <1>11, ConcatProperties
  <2>2. ops = waits \o pulls \o rec
    <3>1. (waits \o pulls) \o rec = waits \o (pulls \o rec)
      BY <1>8, <1>10, ConcatAssociative
    <3> QED BY <1>9, <1>11, <3>1
  <2>3. \A e \in Events : Asks(ops, e) <=> e = <<"pulled", r>>
    BY <1>8, <1>10, <1>11, AsksBoth
  <2> QED BY <2>1, <2>2, <2>3
<1>13. Enqueue(r, ops)
  <2>1. {Wait(<<"written", q>>) : q \in Peers(r)} = {WaitFor(<<"written", q>>, w + j) : q \in Peers(r)}
    <3>1. ASSUME NEW q \in Peers(r) PROVE asked[<<"written", q>>] = w + j
      <4>1. q \in Ranks /\ pc[r] \in {"snap", "add"}
        BY <1>2, <1>4
      <4>2. asked[<<"written", q>>] = w + round[r]
        BY <1>1, <1>2, <4>1, AskedOf
      <4> QED BY <1>2, <4>2
    <3>2. \A q \in Peers(r) : Wait(<<"written", q>>) = WaitFor(<<"written", q>>, w + j)
      BY <3>1 DEF Wait, WaitFor
    <3> QED BY <3>2
  <2>2. Enqueue(r, SetToSeq({Wait(<<"written", q>>) : q \in Peers(r)})
                      \o SetToSeq({Pull(q) : q \in Peers(r)}) \o <<Record(<<"pulled", r>>)>>)
    BY <1>1, <1>2 DEF ArPull
  <2> QED BY <1>5, <1>6, <1>7, <1>12, <2>1, <2>2
<1>14. Leads(c, ops, ToldOf(j), PulledOf(j, Peers(r)))
  <2>1. Leads(c, waits, ToldOf(j), SeenOf(j, c.peers))
    BY <1>4, <1>5, WaitsLead
  <2>2. Leads(c, rest, SeenOf(j, c.peers), PulledOf(j, c.peers))
    BY <1>4, <1>6, <1>7, <1>9, PullsLead
  <2> QED BY <1>4, <1>8, <1>10, <1>11, <2>1, <2>2, BothLead
<1>15. ByEvents' = ByEvents /\ backend' = backend /\ Peers(r)' = Peers(r)
  BY <1>2, FrameSame DEF SameCall
<1>16. HostSpot(r) = ToldOf(j) /\ HostSpot(r)' = PulledOf(j, Peers(r))
  BY <1>1, <1>2, <1>15 DEF HostSpot
<1>17. /\ asked' \in [Events -> Nat] /\ \A q \in Ranks \ {r} : queue'[q] = queue[q]
       /\ \A e \in Events : asked'[e] = IF Asks(ops, e) THEN asked[e] + 1 ELSE asked[e]
  BY <1>1, <1>12, <1>13, EnqueueIs
<1>18. Records(asked', w, p, r, HostSpot(r)')
  BY <1>1, <1>12, <1>16, <1>17, PullRecords
<1>19. ToldByHost(r, G[r])'
  BY <1>15 DEF ToldByHost
<1>20. \A e \in Events : Asks(ops, e) => e \in OwnEvents(r)
  BY <1>12 DEF OwnEvents
<1>21. StreamTypes' /\ \E H \in [Ranks -> Spots] : Devices(w, p, H)'
  BY <1>2, <1>3, <1>12, <1>13, <1>14, <1>16, <1>18, <1>19, <1>20, ThreadEnqueues
<1> QED BY <1>1, <1>2, <1>17, <1>21, DevicesInv

LEMMA PullDrained ==
  ASSUME TpState, NEW w, NEW p, NEW G, Ready(w, p, G), NEW r \in Ranks,
         NEW j \in Nat, Pulling(r, j), ArPull(r), ~ ByEvents, backend = "bar"
  PROVE  StreamTypes' /\ DeviceInv' /\ \A q \in Ranks \ {r} : queue'[q] = queue[q]
<1>1. /\ layout \in Layouts /\ layout.kind = "TP" /\ call.id \in Nat /\ StreamTypes
      /\ w \in Nat /\ p \in Nat /\ Devices(w, p, G) /\ G \in [Ranks -> Spots]
  BY DEF Ready
<1>2. /\ SameCall /\ Runs(r) /\ Runs(r)' /\ ~ EventPath(r) /\ queue[r] = <<>>
      /\ pc[r] = "snap" /\ pc'[r] = "add" /\ round[r] = j /\ round'[r] = j /\ Open(r)
      /\ \A q \in Ranks \ {r} : ThreadSame(q)
  BY DEF Pulling, InForward, HostInv, DrainedInv
<1>3. PICK c : c = FrameOf(r, w, p)
  OBVIOUS
<1>4. /\ c \in Frames /\ c.rank = r /\ c.peers = Peers(r) /\ c.bar
      /\ IsFiniteSet(c.peers) /\ Peers(r) \in SUBSET Nat /\ Peers(r) \subseteq Ranks
  BY <1>3, FrameHas
<1>5. PICK pulls : pulls = SetToSeq({Pull(q) : q \in Peers(r)})
  OBVIOUS
<1>6. PICK rec : rec = <<Record(<<"pulled", r>>)>>
  OBVIOUS
<1>7. PICK ops : ops = pulls \o rec
  OBVIOUS
<1>8. /\ pulls \in Seq(Instructions) /\ rec \in Seq(Instructions) /\ ops \in Seq(Instructions)
      /\ \A e \in Events : Asks(ops, e) <=> e = <<"pulled", r>>
  BY <1>1, <1>5, <1>6, <1>7, PullsAre
<1>9. Enqueue(r, ops)
  <2>1. Enqueue(r, SetToSeq({}) \o SetToSeq({Pull(q) : q \in Peers(r)})
                     \o <<Record(<<"pulled", r>>)>>)
    BY <1>2 DEF ArPull
  <2>2. SetToSeq({}) \o pulls = pulls
    BY <1>8, NothingInOrder, ConcatEmptySeq
  <2> QED BY <1>5, <1>6, <1>7, <2>1, <2>2
<1>10. /\ queue' \in [Ranks -> Seq(Instructions)] /\ queue'[r] = ops
       /\ \A q \in Ranks \ {r} : queue'[q] = queue[q]
       /\ asked' \in [Events -> Nat]
       /\ \A e \in Events : asked'[e] = IF Asks(ops, e) THEN asked[e] + 1 ELSE asked[e]
       /\ UNCHANGED <<buf, dram, staging, dst, fired>>
  <2>1. /\ queue' \in [Ranks -> Seq(Instructions)] /\ queue'[r] = queue[r] \o ops
        /\ \A q \in Ranks \ {r} : queue'[q] = queue[q]
        /\ asked' \in [Events -> Nat]
        /\ \A e \in Events : asked'[e] = IF Asks(ops, e) THEN asked[e] + 1 ELSE asked[e]
        /\ UNCHANGED <<buf, dram, staging, dst, fired>>
    BY <1>1, <1>8, <1>9, EnqueueIs
  <2>2. <<>> \o ops = ops
    BY <1>8, ConcatEmptySeq
  <2> QED BY <1>2, <2>1, <2>2
<1>11. ByEvents' = ByEvents /\ backend' = backend /\ Peers(r)' = Peers(r) /\ Ranks' = Ranks
       /\ Events' = Events /\ call'.id = call.id
  BY <1>2, FrameSame DEF SameCall
<1>12. HostSpot(r) = ToldOf(j) /\ HostSpot(r)' = PulledOf(j, Peers(r))
  BY <1>1, <1>2, <1>11 DEF HostSpot
<1>13. G[r] = ToldOf(j)
  BY <1>2, <1>12, DrainedSpot
<1>14. PICK u \in Spots : u = SeenOf(j, Peers(r))
  BY <1>4, SpotsAre
<1>15. /\ u.has = "part" /\ u.round = j /\ u.seen = Peers(r) /\ u.got = {} /\ u.clear = {}
       /\ TimesTold(u) = j /\ TimesPulled(u) = j - 1 /\ TimesSummed(u) = j - 1
       /\ ToldOf(j).has = "part" /\ ToldOf(j).round = j /\ ToldOf(j).told = 2
       /\ TimesTold(ToldOf(j)) = j /\ TimesPulled(ToldOf(j)) = j - 1
       /\ TimesSummed(ToldOf(j)) = j - 1
  BY <1>4, <1>14, FieldsAre, PeerFieldsAre, CountsAre, PeerCountsAre
<1>16. At(r, w, p, ToldOf(j))
  BY <1>1, <1>13 DEF Devices
<1>17. Leads(FrameOf(r, w, p), queue'[r], u, HostSpot(r)')
  <2>1. Leads(c, ops, SeenOf(j, c.peers), PulledOf(j, c.peers))
    BY <1>4, <1>5, <1>6, <1>7, PullsLead
  <2> QED BY <1>3, <1>4, <1>10, <1>12, <1>14, <2>1
<1>18. Shows(r, u)'
  <2>1. Shows(r, ToldOf(j))
    BY <1>16 DEF At
  <2>2. /\ buf[r] = Content(call.id, j, {r}) /\ j > 0 /\ dram[r] = buf[r]
    BY <1>15, <2>1 DEF Shows
  <2> QED BY <1>10, <1>11, <1>15, <2>2 DEF Shows
<1>19. ToldByHost(r, u)'
  BY <1>2, <1>15 DEF ToldByHost
<1>20. Records(fired', w, p, r, u)
  <2>1. Records(fired, w, p, r, ToldOf(j))
    BY <1>16 DEF At
  <2> QED BY <1>10, <1>15, <2>1 DEF Records
<1>21. Records(asked', w, p, r, HostSpot(r)')
  <2>1. \A e \in Events : asked'[e] = IF e = <<"pulled", r>> THEN asked[e] + 1 ELSE asked[e]
    BY <1>8, <1>10
  <2> QED BY <1>10, <1>12, <2>1, PullRecords
<1>22. At(r, w, p, u)'
  BY <1>2, <1>17, <1>18, <1>19, <1>20, <1>21, AtBecomes
<1>23. ASSUME NEW q \in Ranks \ {r} PROVE StreamSame(q) /\ ThreadSame(q)
  <2>1. <<"written", q>> \in Events /\ <<"pulled", q>> \in Events
        /\ <<"written", q>> # <<"pulled", r>> /\ <<"pulled", q>> # <<"pulled", r>>
    BY DEF Events
  <2>2. /\ asked'[<<"written", q>>] = asked[<<"written", q>>]
        /\ asked'[<<"pulled", q>>] = asked[<<"pulled", q>>]
    BY <1>8, <1>10, <2>1
  <2> QED BY <1>2, <1>10, <2>2 DEF StreamSame
<1>24. ASSUME NEW q \in Ranks \ {r} PROVE Knows(u, q, G[q])
  <2>1. Knows(ToldOf(j), q, G[q])
    BY <1>1, <1>13 DEF Devices
  <2>2. TimesTold(G[q]) >= j
    <3>1. Runs(q) /\ round[q] = j /\ pc[q] \in {"snap", "add"}
      BY DEF Pulling
    <3>2. ToldByHost(q, G[q])
      BY <1>1 DEF Devices, At
    <3> QED BY <3>1, <3>2 DEF ToldByHost
  <2>3. TimesPulled(G[q]) >= j - 1
    BY <1>15, <2>1 DEF Knows
  <2> QED BY <1>15, <2>2, <2>3 DEF Knows
<1>25. TimesTold(u) >= TimesTold(HostSpot(r)) /\ TimesPulled(u) >= TimesPulled(HostSpot(r))
  BY <1>12, <1>15
<1>26. DeviceInv'
  BY <1>2, <1>22, <1>23, <1>24, <1>25, ThreadJumps
<1>27. StreamTypes'
  BY <1>1, <1>10, <1>11 DEF StreamTypes
<1> QED BY <1>10, <1>26, <1>27

LEMMA PullCopies ==
  ASSUME TpState, NEW w, NEW p, NEW G, Ready(w, p, G), NEW r \in Ranks,
         NEW j \in Nat, Pulling(r, j), ArPull(r), backend = "bounce"
  PROVE  StreamTypes' /\ DeviceInv' /\ queue' = queue /\ queue[r] = <<>>
<1>1. /\ layout \in Layouts /\ layout.kind = "TP" /\ call.id \in Nat /\ StreamTypes
      /\ w \in Nat /\ p \in Nat /\ Devices(w, p, G) /\ G \in [Ranks -> Spots]
  BY DEF Ready
<1>2. /\ SameCall /\ Runs(r) /\ Runs(r)' /\ queue[r] = <<>> /\ ~ ByEvents
      /\ pc[r] = "snap" /\ pc'[r] = "add" /\ round[r] = j /\ round'[r] = j /\ Open(r)
      /\ \A q \in Ranks \ {r} : ThreadSame(q)
  BY DEF Pulling, InForward, HostInv, DrainedInv, ByEvents
<1>3. /\ staging' = [staging EXCEPT ![r] = [q \in Ranks |-> slab[q].sum]]
      /\ UNCHANGED <<queue, buf, dram, dst, asked, fired, slab>>
  BY DEF ArPull
<1>4. ByEvents' = ByEvents /\ backend' = backend /\ Peers(r)' = Peers(r) /\ Ranks' = Ranks
       /\ Events' = Events /\ call'.id = call.id
  BY <1>2, FrameSame DEF SameCall
<1>5. Peers(r) \in SUBSET Nat /\ Peers(r) \subseteq Ranks /\ Group(Stage(r)) = Ranks
  <2>1. Peers(r) \in SUBSET Nat /\ Peers(r) = Ranks \ {r} /\ Group(Stage(r)) = Ranks
    BY <1>1, TpPeers
  <2> QED BY <2>1
<1>6. HostSpot(r) = PartOf(j) /\ HostSpot(r)' = CopiedOf(j, Peers(r))
  BY <1>2, <1>4 DEF HostSpot
<1>7. G[r] = PartOf(j)
  BY <1>2, <1>6, DrainedSpot
<1>8. PICK u \in Spots : u = CopiedOf(j, Peers(r))
  BY <1>5, SpotsAre
<1>9. /\ u.has = "part" /\ u.round = j /\ u.seen = {} /\ u.got = Peers(r) /\ u.clear = {}
      /\ u.told = 0
      /\ TimesTold(u) = j - 1 /\ TimesPulled(u) = j - 1 /\ TimesSummed(u) = j - 1
      /\ PartOf(j).has = "part" /\ PartOf(j).round = j
      /\ TimesTold(PartOf(j)) = j - 1 /\ TimesPulled(PartOf(j)) = j - 1
      /\ TimesSummed(PartOf(j)) = j - 1
  BY <1>5, <1>8, FieldsAre, PeerFieldsAre, CountsAre, PeerCountsAre
<1>10. At(r, w, p, PartOf(j))
  BY <1>1, <1>7 DEF Devices
<1>11. Leads(FrameOf(r, w, p), queue'[r], u, HostSpot(r)')
  BY <1>2, <1>3, <1>6, <1>8, NowhereLeads
<1>12. \A q \in Peers(r) : slab[q].sum = Content(call.id, j, {q})
  <2>1. \A q \in Ranks : slab[q] # None
    <3>1. SlabIsInStep
      BY SlabFollows DEF TpState, TpInv
    <3> QED BY <1>1, <1>2, <1>5, <3>1 DEF SlabIsInStep
  <2>2. ASSUME NEW q \in Ranks PROVE slab[q].sum = Content(call.id, j, {q})
    <3>1. round[q] = j /\ pc[q] \in {"snap", "add"}
      BY DEF Pulling
    <3>2. DrainedInv(q)
      BY RankTypes DEF HostInv
    <3> QED BY <2>1, <3>1, <3>2 DEF DrainedInv
  <2> QED BY <1>5, <2>2
<1>13. /\ staging'[r] = [q \in Ranks |-> slab[q].sum] /\ DOMAIN staging' = Ranks
       /\ \A q \in Ranks \ {r} : staging'[q] = staging[q]
  BY <1>1, <1>3 DEF StreamTypes
<1>14. Shows(r, u)'
  <2>1. Shows(r, PartOf(j))
    BY <1>10 DEF At
  <2>2. buf[r] = Content(call.id, j, {r}) /\ j > 0
    BY <1>9, <2>1 DEF Shows
  <2>3. \A q \in Peers(r) : staging'[r][q] = Content(call.id, j, {q})
    BY <1>5, <1>12, <1>13
  <2>4. /\ u.got \subseteq Ranks'
        /\ \A q \in u.got : staging'[r][q] = Content(call'.id, u.round, {q})
    BY <1>4, <1>5, <1>9, <2>3
  <2>5. buf'[r] = Content(call'.id, u.round, {r}) /\ u.round > 0 /\ ~ u.told > 0 /\ u.has # "whole"
    BY <1>3, <1>4, <1>9, <2>2
  <2> QED BY <2>4, <2>5 DEF Shows
<1>15. ToldByHost(r, u)'
  BY <1>4 DEF ToldByHost
<1>16. Records(fired', w, p, r, u) /\ Records(asked', w, p, r, HostSpot(r)')
  <2>1. Records(fired, w, p, r, PartOf(j)) /\ Records(asked, w, p, r, PartOf(j))
    BY <1>6, <1>10 DEF At
  <2> QED BY <1>2, <1>3, <1>6, <1>8, <1>9, <2>1 DEF Records
<1>17. At(r, w, p, u)'
  BY <1>2, <1>11, <1>14, <1>15, <1>16, AtBecomes
<1>18. ASSUME NEW q \in Ranks \ {r} PROVE StreamSame(q) /\ ThreadSame(q)
  BY <1>2, <1>3, <1>13 DEF StreamSame
<1>19. ASSUME NEW q \in Ranks \ {r} PROVE Knows(u, q, G[q])
  BY <1>9 DEF Knows
<1>20. TimesTold(u) >= TimesTold(HostSpot(r)) /\ TimesPulled(u) >= TimesPulled(HostSpot(r))
  BY <1>6, <1>9
<1>21. DeviceInv'
  BY <1>2, <1>17, <1>18, <1>19, <1>20, ThreadJumps
<1>22. StreamTypes'
  <2>1. \A q \in Ranks : DOMAIN staging'[q] = Ranks
    BY <1>1, <1>13 DEF StreamTypes
  <2> QED BY <1>1, <1>3, <1>4, <1>13, <2>1 DEF StreamTypes
<1> QED BY <1>2, <1>3, <1>21, <1>22

LEMMA PullProgress ==
  ASSUME TpState, NEW r \in Ranks, AllReduceStep(r), ArPull(r)
  PROVE  Progress(r)
<1>1. PICK j \in Nat : Pulling(r, j)
  BY PullingIs
<1>2. /\ InForward(r) /\ HostInv(r) /\ pc[r] = "snap" /\ pc'[r] = "add" /\ Open(r) /\ Arrive(r)
      /\ round'[r] = j /\ layout.width > 1 /\ j <= NAr /\ slab' = slab /\ Runs(r)'
  BY <1>1 DEF Pulling, InForward
<1>3. PICK w, p \in Nat : \E G \in [Ranks -> Spots] : Ready(w, p, G)
  BY ReadyIs
<1>4. PICK G \in [Ranks -> Spots] : Ready(w, p, G)
  BY <1>3
<1>5. backend \in {"bar", "bounce"} /\ (ByEvents => backend = "bar")
  BY <1>2, <1>4 DEF Ready, BackendInv, ByEvents
<1>6. StreamTypes' /\ DeviceInv' /\ \A q \in Ranks \ {r} : queue'[q] = queue[q]
  BY <1>1, <1>4, <1>5, PullByEvents, PullDrained, PullCopies
<1>7. TicketInv'
  <2>1. PhaseOf(pc'[r]) = PhaseOf(pc[r]) + 1
    BY <1>2 DEF PhaseOf
  <2> QED BY <1>2, <2>1, NextTicket
<1>8. ForwardInv(r)'
  BY <1>2, GoesOnInForward
<1>9. DrainedInv(r)'
  <2>1. backend' = backend /\ call'.id = call.id /\ round'[r] = round[r]
    BY <1>2 DEF InForward
  <2>2. CASE backend = "bounce"
    <3>1. queue'[r] = <<>>
      BY <1>1, <1>4, <2>2, PullCopies
    <3>2. slab[r] # None => slab[r].sum = Content(call.id, round[r], {r})
      BY <1>2, <2>2 DEF HostInv, DrainedInv
    <3> QED BY <1>2, <2>1, <3>1, <3>2 DEF DrainedInv
  <2>3. CASE backend = "bar"
    BY <1>2, <2>1, <2>3 DEF DrainedInv
  <2> QED BY <1>5, <2>2, <2>3
<1> QED BY <1>2, <1>6, <1>7, <1>8, <1>9 DEF Progress, HostInv

-----------------------------------------------------------------------------
(* A rank past the second barrier. *)
Adding(r, j) ==
  /\ InForward(r) /\ HostInv(r) /\ pc[r] = "add" /\ Open(r) /\ Arrive(r)
  /\ round' = round /\ round[r] = j /\ layout.width > 1 /\ j <= NAr
  /\ pc'[r] = IF backend = "bar" THEN "clear" ELSE "done"
  /\ \A q \in Ranks \ {r} : slab'[q] = slab[q] \/ slab'[q] = None

LEMMA AddingIs ==
  ASSUME TpState, NEW r \in Ranks, AllReduceStep(r), ArAdd(r)
  PROVE  \E j \in Nat : Adding(r, j)
<1>1. InForward(r) /\ HostInv(r)
  BY ForwardFrame
<1>2. PICK j \in Nat : j = round[r]
  BY <1>1 DEF InForward
<1>3. /\ pc[r] = "add" /\ Open(r) /\ Arrive(r) /\ round' = round
      /\ GoesTo(r, IF backend = "bar" THEN "clear" ELSE "done")
  BY DEF ArAdd
<1>4. pc'[r] = IF backend = "bar" THEN "clear" ELSE "done"
  BY <1>1, <1>3 DEF InForward, GoesTo
<1>5. layout.width > 1 /\ j <= NAr
  BY <1>1, <1>2, <1>3 DEF HostInv, ForwardInv, InForward, Waiting
<1>6. \A q \in Ranks \ {r} : slab'[q] = slab[q] \/ slab'[q] = None
  BY DEF ArAdd
<1> QED BY <1>1, <1>2, <1>3, <1>4, <1>5, <1>6 DEF Adding

LEMMA AddByEvents ==
  ASSUME TpState, NEW w, NEW p, NEW G, Ready(w, p, G), NEW r \in Ranks,
         NEW j \in Nat, Adding(r, j), ArAdd(r), backend = "bar"
  PROVE  StreamTypes' /\ DeviceInv' /\ \A q \in Ranks \ {r} : queue'[q] = queue[q]
<1>1. /\ layout \in Layouts /\ layout.kind = "TP" /\ call.id \in Nat /\ StreamTypes
      /\ w \in Nat /\ p \in Nat
  BY DEF Ready
<1>2. /\ SameCall /\ Runs(r) /\ Runs(r)'
      /\ pc[r] = "add" /\ pc'[r] = "clear" /\ round[r] = j /\ round'[r] = j /\ Open(r)
      /\ \A q \in Ranks \ {r} : ThreadSame(q)
  BY DEF Adding, InForward
<1>3. PICK c : c = FrameOf(r, w, p)
  OBVIOUS
<1>4. /\ c \in Frames /\ c.rank = r /\ c.peers = Peers(r) /\ c.pulled = p
      /\ IsFiniteSet(c.peers) /\ Peers(r) \in SUBSET Nat /\ Peers(r) \subseteq Ranks
  BY <1>3, FrameHas
<1>5. PICK waits : waits = SetToSeq({WaitFor(<<"pulled", q>>, p + j) : q \in Peers(r)})
  OBVIOUS
<1>6. waits \in Seq(Instructions) /\ \A e : ~ Asks(waits, e)
  <2>1. p + j \in Nat
    BY <1>1
  <2> QED BY <1>4, <1>5, <2>1, WaitsAre
<1>7. <<SumUp>> \in Seq(Instructions) /\ \A e : ~ Asks(<<SumUp>>, e)
  <2>1. PICK x \in Instructions : x = SumUp
    BY DEF Instructions, SumUp
  <2> QED BY <2>1, AsksOne, RecordsAre
<1>8. PICK ops : ops = waits \o <<SumUp>>
  OBVIOUS
<1>9. ops \in Seq(Instructions) /\ \A e : ~ Asks(ops, e)
  BY <1>6, <1>7, <1>8, ConcatProperties, AsksBoth
<1>10. Enqueue(r, ops)
  <2>1. {Wait(<<"pulled", q>>) : q \in Peers(r)} = {WaitFor(<<"pulled", q>>, p + j) : q \in Peers(r)}
    <3>1. ASSUME NEW q \in Peers(r) PROVE asked[<<"pulled", q>>] = p + j
      <4>1. q \in Ranks /\ pc[r] \in {"snap", "add"}
        BY <1>2, <1>4
      <4>2. asked[<<"pulled", q>>] = p + round[r]
        BY <1>1, <1>2, <4>1, AskedOf
      <4> QED BY <1>2, <4>2
    <3>2. \A q \in Peers(r) : Wait(<<"pulled", q>>) = WaitFor(<<"pulled", q>>, p + j)
      BY <3>1 DEF Wait, WaitFor
    <3> QED BY <3>2
  <2>2. Enqueue(r, SetToSeq({Wait(<<"pulled", q>>) : q \in Peers(r)}) \o <<SumUp>>)
    BY DEF ArAdd
  <2> QED BY <1>5, <1>8, <2>1, <2>2
<1>11. Leads(c, ops, PulledOf(j, Peers(r)), WholeOf(j))
  BY <1>4, <1>5, <1>8, AddsLead
<1>12. ByEvents' = ByEvents /\ backend' = backend /\ Peers(r)' = Peers(r)
  BY <1>2, FrameSame DEF SameCall
<1>13. HostSpot(r) = PulledOf(j, Peers(r)) /\ HostSpot(r)' = WholeOf(j)
  BY <1>2, <1>12 DEF HostSpot
<1>14. /\ asked' \in [Events -> Nat] /\ \A q \in Ranks \ {r} : queue'[q] = queue[q]
       /\ \A e \in Events : asked'[e] = asked[e]
  <2>1. /\ asked' \in [Events -> Nat] /\ \A q \in Ranks \ {r} : queue'[q] = queue[q]
        /\ \A e \in Events : asked'[e] = IF Asks(ops, e) THEN asked[e] + 1 ELSE asked[e]
    BY <1>1, <1>9, <1>10, EnqueueIs
  <2> QED BY <1>9, <2>1
<1>15. Records(asked', w, p, r, HostSpot(r)')
  <2>1. Records(asked, w, p, r, PulledOf(j, Peers(r)))
    BY <1>13 DEF Ready, Devices, At
  <2>2. /\ TimesTold(PulledOf(j, Peers(r))) = j /\ TimesPulled(PulledOf(j, Peers(r))) = j
        /\ TimesTold(WholeOf(j)) = j /\ TimesPulled(WholeOf(j)) = j
    BY <1>4, CountsAre, PeerCountsAre
  <2>3. <<"written", r>> \in Events /\ <<"pulled", r>> \in Events
    BY DEF Events
  <2> QED BY <1>13, <1>14, <2>1, <2>2, <2>3 DEF Records
<1>16. ToldByHost(r, G[r])'
  BY <1>2 DEF ToldByHost
<1>17. StreamTypes' /\ \E H \in [Ranks -> Spots] : Devices(w, p, H)'
  BY <1>2, <1>3, <1>9, <1>10, <1>11, <1>13, <1>15, <1>16, ThreadEnqueues
<1> QED BY <1>1, <1>2, <1>14, <1>17, DevicesInv

LEMMA AddProgress ==
  ASSUME TpState, NEW r \in Ranks, AllReduceStep(r), ArAdd(r)
  PROVE  Progress(r)
<1>1. PICK j \in Nat : Adding(r, j)
  BY AddingIs
<1>2. /\ InForward(r) /\ HostInv(r) /\ pc[r] = "add" /\ Open(r) /\ Arrive(r)
      /\ round'[r] = j /\ round[r] = j /\ layout.width > 1 /\ j <= NAr /\ Runs(r) /\ Runs(r)'
      /\ pc'[r] = IF backend = "bar" THEN "clear" ELSE "done"
      /\ \A q \in Ranks \ {r} : slab'[q] = slab[q] \/ slab'[q] = None
      /\ SameCall /\ \A q \in Ranks \ {r} : ThreadSame(q)
  BY <1>1 DEF Adding, InForward
<1>3. PICK w, p \in Nat : \E G \in [Ranks -> Spots] : Ready(w, p, G)
  BY ReadyIs
<1>4. PICK G \in [Ranks -> Spots] : Ready(w, p, G)
  BY <1>3
<1>5. backend \in {"bar", "bounce"} /\ ByEvents' = ByEvents /\ backend' = backend
      /\ Peers(r)' = Peers(r)
  BY <1>2, <1>4, FrameSame DEF Ready, BackendInv, SameCall
<1>6. StreamTypes' /\ DeviceInv' /\ \A q \in Ranks \ {r} : queue'[q] = queue[q]
  <2>1. CASE backend = "bar"
    BY <1>1, <1>4, <2>1, AddByEvents
  <2>2. CASE backend = "bounce"
    <3>1. UNCHANGED streamVars
      BY <2>2 DEF ArAdd
    <3>2. ~ ByEvents /\ pc'[r] = "done"
      BY <1>2, <2>2 DEF ByEvents
    <3>3. HostSpot(r)' = HostSpot(r)
      BY <1>2, <1>5, <2>2, <3>2 DEF HostSpot
    <3>4. ToldByHost(r, G[r])'
      BY <1>5, <2>2 DEF ToldByHost
    <3>5. StreamTypes' /\ DeviceInv'
      BY <1>2, <1>3, <1>4, <3>1, <3>3, <3>4, ThreadWaits, DevicesInv
    <3> QED BY <3>1, <3>5 DEF streamVars
  <2> QED BY <1>5, <2>1, <2>2
<1>7. TicketInv'
  <2>1. CASE backend = "bar"
    <3>1. PhaseOf(pc'[r]) = PhaseOf(pc[r]) + 1
      BY <1>2, <2>1 DEF PhaseOf
    <3> QED BY <1>2, <2>1, <3>1, NextTicket
  <2>2. CASE backend = "bounce"
    <3>1. PhaseOf(pc[r]) = PerRound - 1 /\ PhaseOf(pc'[r]) = 0
      BY <1>2, <2>2 DEF PhaseOf, PerRound
    <3> QED BY <1>2, <2>2, <3>1, NextTicket
  <2> QED BY <1>5, <2>1, <2>2
<1>8. ForwardInv(r)'
  BY <1>2, GoesOnInForward
<1>9. DrainedInv(r)'
  <2>1. CASE backend = "bounce"
    <3>1. queue'[r] = <<>>
      BY <1>2, <2>1 DEF HostInv, DrainedInv, ArAdd, streamVars
    <3> QED BY <1>2, <1>5, <2>1, <3>1 DEF DrainedInv
  <2>2. CASE backend = "bar"
    BY <1>2, <1>5, <2>2 DEF DrainedInv
  <2> QED BY <1>5, <2>1, <2>2
<1> QED BY <1>2, <1>6, <1>7, <1>8, <1>9 DEF Progress, HostInv

LEMMA ClearProgress ==
  ASSUME TpState, NEW r \in Ranks, AllReduceStep(r), ArClear(r)
  PROVE  Progress(r)
<1>1. InForward(r) /\ HostInv(r)
  BY ForwardFrame
<1>2. /\ SameCall /\ Runs(r) /\ Runs(r)' /\ \A q \in Ranks \ {r} : ThreadSame(q)
  BY <1>1 DEF InForward
<1>3. /\ pc[r] = "clear" /\ Open(r) /\ Arrive(r) /\ round' = round /\ UNCHANGED streamVars
      /\ pc'[r] = "done" /\ backend = "bar"
      /\ \A q \in Ranks \ {r} : slab'[q] = slab[q] \/ slab'[q] = None
  <2>1. pc[r] = "clear" /\ Open(r) /\ Arrive(r) /\ round' = round /\ UNCHANGED streamVars
        /\ GoesTo(r, "done") /\ \A q \in Ranks : slab'[q] = slab[q] \/ slab'[q] = None
    BY DEF ArClear
  <2>2. backend = "bar"
    BY <2>1 DEF TpState, StepInv, PhasesInStep
  <2> QED BY <1>1, <2>1, <2>2 DEF GoesTo, InForward
<1>4. layout.width > 1 /\ round'[r] <= NAr
  BY <1>1, <1>2, <1>3 DEF HostInv, ForwardInv, Waiting
<1>5. PICK w, p \in Nat : \E G \in [Ranks -> Spots] : Ready(w, p, G)
  BY ReadyIs
<1>6. PICK G \in [Ranks -> Spots] : Ready(w, p, G)
  BY <1>5
<1>7. backend' = backend /\ ByEvents' = ByEvents
  BY <1>2, FrameSame DEF SameCall
<1>8. HostSpot(r)' = HostSpot(r) /\ ToldByHost(r, G[r])'
  BY <1>2, <1>3, <1>7 DEF HostSpot, ToldByHost
<1>9. StreamTypes' /\ DeviceInv'
  BY <1>2, <1>3, <1>5, <1>6, <1>8, ThreadWaits, DevicesInv
<1>10. TicketInv'
  <2>1. PhaseOf(pc[r]) = PerRound - 1 /\ PhaseOf(pc'[r]) = 0
    BY <1>3 DEF PhaseOf, PerRound
  <2> QED BY <1>1, <1>3, <2>1, NextTicket
<1>11. ForwardInv(r)'
  BY <1>1, <1>3, <1>4, GoesOnInForward
<1>12. DrainedInv(r)'
  BY <1>2, <1>3, <1>7 DEF DrainedInv
<1>13. queue' = queue
  BY <1>3 DEF streamVars
<1> QED BY <1>3, <1>9, <1>10, <1>11, <1>12, <1>13 DEF Progress, HostInv

(* The bounce writes the sum back behind the barriers. *)
LEMMA DoneWrites ==
  ASSUME TpState, NEW w, NEW p, NEW G, Ready(w, p, G), NEW r \in Ranks, NEW j \in Nat,
         InForward(r), HostInv(r), pc[r] = "done", pc'[r] \in {"out", "layers"},
         round[r] = j, round'[r] = j, ArDone(r), backend = "bounce"
  PROVE  StreamTypes' /\ DeviceInv' /\ queue' = queue
<1>1. /\ layout \in Layouts /\ layout.kind = "TP" /\ call.id \in Nat /\ StreamTypes
      /\ w \in Nat /\ p \in Nat /\ Devices(w, p, G) /\ G \in [Ranks -> Spots]
  BY DEF Ready
<1>2. /\ SameCall /\ Runs(r) /\ Runs(r)' /\ queue[r] = <<>> /\ ~ ByEvents
      /\ \A q \in Ranks \ {r} : ThreadSame(q)
  BY DEF InForward, HostInv, DrainedInv, ByEvents
<1>3. /\ buf' = [buf EXCEPT ![r] = Total(buf[r], staging[r], Peers(r))]
      /\ UNCHANGED <<queue, dram, staging, dst, asked, fired>>
  BY DEF ArDone, Writes
<1>4. ByEvents' = ByEvents /\ backend' = backend /\ Peers(r)' = Peers(r) /\ Ranks' = Ranks
       /\ Events' = Events /\ call'.id = call.id
  BY <1>2, FrameSame DEF SameCall
<1>5. Peers(r) \in SUBSET Nat /\ Peers(r) = Ranks \ {r} /\ {r} \cup Peers(r) = Ranks
  BY <1>1, TpPeers
<1>6. HostSpot(r) = CopiedOf(j, Peers(r)) /\ HostSpot(r)' = WholeOf(j)
  BY <1>2, <1>4 DEF HostSpot
<1>7. G[r] = CopiedOf(j, Peers(r))
  BY <1>2, <1>6, DrainedSpot
<1>8. PICK u \in Spots : u = WholeOf(j)
  <2>1. {} \in SUBSET Nat
    OBVIOUS
  <2> QED BY <2>1, SpotsAre
<1>9. PICK s : s = CopiedOf(j, Peers(r))
  OBVIOUS
<1>10. /\ u.has = "whole" /\ u.round = j /\ u.seen = {} /\ u.got = {} /\ u.clear = {}
       /\ TimesTold(u) = j /\ TimesPulled(u) = j /\ TimesSummed(u) = j
       /\ s.has = "part" /\ s.round = j /\ s.got = Peers(r)
       /\ TimesTold(s) = j - 1 /\ TimesPulled(s) = j - 1
  BY <1>5, <1>8, <1>9, FieldsAre, PeerFieldsAre, CountsAre, PeerCountsAre
<1>11. At(r, w, p, s)
  BY <1>1, <1>7, <1>9 DEF Devices
<1>12. Leads(FrameOf(r, w, p), queue'[r], u, HostSpot(r)')
  BY <1>2, <1>3, <1>6, <1>8, NowhereLeads
<1>13. buf'[r] = Content(call.id, j, Ranks)
  <2>1. Shows(r, s)
    BY <1>11 DEF At
  <2>2. buf[r] = Content(call.id, j, {r})
    BY <1>10, <2>1 DEF Shows
  <2>3. \A q \in Peers(r) : staging[r][q] = Content(call.id, j, {q})
    BY <1>10, <2>1 DEF Shows
  <2>4. Total(buf[r], staging[r], Peers(r)) = Content(call.id, j, Ranks)
    BY <1>5, <2>2, <2>3 DEF Total, Content
  <2> QED BY <1>1, <1>3, <2>4 DEF StreamTypes
<1>14. Shows(r, u)'
  BY <1>4, <1>10, <1>13 DEF Shows
<1>15. ToldByHost(r, u)'
  BY <1>4 DEF ToldByHost
<1>16. Records(fired', w, p, r, u) /\ Records(asked', w, p, r, HostSpot(r)')
  <2>1. Records(fired, w, p, r, s) /\ Records(asked, w, p, r, s)
    BY <1>6, <1>9, <1>11 DEF At
  <2> QED BY <1>2, <1>3, <1>6, <1>8, <2>1 DEF Records
<1>17. At(r, w, p, u)'
  BY <1>2, <1>12, <1>14, <1>15, <1>16, AtBecomes
<1>18. ASSUME NEW q \in Ranks \ {r} PROVE StreamSame(q) /\ ThreadSame(q)
  BY <1>1, <1>2, <1>3 DEF StreamSame, StreamTypes
<1>19. ASSUME NEW q \in Ranks \ {r} PROVE Knows(u, q, G[q])
  BY <1>10 DEF Knows
<1>20. TimesTold(u) >= TimesTold(HostSpot(r)) /\ TimesPulled(u) >= TimesPulled(HostSpot(r))
  BY <1>6, <1>9, <1>10
<1>21. DeviceInv'
  BY <1>2, <1>17, <1>18, <1>19, <1>20, ThreadJumps
<1>22. StreamTypes'
  BY <1>1, <1>3, <1>4 DEF StreamTypes
<1> QED BY <1>3, <1>21, <1>22

LEMMA DoneProgress ==
  ASSUME TpState, NEW r \in Ranks, AllReduceStep(r), ArDone(r)
  PROVE  Progress(r)
<1>1. InForward(r) /\ HostInv(r)
  BY ForwardFrame
<1>2. /\ SameCall /\ Runs(r) /\ Runs(r)' /\ \A q \in Ranks \ {r} : ThreadSame(q)
  BY <1>1 DEF InForward
<1>3. PICK j \in Nat : j = round[r]
  BY <1>1 DEF InForward
<1>4. /\ pc[r] = "done" /\ Open(r) /\ round' = round /\ slab' = slab /\ ticket' = ticket
      /\ pc'[r] = IF j = NAr THEN "out" ELSE "layers"
  <2>1. pc[r] = "done" /\ Open(r) /\ round' = round /\ slab' = slab /\ ticket' = ticket
        /\ GoesTo(r, IF round[r] = NAr THEN "out" ELSE "layers")
    BY DEF ArDone
  <2> QED BY <1>1, <1>3, <2>1 DEF GoesTo, InForward
<1>5. layout.width > 1 /\ j <= NAr /\ NAr \in Nat
  BY <1>1, <1>2, <1>3, <1>4, TopologyAssumption DEF HostInv, ForwardInv, Waiting
<1>6. PICK w, p \in Nat : \E G \in [Ranks -> Spots] : Ready(w, p, G)
  BY ReadyIs
<1>7. PICK G \in [Ranks -> Spots] : Ready(w, p, G)
  BY <1>6
<1>8. backend' = backend /\ ByEvents' = ByEvents /\ backend \in {"bar", "bounce"}
  BY <1>2, <1>5, <1>7, FrameSame DEF SameCall, Ready, BackendInv
<1>9. pc'[r] \in {"out", "layers"}
  BY <1>4
<1>10. StreamTypes' /\ DeviceInv' /\ \A q \in Ranks \ {r} : queue'[q] = queue[q]
  <2>1. CASE backend = "bar"
    <3>1. UNCHANGED streamVars
      BY <2>1 DEF ArDone
    <3>2. HostSpot(r)' = HostSpot(r) /\ ToldByHost(r, G[r])'
      BY <1>2, <1>4, <1>8, <1>9, <2>1 DEF HostSpot, ToldByHost
    <3>3. StreamTypes' /\ DeviceInv'
      BY <1>2, <1>6, <1>7, <3>1, <3>2, ThreadWaits, DevicesInv
    <3> QED BY <3>1, <3>3 DEF streamVars
  <2>2. CASE backend = "bounce"
    <3>1. round[r] = j /\ round'[r] = j
      BY <1>3, <1>4
    <3> QED BY <1>1, <1>4, <1>7, <1>9, <2>2, <3>1, DoneWrites
  <2> QED BY <1>8, <2>1, <2>2
<1>11. TicketInv'
  <2>1. PhaseOf(pc'[r]) = PhaseOf(pc[r]) /\ Through(r)' = Through(r)
    BY <1>2, <1>4, <1>9 DEF PhaseOf, Through
  <2> QED BY <1>1, <1>4, <2>1, SameTicket
<1>12. ForwardInv(r)'
  <2>1. round'[r] = j
    BY <1>3, <1>4
  <2>2. pc'[r] \notin {"recv", "sent", "idle"} /\ pc'[r] \notin Waiting \cup {"publish"}
    BY <1>9 DEF Waiting
  <2>3. pc'[r] = "layers" => j # NAr
    BY <1>4
  <2>4. pc'[r] = "out" => j = NAr
    BY <1>4
  <2> QED BY <1>1, <1>5, <2>1, <2>2, <2>3, <2>4, GoesOnInForward
<1>13. DrainedInv(r)'
  BY <1>2, <1>9 DEF DrainedInv
<1> QED BY <1>4, <1>10, <1>11, <1>12, <1>13 DEF Progress, HostInv

LEMMA AllReduceStreams ==
  ASSUME TpState, NEW r \in Ranks, AllReduceStep(r)
  PROVE  StreamInv'
<1>1. Progress(r)
  BY LayersProgress, PublishProgress, PullProgress, AddProgress, ClearProgress, DoneProgress
     DEF AllReduceStep, ArStep
<1>2. InForward(r)
  BY ForwardFrame
<1>3. /\ SameCall /\ Ranks' = Ranks /\ call' = call /\ answer' = answer /\ layout' = layout
      /\ backend' = backend /\ inbox' = inbox
      /\ \A q \in Ranks \ {r} : ThreadSame(q)
  BY <1>2, FrameSame DEF InForward
<1>4. ASSUME NEW q \in Ranks PROVE HostInv(q)'
  <2>1. CASE q = r
    BY <1>1, <2>1 DEF Progress
  <2>2. CASE q # r
    <3>1. HostInv(q)
      BY RankTypes
    <3>2. queue'[q] = queue[q] /\ (slab'[q] = slab[q] \/ slab'[q] = None)
      BY <1>1, <2>2 DEF Progress
    <3> QED BY <1>3, <2>2, <3>1, <3>2, HostKept
  <2> QED BY <2>1, <2>2
<1>5. BackendInv' /\ AnswerInv'
  BY <1>3 DEF TpState, StreamInv, BackendInv, AnswerInv
<1> QED BY <1>1, <1>3, <1>4, <1>5 DEF StreamInv, Progress

-----------------------------------------------------------------------------
(* The other steps of a rank: its device, a command it takes, an answer. *)
OnlyRank(r) ==
  /\ SameCall /\ UNCHANGED <<arVars, call, answer>>
  /\ \A q \in Ranks \ {r} : ThreadSame(q) /\ inbox'[q] = inbox[q] /\ queue'[q] = queue[q]

LEMMA RankStreams ==
  ASSUME TpState, NEW r \in Ranks, OnlyRank(r), StreamTypes', DeviceInv', HostInv(r)',
         PhaseOf(pc'[r]) = PhaseOf(pc[r]), Through(r)' = Through(r)
  PROVE  StreamInv'
<1>1. /\ SameCall /\ slab' = slab /\ ticket' = ticket /\ backend' = backend
      /\ answer' = answer /\ call' = call
      /\ \A q \in Ranks \ {r} : ThreadSame(q) /\ inbox'[q] = inbox[q] /\ queue'[q] = queue[q]
  BY DEF OnlyRank, arVars
<1>2. Ranks' = Ranks /\ layout' = layout
  BY <1>1, FrameSame DEF SameCall
<1>3. TicketInv'
  <2>1. ASSUME NEW k \in Nat, Ticket(r, k) PROVE Ticket(r, k)'
    BY <1>1, <2>1 DEF Ticket, PerRound
  <2>2. \A q \in Ranks \ {r} : ThreadSame(q) /\ ticket'[q] = ticket[q]
    BY <1>1
  <2> QED BY <1>1, <2>1, <2>2, TicketsKept
<1>4. ASSUME NEW q \in Ranks PROVE HostInv(q)'
  <2>1. CASE q = r
    BY <2>1
  <2>2. CASE q # r
    <3>1. HostInv(q)
      BY RankTypes
    <3> QED BY <1>1, <2>2, <3>1, HostKept
  <2> QED BY <2>1, <2>2
<1>5. BackendInv' /\ AnswerInv'
  BY <1>1, <1>2 DEF TpState, StreamInv, BackendInv, AnswerInv
<1> QED BY <1>2, <1>3, <1>4, <1>5 DEF StreamInv

LEMMA DeviceStreams ==
  ASSUME TpState, NEW r \in Ranks, Device(r)
  PROVE  StreamInv'
<1>1. /\ queue[r] # <<>> /\ queue' = [queue EXCEPT ![r] = Tail(@)]
      /\ UNCHANGED <<topologyVars, arVars, sessionVars>>
  BY DEF Device, Execute
<1>2. /\ SameCall /\ UNCHANGED <<arVars, call, answer, inbox, reply>>
      /\ \A q \in Ranks : ThreadSame(q)
  BY <1>1 DEF SameCall, ThreadSame, topologyVars, arVars, sessionVars
<1>3. OnlyRank(r)
  <2>1. \A q \in Ranks \ {r} : queue'[q] = queue[q]
    BY <1>1 DEF TpState, StreamInv, StreamTypes
  <2> QED BY <1>2, <2>1 DEF OnlyRank
<1>4. StreamTypes' /\ DeviceInv'
  <2>1. PICK w, p \in Nat : \E G \in [Ranks -> Spots] : Ready(w, p, G)
    BY ReadyIs
  <2>2. PICK G \in [Ranks -> Spots] : Ready(w, p, G)
    BY <2>1
  <2>3. StreamTypes' /\ \E H \in [Ranks -> Spots] : Devices(w, p, H)'
    BY <2>2, DeviceKeeps
  <2> QED BY <1>2, <2>1, <2>3, DevicesInv
<1>5. /\ pc'[r] = pc[r] /\ Runs(r)' = Runs(r) /\ Replied(r)' = Replied(r)
      /\ round'[r] = round[r] /\ cur'[r] = cur[r] /\ reply'[r] = reply[r]
  BY <1>2 DEF ThreadSame, Runs, Replied
<1>6. /\ Underway' = Underway /\ ByEvents' = ByEvents /\ backend' = backend /\ Ranks' = Ranks
      /\ layout' = layout /\ call' = call /\ inbox' = inbox /\ slab' = slab
  BY <1>2, FrameSame DEF SameCall, arVars
<1>7. HostInv(r)
  BY RankTypes
<1>8. ForwardInv(r)'
  BY <1>5, <1>6, <1>7 DEF HostInv, ForwardInv
<1>9. DrainedInv(r)'
  BY <1>1, <1>5, <1>6, <1>7 DEF HostInv, DrainedInv
<1>10. PhaseOf(pc'[r]) = PhaseOf(pc[r]) /\ Through(r)' = Through(r)
  BY <1>5, <1>6 DEF Through
<1> QED BY <1>3, <1>4, <1>8, <1>9, <1>10, RankStreams DEF HostInv

(* A rank outside of forwards before and after: nothing in its stream changes. *)
LEMMA IdleStreams ==
  ASSUME TpState, NEW r \in Ranks, OnlyRank(r), UNCHANGED streamVars, ~ Runs(r), ~ Runs(r)',
         ~ (Underway /\ Replied(r)), ~ (Underway /\ Replied(r)'),
         pc'[r] \in SlotOps \cup {"idle"},
         \A i \in DOMAIN inbox'[r] : inbox'[r][i].op = "forward" =>
           Underway /\ inbox'[r][i].id = call.id /\ inbox'[r][i].size = call.size
  PROVE  StreamInv'
<1>1. /\ SameCall /\ call' = call /\ slab' = slab /\ queue' = queue
      /\ \A q \in Ranks \ {r} : ThreadSame(q)
  BY DEF OnlyRank, arVars, streamVars
<1>2. /\ Underway' = Underway /\ ByEvents' = ByEvents /\ backend' = backend /\ layout' = layout
      /\ Ranks' = Ranks
  BY <1>1, FrameSame DEF SameCall
<1>3. HostInv(r) /\ PhaseOf(pc[r]) = 0
  <2>1. pc[r] \in SlotOps \cup {"idle"}
    BY RankTypes
  <2> QED BY <2>1, RankTypes DEF PhaseOf, SlotOps
<1>4. PhaseOf(pc'[r]) = 0
  BY DEF PhaseOf, SlotOps
<1>5. HostSpot(r)' = HostSpot(r) /\ Through(r)' = Through(r)
  BY <1>2 DEF HostSpot, Through
<1>6. StreamTypes' /\ DeviceInv'
  <2>1. PICK w, p \in Nat : \E G \in [Ranks -> Spots] : Ready(w, p, G)
    BY ReadyIs
  <2>2. PICK G \in [Ranks -> Spots] : Ready(w, p, G)
    BY <2>1
  <2>3. ToldByHost(r, G[r])'
    BY DEF ToldByHost
  <2>4. StreamTypes' /\ \E H \in [Ranks -> Spots] : Devices(w, p, H)'
    BY <1>1, <1>5, <2>2, <2>3, ThreadWaits
  <2> QED BY <1>1, <2>1, <2>4, DevicesInv
<1>7. ForwardInv(r)'
  BY <1>1, <1>2 DEF ForwardInv, SlotOps, Waiting
<1>8. DrainedInv(r)'
  BY <1>1, <1>3 DEF HostInv, DrainedInv, SlotOps
<1> QED BY <1>3, <1>4, <1>5, <1>6, <1>7, <1>8, RankStreams DEF HostInv

LEMMA TakeStreams ==
  ASSUME TpState, NEW r \in Ranks, Take(r)
  PROVE  StreamInv'
<1>1. PICK c : c = Head(inbox[r])
  OBVIOUS
<1>2. /\ pc[r] = "idle" /\ inbox[r] # <<>> /\ cur' = [cur EXCEPT ![r] = c]
      /\ inbox' = [inbox EXCEPT ![r] = Tail(@)] /\ round' = [round EXCEPT ![r] = 0]
      /\ UNCHANGED <<layout, arVars, reply, call, answer>>
      /\ \/ c.op = "forward" /\ IsFirst(r) /\ GoesTo(r, "layers") /\ Enqueue(r, <<Embed(c.id)>>)
         \/ c.op = "forward" /\ ~ IsFirst(r) /\ GoesTo(r, "recv") /\ UNCHANGED streamVars
         \/ c.op \in SlotOps /\ GoesTo(r, c.op) /\ UNCHANGED streamVars
  BY <1>1 DEF Take
<1>3. /\ DOMAIN pc = Ranks /\ DOMAIN cur = Ranks /\ DOMAIN inbox = Ranks
      /\ round \in [Ranks -> Nat] /\ call.id \in Nat /\ StreamTypes /\ layout.kind = "TP"
      /\ layout \in Layouts
  BY DEF TpState, SessionInv, SessionTypes, StreamInv
<1>4. HostInv(r) /\ RankInv(r) /\ ~ Runs(r) /\ Stage(r) = 0
  BY <1>2, RankTypes
<1>5. ~ Replied(r) /\ inbox[r] \in Seq(Commands)
  BY <1>2, <1>4 DEF RankInv, ReplyInv, OrderInv
<1>6. /\ c = inbox[r][1] /\ 1 \in DOMAIN inbox[r]
      /\ \A i \in DOMAIN Tail(inbox[r]) : i + 1 \in DOMAIN inbox[r] /\ Tail(inbox[r])[i] = inbox[r][i + 1]
  <2>1. PICK box \in Seq(Commands) : box = inbox[r]
    BY <1>5
  <2>2. PICK n \in Nat : n = Len(box)
    BY <2>1
  <2>3. n # 0 /\ DOMAIN box = 1 .. n
    BY <1>2, <2>1, <2>2, EmptySeq
  <2>4. /\ Head(box) = box[1] /\ DOMAIN Tail(box) = 1 .. n - 1
        /\ \A i \in 1 .. n - 1 : Tail(box)[i] = box[i + 1]
    <3>1. Tail(box) \in Seq(Commands) /\ Len(Tail(box)) = n - 1 /\ Head(box) = box[1]
          /\ \A i \in 1 .. Len(Tail(box)) : Tail(box)[i] = box[i + 1]
      BY <1>2, <2>1, <2>2, HeadTailProperties
    <3> QED BY <3>1, LenProperties
  <2> QED BY <1>1, <2>1, <2>3, <2>4
<1>7. /\ cur'[r] = c /\ inbox'[r] = Tail(inbox[r]) /\ round'[r] = 0 /\ reply' = reply
      /\ ~ Replied(r)'
  BY <1>2, <1>3, <1>5 DEF Replied
<1>8. \A i \in DOMAIN inbox'[r] : inbox'[r][i].op = "forward" =>
         Underway /\ inbox'[r][i].id = call.id /\ inbox'[r][i].size = call.size
  BY <1>4, <1>6, <1>7 DEF HostInv, ForwardInv
<1>9. c.op = "forward" => Underway /\ c.id = call.id /\ c.size = call.size
  BY <1>4, <1>6 DEF HostInv, ForwardInv
<1>10. SameCall
  BY <1>2 DEF SameCall, arVars
<1>11. \A q \in Ranks \ {r} : ThreadSame(q) /\ inbox'[q] = inbox[q]
  BY <1>2, <1>3 DEF ThreadSame, GoesTo
<1>12. CASE c.op \in SlotOps /\ GoesTo(r, c.op) /\ UNCHANGED streamVars
  <2>1. pc'[r] \in SlotOps \cup {"idle"} /\ ~ Runs(r)'
    BY <1>3, <1>7, <1>12 DEF GoesTo, Runs, SlotOps
  <2>2. OnlyRank(r)
    BY <1>2, <1>10, <1>11, <1>12 DEF OnlyRank, streamVars
  <2> QED BY <1>4, <1>5, <1>7, <1>8, <1>12, <2>1, <2>2, IdleStreams
<1>13. CASE c.op = "forward" /\ IsFirst(r) /\ GoesTo(r, "layers") /\ Enqueue(r, <<Embed(c.id)>>)
  <2>1. pc'[r] = "layers" /\ Runs(r)' /\ c.id = call.id /\ Underway /\ c.size = call.size
    BY <1>3, <1>7, <1>9, <1>13 DEF GoesTo, Runs
  <2>2. PICK o : o = Embed(call.id)
    OBVIOUS
  <2>3. <<o>> \in Seq(Instructions) /\ Enqueue(r, <<o>>) /\ \A e \in Events : ~ Asks(<<o>>, e)
    <3>1. r \in Nat
      BY <1>3, TpPeers
    <3>2. o \in Instructions
      BY <1>3, <2>2, <3>1, OperationsAre
    <3>3. ASSUME NEW e \in Events PROVE ~ Asks(<<o>>, e)
      <4>1. \A f : Embed(f) # Record(e)
        BY RecordsAre
      <4> QED BY <2>2, <4>1, AsksOne
    <3> QED BY <1>13, <2>1, <2>2, <3>2, <3>3
  <2>4. /\ queue'[r] = queue[r] \o <<o>> /\ \A q \in Ranks \ {r} : queue'[q] = queue[q]
        /\ \A e \in Events : asked'[e] = asked[e]
    BY <1>3, <2>3, EnqueueIs
  <2>5. OnlyRank(r)
    BY <1>2, <1>10, <1>11, <2>4 DEF OnlyRank
  <2>6. HostSpot(r) = Start /\ HostSpot(r)' = WholeOf(0)
    BY <1>4, <1>5, <1>7, <2>1 DEF HostSpot
  <2>7. PICK w, p \in Nat : \E G \in [Ranks -> Spots] : Ready(w, p, G)
    BY ReadyIs
  <2>8. PICK G \in [Ranks -> Spots] : Ready(w, p, G)
    BY <2>7
  <2>9. Leads(FrameOf(r, w, p), <<o>>, HostSpot(r), HostSpot(r)')
    <3>1. FrameOf(r, w, p).forward = call.id
      BY DEF FrameOf
    <3>2. Start \in Spots /\ WholeOf(0) \in Spots
      BY SpotsAre
    <3>3. Moves(FrameOf(r, w, p), o, Start, WholeOf(0))
      BY <2>2, <3>1 DEF Moves
    <3> QED BY <2>6, <3>2, <3>3, OneLeads
  <2>10. ToldByHost(r, G[r])'
    BY <2>1 DEF ToldByHost
  <2>11. Records(asked', w, p, r, HostSpot(r)')
    <3>1. Records(asked, w, p, r, Start)
      BY <2>6, <2>8 DEF Ready, Devices, At
    <3>2. TimesTold(Start) = 0 /\ TimesPulled(Start) = 0
          /\ TimesTold(WholeOf(0)) = 0 /\ TimesPulled(WholeOf(0)) = 0
      BY CountsAre
    <3>3. <<"written", r>> \in Events /\ <<"pulled", r>> \in Events
      BY DEF Events
    <3> QED BY <2>4, <2>6, <3>1, <3>2, <3>3 DEF Records
  <2>12. StreamTypes' /\ DeviceInv'
    <3>1. \A q \in Ranks \ {r} : ThreadSame(q)
      BY <1>11
    <3>2. \A e \in Events : Asks(<<o>>, e) => e \in OwnEvents(r)
      BY <2>3
    <3>3. StreamTypes' /\ \E H \in [Ranks -> Spots] : Devices(w, p, H)'
      BY <1>10, <2>3, <2>8, <2>9, <2>10, <2>11, <3>1, <3>2, ThreadEnqueues
    <3> QED BY <1>10, <2>7, <3>3, DevicesInv
  <2>13. PhaseOf(pc'[r]) = PhaseOf(pc[r])
    BY <1>2, <2>1 DEF PhaseOf
  <2>14. Through(r)' = Through(r)
    BY <1>4, <1>5, <1>7, <2>1 DEF Through
  <2>15. ForwardInv(r)'
    <3>1. 0 < NAr /\ 0 <= NAr
      BY TopologyAssumption
    <3>2. Underway' /\ call' = call
      BY <1>2, <2>1 DEF Underway
    <3> QED BY <1>7, <1>8, <2>1, <3>1, <3>2 DEF ForwardInv, Waiting
  <2>16. DrainedInv(r)'
    BY <2>1 DEF DrainedInv
  <2> QED BY <2>5, <2>12, <2>13, <2>14, <2>15, <2>16, RankStreams DEF HostInv
<1> QED BY <1>2, <1>4, <1>12, <1>13 DEF IsFirst

(* An answer to a slot operation, of this call or one that was given up. *)
LEMMA SlotStreams ==
  ASSUME TpState, NEW r \in Ranks, pc[r] \in SlotOps, NEW ok, NEW state,
         AnswersWith(r, ok, Bad, state),
         UNCHANGED <<layout, round, streamVars, arVars, inbox, call, answer>>
  PROVE  StreamInv'
<1>1. /\ DOMAIN pc = Ranks /\ DOMAIN cur = Ranks /\ DOMAIN reply = Ranks /\ SessionInv
  BY DEF TpState, SessionInv, SessionTypes
<1>2. HostInv(r) /\ ~ Runs(r) /\ ~ Replied(r)
  BY <1>1, RankTypes, BusyHasNotReplied DEF SlotOps
<1>3. /\ pc' = [pc EXCEPT ![r] = "idle"] /\ cur' = [cur EXCEPT ![r] = NoCommand]
      /\ reply' = IF Current(r)
                    THEN [reply EXCEPT ![r] = [ok |-> ok, id |-> cur[r].id, logits |-> Bad,
                                               kv |-> state]]
                    ELSE reply
  BY DEF AnswersWith, GoesTo, Current
<1>4. ~ Runs(r)' /\ pc'[r] = "idle"
  BY <1>1, <1>3 DEF Runs, NoCommand
<1>5. Current(r) => ~ Underway
  <2>1. cur[r].op = pc[r] /\ pc[r] # "forward" /\ pc[r] # "idle"
    BY <1>1, BusyHasNotReplied DEF SlotOps
  <2>2. Current(r) => call.op = cur[r].op
    BY <1>1, <2>1, BusyWith
  <2> QED BY <2>1, <2>2 DEF Underway
<1>6. ~ (Underway /\ Replied(r)')
  BY <1>2, <1>3, <1>5 DEF Replied
<1>7. OnlyRank(r)
  <2>1. \A q \in Ranks \ {r} : ThreadSame(q)
    BY <1>1, <1>3 DEF ThreadSame
  <2> QED BY <2>1 DEF OnlyRank, SameCall, arVars, streamVars
<1>8. \A i \in DOMAIN inbox'[r] : inbox'[r][i].op = "forward" =>
         Underway /\ inbox'[r][i].id = call.id /\ inbox'[r][i].size = call.size
  BY <1>2 DEF HostInv, ForwardInv
<1> QED BY <1>2, <1>4, <1>6, <1>7, <1>8, IdleStreams

(* The logits of a drained stream. *)
LEMMA FinishStreams ==
  ASSUME TpState, NEW r \in Ranks, Finish(r)
  PROVE  StreamInv'
<1>1. /\ DOMAIN pc = Ranks /\ DOMAIN cur = Ranks /\ DOMAIN reply = Ranks /\ SessionInv
  BY DEF TpState, SessionInv, SessionTypes
<1>2. HostInv(r)
  BY RankTypes
<1>3. /\ pc[r] = "out" /\ queue[r] = <<>> /\ AnswersWith(r, TRUE, buf[r], <<>>)
      /\ UNCHANGED <<layout, round, streamVars, arVars, inbox, call, answer>>
  BY <1>2 DEF Finish, Answers, Drained, HostInv, ForwardInv
<1>4. Runs(r) /\ Underway /\ cur[r].id = call.id /\ round[r] = NAr
  BY <1>2, <1>3, RankTypes DEF SlotOps, HostInv, ForwardInv
<1>5. call.id > 0 /\ call.id \in Nat /\ Current(r)
  <2>1. ~ Idle
    BY <1>4 DEF Idle, Underway
  <2> QED BY <1>1, <1>4, <2>1 DEF Current, SessionInv, SessionTypes, CallInv
<1>6. /\ pc' = [pc EXCEPT ![r] = "idle"] /\ cur' = [cur EXCEPT ![r] = NoCommand]
      /\ reply' = [reply EXCEPT ![r] = [ok |-> TRUE, id |-> cur[r].id, logits |-> buf[r],
                                        kv |-> <<>>]]
  BY <1>3, <1>5 DEF AnswersWith, GoesTo, Current
<1>7. /\ ~ Runs(r)' /\ pc'[r] = "idle" /\ Replied(r)' /\ Underway'
      /\ reply'[r].ok /\ reply'[r].logits = buf[r]
  BY <1>1, <1>3, <1>4, <1>5, <1>6 DEF Runs, NoCommand, Replied, Underway
<1>8. HostSpot(r) = WholeOf(NAr) /\ HostSpot(r)' = WholeOf(NAr)
  BY <1>3, <1>4, <1>7 DEF HostSpot
<1>9. PICK w, p \in Nat : \E G \in [Ranks -> Spots] : Ready(w, p, G)
  BY ReadyIs
<1>10. PICK G \in [Ranks -> Spots] : Ready(w, p, G)
  BY <1>9
<1>11. buf[r] = Content(call.id, NAr, Ranks)
  <2>1. G[r] = WholeOf(NAr)
    BY <1>3, <1>8, <1>10, DrainedSpot
  <2>2. Shows(r, WholeOf(NAr))
    BY <1>10, <2>1 DEF Ready, Devices, At
  <2>3. WholeOf(NAr).has = "whole" /\ WholeOf(NAr).round = NAr
    BY TopologyAssumption, FieldsAre
  <2> QED BY <2>2, <2>3 DEF Shows
<1>12. OnlyRank(r)
  <2>1. \A q \in Ranks \ {r} : ThreadSame(q)
    BY <1>1, <1>3, <1>6 DEF ThreadSame
  <2> QED BY <1>3, <2>1 DEF OnlyRank, SameCall, arVars, streamVars
<1>13. SameCall /\ Ranks' = Ranks /\ call' = call
  BY <1>3, <1>12, FrameSame DEF OnlyRank
<1>14. StreamTypes' /\ DeviceInv'
  <2>1. ToldByHost(r, G[r])'
    BY <1>7 DEF ToldByHost
  <2>2. HostSpot(r)' = HostSpot(r)
    BY <1>8
  <2>3. \A q \in Ranks \ {r} : ThreadSame(q)
    BY <1>12 DEF OnlyRank
  <2>4. StreamTypes' /\ \E H \in [Ranks -> Spots] : Devices(w, p, H)'
    BY <1>3, <1>10, <1>13, <2>1, <2>2, <2>3, ThreadWaits
  <2> QED BY <1>9, <1>13, <2>4, DevicesInv
<1>15. PhaseOf(pc'[r]) = PhaseOf(pc[r]) /\ Through(r)' = Through(r)
  BY <1>3, <1>4, <1>7 DEF PhaseOf, Through
<1>16. ForwardInv(r)'
  BY <1>2, <1>3, <1>7, <1>11, <1>13 DEF HostInv, ForwardInv, Waiting, Underway
<1>17. DrainedInv(r)'
  BY <1>3, <1>7 DEF DrainedInv, streamVars
<1> QED BY <1>12, <1>14, <1>15, <1>16, <1>17, RankStreams DEF HostInv

-----------------------------------------------------------------------------
(* The session's steps.  All streams at rest, with no forward before them. *)
LEMMA RestingDevices ==
  ASSUME layout \in Layouts, layout.kind = "TP", UNCHANGED <<layout, backend>>,
         NEW w \in Nat, NEW p \in Nat,
         \A r \in Ranks : /\ queue'[r] = <<>> /\ HostSpot(r)' = Start /\ ~ Runs(r)'
                          /\ fired'[<<"written", r>>] = w /\ fired'[<<"pulled", r>>] = p
                          /\ asked'[<<"written", r>>] = w /\ asked'[<<"pulled", r>>] = p
  PROVE  DeviceInv'
<1>1. Ranks' = Ranks
  BY DEF Ranks
<1>2. PICK G : G = [r \in Ranks |-> Start]
  OBVIOUS
<1>3. Start \in Spots
  BY SpotsAre
<1>4. G \in [Ranks -> Spots] /\ \A r \in Ranks : G[r] = Start
  BY <1>2, <1>3
<1>5. /\ TimesTold(Start) = 0 /\ TimesPulled(Start) = 0 /\ TimesSummed(Start) = 0
      /\ Start.has = "nothing" /\ Start.got = {} /\ Start.seen = {} /\ Start.clear = {}
  BY CountsAre, FieldsAre
<1>6. ASSUME NEW r \in Ranks PROVE At(r, w, p, Start)'
  <2>1. Leads(FrameOf(r, w, p)', queue'[r], Start, HostSpot(r)')
    BY <1>3, NowhereLeads
  <2>2. Shows(r, Start)'
    BY <1>5 DEF Shows
  <2>3. ToldByHost(r, Start)'
    BY DEF ToldByHost
  <2>4. Records(fired, w, p, r, Start)'
    BY <1>5 DEF Records
  <2>5. Records(asked, w, p, r, HostSpot(r))'
    BY <1>5 DEF Records
  <2> QED BY <2>1, <2>2, <2>3, <2>4, <2>5 DEF At
<1>7. ASSUME NEW r \in Ranks, NEW q \in Ranks PROVE Knows(Start, q, Start)'
  BY <1>5 DEF Knows
<1>8. Devices(w, p, G)'
  BY <1>1, <1>4, <1>6, <1>7 DEF Devices
<1> QED BY <1>1, <1>4, <1>8 DEF DeviceInv

(* Nobody is in a forward: what a call or its end leaves. *)
LEMMA RestStreams ==
  ASSUME TpState, ~ Underway, UNCHANGED <<layout, pc, cur, round, streamVars, arVars>>,
         \A r \in Ranks : ~ (Underway' /\ Replied(r)'),
         \A r \in Ranks : \A i \in DOMAIN inbox'[r] : inbox'[r][i].op = "forward" =>
           Underway' /\ inbox'[r][i].id = call'.id /\ inbox'[r][i].size = call'.size,
         AnswerInv'
  PROVE  StreamInv'
<1>1. /\ layout \in Layouts /\ layout.kind = "TP" /\ StreamTypes /\ BackendInv /\ TicketInv
      /\ layout' = layout /\ backend' = backend /\ slab' = slab /\ ticket' = ticket
  BY DEF TpState, StreamInv, arVars
<1>2. UNCHANGED <<queue, buf, dram, staging, dst, asked, fired>>
  BY DEF streamVars
<1>3. Ranks' = Ranks /\ Events' = Events
  BY <1>1 DEF Ranks, Events
<1>4. ASSUME NEW r \in Ranks
      PROVE  /\ ~ Runs(r) /\ ~ Runs(r)' /\ queue[r] = <<>> /\ HostSpot(r) = Start
             /\ HostSpot(r)' = Start /\ Through(r) = 0 /\ Through(r)' = 0 /\ HostInv(r)
             /\ pc[r] \notin {"snap", "add"}
  <2>1. HostInv(r) /\ ~ Runs(r) /\ ~ Runs(r)'
    BY RankTypes DEF HostInv, ForwardInv, Runs
  <2>2. queue[r] = <<>>
    BY <2>1 DEF HostInv, DrainedInv
  <2>3. pc[r] \notin {"snap", "add"}
    BY <2>1, RankTypes DEF SlotOps
  <2> QED BY <2>1, <2>2, <2>3 DEF HostSpot, Through
<1>5. DeviceInv'
  <2>1. PICK w, p \in Nat : \E G \in [Ranks -> Spots] : Ready(w, p, G)
    BY ReadyIs
  <2>2. PICK G \in [Ranks -> Spots] : Ready(w, p, G)
    BY <2>1
  <2>3. TimesTold(Start) = 0 /\ TimesPulled(Start) = 0
    BY CountsAre
  <2>4. ASSUME NEW r \in Ranks
        PROVE  /\ fired[<<"written", r>>] = w /\ fired[<<"pulled", r>>] = p
               /\ asked[<<"written", r>>] = w /\ asked[<<"pulled", r>>] = p
    <3>1. G[r] = Start
      BY <1>4, <2>2, DrainedSpot
    <3>2. Records(fired, w, p, r, Start) /\ Records(asked, w, p, r, Start)
      BY <1>4, <2>2, <3>1 DEF Ready, Devices, At
    <3> QED BY <2>1, <2>3, <3>2 DEF Records
  <2> QED BY <1>1, <1>2, <1>4, <2>1, <2>4, RestingDevices
<1>6. StreamTypes'
  BY <1>1, <1>2, <1>3 DEF StreamTypes
<1>7. TicketInv'
  BY <1>1, <1>3, <1>4 DEF TicketInv, Ticket, PerRound
<1>8. ASSUME NEW r \in Ranks PROVE HostInv(r)'
  <2>1. ForwardInv(r)'
    BY <1>1, <1>4, <1>8 DEF HostInv, ForwardInv
  <2>2. DrainedInv(r)'
    BY <1>2, <1>4 DEF DrainedInv
  <2> QED BY <2>1, <2>2 DEF HostInv
<1>9. BackendInv'
  BY <1>1 DEF BackendInv
<1> QED BY <1>3, <1>5, <1>6, <1>7, <1>8, <1>9 DEF StreamInv

LEMMA CallsStreams ==
  ASSUME TpState, NEW op, NEW n, NEW rs, Calls(op, n, rs)
  PROVE  StreamInv'
<1>0. PICK c : c = [op |-> op, id |-> NextId, size |-> n]
  OBVIOUS
<1>1. /\ Idle /\ call' = [op |-> op, id |-> NextId, size |-> n, at |-> 0]
      /\ inbox' = [r \in Ranks |-> IF r \in rs THEN Append(inbox[r], c) ELSE inbox[r]]
      /\ reply' = [r \in Ranks |-> NoReply] /\ answer' = NoAnswer
      /\ UNCHANGED <<layout, pc, cur, round, streamVars, arVars>>
  BY <1>0 DEF Calls, Sends, Command, topologyVars
<1>2. ~ Underway
  BY <1>1 DEF Underway, Idle
<1>3. \A r \in Ranks : ~ Replied(r)'
  BY <1>1 DEF Replied, NoReply
<1>4. ASSUME NEW r \in Ranks, NEW i \in DOMAIN inbox'[r], inbox'[r][i].op = "forward"
      PROVE  Underway' /\ inbox'[r][i].id = call'.id /\ inbox'[r][i].size = call'.size
  <2>1. \A j \in DOMAIN inbox[r] : inbox[r][j].op # "forward"
    BY <1>2, RankTypes DEF HostInv, ForwardInv
  <2>2. inbox[r] \in Seq(Commands)
    BY RankTypes DEF RankInv, OrderInv
  <2>3. \/ i \in DOMAIN inbox[r] /\ inbox'[r][i] = inbox[r][i]
        \/ inbox'[r][i] = c
    <3>1. CASE r \in rs
      <4>1. inbox'[r] = Append(inbox[r], c)
        BY <1>1, <3>1
      <4>2. PICK box \in Seq(Commands) : box = inbox[r]
        BY <2>2
      <4>3. PICK m \in Nat : m = Len(box) /\ DOMAIN box = 1 .. m
        BY <4>2
      <4>4. /\ DOMAIN Append(box, c) = 1 .. m + 1
            /\ \A j \in 1 .. m : Append(box, c)[j] = box[j]
            /\ Append(box, c)[m + 1] = c
        BY <4>2, <4>3
      <4> QED BY <1>4, <4>1, <4>2, <4>3, <4>4
    <3>2. CASE r \notin rs
      BY <1>1, <1>4, <3>2
    <3> QED BY <3>1, <3>2
  <2>4. inbox'[r][i] = c
    BY <1>4, <2>1, <2>3
  <2> QED BY <1>0, <1>1, <1>4, <2>4 DEF Underway
<1>5. AnswerInv'
  BY <1>1 DEF AnswerInv, NoAnswer
<1> QED BY <1>1, <1>2, <1>3, <1>4, <1>5, RestStreams

(* Nothing happens to any rank. *)
LEMMA QuietStreams ==
  ASSUME TpState, SameCall, UNCHANGED <<layout, pc, cur, round, streamVars, arVars, reply, answer>>,
         \A r \in Ranks : inbox'[r] = inbox[r]
  PROVE  StreamInv'
<1>1. /\ layout \in Layouts /\ layout.kind = "TP" /\ StreamTypes /\ BackendInv /\ TicketInv
      /\ layout' = layout /\ backend' = backend /\ slab' = slab /\ ticket' = ticket /\ AnswerInv
  BY DEF TpState, StreamInv, arVars
<1>2. 0 \in Ranks
  BY <1>1, TpPeers
<1>3. UNCHANGED <<queue, buf, dram, staging, dst, asked, fired>>
  BY DEF streamVars
<1>4. \A q \in Ranks : ThreadSame(q) /\ StreamSame(q)
  BY <1>3 DEF ThreadSame, StreamSame
<1>5. Ranks' = Ranks /\ Events' = Events /\ call'.id = call.id
  BY FrameSame DEF SameCall
<1>6. DeviceInv'
  <2>1. PICK w, p \in Nat : \E G \in [Ranks -> Spots] : Ready(w, p, G)
    BY ReadyIs
  <2>2. PICK G \in [Ranks -> Spots] : Ready(w, p, G)
    BY <2>1
  <2>3. At(0, w, p, G[0])
    BY <1>2, <2>2 DEF Ready, Devices
  <2>4. At(0, w, p, G[0])'
    BY <1>2, <1>4, <2>3, AtSame
  <2>5. \E H \in [Ranks -> Spots] : Devices(w, p, H)'
    BY <1>2, <1>4, <2>2, <2>4, PlaceKept
  <2> QED BY <2>1, <2>5, DevicesInv
<1>7. StreamTypes'
  BY <1>1, <1>3, <1>5 DEF StreamTypes
<1>8. TicketInv'
  <2>1. ASSUME NEW k \in Nat, Ticket(0, k) PROVE Ticket(0, k)'
    <3>1. Through(0)' = Through(0)
      BY <1>2, <1>4, FrameSame DEF ThreadSame, Through, Runs, Replied
    <3> QED BY <1>1, <2>1, <3>1 DEF Ticket, PerRound
  <2>2. \A q \in Ranks \ {0} : ThreadSame(q) /\ ticket'[q] = ticket[q]
    BY <1>1, <1>4
  <2> QED BY <1>2, <2>1, <2>2, TicketsKept
<1>9. ASSUME NEW q \in Ranks PROVE HostInv(q)'
  <2>1. HostInv(q)
    BY RankTypes
  <2> QED BY <1>1, <1>3, <1>4, <2>1, HostKept
<1>10. BackendInv' /\ AnswerInv'
  BY <1>1, <1>5 DEF BackendInv, AnswerInv
<1> QED BY <1>5, <1>6, <1>7, <1>8, <1>9, <1>10 DEF StreamInv

(* A forward has returned: every device is past its last round. *)
LEMMA ForwardOver ==
  ASSUME TpState, Underway, \A r \in Ranks : Replied(r), ~ Underway', call'.id = call.id,
         UNCHANGED <<layout, pc, cur, round, reply, inbox, streamVars, arVars>>, AnswerInv'
  PROVE  StreamInv'
<1>1. /\ layout \in Layouts /\ layout.kind = "TP" /\ StreamTypes /\ BackendInv /\ TicketInv
      /\ layout' = layout /\ backend' = backend /\ slab' = slab /\ ticket' = ticket
      /\ NAr \in Nat
  BY TopologyAssumption DEF TpState, StreamInv, arVars
<1>2. UNCHANGED <<queue, buf, dram, staging, dst, asked, fired>>
  BY DEF streamVars
<1>3. Ranks' = Ranks /\ Events' = Events
  BY <1>1 DEF Ranks, Events
<1>4. ASSUME NEW r \in Ranks
      PROVE  /\ ~ Runs(r) /\ ~ Runs(r)' /\ queue[r] = <<>> /\ HostSpot(r) = WholeOf(NAr)
             /\ HostSpot(r)' = Start /\ Through(r) = NAr /\ Through(r)' = 0 /\ HostInv(r)
             /\ pc[r] = "idle" /\ inbox[r] = <<>>
  <2>1. pc[r] = "idle" /\ inbox[r] = <<>>
    BY RankTypes DEF RankInv, ReplyInv
  <2>2. HostInv(r) /\ ~ Runs(r) /\ ~ Runs(r)'
    BY <2>1, RankTypes DEF Runs
  <2>3. queue[r] = <<>>
    BY <2>2 DEF HostInv, DrainedInv
  <2> QED BY <2>1, <2>2, <2>3 DEF HostSpot, Through
<1>5. DeviceInv'
  <2>1. PICK w, p \in Nat : \E G \in [Ranks -> Spots] : Ready(w, p, G)
    BY ReadyIs
  <2>2. PICK G \in [Ranks -> Spots] : Ready(w, p, G)
    BY <2>1
  <2>3. TimesTold(WholeOf(NAr)) = NAr /\ TimesPulled(WholeOf(NAr)) = NAr
    BY <1>1, CountsAre
  <2>4. PICK w2 \in Nat : w2 = w + (IF ByEvents THEN NAr ELSE 0)
    BY <1>1, <2>1
  <2>5. PICK p2 \in Nat : p2 = p + (IF backend = "bar" THEN NAr ELSE 0)
    BY <1>1, <2>1
  <2>6. ASSUME NEW r \in Ranks
        PROVE  /\ fired[<<"written", r>>] = w2 /\ fired[<<"pulled", r>>] = p2
               /\ asked[<<"written", r>>] = w2 /\ asked[<<"pulled", r>>] = p2
    <3>1. G[r] = WholeOf(NAr)
      BY <1>4, <2>2, DrainedSpot
    <3>2. Records(fired, w, p, r, WholeOf(NAr)) /\ Records(asked, w, p, r, WholeOf(NAr))
      BY <1>4, <2>2, <3>1 DEF Ready, Devices, At
    <3> QED BY <2>3, <2>4, <2>5, <3>2 DEF Records
  <2>7. \A r \in Ranks : /\ queue'[r] = <<>> /\ HostSpot(r)' = Start /\ ~ Runs(r)'
                          /\ fired'[<<"written", r>>] = w2 /\ fired'[<<"pulled", r>>] = p2
                          /\ asked'[<<"written", r>>] = w2 /\ asked'[<<"pulled", r>>] = p2
    BY <1>2, <1>4, <2>6
  <2>8. UNCHANGED <<layout, backend>>
    BY <1>1
  <2> QED BY <1>1, <2>7, <2>8, RestingDevices
<1>6. StreamTypes'
  BY <1>1, <1>2, <1>3 DEF StreamTypes
<1>7. TicketInv'
  <2>1. SUFFICES ASSUME layout.width > 1 PROVE \E k \in Nat : \A r \in Ranks : Ticket(r, k)'
    BY <1>1, <1>3 DEF TicketInv
  <2>2. PICK k \in Nat : \A r \in Ranks : Ticket(r, k)
    BY <1>1, <2>1 DEF TicketInv
  <2>3. PICK m \in Nat : m = k + NAr
    BY <1>1
  <2>4. ASSUME NEW r \in Ranks PROVE Ticket(r, m)'
    <3>1. ticket[r] = PerRound * m + PhaseOf(pc[r])
      BY <1>4, <2>2, <2>3 DEF Ticket
    <3>2. m + 0 = m
      BY <2>3
    <3> QED BY <1>1, <1>4, <3>1, <3>2 DEF Ticket, PerRound
  <2> QED BY <2>4
<1>8. ASSUME NEW r \in Ranks PROVE HostInv(r)'
  <2>1. ForwardInv(r)'
    <3>1. inbox'[r] = <<>>
      BY <1>4
    <3>2. DOMAIN inbox'[r] = {}
      BY <3>1
    <3> QED BY <1>1, <1>4, <3>2 DEF HostInv, ForwardInv, Waiting
  <2>2. DrainedInv(r)'
    BY <1>2, <1>4 DEF DrainedInv
  <2> QED BY <2>1, <2>2 DEF HostInv
<1>9. BackendInv'
  BY <1>1 DEF BackendInv
<1> QED BY <1>3, <1>5, <1>6, <1>7, <1>8, <1>9 DEF StreamInv

LEMMA ReceiveStreams ==
  ASSUME TpState, Receive
  PROVE  StreamInv'
<1>1. /\ ~ Idle /\ call.at \in Ranks /\ call.op \in Ops /\ Replied(call.at)
      /\ \A q \in Ranks : q < call.at => Replied(q)
      /\ SessionInv /\ layout \in Layouts /\ layout.kind = "TP" /\ call.id \in Nat
  BY ReceiveLeaves DEF TpState, SessionInv, CallInv
<1>2. UNCHANGED <<layout, pc, cur, round, streamVars, arVars, reply>>
  BY DEF Receive, topologyVars
<1>3. ASSUME ~ reply[call.at].ok PROVE ~ Underway
  <2>1. HostInv(call.at)
    BY <1>1, RankTypes
  <2> QED BY <1>1, <1>3, <2>1 DEF HostInv, ForwardInv
<1>4. ASSUME NEW a, Returns(a)
      PROVE  ~ Underway' /\ call'.id = call.id /\ answer' = a
  BY <1>4 DEF Returns, NoCall, Underway
<1>5. ASSUME NEW a, Returns(a), ~ Underway, inbox' = inbox, a.op # "forward"
      PROVE  StreamInv'
  <2>1. AnswerInv'
    BY <1>4, <1>5 DEF AnswerInv
  <2>2. ASSUME NEW r \in Ranks, NEW i \in DOMAIN inbox'[r] PROVE inbox'[r][i].op # "forward"
    BY <1>5, <2>2, RankTypes DEF HostInv, ForwardInv
  <2> QED BY <1>2, <1>4, <1>5, <2>1, <2>2, RestStreams
<1>6. CASE ~ reply[call.at].ok
  <2>1. Returns(Failed) /\ inbox' = inbox
    BY <1>6 DEF Receive, GivesUp
  <2>2. Failed.op # "forward"
    BY DEF Failed
  <2> QED BY <1>3, <1>5, <1>6, <2>1, <2>2
<1>7. CASE reply[call.at].ok /\ call.at + 1 \in Ranks
  <2>1. /\ call' = [call EXCEPT !.at = call.at + 1]
        /\ Sends(call, IF InTurn /\ call.op = "forward" THEN {call.at + 1} ELSE {})
        /\ answer' = answer
    BY <1>7 DEF Receive
  <2>2. ~ InTurn
    BY <1>1 DEF InTurn
  <2>3. \A r \in Ranks : inbox'[r] = inbox[r]
    BY <2>1, <2>2 DEF Sends
  <2>4. SameCall
    <3>1. call \in [op : Ops \cup {"none"}, id : Nat, size : Nat, at : Nat]
      BY <1>1 DEF SessionInv, SessionTypes
    <3>2. backend' = backend /\ layout' = layout
      BY <1>2 DEF arVars
    <3> QED BY <2>1, <3>1, <3>2 DEF SameCall
  <2> QED BY <1>2, <2>1, <2>3, <2>4, QuietStreams
<1>8. CASE reply[call.at].ok /\ call.at + 1 \notin Ranks
  <2> DEFINE a == [op |-> call.op, logits |-> reply[call.at].logits]
  <2>1. Returns(a) /\ inbox' = inbox
    BY <1>8 DEF Receive
  <2>2. a.op = call.op /\ a.logits = reply[call.at].logits
    OBVIOUS
  <2> HIDE DEF a
  <2>3. CASE Underway
    <3>1. \A r \in Ranks : Replied(r)
      <4>1. \A q \in Ranks : q <= call.at
        BY <1>1, <1>8, RanksAre
      <4>2. ASSUME NEW q \in Ranks PROVE q < call.at \/ q = call.at
        <5>1. q \in Nat /\ call.at \in Nat
          BY <1>1, RanksAre
        <5> QED BY <4>1, <5>1
      <4> QED BY <1>1, <4>2
    <3>2. reply[call.at].logits = Content(call.id, NAr, Ranks)
      BY <1>1, <2>3, RankTypes DEF HostInv, ForwardInv
    <3>3. Ranks' = Ranks
      BY <1>2 DEF Ranks
    <3>4. AnswerInv'
      BY <1>4, <2>1, <2>2, <3>2, <3>3 DEF AnswerInv
    <3>5. ~ Underway' /\ call'.id = call.id
      BY <1>4, <2>1
    <3> QED BY <1>2, <2>1, <2>3, <3>1, <3>4, <3>5, ForwardOver
  <2>4. CASE ~ Underway
    BY <1>5, <2>1, <2>2, <2>4 DEF Underway
  <2> QED BY <2>3, <2>4
<1> QED BY <1>6, <1>7, <1>8

(* A tensor-parallel rank that failed inside a forward would leave its peers at *)
(* a barrier, so that none of their later sums would have its partial.          *)
TpForwardsRun == <<"TP", "layers">> \notin MayFail /\ <<"TP", "out">> \notin MayFail

LEMMA FailStreams ==
  ASSUME TpForwardsRun, TpState, NEW r \in Ranks, Fail(r)
  PROVE  StreamInv'
<1>1. /\ pc[r] \in {"recv", "layers", "out"} \cup SlotOps
      /\ <<layout.kind, pc[r]>> \in MayFail /\ AnswersWith(r, FALSE, Bad, <<>>)
      /\ UNCHANGED <<layout, round, streamVars, arVars, inbox, call, answer>>
  BY DEF Fail, Answers
<1>2. pc[r] # "recv" /\ layout.kind = "TP"
  BY RankTypes DEF HostInv, ForwardInv, TpState
<1>3. pc[r] \in SlotOps
  BY <1>1, <1>2 DEF TpForwardsRun
<1> QED BY <1>1, <1>3, SlotStreams

LEMMA StreamsInductive ==
  ASSUME TpForwardsRun, TpState, [Next]_vars
  PROVE  StreamInv'
<1>1. CASE Forward \/ ResetKvSlot \/ SnapshotKvSlot \/ RestoreKvSlot
  BY <1>1, CallsStreams DEF Forward, ResetKvSlot, SnapshotKvSlot, RestoreKvSlot
<1>2. CASE Receive
  BY <1>2, ReceiveStreams
<1>3. ASSUME NEW r \in Ranks, Reset(r) \/ Snapshot(r) \/ Restore(r) PROVE StreamInv'
  <2>1. CASE Reset(r)
    BY <2>1, SlotStreams DEF Reset, Answers, SlotOps
  <2>2. CASE Snapshot(r)
    BY <2>2, SlotStreams DEF Snapshot, SlotOps
  <2>3. CASE Restore(r)
    BY <2>3, SlotStreams DEF Restore, Answers, SlotOps
  <2> QED BY <1>3, <2>1, <2>2, <2>3
<1>4. ASSUME NEW r \in Ranks, PeerStep(r) PROVE FALSE
  <2>1. pc[r] # "recv"
    BY RankTypes DEF HostInv, ForwardInv
  <2>2. IsLast(r)
    <3>1. layout.stages = 1 /\ Stage(r) = 0
      BY RankTypes, TopologyAssumption DEF TpState
    <3> QED BY <3>1 DEF IsLast
  <2> QED BY <1>4, <2>1, <2>2 DEF PeerStep, HandOffStep, PeerRecv, GrowDst, PeerSend
<1>5. ASSUME NEW r \in Ranks, TimeOut(r) \/ TimeOutEarly(r) PROVE FALSE
  BY <1>5 DEF TimeOut, TimeOutEarly, TpState
<1>6. ASSUME NEW r \in Ranks, Works(r) PROVE StreamInv'
  BY <1>3, <1>4, <1>5, <1>6, TakeStreams, AllReduceStreams, FinishStreams DEF Works
<1>7. CASE UNCHANGED vars
  <2>1. /\ UNCHANGED <<layout, pc, cur, round, streamVars, arVars, reply, answer, inbox, call>>
        /\ layout' = layout /\ backend' = backend /\ call' = call
    BY <1>7 DEF vars, topologyVars, sessionVars, arVars
  <2>2. SameCall /\ \A r \in Ranks : inbox'[r] = inbox[r]
    BY <2>1 DEF SameCall
  <2> QED BY <2>1, <2>2, QuietStreams
<1> QED BY <1>1, <1>2, <1>5, <1>6, <1>7, DeviceStreams, FailStreams DEF Next

LEMMA StreamsInitially ==
  ASSUME Init, layout.kind = "TP"
  PROVE  StreamInv
<1>1. /\ layout \in Layouts /\ pc = [r \in Ranks |-> "idle"] /\ cur = [r \in Ranks |-> NoCommand]
      /\ round = [r \in Ranks |-> 0] /\ inbox = [r \in Ranks |-> <<>>]
      /\ reply = [r \in Ranks |-> NoReply] /\ call = NoCall /\ answer = NoAnswer
      /\ ticket = [r \in Ranks |-> 0]
      /\ backend \in IF layout.width = 1 THEN {"none"} ELSE Backends
  BY DEF Init, TopologyInit, ArInit
<1>2. /\ queue = [r \in Ranks |-> <<>>] /\ buf = [r \in Ranks |-> Bad]
      /\ dram = [r \in Ranks |-> Bad] /\ staging = [r \in Ranks |-> [q \in Ranks |-> Bad]]
      /\ asked = [e \in Events |-> 0] /\ fired = [e \in Events |-> 0]
  BY DEF Init, StreamsInit
<1>3. ~ Underway
  BY <1>1 DEF Underway, NoCall
<1>4. \A r \in Ranks : ~ Runs(r) /\ queue[r] = <<>> /\ HostSpot(r) = Start /\ Through(r) = 0
  BY <1>1, <1>2, <1>3 DEF Runs, NoCommand, HostSpot, Through
<1>5. StreamTypes
  BY <1>2 DEF StreamTypes
<1>6. BackendInv
  BY <1>1, ArAssumption DEF BackendInv
<1>7. AnswerInv
  BY <1>1 DEF AnswerInv, NoAnswer
<1>8. TicketInv
  <2>1. \A r \in Ranks : Ticket(r, 0)
    <3>1. PerRound * 0 = 0 /\ 0 + 0 = 0
      BY PerRoundIs
    <3> QED BY <1>1, <1>4, <3>1 DEF Ticket, PhaseOf
  <2> QED BY <2>1 DEF TicketInv
<1>9. DeviceInv
  <2>1. PICK G : G = [r \in Ranks |-> Start]
    OBVIOUS
  <2>2. Start \in Spots
    BY SpotsAre
  <2>3. G \in [Ranks -> Spots] /\ \A r \in Ranks : G[r] = Start
    BY <2>1, <2>2
  <2>4. /\ TimesTold(Start) = 0 /\ TimesPulled(Start) = 0 /\ TimesSummed(Start) = 0
        /\ Start.has = "nothing" /\ Start.got = {} /\ Start.seen = {} /\ Start.clear = {}
    BY CountsAre, FieldsAre
  <2>5. ASSUME NEW r \in Ranks PROVE At(r, 0, 0, Start)
    <3>1. Leads(FrameOf(r, 0, 0), queue[r], Start, HostSpot(r))
      BY <1>4, <2>2, NowhereLeads
    <3>2. Shows(r, Start) /\ ToldByHost(r, Start)
      BY <1>4, <2>4 DEF Shows, ToldByHost
    <3>3. <<"written", r>> \in Events /\ <<"pulled", r>> \in Events
      BY DEF Events
    <3>4. Records(fired, 0, 0, r, Start) /\ Records(asked, 0, 0, r, HostSpot(r))
      BY <1>2, <1>4, <2>4, <3>3 DEF Records
    <3> QED BY <3>1, <3>2, <3>4 DEF At
  <2>6. \A r, q \in Ranks : Knows(Start, q, Start)
    BY <2>4 DEF Knows
  <2>7. Devices(0, 0, G)
    BY <2>3, <2>5, <2>6 DEF Devices
  <2> QED BY <2>3, <2>7 DEF DeviceInv
<1>10. ASSUME NEW r \in Ranks PROVE HostInv(r)
  <2>1. ForwardInv(r)
    <3>1. pc[r] = "idle" /\ inbox[r] = <<>>
      BY <1>1
    <3>2. DOMAIN inbox[r] = {}
      BY <3>1
    <3> QED BY <1>3, <1>4, <3>1, <3>2 DEF ForwardInv, Waiting
  <2>2. DrainedInv(r)
    BY <1>1, <1>4 DEF DrainedInv
  <2> QED BY <2>1, <2>2 DEF HostInv
<1> QED BY <1>5, <1>6, <1>7, <1>8, <1>9, <1>10 DEF StreamInv

SumInv == TpInv /\ SessionInv /\ (layout.kind = "TP" => StreamInv)

LEMMA SumInvariant ==
  ASSUME TpForwardsRun
  PROVE  Spec => []SumInv
<1>1. Init => SumInv
  BY TpInitially, SessionInitially, StreamsInitially DEF SumInv
<1>2. SumInv /\ [Next]_vars => SumInv'
  <2> SUFFICES ASSUME SumInv, [Next]_vars PROVE SumInv'
    OBVIOUS
  <2>1. TpInv' /\ SessionInv'
    BY TpInductive, SessionInductive DEF SumInv
  <2>2. layout' = layout
    BY OtherSteps DEF ArStep, ArLayers, ArPublish, ArPull, ArAdd, ArClear, ArDone, ArSame
  <2>3. ASSUME layout.kind = "TP" PROVE StreamInv'
    <3>1. TpState
      BY <2>3 DEF SumInv, TpInv, TpState
    <3> QED BY <3>1, StreamsInductive
  <2> QED BY <2>1, <2>2, <2>3 DEF SumInv
<1> QED BY <1>1, <1>2, PTL DEF Spec

(* A device that has nothing of the forward yet has the embedding still to do. *)
LEMMA NothingYet ==
  ASSUME TpState, NEW w, NEW p, NEW G, Ready(w, p, G), NEW r \in Ranks, Runs(r),
         G[r].has = "nothing"
  PROVE  \E i \in DOMAIN queue[r] : queue[r][i].op = "embed"
<1>1. G[r] \in Spots /\ At(r, w, p, G[r]) /\ queue[r] \in Seq(Instructions)
  BY DEF Ready, Devices, StreamTypes
<1>2. HostSpot(r).has # "nothing"
  <2>1. PICK j \in Nat : j = round[r]
    BY RankTypes
  <2>2. Peers(r) \in SUBSET Nat
    BY TpPeers DEF TpState
  <2> QED BY <2>1, <2>2, FieldsAre, PeerFieldsAre DEF HostSpot
<1>3. queue[r] # <<>>
  BY <1>2, DrainedSpot
<1>4. PICK u \in Spots : Moves(FrameOf(r, w, p), Head(queue[r]), G[r], u)
  BY <1>1, <1>3, HeadLeads DEF At
<1>5. PICK s \in Spots : s = G[r] /\ s.has = "nothing"
  BY <1>1
<1>6. s # WholeOf(s.round)
  <2>1. s.round \in Nat
    BY DEF Spots
  <2> QED BY <1>5, <2>1, FieldsAre
<1>7. PICK o : o = Head(queue[r])
  OBVIOUS
<1>8. o = Embed(FrameOf(r, w, p).forward)
  BY <1>4, <1>5, <1>6, <1>7 DEF Moves
<1>9. o.op = "embed" /\ o = queue[r][1]
  BY <1>1, <1>3, <1>7, <1>8, HeadTailProperties DEF Embed
<1>10. 1 \in DOMAIN queue[r]
  <2>1. Len(queue[r]) \in Nat /\ Len(queue[r]) # 0 /\ DOMAIN queue[r] = 1 .. Len(queue[r])
    BY <1>1, <1>3, EmptySeq, LenProperties
  <2> QED BY <2>1
<1> QED BY <1>9, <1>10

LEMMA SumsFollow ==
  ASSUME SumInv
  PROVE  SumsAreWhole
<1>1. SUFFICES ASSUME layout.kind = "TP", NEW r \in Ranks, cur[r].op = "forward", round[r] > 0
               PROVE  /\ \/ buf[r] # Bad
                         \/ \E i \in DOMAIN queue[r] : queue[r][i].op = "embed"
                      /\ pc[r] = "out" /\ Drained(r) =>
                           buf[r] = Content(cur[r].id, NAr, Group(Stage(r)))
  BY DEF SumsAreWhole
<1>2. TpState /\ Runs(r)
  BY <1>1 DEF SumInv, TpInv, TpState, Runs
<1>3. Underway /\ cur[r].id = call.id /\ HostInv(r) /\ Group(Stage(r)) = Ranks
  <2>1. Group(Stage(r)) = Ranks
    BY <1>2, TpPeers DEF TpState
  <2> QED BY <1>2, <2>1, RankTypes DEF HostInv, ForwardInv
<1>4. PICK w, p \in Nat : \E G \in [Ranks -> Spots] : Ready(w, p, G)
  BY <1>2, ReadyIs
<1>5. PICK G \in [Ranks -> Spots] : Ready(w, p, G)
  BY <1>4
<1>6. Shows(r, G[r]) /\ G[r] \in Spots
  BY <1>5 DEF Ready, Devices, At
<1>7. \/ buf[r] # Bad
      \/ \E i \in DOMAIN queue[r] : queue[r][i].op = "embed"
  <2>1. call.id > 0
    <3>1. ~ Idle
      BY <1>3 DEF Idle, Underway
    <3> QED BY <1>2, <3>1 DEF TpState, SessionInv, CallInv
  <2>2. \A j, who : Content(call.id, j, who) # Bad
    BY <2>1 DEF Bad, Content
  <2>3. CASE G[r].has \in {"whole", "part"}
    BY <1>6, <2>2, <2>3 DEF Shows
  <2>4. CASE G[r].has = "nothing"
    BY <1>2, <1>5, <2>4, NothingYet
  <2>5. G[r].has \in {"nothing", "whole", "part"}
    BY <1>6 DEF Spots
  <2> QED BY <2>3, <2>4, <2>5
<1>8. ASSUME pc[r] = "out", Drained(r) PROVE buf[r] = Content(call.id, NAr, Ranks)
  <2>1. round[r] = NAr
    BY <1>3, <1>8 DEF HostInv, ForwardInv
  <2>2. G[r] = WholeOf(NAr)
    BY <1>2, <1>5, <1>8, <2>1, DrainedSpot DEF Drained, HostSpot
  <2>3. WholeOf(NAr).has = "whole" /\ WholeOf(NAr).round = NAr
    BY TopologyAssumption, FieldsAre
  <2> QED BY <1>6, <2>2, <2>3 DEF Shows
<1> QED BY <1>3, <1>7, <1>8

(* In a tensor-parallel stage of any number of ranks, for any number of rounds,  *)
(* with either backend and either ordering of the pulls, whatever the streams'   *)
(* interleaving: no rank's buffer ever holds anything but the partial of that    *)
(* rank or the sum of all of them, of one round of one forward, and what the     *)
(* output head reads is the whole of the last round.                             *)
THEOREM SumsAreAlwaysWhole ==
  ASSUME TpForwardsRun
  PROVE  Spec => []SumsAreWhole
<1>1. SumInv => SumsAreWhole
  BY SumsFollow
<1> QED BY <1>1, SumInvariant, PTL

(* The logits that a tensor-parallel forward returns are those of that forward, *)
(* from the partials of all ranks through all rounds (run_forward).             *)
THEOREM TpLogitsAreOwn ==
  ASSUME TpForwardsRun
  PROVE  Spec => [](layout.kind = "TP" => LogitsAreOwn)
<1>1. SumInv => (layout.kind = "TP" => LogitsAreOwn)
  <2> SUFFICES ASSUME SumInv, layout.kind = "TP" PROVE LogitsAreOwn
    OBVIOUS
  <2>1. AnswerInv /\ layout \in Layouts
    BY DEF SumInv, TpInv, StreamInv
  <2>2. layout.stages - 1 = 0 /\ Group(0) = Ranks
    BY <2>1, TpLayout, TopologyAssumption
  <2> QED BY <2>1, <2>2 DEF AnswerInv, LogitsAreOwn
<1> QED BY <1>1, SumInvariant, PTL

-----------------------------------------------------------------------------
(* The streams of stages of one rank each: a pipeline, a hybrid layout until   *)
(* something fails, a single rank.  Where a device is in the current forward:  *)
(* 0 before it, 1 past the wait for the stage before, LoadedAt(j) past j of    *)
(* its layers, SentAt past the record behind the hand-off; n counts that       *)
(* record over all forwards.                                                   *)
Points == [at : Nat, n : Nat]
LoadedAt(j) == 2 + j
SentAt == NAr + 4
Point(a, n) == [at |-> a, n |-> n]
Before(s) == [s EXCEPT !.at = 0]

(* A forward on a rank: records is how often the stage before has recorded.    *)
Errand(r, f, m) == [rank |-> r, forward |-> f, records |-> m]

(* What an operation of a stream does to its device; one that an earlier       *)
(* forward left behind does nothing for this one.                              *)
Advances(c, o, s, t) ==
  /\ o.op = "record" => o = Record(<<"sent", c.rank>>)
  /\ t.n = s.n + (IF o.op = "record" THEN 1 ELSE 0)
  /\ \/ s.at = 0 /\ t.at = 0
     \/ s.at = 0 /\ t.at = 2 /\ c.rank = 0 /\ o = Embed(c.forward)
     \/ s.at = 0 /\ t.at = 1 /\ c.rank > 0 /\ o = WaitFor(<<"sent", c.rank - 1>>, c.records)
     \/ s.at = 1 /\ t.at = 2 /\ c.rank > 0 /\ o = Load(c.forward)
     \/ s.at > 1 /\ s.at < NAr + 2 /\ t.at = s.at + 1 /\ o = Layer(c.forward, s.at - 1)
     \/ s.at = NAr + 2 /\ t.at = NAr + 3 /\ o = SendOut
     \/ s.at = NAr + 3 /\ t.at = SentAt /\ o.op = "record"

(* Before a point: not further in the forward, and short of its record when    *)
(* that point is past it.                                                      *)
NotPast(s, t) ==
  /\ s.at <= t.at /\ s.n <= t.n
  /\ t.at = SentAt /\ s.at # SentAt => s.n < t.n

(* The operations lead a device from one point of the forward to another. *)
Brings(c, ops, s, t) ==
  \E h \in [1 .. Len(ops) + 1 -> Points] :
    /\ h[1] = s /\ h[Len(ops) + 1] = t
    /\ \A i \in 1 .. Len(ops) : Advances(c, ops[i], h[i], h[i + 1])
    /\ \A i \in 1 .. Len(ops) + 1 : NotPast(h[i], t)

(* An operation does not take a device back. *)
LEMMA AdvanceIsNotPast ==
  ASSUME NEW c, NEW o, NEW s \in Points, NEW t \in Points, Advances(c, o, s, t)
  PROVE  /\ NotPast(s, t)
         /\ \A u \in Points : NotPast(u, s) => NotPast(u, t)
<1>1. NAr \in Nat /\ NAr > 0
  BY TopologyAssumption
<1>2. /\ s.at \in Nat /\ s.n \in Nat /\ t.at \in Nat /\ t.n \in Nat
  BY DEF Points
<1>3. /\ t.n = s.n \/ t.n = s.n + 1
      /\ t.at = SentAt => t.n = s.n + 1 /\ s.at # SentAt
      /\ s.at <= t.at
  BY <1>1, <1>2 DEF Advances, SentAt, Layer, SendOut, Load, WaitFor, Embed
<1>4. NotPast(s, t)
  BY <1>1, <1>2, <1>3 DEF NotPast
<1>5. ASSUME NEW u \in Points, NotPast(u, s) PROVE NotPast(u, t)
  <2>1. u.at \in Nat /\ u.n \in Nat
    BY DEF Points
  <2> QED BY <1>1, <1>2, <1>3, <1>5, <2>1 DEF NotPast
<1> QED BY <1>4, <1>5

(* An empty stream leaves its device where it is. *)
LEMMA NothingBrings ==
  ASSUME NEW c, NEW s \in Points
  PROVE  /\ Brings(c, <<>>, s, s)
         /\ \A t : Brings(c, <<>>, s, t) => t = s
<1>1. Len(<<>>) = 0
  OBVIOUS
<1>2. NotPast(s, s)
  BY DEF NotPast, Points
<1>3. Brings(c, <<>>, s, s)
  <2> DEFINE h == [i \in 1 .. 1 |-> s]
  <2>1. h \in [1 .. 1 -> Points] /\ h[1] = s
    OBVIOUS
  <2>2. 1 .. 0 = {} /\ 1 .. 1 = {1}
    OBVIOUS
  <2> HIDE DEF h
  <2> QED BY <1>1, <1>2, <2>1, <2>2 DEF Brings
<1>4. ASSUME NEW t, Brings(c, <<>>, s, t) PROVE t = s
  BY <1>1, <1>4 DEF Brings
<1> QED BY <1>3, <1>4

(* A stream gets one more operation. *)
LEMMA OneMoreBrings ==
  ASSUME NEW c, NEW S, NEW a \in Seq(S), NEW o, NEW s, NEW t \in Points, NEW u \in Points,
         Brings(c, a, s, t), Advances(c, o, t, u), NEW b, b = a \o <<o>>
  PROVE  Brings(c, b, s, u)
<1>1. PICK n : n = Len(a)
  OBVIOUS
<1>2. PICK h \in [1 .. n + 1 -> Points] :
         /\ h[1] = s /\ h[n + 1] = t
         /\ \A i \in 1 .. n : Advances(c, a[i], h[i], h[i + 1])
         /\ \A i \in 1 .. n + 1 : NotPast(h[i], t)
  BY <1>1 DEF Brings
<1>3. /\ n \in Nat /\ Len(b) = n + 1
      /\ \A i \in 1 .. n : b[i] = a[i]
      /\ b[n + 1] = o
  <2>1. <<o>> \in Seq({o}) /\ Len(<<o>>) = 1 /\ <<o>>[1] = o
    OBVIOUS
  <2>2. n \in Nat /\ DOMAIN a = 1 .. n
    BY <1>1, LenProperties
  <2>3. a \in Seq(S \cup {o}) /\ <<o>> \in Seq(S \cup {o})
    OBVIOUS
  <2>4. /\ Len(a \o <<o>>) = n + 1
        /\ \A i \in 1 .. n + 1 : (a \o <<o>>)[i] = IF i <= n THEN a[i] ELSE <<o>>[i - n]
    BY <1>1, <2>1, <2>3, ConcatProperties
  <2>5. n + 1 \in 1 .. n + 1 /\ ~ (n + 1 <= n) /\ (n + 1) - n = 1
    BY <2>2
  <2>6. (a \o <<o>>)[n + 1] = o
    BY <2>1, <2>4, <2>5
  <2>7. \A i \in 1 .. n : i \in 1 .. n + 1 /\ i <= n
    BY <2>2
  <2> QED BY <2>2, <2>4, <2>6, <2>7
<1> DEFINE g == [i \in 1 .. n + 2 |-> IF i <= n + 1 THEN h[i] ELSE u]
<1>4. /\ g \in [1 .. n + 2 -> Points] /\ g[1] = s /\ g[n + 2] = u /\ g[n + 1] = t
      /\ \A i \in 1 .. n + 1 : g[i] = h[i]
  BY <1>2, <1>3
<1> HIDE DEF g
<1>5. ASSUME NEW i \in 1 .. n + 1 PROVE Advances(c, b[i], g[i], g[i + 1])
  <2>1. CASE i \in 1 .. n
    <3>1. i \in 1 .. n + 1 /\ i + 1 \in 1 .. n + 1
      BY <1>3, <2>1
    <3> QED BY <1>2, <1>3, <1>4, <2>1, <3>1
  <2>2. CASE i = n + 1
    <3>1. i + 1 = n + 2
      BY <1>3, <2>2
    <3> QED BY <1>3, <1>4, <2>2, <3>1
  <2> QED BY <1>3, <2>1, <2>2
<1>6. NotPast(t, u) /\ \A x \in Points : NotPast(x, t) => NotPast(x, u)
  BY AdvanceIsNotPast
<1>7. ASSUME NEW i \in 1 .. n + 2 PROVE NotPast(g[i], u)
  <2>1. CASE i \in 1 .. n + 1
    <3>1. g[i] = h[i] /\ h[i] \in Points /\ NotPast(h[i], t)
      BY <1>2, <1>4, <2>1
    <3> QED BY <1>6, <3>1
  <2>2. CASE i = n + 2
    BY <1>4, <2>2 DEF NotPast, Points
  <2> QED BY <1>3, <2>1, <2>2
<1>8. Len(b) + 1 = n + 2
  BY <1>3
<1> QED BY <1>3, <1>4, <1>5, <1>7, <1>8 DEF Brings

(* The device executes the first operation. *)
LEMMA HeadBrings ==
  ASSUME NEW c, NEW S, NEW a \in Seq(S), a # <<>>, NEW s, NEW t, Brings(c, a, s, t)
  PROVE  \E u \in Points : Advances(c, Head(a), s, u) /\ Brings(c, Tail(a), u, t)
<1>1. PICK n : n = Len(a)
  OBVIOUS
<1>2. /\ n \in Nat /\ n > 0 /\ Len(Tail(a)) = n - 1
      /\ Head(a) = a[1]
      /\ \A i \in 1 .. n - 1 : Tail(a)[i] = a[i + 1]
  BY <1>1, HeadTailProperties, LenProperties, EmptySeq
<1>3. PICK h \in [1 .. n + 1 -> Points] :
         /\ h[1] = s /\ h[n + 1] = t
         /\ \A i \in 1 .. n : Advances(c, a[i], h[i], h[i + 1])
         /\ \A i \in 1 .. n + 1 : NotPast(h[i], t)
  BY <1>1 DEF Brings
<1> DEFINE g == [i \in 1 .. n |-> h[i + 1]]
<1>4. h[2] \in Points /\ Advances(c, Head(a), s, h[2])
  BY <1>2, <1>3
<1>5. g \in [1 .. n -> Points] /\ g[1] = h[2] /\ g[n] = t
  BY <1>2, <1>3
<1>6. ASSUME NEW i \in 1 .. n - 1 PROVE Advances(c, Tail(a)[i], g[i], g[i + 1])
  <2>1. g[i] = h[i + 1] /\ g[i + 1] = h[(i + 1) + 1] /\ i + 1 \in 1 .. n
    BY <1>2
  <2> HIDE DEF g
  <2> QED BY <1>2, <1>3, <2>1
<1>7. ASSUME NEW i \in 1 .. n PROVE NotPast(g[i], t)
  <2>1. g[i] = h[i + 1] /\ i + 1 \in 1 .. n + 1
    BY <1>2
  <2> HIDE DEF g
  <2> QED BY <1>3, <2>1
<1>8. Brings(c, Tail(a), h[2], t)
  <2>1. Len(Tail(a)) + 1 = n
    BY <1>2
  <2> HIDE DEF g
  <2> QED BY <1>2, <1>5, <1>6, <1>7, <2>1 DEF Brings
<1> QED BY <1>4, <1>8

(* Where a device is, it is not past where the host has brought its stream. *)
LEMMA BringsForward ==
  ASSUME NEW c, NEW S, NEW a \in Seq(S), NEW s, NEW t, Brings(c, a, s, t)
  PROVE  NotPast(s, t) /\ s \in Points /\ t \in Points
<1>1. Len(a) \in Nat
  OBVIOUS
<1>2. 1 \in 1 .. Len(a) + 1 /\ Len(a) + 1 \in 1 .. Len(a) + 1
  BY <1>1
<1> QED BY <1>2 DEF Brings

(* Whatever a stream has left of a forward does nothing for the next one. *)
LEMMA BringsNothing ==
  ASSUME NEW c, NEW d, c.rank = d.rank, NEW S, NEW a \in Seq(S), NEW s, NEW t,
         Brings(c, a, s, t)
  PROVE  Brings(d, a, Before(s), Before(t))
<1>1. PICK n \in Nat : n = Len(a)
  OBVIOUS
<1>2. PICK h \in [1 .. n + 1 -> Points] :
         /\ h[1] = s /\ h[n + 1] = t
         /\ \A i \in 1 .. n : Advances(c, a[i], h[i], h[i + 1])
         /\ \A i \in 1 .. n + 1 : NotPast(h[i], t)
  BY <1>1 DEF Brings
<1> DEFINE g == [i \in 1 .. n + 1 |-> Before(h[i])]
<1>3. \A x \in Points : /\ Before(x) \in Points /\ Before(x).at = 0 /\ Before(x).n = x.n
                        /\ x.n \in Nat
  BY DEF Before, Points
<1>4. g \in [1 .. n + 1 -> Points] /\ g[1] = Before(s) /\ g[n + 1] = Before(t)
  BY <1>2, <1>3
<1>5. ASSUME NEW i \in 1 .. n PROVE Advances(d, a[i], g[i], g[i + 1])
  <2>1. /\ i \in 1 .. n + 1 /\ i + 1 \in 1 .. n + 1
        /\ g[i] = Before(h[i]) /\ g[i + 1] = Before(h[i + 1])
    BY <1>1
  <2> HIDE DEF g
  <2>2. /\ g[i].at = 0 /\ g[i + 1].at = 0 /\ g[i].n = h[i].n /\ g[i + 1].n = h[i + 1].n
    BY <1>2, <1>3, <2>1
  <2> QED BY <1>2, <2>2 DEF Advances
<1>6. ASSUME NEW i \in 1 .. n + 1 PROVE NotPast(g[i], Before(t))
  <2>1. g[i] = Before(h[i]) /\ h[i] \in Points /\ NotPast(h[i], t) /\ t \in Points
    BY <1>2
  <2>2. SentAt # 0
    BY TopologyAssumption DEF SentAt
  <2> HIDE DEF g
  <2> QED BY <1>3, <2>1, <2>2 DEF NotPast
<1> HIDE DEF g
<1> QED BY <1>1, <1>4, <1>5, <1>6 DEF Brings

(* What a stage of one rank and its edge are in, with its device.               *)
Tasked(r) == \E i \in DOMAIN inbox[r] : inbox[r][i].op = "forward"

(* Where the host has brought a rank's stream to. *)
HostAt(r) ==
  IF Runs(r)
  THEN IF pc[r] \in {"layers", "out"} THEN LoadedAt(round[r])
       ELSE IF pc[r] = "sent" THEN SentAt ELSE 0
  ELSE IF Underway /\ Replied(r) /\ reply[r].ok
       THEN IF r + 1 \in Ranks THEN SentAt ELSE LoadedAt(NAr)
       ELSE 0

Sent(r) == <<"sent", r>>
HostPoint(r) == Point(HostAt(r), asked[Sent(r)])
ErrandOf(r) == Errand(r, call.id, IF r > 0 THEN asked[Sent(r - 1)] ELSE 0)

(* What the memories hold for a device's place. *)
Holds(r, s) ==
  /\ s.at > 1 => buf[r] = Content(call.id, IF s.at > NAr + 2 THEN NAr ELSE s.at - 2, {r})
  /\ s.at > NAr + 2 => dst[r + 1] = Content(call.id, NAr, {r})

(* A rank's device is at s: its stream leads from there to where the host is. *)
Stands(r, s) ==
  /\ Brings(ErrandOf(r), queue[r], s, HostPoint(r))
  /\ fired[Sent(r)] = s.n
  /\ Holds(r, s)

(* A device that is in the forward is so behind the stage before it. *)
Behind(r, G) == r > 0 /\ G[r].at > 0 => G[r - 1].at = SentAt
Located(G) == \A r \in Ranks : Stands(r, G[r]) /\ Behind(r, G)
ChainDevices == \E G \in [Ranks -> Points] : Located(G)

StageInv(r) ==
  /\ pc[r] \in SlotOps \cup {"idle", "recv", "layers", "out", "sent"}
  /\ Runs(r) => Underway /\ cur[r].id = call.id
  /\ \A i \in DOMAIN inbox[r] :
       inbox[r][i].op = "forward" => Underway /\ inbox[r][i].id = call.id
  /\ pc[r] = "recv" => r > 0 /\ round[r] = 0
  /\ pc[r] = "sent" => r + 1 \in Ranks
  /\ pc[r] = "layers" => round[r] < NAr
  /\ pc[r] = "out" => round[r] = NAr
  /\ Underway /\ Replied(r) /\ reply[r].ok /\ r + 1 \notin Ranks =>
       reply[r].logits = Content(call.id, NAr, {r})
  /\ layout.kind = "HYB" => /\ Replied(r) => reply[r].ok
                            /\ Underway => Replied(r) \/ Runs(r) \/ Tasked(r)

(* The edge into a rank has its event from when the stage before has sent until *)
(* the rank takes it; in a hybrid layout only then.                              *)
Handed(r) == HostAt(r - 1) = SentAt /\ HostAt(r) = 0
EdgeInv(r) ==
  /\ HostAt(r) > 0 => HostAt(r - 1) = SentAt
  /\ Handed(r) /\ ~ Replied(r) =>
       send_done[r] = [forward |-> call.id, record |-> asked[Sent(r - 1)]]
  /\ layout.kind = "HYB" /\ ~ Handed(r) => send_done[r] = NoEvent

ChainTypes == StreamTypes /\ DOMAIN dst = Ranks /\ DOMAIN send_done = Ranks
ChainAnswer ==
  answer.op = "forward" => answer.logits = Content(call.id, NAr, {layout.stages - 1})
StagesInv == \A r \in Ranks : StageInv(r)
EdgesInv == \A r \in Ranks : r > 0 => EdgeInv(r)
ChainInv == ChainTypes /\ ChainAnswer /\ ChainDevices /\ StagesInv /\ EdgesInv

(* Stages of one rank each, where the hand-off is known to hold. *)
Chained == layout.width = 1 /\ Sound
ChainState == SessionInv /\ Chained /\ ChainInv

-----------------------------------------------------------------------------
(* With one rank per stage, ranks, stages and groups are the same thing. *)
LEMMA ChainLayout ==
  ASSUME layout \in Layouts, layout.width = 1
  PROVE  /\ Ranks = 0 .. layout.stages - 1 /\ layout.stages \in Nat \ {0}
         /\ Ranks \subseteq Nat /\ 0 \in Ranks
         /\ \A r \in Ranks : /\ Stage(r) = r /\ Group(r) = {r} /\ Group(Stage(r)) = {r}
                             /\ Consumer(r) = r + 1 /\ Producer(r) = r - 1
                             /\ IsFirst(r) <=> r = 0
                             /\ IsLast(r) <=> r + 1 \notin Ranks
                             /\ r > 0 => r - 1 \in Ranks /\ (r - 1) + 1 = r
                             /\ r + 1 \in Ranks => (r + 1) - 1 = r /\ r + 1 > 0
                             /\ r + 1 \notin Ranks => r = layout.stages - 1
<1>1. layout.stages \in Nat \ {0}
  BY TopologyAssumption
<1>2. Ranks = 0 .. layout.stages - 1
  BY <1>1 DEF Ranks
<1>3. \A r \in Ranks : Stage(r) = r
  <2>1. \A r \in Nat : r \div 1 = r
    OBVIOUS
  <2> QED BY <1>2, <2>1 DEF Stage
<1>4. \A r \in Ranks : Group(r) = {r}
  BY <1>3 DEF Group
<1>5. \A r \in Ranks : Consumer(r) = r + 1 /\ Producer(r) = r - 1
  BY DEF Consumer, Producer
<1>6. \A r \in Ranks : /\ IsFirst(r) <=> r = 0
                       /\ IsLast(r) <=> r + 1 \notin Ranks
  BY <1>1, <1>2, <1>3 DEF IsFirst, IsLast
<1> QED BY <1>1, <1>2, <1>3, <1>4, <1>5, <1>6

(* Where a rank's host can be. *)
LEMMA HostAtIs ==
  ASSUME ChainState, NEW r \in Ranks
  PROVE  /\ HostAt(r) \in Nat /\ HostPoint(r) \in Points
         /\ HostPoint(r).at = HostAt(r) /\ HostPoint(r).n = asked[Sent(r)]
         /\ asked[Sent(r)] \in Nat
         /\ Runs(r) /\ pc[r] \in {"layers", "out"} => HostAt(r) = 2 + round[r]
                                                      /\ HostAt(r) # SentAt
         /\ pc[r] \in {"idle", "recv"} /\ ~ Replied(r) => HostAt(r) = 0
<1>1. /\ NAr \in Nat /\ round[r] \in Nat
      /\ pc[r] = "layers" => round[r] < NAr
      /\ pc[r] = "out" => round[r] = NAr
  BY TopologyAssumption DEF ChainState, SessionInv, SessionTypes, ChainInv, StagesInv, StageInv
<1>2. asked[Sent(r)] \in Nat
  BY DEF ChainState, ChainInv, ChainTypes, StreamTypes, Events, Sent
<1>3. HostAt(r) \in Nat
  BY <1>1 DEF HostAt, LoadedAt, SentAt
<1>4. Runs(r) /\ pc[r] \in {"layers", "out"} => HostAt(r) = 2 + round[r] /\ HostAt(r) # SentAt
  BY <1>1 DEF HostAt, LoadedAt, SentAt
<1>5. pc[r] \in {"idle", "recv"} /\ ~ Replied(r) => HostAt(r) = 0
  BY DEF HostAt
<1> QED BY <1>2, <1>3, <1>4, <1>5 DEF HostPoint, Point, Points

(* A rank that runs a forward or has replied. *)
LEMMA ChainRank ==
  ASSUME ChainState, NEW r \in Ranks
  PROVE  /\ layout \in Layouts /\ layout.width = 1 /\ r \in Nat /\ call.id \in Nat
         /\ StageInv(r) /\ (r > 0 => EdgeInv(r))
         /\ Runs(r) => /\ Underway /\ ~ Idle /\ cur[r].id = call.id /\ call.id > 0
                       /\ ~ Replied(r) /\ pc[r] \in {"recv", "layers", "out", "sent"}
         /\ ~ Runs(r) => pc[r] \in SlotOps \cup {"idle"}
         /\ Replied(r) => pc[r] = "idle" /\ ~ Runs(r) /\ inbox[r] = <<>>
         /\ queue[r] \in Seq(Instructions)
<1>1. layout \in Layouts /\ layout.width = 1 /\ call.id \in Nat
  BY DEF ChainState, SessionInv, SessionTypes, Chained
<1>2. r \in Nat
  BY <1>1, ChainLayout
<1>3. StageInv(r) /\ (r > 0 => EdgeInv(r))
  BY DEF ChainState, ChainInv, StagesInv, EdgesInv
<1>4. PlaceInv(r) /\ ReplyInv(r)
  BY DEF ChainState, SessionInv, RankInv
<1>5. Replied(r) => pc[r] = "idle" /\ ~ Runs(r) /\ inbox[r] = <<>>
  BY <1>4 DEF ReplyInv, PlaceInv, Runs, NoCommand
<1>6. ASSUME Runs(r) PROVE ~ Idle /\ call.id > 0 /\ pc[r] \notin SlotOps \cup {"idle"}
  <2>1. ~ Idle
    BY <1>3, <1>6 DEF StageInv, Underway, Idle
  <2>2. call.id > 0
    BY <2>1 DEF ChainState, SessionInv, CallInv
  <2>3. pc[r] \notin SlotOps \cup {"idle"}
    BY <1>4, <1>6 DEF PlaceInv, Runs, NoCommand, SlotOps
  <2> QED BY <2>1, <2>2, <2>3
<1>7. ASSUME ~ Runs(r) PROVE pc[r] \in SlotOps \cup {"idle"}
  BY <1>4, <1>7 DEF PlaceInv, Runs
<1>8. queue[r] \in Seq(Instructions)
  BY DEF ChainState, ChainInv, ChainTypes, StreamTypes
<1>9. ASSUME Runs(r) PROVE pc[r] \in {"recv", "layers", "out", "sent"}
  BY <1>3, <1>6, <1>9 DEF StageInv
<1> QED BY <1>1, <1>2, <1>3, <1>5, <1>6, <1>7, <1>8, <1>9 DEF StageInv

(* Only a stage that has one behind it is past its hand-off. *)
LEMMA HandsOnward ==
  ASSUME ChainState, NEW r \in Ranks, HostAt(r) > NAr + 2
  PROVE  r + 1 \in Ranks
<1>1. NAr \in Nat /\ NAr > 0 /\ LoadedAt(NAr) = NAr + 2
  BY TopologyAssumption DEF LoadedAt
<1>2. StageInv(r) /\ round[r] \in Nat
  BY ChainRank DEF ChainState, SessionInv, SessionTypes
<1>3. CASE Runs(r) /\ pc[r] \in {"layers", "out"}
  <2>1. round[r] <= NAr
    <3>1. (pc[r] = "layers" => round[r] < NAr) /\ (pc[r] = "out" => round[r] = NAr)
      BY <1>2 DEF StageInv
    <3> QED BY <1>1, <1>2, <1>3, <3>1
  <2>2. HostAt(r) = 2 + round[r]
    BY <1>3, HostAtIs
  <2> QED BY <1>1, <1>2, <2>1, <2>2
<1>4. CASE Runs(r) /\ pc[r] = "sent"
  BY <1>2, <1>4 DEF StageInv
<1>5. CASE ~ Runs(r) \/ pc[r] \notin {"layers", "out", "sent"}
  BY <1>1, <1>5 DEF HostAt
<1> QED BY <1>3, <1>4, <1>5

(* What a host's step leaves of a device's place. *)
Kept(r) ==
  /\ HostAt(r)' # 0 => \A s \in Points : Stands(r, s) => Stands(r, s)'
  /\ HostAt(r)' = 0 => \A s \in Points : Stands(r, s) => Stands(r, Before(s))'

(* Where a device stands depends on its rank's part of the state alone. *)
LEMMA StandsAt ==
  ASSUME ChainState, NEW r \in Ranks, NEW s \in Points, Stands(r, s)
  PROVE  /\ NotPast(s, HostPoint(r)) /\ s.at <= HostAt(r) /\ s.at \in Nat /\ s.n \in Nat
         /\ HostAt(r) = 0 => s = Before(s)
         /\ HostAt(r) <= NAr + 2 => s.at <= NAr + 2
<1>1. queue[r] \in Seq(Instructions)
  BY ChainRank
<1>2. NotPast(s, HostPoint(r))
  BY <1>1, BringsForward DEF Stands
<1>3. s.at \in Nat /\ s.n \in Nat /\ s.at <= HostAt(r)
  BY <1>2, HostAtIs DEF NotPast, Points
<1>4. HostAt(r) = 0 => s = Before(s)
  BY <1>3 DEF Before, Points
<1> QED BY <1>2, <1>3, <1>4, HostAtIs, TopologyAssumption

(* A step that leaves the rank's host and stream alone. *)
LEMMA KeptSame ==
  ASSUME ChainState, NEW r \in Ranks, call'.id = call.id, HostAt(r)' = HostAt(r),
         asked'[Sent(r)] = asked[Sent(r)], r > 0 => asked'[Sent(r - 1)] = asked[Sent(r - 1)],
         queue'[r] = queue[r], fired'[Sent(r)] = fired[Sent(r)], buf'[r] = buf[r],
         (r + 1 \in Ranks => dst'[r + 1] = dst[r + 1]) \/ HostAt(r) <= NAr + 2
  PROVE  Kept(r)
<1>1. HostPoint(r)' = HostPoint(r) /\ ErrandOf(r)' = ErrandOf(r)
  BY DEF HostPoint, ErrandOf, Sent
<1>2. ASSUME NEW s \in Points, Stands(r, s) PROVE Stands(r, s)'
  <2>1. Holds(r, s)'
    <3>1. s.at > NAr + 2 => dst'[r + 1] = dst[r + 1]
      <4>1. HostAt(r) <= NAr + 2 => s.at <= NAr + 2
        BY <1>2, StandsAt
      <4>2. s.at \in Nat /\ NAr \in Nat /\ s.at <= HostAt(r) /\ HostAt(r) \in Nat
        BY <1>2, StandsAt, HostAtIs, TopologyAssumption DEF Points
      <4>3. s.at > NAr + 2 => HostAt(r) > NAr + 2
        BY <4>2
      <4> QED BY <4>1, <4>2, <4>3, HandsOnward
    <3> QED BY <1>2, <3>1 DEF Stands, Holds
  <2>2. fired'[Sent(r)'] = s.n
    BY <1>2 DEF Stands, Sent
  <2> QED BY <1>1, <1>2, <2>1, <2>2 DEF Stands
<1>3. ASSUME HostAt(r)' = 0, NEW s \in Points, Stands(r, s) PROVE Stands(r, Before(s))'
  <2>1. s = Before(s)
    BY <1>3, StandsAt
  <2> QED BY <1>2, <1>3, <2>1
<1> QED BY <1>2, <1>3 DEF Kept

(* A host that leaves its forward. *)
LEMMA KeptForgets ==
  ASSUME ChainState, NEW r \in Ranks, HostAt(r)' = 0,
         asked'[Sent(r)] = asked[Sent(r)],
         queue'[r] = queue[r], fired'[Sent(r)] = fired[Sent(r)]
  PROVE  Kept(r)
<1>1. HostPoint(r)' = Before(HostPoint(r))
  BY HostAtIs DEF HostPoint, Sent, Point, Before
<1>2. ASSUME NEW s \in Points, Stands(r, s) PROVE Stands(r, Before(s))'
  <2>1. queue[r] \in Seq(Instructions)
    BY ChainRank
  <2>2. \A d : d.rank = r => Brings(d, queue[r], Before(s), Before(HostPoint(r)))
    <3>1. ErrandOf(r).rank = r
      BY DEF ErrandOf, Errand
    <3> QED BY <1>2, <2>1, <3>1, BringsNothing DEF Stands
  <2>3. ErrandOf(r)'.rank = r
    BY DEF ErrandOf, Errand
  <2>4. Brings(ErrandOf(r)', queue'[r], Before(s), HostPoint(r)')
    BY <1>1, <2>2, <2>3
  <2>5. Before(s).at = 0 /\ Before(s).n = s.n
    BY DEF Before, Points
  <2>6. Holds(r, Before(s))'
    BY <2>5, TopologyAssumption DEF Holds
  <2>7. fired'[Sent(r)'] = Before(s).n
    BY <1>2, <2>5 DEF Stands, Sent
  <2> QED BY <2>4, <2>6, <2>7 DEF Stands
<1> QED BY <1>2 DEF Kept

(* A host that goes on in its forward. *)
LEMMA KeptOnward ==
  ASSUME ChainState, NEW r \in Ranks, HostAt(r)' # 0, call'.id = call.id,
         fired'[Sent(r)] = fired[Sent(r)], buf'[r] = buf[r], dst'[r + 1] = dst[r + 1],
         \A s : Brings(ErrandOf(r), queue[r], s, HostPoint(r))
                  => Brings(ErrandOf(r)', queue'[r], s, HostPoint(r)')
  PROVE  Kept(r)
<1>1. ASSUME NEW s \in Points, Stands(r, s) PROVE Stands(r, s)'
  <2>1. Holds(r, s)'
    BY <1>1 DEF Stands, Holds
  <2>2. fired'[Sent(r)'] = s.n
    BY <1>1 DEF Stands, Sent
  <2> QED BY <1>1, <2>1, <2>2 DEF Stands
<1> QED BY <1>1 DEF Kept

(* A step that keeps every device's place. *)
LEMMA DevicesKept ==
  ASSUME ChainState, SessionInv', Ranks' = Ranks, \A r \in Ranks : Kept(r), EdgesInv'
  PROVE  ChainDevices'
<1>1. PICK G \in [Ranks -> Points] : Located(G)
  BY DEF ChainState, ChainInv, ChainDevices
<1>2. PICK H : H = [r \in Ranks |-> IF HostAt(r)' = 0 THEN Before(G[r]) ELSE G[r]]
  OBVIOUS
<1>3. /\ H \in [Ranks -> Points]
      /\ \A r \in Ranks : H[r] = IF HostAt(r)' = 0 THEN Before(G[r]) ELSE G[r]
  BY <1>1, <1>2 DEF Before, Points
<1>4. ASSUME NEW r \in Ranks PROVE Stands(r, H[r])' /\ HostAt(r)' \in Nat
  <2>1. Stands(r, G[r]) /\ G[r] \in Points
    BY <1>1 DEF Located
  <2>2. HostAt(r)' \in Nat
    <3>1. round'[r] \in Nat /\ NAr \in Nat
      BY TopologyAssumption DEF SessionInv, SessionTypes
    <3> QED BY <3>1 DEF HostAt, LoadedAt, SentAt
  <2>3. CASE HostAt(r)' = 0
    <3>1. Stands(r, Before(G[r]))'
      BY <2>1, <2>3 DEF Kept
    <3>2. H[r] = Before(G[r])
      BY <1>3, <2>3
    <3> QED BY <2>2, <3>1, <3>2
  <2>4. CASE HostAt(r)' # 0
    <3>1. Stands(r, G[r])'
      BY <2>1, <2>4 DEF Kept
    <3>2. H[r] = G[r]
      BY <1>3, <2>4
    <3> QED BY <2>2, <3>1, <3>2
  <2> QED BY <2>3, <2>4
<1>5. ASSUME NEW r \in Ranks, r > 0, H[r].at > 0 PROVE H[r - 1].at = SentAt
  <2>1. r - 1 \in Ranks
    BY ChainRank, ChainLayout, <1>5
  <2>2. HostAt(r)' # 0 /\ H[r] = G[r]
    BY <1>1, <1>3, <1>5 DEF Before, Points
  <2>3. HostAt(r)' > 0
    BY <1>4, <2>2
  <2>4. EdgeInv(r)'
    BY <1>5 DEF EdgesInv
  <2>5. HostAt(r - 1)' = SentAt /\ SentAt # 0
    BY <2>3, <2>4, TopologyAssumption DEF EdgeInv, SentAt
  <2>6. H[r - 1] = G[r - 1]
    BY <1>3, <2>1, <2>5
  <2> QED BY <1>1, <1>5, <2>2, <2>6 DEF Located, Behind
<1>6. \A r \in Ranks : Behind(r, H)
  BY <1>5 DEF Behind
<1>7. Located(H)'
  <2>1. \A r \in Ranks' : Stands(r, H[r])' /\ Behind(r, H)'
    BY <1>4, <1>6 DEF Behind
  <2> QED BY <2>1 DEF Located
<1> QED BY <1>3, <1>7 DEF ChainDevices

-----------------------------------------------------------------------------
(* A step of one rank's worker: the stages and edges it does not touch.         *)
RankSame(q) ==
  /\ pc'[q] = pc[q] /\ cur'[q] = cur[q] /\ round'[q] = round[q]
  /\ inbox'[q] = inbox[q] /\ reply'[q] = reply[q]

(* A stage whose rank is as before. *)
LEMMA StageSame ==
  ASSUME ChainState, UNCHANGED <<layout, call>>, NEW q \in Ranks, RankSame(q)
  PROVE  /\ StageInv(q)' /\ HostAt(q)' = HostAt(q) /\ Replied(q)' = Replied(q)
         /\ Ranks' = Ranks
<1>1. StageInv(q)
  BY ChainRank
<1>2. /\ Ranks' = Ranks /\ Runs(q)' = Runs(q) /\ Replied(q)' = Replied(q)
      /\ Underway' = Underway /\ Tasked(q)' = Tasked(q)
  BY DEF Ranks, Runs, Replied, Underway, Tasked, RankSame
<1>3. HostAt(q)' = HostAt(q)
  BY <1>2 DEF HostAt, RankSame
<1>4. StageInv(q)'
  BY <1>1, <1>2 DEF StageInv, RankSame
<1> QED BY <1>2, <1>3, <1>4

(* An edge whose two ranks are as before. *)
LEMMA EdgeSame ==
  ASSUME ChainState, UNCHANGED <<layout, call>>, NEW q \in Ranks, q > 0,
         HostAt(q)' = HostAt(q), HostAt(q - 1)' = HostAt(q - 1), Replied(q) => Replied(q)',
         send_done'[q] = send_done[q], asked'[Sent(q - 1)] = asked[Sent(q - 1)]
  PROVE  EdgeInv(q)'
<1>1. EdgeInv(q)
  BY ChainRank
<1>2. Handed(q)' = Handed(q)
  BY DEF Handed
<1> QED BY <1>1, <1>2 DEF EdgeInv, Sent

(* What a worker's step leaves alone, and what it has to see to. *)
OnlyWorker(r) ==
  /\ UNCHANGED <<layout, call, answer, fired>>
  /\ \A q \in Ranks \ {r} : /\ RankSame(q) /\ queue'[q] = queue[q] /\ buf'[q] = buf[q]
                            /\ q + 1 \in Ranks => dst'[q + 1] = dst[q + 1]
                            /\ asked'[Sent(q)] = asked[Sent(q)]
  /\ \A q \in Ranks \ {r, r + 1} : send_done'[q] = send_done[q]

(* One worker's step keeps the chain when its own stage and edges are kept. *)
LEMMA WorkerChain ==
  ASSUME ChainState, SessionInv', NEW r \in Ranks, OnlyWorker(r), ChainTypes',
         StageInv(r)', Kept(r), r > 0 => EdgeInv(r)', r + 1 \in Ranks => EdgeInv(r + 1)',
         r + 1 \in Ranks => asked'[Sent(r)] = asked[Sent(r)] \/ HostAt(r + 1) = 0
  PROVE  ChainInv'
<1>1. /\ UNCHANGED <<layout, call, answer, fired>> /\ Ranks' = Ranks
      /\ layout \in Layouts /\ layout.width = 1
  BY ChainRank DEF OnlyWorker, Ranks
<1>2. ASSUME NEW q \in Ranks, q # r
      PROVE  StageInv(q)' /\ HostAt(q)' = HostAt(q) /\ Replied(q)' = Replied(q)
  BY <1>1, <1>2, StageSame DEF OnlyWorker
<1>3. StagesInv'
  BY <1>1, <1>2 DEF StagesInv
<1>4. EdgesInv'
  <2>1. ASSUME NEW q \in Ranks, q > 0 PROVE EdgeInv(q)'
    <3>1. CASE q = r \/ q = r + 1
      BY <2>1, <3>1
    <3>2. CASE q # r /\ q # r + 1
      <4>1. q - 1 \in Ranks /\ q - 1 # r
        <5>1. r \in Nat /\ q \in Nat
          BY ChainRank
        <5> QED BY <1>1, <2>1, <3>2, <5>1, ChainLayout
      <4>2. /\ HostAt(q - 1)' = HostAt(q - 1) /\ HostAt(q)' = HostAt(q)
            /\ Replied(q)' = Replied(q)
        BY <1>2, <3>2, <4>1
      <4>3. send_done'[q] = send_done[q] /\ asked'[Sent(q - 1)] = asked[Sent(q - 1)]
        BY <3>2, <4>1 DEF OnlyWorker
      <4> QED BY <1>1, <2>1, <4>2, <4>3, EdgeSame
    <3> QED BY <3>1, <3>2
  <2> QED BY <1>1, <2>1 DEF EdgesInv
<1>5. ASSUME NEW q \in Ranks PROVE Kept(q)
  <2>1. CASE q = r
    BY <2>1
  <2>2. CASE q # r /\ q # r + 1
    <3>1. q > 0 => asked'[Sent(q - 1)] = asked[Sent(q - 1)]
      <4>1. q > 0 => q - 1 \in Ranks /\ q - 1 # r
        <5>1. r \in Nat /\ q \in Nat
          BY ChainRank
        <5> QED BY <1>1, <2>2, <5>1, ChainLayout
      <4> QED BY <4>1 DEF OnlyWorker
    <3>2. /\ call'.id = call.id /\ HostAt(q)' = HostAt(q) /\ fired'[Sent(q)] = fired[Sent(q)]
          /\ asked'[Sent(q)] = asked[Sent(q)] /\ queue'[q] = queue[q] /\ buf'[q] = buf[q]
          /\ q + 1 \in Ranks => dst'[q + 1] = dst[q + 1]
      BY <1>1, <1>2, <2>2 DEF OnlyWorker
    <3> QED BY <3>1, <3>2, KeptSame
  <2>3. CASE q = r + 1
    <3>1. q # r /\ q - 1 = r /\ r + 1 \in Ranks
      <4>1. r \in Nat
        BY ChainRank
      <4> QED BY <2>3, <4>1
    <3>2. /\ call'.id = call.id /\ HostAt(q)' = HostAt(q) /\ fired'[Sent(q)] = fired[Sent(q)]
          /\ asked'[Sent(q)] = asked[Sent(q)] /\ queue'[q] = queue[q] /\ buf'[q] = buf[q]
          /\ q + 1 \in Ranks => dst'[q + 1] = dst[q + 1]
      BY <1>1, <1>2, <3>1 DEF OnlyWorker
    <3>3. CASE asked'[Sent(r)] = asked[Sent(r)]
      BY <3>1, <3>2, <3>3, KeptSame
    <3>4. CASE HostAt(r + 1) = 0
      BY <2>3, <3>2, <3>4, KeptForgets
    <3> QED BY <3>1, <3>3, <3>4
  <2> QED BY <2>1, <2>2, <2>3
<1>6. ChainDevices'
  BY <1>1, <1>4, <1>5, DevicesKept
<1>7. ChainAnswer'
  BY <1>1 DEF ChainState, ChainInv, ChainAnswer
<1> QED BY <1>3, <1>4, <1>6, <1>7 DEF ChainInv

(* The edge behind a rank whose step hands nothing off, and the one into it.    *)
LEMMA EdgeNext ==
  ASSUME ChainState, NEW r \in Ranks, OnlyWorker(r), r + 1 \in Ranks,
         send_done'[r + 1] = send_done[r + 1], asked'[Sent(r)] = asked[Sent(r)],
         HostAt(r)' = HostAt(r) \/ (HostAt(r) # SentAt /\ HostAt(r)' # SentAt)
  PROVE  EdgeInv(r + 1)'
<1>1. /\ UNCHANGED <<layout, call>> /\ Ranks' = Ranks /\ r \in Nat
  BY ChainRank DEF OnlyWorker, Ranks
<1>2. (r + 1) - 1 = r /\ r + 1 > 0 /\ r + 1 # r
  BY <1>1
<1>3. PICK q \in Ranks : q = r + 1
  OBVIOUS
<1>4. q - 1 = r /\ q > 0 /\ HostAt(q)' = HostAt(q) /\ Replied(q)' = Replied(q)
  <2>1. q \in Ranks \ {r}
    BY <1>2, <1>3
  <2>2. RankSame(q)
    BY <2>1 DEF OnlyWorker
  <2> QED BY <1>1, <1>2, <1>3, <2>2, StageSame
<1>5. CASE HostAt(r)' = HostAt(r)
  <2>1. HostAt(q - 1)' = HostAt(q - 1)
    BY <1>4, <1>5
  <2> QED BY <1>1, <1>3, <1>4, <2>1, EdgeSame
<1>6. CASE HostAt(r) # SentAt /\ HostAt(r)' # SentAt
  <2>1. EdgeInv(q)
    BY <1>4, ChainRank
  <2>2. ~ (HostAt(q) > 0) /\ ~ Handed(q) /\ ~ Handed(q)'
    BY <1>4, <1>6, <2>1 DEF EdgeInv, Handed
  <2>3. EdgeInv(q)'
    BY <1>1, <1>3, <1>4, <2>1, <2>2 DEF EdgeInv
  <2> QED BY <1>3, <2>3
<1> QED BY <1>5, <1>6

(* Both edges of a rank whose step hands nothing off. *)
LEMMA EdgesQuiet ==
  ASSUME ChainState, NEW r \in Ranks, OnlyWorker(r), send_done' = send_done,
         UNCHANGED asked, Replied(r) => Replied(r)',
         \/ HostAt(r)' = HostAt(r)
         \/ /\ HostAt(r) # SentAt /\ HostAt(r)' # SentAt
            /\ HostAt(r) = 0 => r = 0
            /\ HostAt(r)' = 0 => Replied(r)' /\ layout.kind # "HYB"
  PROVE  /\ r > 0 => EdgeInv(r)'
         /\ r + 1 \in Ranks => EdgeInv(r + 1)'
<1>1. /\ UNCHANGED <<layout, call>> /\ Ranks' = Ranks
      /\ layout \in Layouts /\ layout.width = 1 /\ r \in Nat
  BY ChainRank DEF OnlyWorker, Ranks
<1>2. ASSUME NEW q \in Ranks, q # r
      PROVE  HostAt(q)' = HostAt(q) /\ Replied(q)' = Replied(q)
  BY <1>1, <1>2, StageSame DEF OnlyWorker
<1>3. ASSUME r > 0 PROVE EdgeInv(r)'
  <2>1. r - 1 \in Ranks /\ r - 1 # r
    BY <1>1, <1>3, ChainLayout
  <2>2. HostAt(r - 1)' = HostAt(r - 1)
    BY <1>2, <2>1
  <2>3. CASE HostAt(r)' = HostAt(r)
    BY <1>1, <1>3, <2>2, <2>3, EdgeSame
  <2>4. CASE HostAt(r)' # HostAt(r)
    <3>1. EdgeInv(r) /\ HostAt(r) > 0
      BY <1>3, <2>4, ChainRank, HostAtIs
    <3>2. HostAt(r - 1) = SentAt /\ ~ Handed(r)
      BY <3>1 DEF EdgeInv, Handed
    <3>3. HostAt(r)' = 0 => Replied(r)' /\ layout.kind # "HYB"
      BY <2>4
    <3>4. EdgeInv(r)'
      BY <1>1, <2>2, <3>1, <3>2, <3>3 DEF EdgeInv, Handed
    <3> QED BY <3>4
  <2> QED BY <2>3, <2>4
<1>4. ASSUME r + 1 \in Ranks PROVE EdgeInv(r + 1)'
  BY <1>4, EdgeNext
<1> QED BY <1>3, <1>4

(* Types, when no device or buffer changes. *)
LEMMA TypesSame ==
  ASSUME ChainState, UNCHANGED <<layout, streamVars>>, DOMAIN send_done' = DOMAIN send_done
  PROVE  ChainTypes'
<1>1. Ranks' = Ranks /\ Events' = Events
  BY DEF Ranks, Events
<1>2. ChainTypes
  BY DEF ChainState, ChainInv
<1> QED BY <1>1, <1>2 DEF ChainTypes, StreamTypes, streamVars

(* A worker answers: the end of a forward, of a slot's operation, or an error.  *)
Ends(r, ok, logits) ==
  \/ ~ Runs(r) /\ (layout.kind = "HYB" => ok)
  \/ Runs(r) /\ pc[r] = "sent" /\ ok
  \/ Runs(r) /\ pc[r] = "out" /\ ok /\ r + 1 \notin Ranks /\ logits = Content(call.id, NAr, {r})
  \/ Runs(r) /\ pc[r] # "sent" /\ ~ ok /\ layout.kind # "HYB"

(* What the rank's state is after its answer. *)
LEMMA AnswerIs ==
  ASSUME ChainState, NEW r \in Ranks, pc[r] # "idle", NEW ok \in BOOLEAN, NEW logits, NEW state,
         AnswersWith(r, ok, logits, state),
         UNCHANGED <<layout, round, streamVars, handOffVars, inbox, call, answer>>
  PROVE  /\ OnlyWorker(r) /\ ~ Runs(r)' /\ pc'[r] = "idle" /\ ~ Replied(r)
         /\ Current(r) => Replied(r)' /\ reply'[r].ok = ok /\ reply'[r].logits = logits
         /\ ~ Current(r) => ~ Replied(r)'
         /\ Runs(r) => Current(r) /\ Underway
         /\ ~ Runs(r) => ~ (Current(r) /\ Underway)
         /\ Underway' = Underway /\ Ranks' = Ranks /\ Tasked(r)' = Tasked(r)
<1>1. /\ DOMAIN pc = Ranks /\ DOMAIN cur = Ranks /\ DOMAIN reply = Ranks /\ SessionInv
  BY DEF ChainState, SessionInv, SessionTypes
<1>2. /\ ~ Replied(r) /\ cur[r].id > 0 /\ cur[r].id \in Nat
      /\ cur[r].op = IF pc[r] \in SlotOps THEN pc[r] ELSE "forward"
  BY <1>1, BusyHasNotReplied
<1>3. /\ pc' = [pc EXCEPT ![r] = "idle"] /\ cur' = [cur EXCEPT ![r] = NoCommand]
      /\ reply' = IF Current(r)
                    THEN [reply EXCEPT ![r] = [ok |-> ok, id |-> cur[r].id, logits |-> logits,
                                               kv |-> state]]
                    ELSE reply
  BY DEF AnswersWith, GoesTo, Current
<1>4. ~ Runs(r)' /\ pc'[r] = "idle"
  BY <1>1, <1>3 DEF Runs, NoCommand
<1>5. /\ Current(r) => Replied(r)' /\ reply'[r].ok = ok /\ reply'[r].logits = logits
      /\ ~ Current(r) => ~ Replied(r)'
  BY <1>1, <1>2, <1>3 DEF Replied
<1>6. Runs(r) => Current(r) /\ Underway
  BY ChainRank DEF Current
<1>7. ~ Runs(r) => ~ (Current(r) /\ Underway)
  <2>1. Current(r) => call.op = cur[r].op
    BY <1>1, BusyWith
  <2> QED BY <2>1 DEF Runs, Underway
<1>8. OnlyWorker(r)
  <2>1. \A q \in Ranks \ {r} : RankSame(q)
    BY <1>1, <1>3 DEF RankSame
  <2> QED BY <2>1 DEF OnlyWorker, streamVars, handOffVars
<1>9. Underway' = Underway /\ Ranks' = Ranks /\ Tasked(r)' = Tasked(r)
  BY DEF Underway, Ranks, Tasked
<1> QED BY <1>2, <1>4, <1>5, <1>6, <1>7, <1>8, <1>9

(* An answer leaves the chain as it should be. *)
LEMMA EndsChain ==
  ASSUME ChainState, SessionInv', NEW r \in Ranks, pc[r] # "idle", NEW ok \in BOOLEAN,
         NEW logits, NEW state, AnswersWith(r, ok, logits, state), Ends(r, ok, logits),
         UNCHANGED <<layout, round, streamVars, handOffVars, inbox, call, answer>>
  PROVE  ChainInv'
<1>1. /\ OnlyWorker(r) /\ ~ Runs(r)' /\ pc'[r] = "idle" /\ ~ Replied(r)
      /\ Current(r) => Replied(r)' /\ reply'[r].ok = ok /\ reply'[r].logits = logits
      /\ ~ Current(r) => ~ Replied(r)'
      /\ Runs(r) => Current(r) /\ Underway
      /\ ~ Runs(r) => ~ (Current(r) /\ Underway)
      /\ Underway' = Underway /\ Ranks' = Ranks /\ Tasked(r)' = Tasked(r)
  BY AnswerIs
<1>2. /\ StageInv(r)
      /\ Runs(r) => pc[r] \in {"recv", "layers", "out", "sent"}
      /\ NAr \in Nat /\ round[r] \in Nat
  BY ChainRank, TopologyAssumption DEF ChainState, SessionInv, SessionTypes
<1>3. /\ asked' = asked /\ queue' = queue /\ buf' = buf /\ dst' = dst /\ fired' = fired
      /\ send_done' = send_done /\ call' = call /\ layout' = layout /\ inbox' = inbox
  BY DEF streamVars, handOffVars
<1>4. ChainTypes'
  BY <1>3, TypesSame
<1>5. StageInv(r)'
  <2>1. layout.kind = "HYB" => ok \/ ~ Replied(r)'
    BY <1>1 DEF Ends
  <2>2. (Underway /\ Replied(r)' /\ reply'[r].ok /\ r + 1 \notin Ranks)
           => reply'[r].logits = Content(call.id, NAr, {r})
    <3>1. ASSUME Underway, Replied(r)', reply'[r].ok, r + 1 \notin Ranks
          PROVE  logits = Content(call.id, NAr, {r}) /\ reply'[r].logits = logits
      <4>1. Current(r) /\ Runs(r) /\ ok /\ reply'[r].logits = logits
        BY <1>1, <3>1
      <4>2. pc[r] # "sent"
        BY <1>2, <3>1 DEF StageInv
      <4> QED BY <4>1, <4>2 DEF Ends
    <3> QED BY <3>1
  <2>3. layout.kind = "HYB" /\ Underway => Replied(r)' \/ Tasked(r)
    BY <1>1, <1>2 DEF StageInv
  <2>4. \A i \in DOMAIN inbox[r] :
          inbox[r][i].op = "forward" => Underway /\ inbox[r][i].id = call.id
    BY <1>2 DEF StageInv
  <2>5. layout.kind = "HYB" => (Replied(r)' => reply'[r].ok)
    BY <1>1, <2>1
  <2>6. pc'[r] = "idle" /\ ~ Runs(r)' /\ Underway' = Underway /\ Tasked(r)' = Tasked(r)
        /\ Ranks' = Ranks /\ layout' = layout /\ call' = call /\ inbox' = inbox
    BY <1>1, <1>3
  <2> QED BY <2>2, <2>3, <2>4, <2>5, <2>6 DEF StageInv
<1>6. CASE ~ Runs(r)
  <2>1. HostAt(r) = 0 /\ HostAt(r)' = 0
    BY <1>1, <1>6 DEF HostAt
  <2>2. Kept(r)
    BY <1>3, <2>1, KeptForgets
  <2>3. (r > 0 => EdgeInv(r)') /\ (r + 1 \in Ranks => EdgeInv(r + 1)')
    BY <1>1, <1>3, <2>1, EdgesQuiet
  <2> QED BY <1>1, <1>3, <1>4, <1>5, <2>2, <2>3, WorkerChain
<1>7. CASE Runs(r) /\ ok
  <2>1. HostAt(r)' = HostAt(r)
    <3>1. Underway' /\ Replied(r)' /\ reply'[r].ok /\ ~ Runs(r)'
      BY <1>1, <1>7
    <3>2. CASE pc[r] = "sent"
      <4>1. r + 1 \in Ranks
        BY <1>2, <3>2 DEF StageInv
      <4> QED BY <1>1, <1>7, <3>1, <3>2, <4>1 DEF HostAt
    <3>3. CASE pc[r] = "out" /\ r + 1 \notin Ranks
      <4>1. round[r] = NAr
        BY <1>2, <3>3 DEF StageInv
      <4> QED BY <1>1, <1>7, <3>1, <3>3, <4>1 DEF HostAt, LoadedAt
    <3> QED BY <1>7, <3>2, <3>3 DEF Ends
  <2>2. Kept(r)
    BY <1>3, <2>1, KeptSame
  <2>3. (r > 0 => EdgeInv(r)') /\ (r + 1 \in Ranks => EdgeInv(r + 1)')
    BY <1>1, <1>3, <2>1, EdgesQuiet
  <2> QED BY <1>1, <1>3, <1>4, <1>5, <2>2, <2>3, WorkerChain
<1>8. CASE Runs(r) /\ ~ ok
  <2>1. HostAt(r)' = 0 /\ Replied(r)' /\ layout.kind # "HYB"
    BY <1>1, <1>8 DEF HostAt, Ends
  <2>2. HostAt(r) # SentAt /\ SentAt # 0
    <3>1. pc[r] \in {"recv", "layers", "out"}
      BY <1>2, <1>8 DEF Ends
    <3>2. SentAt > 0
      BY <1>2 DEF SentAt
    <3>3. pc[r] \in {"layers", "out"} => HostAt(r) # SentAt
      BY <1>8, HostAtIs
    <3>4. pc[r] = "recv" => HostAt(r) = 0
      BY <1>1, HostAtIs
    <3> QED BY <3>1, <3>2, <3>3, <3>4
  <2>3. Kept(r)
    BY <1>3, <2>1, KeptForgets
  <2>4. (r > 0 => EdgeInv(r)') /\ (r + 1 \in Ranks => EdgeInv(r + 1)')
    <3>1. CASE HostAt(r) = 0
      BY <1>1, <1>3, <2>1, <3>1, EdgesQuiet
    <3>2. CASE HostAt(r) # 0
      BY <1>1, <1>3, <2>1, <2>2, <3>2, EdgesQuiet
    <3> QED BY <3>1, <3>2
  <2> QED BY <1>1, <1>3, <1>4, <1>5, <2>3, <2>4, WorkerChain
<1> QED BY <1>6, <1>7, <1>8

(* What an output head downloads behind a drained stream. *)
LEMMA DrainedLogits ==
  ASSUME ChainState, NEW r \in Ranks, Runs(r), pc[r] = "out", queue[r] = <<>>
  PROVE  buf[r] = Content(call.id, NAr, {r})
<1>1. PICK G \in [Ranks -> Points] : Located(G)
  BY DEF ChainState, ChainInv, ChainDevices
<1>2. /\ Stands(r, G[r]) /\ G[r] \in Points
  BY <1>1 DEF Located
<1>3. G[r] = HostPoint(r)
  BY <1>2, NothingBrings DEF Stands
<1>4. G[r].at = NAr + 2
  <2>1. round[r] = NAr /\ NAr \in Nat
    BY ChainRank, TopologyAssumption DEF StageInv
  <2>2. HostAt(r) = 2 + round[r]
    BY HostAtIs
  <2> QED BY <1>3, <2>1, <2>2, HostAtIs
<1>5. NAr \in Nat /\ G[r].at > 1 /\ ~ (G[r].at > NAr + 2) /\ G[r].at - 2 = NAr
  BY <1>4, TopologyAssumption
<1>6. Holds(r, G[r])
  BY <1>2 DEF Stands
<1> QED BY <1>5, <1>6 DEF Holds

(* Finish, the slot's operations and a failure are answers. *)
LEMMA AnswersChain ==
  ASSUME ChainState, SessionInv', Sound', NEW r \in Ranks,
         Reset(r) \/ Snapshot(r) \/ Restore(r) \/ Finish(r) \/ Fail(r)
  PROVE  ChainInv'
<1>0. (Runs(r) => pc[r] \notin SlotOps) /\ (~ Runs(r) => pc[r] \in SlotOps \cup {"idle"})
  <2>1. Runs(r) => pc[r] \in {"recv", "layers", "out", "sent"}
    BY ChainRank
  <2> QED BY <2>1, ChainRank DEF SlotOps
<1>1. CASE Reset(r) \/ Snapshot(r) \/ Restore(r)
  <2>1. PICK state : /\ pc[r] \in SlotOps /\ AnswersWith(r, TRUE, Bad, state)
                     /\ UNCHANGED <<layout, round, streamVars, handOffVars, inbox, call, answer>>
    BY <1>1 DEF Reset, Snapshot, Restore, Answers, SlotOps
  <2>2. Ends(r, TRUE, Bad) /\ pc[r] # "idle"
    BY <1>0, <2>1 DEF Ends, SlotOps
  <2> QED BY <2>1, <2>2, EndsChain
<1>2. CASE Finish(r)
  <2>1. PICK logits : /\ AnswersWith(r, TRUE, logits, <<>>)
                      /\ UNCHANGED <<layout, round, streamVars, handOffVars, inbox, call, answer>>
                      /\ \/ pc[r] = "sent"
                         \/ pc[r] = "out" /\ IsLast(r) /\ queue[r] = <<>> /\ logits = buf[r]
    BY <1>2 DEF Finish, Answers, Drained
  <2>2. Runs(r) /\ pc[r] # "idle"
    BY <1>0, <2>1 DEF SlotOps
  <2>3. pc[r] = "out" => logits = Content(call.id, NAr, {r}) /\ r + 1 \notin Ranks
    <3>1. IsLast(r) => r + 1 \notin Ranks
      BY ChainRank, ChainLayout
    <3> QED BY <2>1, <2>2, <3>1, DrainedLogits
  <2>4. Ends(r, TRUE, logits)
    BY <2>1, <2>2, <2>3 DEF Ends
  <2> QED BY <2>1, <2>2, <2>4, EndsChain
<1>3. CASE Fail(r)
  <2>1. /\ pc[r] \in {"recv", "layers", "out"} \cup SlotOps /\ AnswersWith(r, FALSE, Bad, <<>>)
        /\ UNCHANGED <<layout, round, streamVars, handOffVars, inbox, call, answer>>
        /\ failures' = failures + 1
    BY <1>3 DEF Fail, Answers
  <2>2. layout.kind # "HYB"
    BY <2>1 DEF Sound, ChainState, Chained
  <2>3. Ends(r, FALSE, Bad) /\ pc[r] # "idle"
    BY <1>0, <2>1, <2>2 DEF Ends, SlotOps
  <2> QED BY <2>1, <2>3, EndsChain
<1> QED BY <1>1, <1>2, <1>3

-----------------------------------------------------------------------------
(* The steps of a forward. *)
(* An enqueued operation keeps the types. *)
LEMMA EnqueueTypes ==
  ASSUME ChainState, NEW r \in Ranks, NEW ops \in Seq(Instructions), Enqueue(r, ops),
         layout' = layout, DOMAIN send_done' = DOMAIN send_done
  PROVE  ChainTypes'
<1>1. StreamTypes /\ DOMAIN dst = Ranks /\ DOMAIN send_done = Ranks
  BY DEF ChainState, ChainInv, ChainTypes
<1>2. /\ queue' \in [Ranks -> Seq(Instructions)] /\ asked' \in [Events -> Nat]
      /\ UNCHANGED <<buf, dram, staging, dst, fired>>
  BY <1>1, EnqueueIs
<1>3. Ranks' = Ranks /\ Events' = Events
  BY DEF Ranks, Events
<1> QED BY <1>1, <1>2, <1>3 DEF ChainTypes, StreamTypes

(* One more operation in one rank's stream. *)
LEMMA EnqueueOne ==
  ASSUME ChainState, NEW r \in Ranks, NEW o \in Instructions, o.op # "record",
         Enqueue(r, <<o>>), layout' = layout, call' = call, send_done' = send_done,
         HostAt(r)' \in Nat, HostAt(r)' # 0,
         Advances(ErrandOf(r), o, HostPoint(r), Point(HostAt(r)', asked[Sent(r)]))
  PROVE  /\ ChainTypes' /\ Kept(r) /\ asked' = asked
         /\ \A q \in Ranks \ {r} : queue'[q] = queue[q]
         /\ UNCHANGED <<buf, dram, staging, dst, fired>>
<1>1. StreamTypes
  BY DEF ChainState, ChainInv, ChainTypes
<1>2. <<o>> \in Seq(Instructions)
  OBVIOUS
<1>3. /\ queue'[r] = queue[r] \o <<o>> /\ asked' \in [Events -> Nat]
      /\ \A e \in Events : asked'[e] = IF Asks(<<o>>, e) THEN asked[e] + 1 ELSE asked[e]
      /\ \A q \in Ranks \ {r} : queue'[q] = queue[q]
      /\ UNCHANGED <<buf, dram, staging, dst, fired>>
  BY <1>1, <1>2, EnqueueIs
<1>4. asked' = asked
  <2>1. ASSUME NEW e \in Events PROVE ~ Asks(<<o>>, e)
    <3>1. Record(e).op = "record"
      BY DEF Record
    <3> QED BY <3>1, AsksOne
  <2>2. asked \in [Events -> Nat] /\ \A e \in Events : asked'[e] = asked[e]
    BY <1>1, <1>3, <2>1 DEF StreamTypes
  <2> QED BY <1>3, <2>2
<1>5. ChainTypes'
  BY <1>2, EnqueueTypes
<1>6. HostPoint(r)' = Point(HostAt(r)', asked[Sent(r)]) /\ ErrandOf(r)' = ErrandOf(r)
  BY <1>4 DEF HostPoint, ErrandOf, Sent
<1>7. ASSUME NEW s, Brings(ErrandOf(r), queue[r], s, HostPoint(r))
      PROVE  Brings(ErrandOf(r)', queue'[r], s, HostPoint(r)')
  <2>1. HostPoint(r) \in Points /\ queue[r] \in Seq(Instructions)
    BY HostAtIs, ChainRank
  <2>2. Point(HostAt(r)', asked[Sent(r)]) \in Points
    BY HostAtIs DEF Point, Points
  <2>3. Brings(ErrandOf(r), queue'[r], s, Point(HostAt(r)', asked[Sent(r)]))
    BY <1>3, <1>7, <2>1, <2>2, OneMoreBrings
  <2> QED BY <1>6, <2>3
<1>8. Kept(r)
  BY <1>3, <1>7, KeptOnward
<1> QED BY <1>3, <1>4, <1>5, <1>8

(* A rank enqueues a layer. *)
LEMMA LayersChain ==
  ASSUME ChainState, SessionInv', NEW r \in Ranks, AllReduceStep(r)
  PROVE  ChainInv'
<1>1. /\ ArStep(r) /\ UNCHANGED <<handOffVars, inbox, reply, call, answer>>
  BY DEF AllReduceStep
<1>2. ArLayers(r)
  <2>1. pc[r] \in SlotOps \cup {"idle", "recv", "layers", "out", "sent"}
    BY ChainRank DEF StageInv
  <2> QED BY <1>1, <2>1 DEF ArStep, ArPublish, ArPull, ArAdd, ArClear, ArDone, SlotOps
<1>3. PICK j \in Nat : j = round[r]
  BY DEF ChainState, SessionInv, SessionTypes
<1>4. PICK o : o = Layer(cur[r].id, j + 1)
  OBVIOUS
<1>5. /\ pc[r] = "layers" /\ layout.width = 1
      /\ round' = [round EXCEPT ![r] = j + 1] /\ UNCHANGED <<layout, cur, arVars>>
      /\ Enqueue(r, <<o>>) /\ GoesTo(r, IF j + 1 = NAr THEN "out" ELSE "layers")
  BY <1>2, <1>3, <1>4, ChainRank DEF ArLayers
<1>6. /\ Runs(r) /\ cur[r].id = call.id /\ StageInv(r) /\ j < NAr /\ call.id \in Nat
      /\ Underway /\ ~ Replied(r)
  BY <1>3, <1>5, ChainRank DEF StageInv, SlotOps
<1>7. /\ DOMAIN pc = Ranks /\ DOMAIN round = Ranks /\ NAr \in Nat
  BY TopologyAssumption DEF ChainState, SessionInv, SessionTypes
<1>8. /\ pc'[r] \in {"layers", "out"} /\ round'[r] = j + 1
      /\ pc'[r] = "layers" => j + 1 < NAr
      /\ pc'[r] = "out" => j + 1 = NAr
      /\ Runs(r)' /\ Underway' = Underway /\ ~ Replied(r)' /\ Ranks' = Ranks
      /\ cur' = cur /\ inbox' = inbox /\ call' = call /\ layout' = layout
  BY <1>1, <1>5, <1>6, <1>7 DEF GoesTo, Runs, Underway, Replied, Ranks
<1>9. HostAt(r) = 2 + j /\ HostAt(r)' = 3 + j /\ HostAt(r) # SentAt /\ HostAt(r)' # SentAt
  <2>1. HostAt(r) = 2 + j /\ HostAt(r) # SentAt
    BY <1>3, <1>5, <1>6, HostAtIs
  <2>2. HostAt(r)' = 2 + (j + 1)
    BY <1>8 DEF HostAt, LoadedAt
  <2> QED BY <1>6, <1>7, <2>1, <2>2 DEF SentAt
<1>10. Advances(ErrandOf(r), o, HostPoint(r), Point(HostAt(r)', asked[Sent(r)]))
  <2>1. o = Layer(ErrandOf(r).forward, (2 + j) - 1) /\ o.op = "layer"
    BY <1>4, <1>6 DEF ErrandOf, Errand, Layer
  <2>2. HostPoint(r).at = 2 + j /\ HostPoint(r).n = asked[Sent(r)] /\ asked[Sent(r)] \in Nat
    BY <1>9, HostAtIs
  <2>3. Point(3 + j, asked[Sent(r)]).at = 3 + j /\ Point(3 + j, asked[Sent(r)]).n = asked[Sent(r)]
    BY DEF Point
  <2>4. 2 + j > 1 /\ 2 + j < NAr + 2 /\ 3 + j = (2 + j) + 1
    BY <1>6, <1>7
  <2> QED BY <1>9, <2>1, <2>2, <2>3, <2>4 DEF Advances
<1>11. /\ ChainTypes' /\ Kept(r) /\ asked' = asked
       /\ \A q \in Ranks \ {r} : queue'[q] = queue[q]
       /\ UNCHANGED <<buf, dram, staging, dst, fired>>
  <2>1. o \in Instructions /\ o.op # "record"
    BY <1>4, <1>6 DEF Instructions, Layer
  <2>2. send_done' = send_done
    BY <1>1 DEF handOffVars
  <2> QED BY <1>5, <1>8, <1>9, <1>10, <2>1, <2>2, EnqueueOne
<1>12. OnlyWorker(r) /\ send_done' = send_done
  <2>1. \A q \in Ranks \ {r} : RankSame(q)
    BY <1>1, <1>5, <1>7 DEF RankSame, GoesTo
  <2> QED BY <1>1, <1>8, <1>11, <2>1 DEF OnlyWorker, handOffVars
<1>13. StageInv(r)'
  BY <1>6, <1>8 DEF StageInv
<1>14. (r > 0 => EdgeInv(r)') /\ (r + 1 \in Ranks => EdgeInv(r + 1)')
  BY <1>6, <1>9, <1>11, <1>12, EdgesQuiet
<1> QED BY <1>11, <1>12, <1>13, <1>14, WorkerChain

(* A consumer does not give up on a producer that will send. *)
LEMMA NobodyTimesOut ==
  ASSUME ChainState, Sound', NEW r \in Ranks
  PROVE  ~ TimeOut(r) /\ ~ TimeOutEarly(r)
<1>1. ASSUME TimeOutEarly(r) PROVE FALSE
  <2>1. layout.kind = "HYB" /\ failures' = failures + 1 /\ layout' = layout
    BY <1>1 DEF TimeOutEarly
  <2> QED BY <2>1 DEF Sound, ChainState, Chained
<1>2. SUFFICES ASSUME TimeOut(r) PROVE FALSE
  BY <1>1
<1>3. /\ layout.kind = "HYB" /\ pc[r] = "recv" /\ send_done[r] = NoEvent /\ Abandoned(r)
  BY <1>2 DEF TimeOut
<1>4. /\ StageInv(r) /\ r > 0 /\ EdgeInv(r) /\ r \in Nat /\ ~ Replied(r) /\ call.id > 0
      /\ Runs(r) /\ cur[r].id = call.id /\ Underway
  BY <1>3, ChainRank DEF StageInv, SlotOps
<1>5. PICK p \in Ranks : p = r - 1 /\ p = Producer(r) /\ p + 1 = r
  BY <1>4, ChainRank, ChainLayout
<1>6. StageInv(p) /\ ~ Runs(p) /\ ~ Tasked(p)
  <2>1. StageInv(p)
    BY ChainRank
  <2> QED BY <1>3, <1>4, <1>5, <2>1 DEF Abandoned, StageInv, Tasked
<1>7. Replied(p) /\ reply[p].ok
  BY <1>3, <1>4, <1>6 DEF StageInv
<1>8. HostAt(p) = SentAt /\ HostAt(r) = 0
  <2>1. HostAt(p) = SentAt
    BY <1>4, <1>5, <1>6, <1>7 DEF HostAt
  <2> QED BY <1>3, <1>4, <2>1, HostAtIs
<1>9. send_done[r] = [forward |-> call.id, record |-> asked[Sent(r - 1)]]
  BY <1>4, <1>5, <1>8 DEF EdgeInv, Handed
<1> QED BY <1>3, <1>4, <1>9 DEF NoEvent

(* What a rank has taken from its inbox. *)
LEMMA TakenIs ==
  ASSUME ChainState, NEW r \in Ranks, inbox[r] # <<>>, NEW c, c = Head(inbox[r])
  PROVE  /\ c.op = "forward" => Underway /\ c.id = call.id
         /\ ~ Replied(r)
         /\ \A i \in DOMAIN Tail(inbox[r]) :
              Tail(inbox[r])[i].op = "forward" => Underway /\ Tail(inbox[r])[i].id = call.id
         /\ Tasked(r) => \/ c.op = "forward"
                         \/ \E i \in DOMAIN Tail(inbox[r]) : Tail(inbox[r])[i].op = "forward"
<1>1. /\ StageInv(r) /\ ~ Replied(r)
  BY ChainRank
<1>2. PICK box \in Seq(Commands) : box = inbox[r]
  BY DEF ChainState, SessionInv, RankInv, OrderInv
<1>3. PICK n \in Nat : n = Len(box)
  BY <1>2
<1>4. n # 0 /\ DOMAIN box = 1 .. n
  BY <1>2, <1>3, EmptySeq
<1>5. /\ c = box[1] /\ DOMAIN Tail(box) = 1 .. n - 1
      /\ \A i \in 1 .. n - 1 : Tail(box)[i] = box[i + 1]
  <2>1. Tail(box) \in Seq(Commands) /\ Len(Tail(box)) = n - 1 /\ Head(box) = box[1]
        /\ \A i \in 1 .. Len(Tail(box)) : Tail(box)[i] = box[i + 1]
    BY <1>2, <1>3, HeadTailProperties
  <2> QED BY <1>2, <2>1, LenProperties
<1>6. \A i \in 1 .. n : box[i].op = "forward" => Underway /\ box[i].id = call.id
  BY <1>1, <1>2, <1>4 DEF StageInv
<1>7. Tasked(r) => \E i \in 1 .. n : box[i].op = "forward"
  BY <1>2, <1>4 DEF Tasked
<1>8. \A i \in 1 .. n - 1 : i + 1 \in 1 .. n
  BY <1>3
<1>9. 1 \in 1 .. n /\ \A i \in 1 .. n : i = 1 \/ (i - 1 \in 1 .. n - 1 /\ (i - 1) + 1 = i)
  BY <1>3, <1>4
<1>10. Tasked(r) => c.op = "forward" \/ \E i \in 1 .. n - 1 : Tail(box)[i].op = "forward"
  <2>1. ASSUME Tasked(r), c.op # "forward" PROVE \E i \in 1 .. n - 1 : Tail(box)[i].op = "forward"
    <3>1. PICK i \in 1 .. n : box[i].op = "forward"
      BY <1>7, <2>1
    <3>2. i # 1
      BY <1>5, <2>1, <3>1
    <3>3. PICK k \in 1 .. n - 1 : k = i - 1 /\ k + 1 = i
      BY <1>9, <3>2
    <3> QED BY <1>5, <3>1, <3>3
  <2> QED BY <2>1
<1>11. \A i \in 1 .. n - 1 : Tail(box)[i].op = "forward" => Underway /\ Tail(box)[i].id = call.id
  BY <1>5, <1>6, <1>8
<1>12. c.op = "forward" => Underway /\ c.id = call.id
  BY <1>5, <1>6, <1>9
<1> HIDE DEF Tasked
<1> QED BY <1>1, <1>2, <1>5, <1>10, <1>11, <1>12

(* A rank takes a command (run_rank_worker). *)
LEMMA TakeChain ==
  ASSUME ChainState, SessionInv', NEW r \in Ranks, Take(r)
  PROVE  ChainInv'
<1>1. PICK c : c = Head(inbox[r])
  OBVIOUS
<1>2. /\ pc[r] = "idle" /\ inbox[r] # <<>> /\ cur' = [cur EXCEPT ![r] = c]
      /\ inbox' = [inbox EXCEPT ![r] = Tail(@)] /\ round' = [round EXCEPT ![r] = 0]
      /\ UNCHANGED <<layout, send_done, reply, call, answer>>
      /\ \/ c.op = "forward" /\ IsFirst(r) /\ GoesTo(r, "layers") /\ Enqueue(r, <<Embed(c.id)>>)
         \/ c.op = "forward" /\ ~ IsFirst(r) /\ GoesTo(r, "recv") /\ UNCHANGED streamVars
         \/ c.op \in SlotOps /\ GoesTo(r, c.op) /\ UNCHANGED streamVars
  BY <1>1 DEF Take
<1>3. /\ DOMAIN pc = Ranks /\ DOMAIN cur = Ranks /\ DOMAIN inbox = Ranks
      /\ round \in [Ranks -> Nat] /\ NAr \in Nat /\ NAr > 0
  BY TopologyAssumption DEF ChainState, SessionInv, SessionTypes
<1>4. /\ StageInv(r) /\ ~ Runs(r) /\ r \in Nat /\ call.id \in Nat /\ (IsFirst(r) <=> r = 0)
  <2>1. pc[r] \notin {"recv", "layers", "out", "sent"}
    BY <1>2
  <2> QED BY <2>1, ChainRank, ChainLayout
<1>5. /\ c.op = "forward" => Underway /\ c.id = call.id
      /\ ~ Replied(r)
      /\ \A i \in DOMAIN Tail(inbox[r]) :
           Tail(inbox[r])[i].op = "forward" => Underway /\ Tail(inbox[r])[i].id = call.id
      /\ Tasked(r) => \/ c.op = "forward"
                      \/ \E i \in DOMAIN Tail(inbox[r]) : Tail(inbox[r])[i].op = "forward"
  BY <1>1, <1>2, TakenIs
<1>6. /\ cur'[r] = c /\ inbox'[r] = Tail(inbox[r]) /\ round'[r] = 0 /\ ~ Replied(r)'
      /\ Ranks' = Ranks /\ Underway' = Underway /\ call' = call /\ layout' = layout
      /\ Tasked(r) => c.op = "forward" \/ Tasked(r)'
  BY <1>2, <1>3, <1>5 DEF Replied, Ranks, Underway, Tasked
<1>7. \A q \in Ranks \ {r} : RankSame(q)
  BY <1>2, <1>3 DEF RankSame, GoesTo
<1>8. HostAt(r) = 0
  BY <1>2, <1>5, HostAtIs
<1>9. \/ c.op = "forward" /\ r = 0 /\ pc'[r] = "layers" /\ Enqueue(r, <<Embed(call.id)>>)
      \/ c.op = "forward" /\ r > 0 /\ pc'[r] = "recv" /\ UNCHANGED streamVars
      \/ c.op \in SlotOps /\ pc'[r] = c.op /\ UNCHANGED streamVars
  <2>1. ASSUME c.op = "forward", IsFirst(r), GoesTo(r, "layers"), Enqueue(r, <<Embed(c.id)>>)
        PROVE  r = 0 /\ pc'[r] = "layers" /\ Enqueue(r, <<Embed(call.id)>>)
    BY <1>3, <1>4, <1>5, <2>1 DEF GoesTo
  <2>2. ASSUME ~ IsFirst(r), GoesTo(r, "recv") PROVE r > 0 /\ pc'[r] = "recv"
    BY <1>3, <1>4, <2>2 DEF GoesTo
  <2>3. ASSUME GoesTo(r, c.op) PROVE pc'[r] = c.op
    BY <1>3, <2>3 DEF GoesTo
  <2> QED BY <1>2, <2>1, <2>2, <2>3
<1>10. StageInv(r)'
  <2>1. /\ pc'[r] \in SlotOps \cup {"layers", "recv"}
        /\ pc'[r] = "recv" => r > 0
        /\ pc'[r] = "layers" => round'[r] < NAr
        /\ Runs(r)' <=> c.op = "forward"
    BY <1>3, <1>6, <1>9 DEF SlotOps, Runs
  <2>2. layout.kind = "HYB" => (Underway => Runs(r)' \/ Tasked(r)')
    <3>1. layout.kind = "HYB" => (Underway => Replied(r) \/ Runs(r) \/ Tasked(r))
      BY <1>4 DEF StageInv
    <3> QED BY <1>4, <1>5, <1>6, <2>1, <3>1
  <2>3. Runs(r)' => Underway /\ cur'[r].id = call.id
    BY <1>5, <1>6, <2>1
  <2> QED BY <1>5, <1>6, <2>1, <2>2, <2>3 DEF StageInv, SlotOps
<1>11. CASE c.op = "forward" /\ r = 0 /\ pc'[r] = "layers" /\ Enqueue(r, <<Embed(call.id)>>)
  <2>1. HostAt(r)' = 2
    BY <1>6, <1>11 DEF HostAt, LoadedAt, Runs
  <2>2. PICK o : o = Embed(call.id)
    OBVIOUS
  <2>3. o \in Instructions /\ o.op = "embed"
    BY <1>4, <2>2, OperationsAre DEF Embed
  <2>4. Advances(ErrandOf(r), o, HostPoint(r), Point(HostAt(r)', asked[Sent(r)]))
    <3>1. ErrandOf(r).rank = 0 /\ ErrandOf(r).forward = call.id
      BY <1>11 DEF ErrandOf, Errand
    <3>2. HostPoint(r).at = 0 /\ HostPoint(r).n = asked[Sent(r)] /\ asked[Sent(r)] \in Nat
      BY <1>8, HostAtIs
    <3>3. Point(2, asked[Sent(r)]).at = 2 /\ Point(2, asked[Sent(r)]).n = asked[Sent(r)]
      BY DEF Point
    <3> QED BY <2>1, <2>2, <2>3, <3>1, <3>2, <3>3 DEF Advances
  <2>5. /\ ChainTypes' /\ Kept(r) /\ asked' = asked
        /\ \A q \in Ranks \ {r} : queue'[q] = queue[q]
        /\ UNCHANGED <<buf, dram, staging, dst, fired>>
    BY <1>2, <1>11, <2>1, <2>2, <2>3, <2>4, EnqueueOne
  <2>6. OnlyWorker(r)
    BY <1>2, <1>7, <2>5 DEF OnlyWorker
  <2>7. (r > 0 => EdgeInv(r)') /\ (r + 1 \in Ranks => EdgeInv(r + 1)')
    <3>1. SentAt # 0 /\ SentAt # 2
      BY <1>3 DEF SentAt
    <3> QED BY <1>2, <1>5, <1>8, <1>11, <2>1, <2>5, <2>6, <3>1, EdgesQuiet
  <2> QED BY <1>10, <2>5, <2>6, <2>7, WorkerChain
<1>12. CASE UNCHANGED streamVars /\ pc'[r] \notin {"layers", "out", "sent"}
  <2>1. HostAt(r)' = 0
    BY <1>6, <1>12 DEF HostAt
  <2>2. OnlyWorker(r) /\ UNCHANGED <<queue, asked, fired>>
    BY <1>2, <1>7, <1>12 DEF OnlyWorker, streamVars
  <2>3. Kept(r)
    BY <2>1, <2>2, KeptForgets
  <2>4. (r > 0 => EdgeInv(r)') /\ (r + 1 \in Ranks => EdgeInv(r + 1)')
    BY <1>2, <1>5, <1>8, <2>1, <2>2, EdgesQuiet
  <2>5. ChainTypes'
    BY <1>2, <1>12, TypesSame
  <2> QED BY <1>10, <2>2, <2>3, <2>4, <2>5, WorkerChain
<1> QED BY <1>9, <1>11, <1>12 DEF SlotOps

(* Two operations one after the other and both at once. *)
LEMMA OneByOne ==
  ASSUME NEW S, NEW a \in Seq(S), NEW o \in S, NEW p \in S
  PROVE  /\ a \o <<o>> \in Seq(S)
         /\ (a \o <<o>>) \o <<p>> = a \o <<o, p>>
<1>1. PICK n : n = Len(a)
  OBVIOUS
<1>2. PICK x : x = <<o>> /\ x \in Seq(S) /\ Len(x) = 1 /\ x[1] = o
  <2>1. <<o>> \in Seq(S) /\ Len(<<o>>) = 1 /\ <<o>>[1] = o
    OBVIOUS
  <2> QED BY <2>1
<1>3. PICK y : y = <<p>> /\ y \in Seq(S) /\ Len(y) = 1 /\ y[1] = p
  <2>1. <<p>> \in Seq(S) /\ Len(<<p>>) = 1 /\ <<p>>[1] = p
    OBVIOUS
  <2> QED BY <2>1
<1>4. PICK z : z = <<o, p>> /\ z \in Seq(S) /\ Len(z) = 2 /\ z[1] = o /\ z[2] = p
  <2>1. <<o, p>> \in Seq(S) /\ Len(<<o, p>>) = 2 /\ <<o, p>>[1] = o /\ <<o, p>>[2] = p
    OBVIOUS
  <2> QED BY <2>1
<1>5. n \in Nat
  BY <1>1
<1>6. PICK b : b = a \o x
  OBVIOUS
<1>7. /\ b \in Seq(S) /\ Len(b) = n + 1
      /\ \A i \in 1 .. n + 1 : b[i] = IF i <= n THEN a[i] ELSE x[i - n]
  BY <1>1, <1>2, <1>6, ConcatProperties
<1>8. /\ b \o y \in Seq(S) /\ Len(b \o y) = (n + 1) + 1
      /\ \A i \in 1 .. (n + 1) + 1 : (b \o y)[i] = IF i <= n + 1 THEN b[i] ELSE y[i - (n + 1)]
  BY <1>3, <1>7, ConcatProperties
<1>9. /\ a \o z \in Seq(S) /\ Len(a \o z) = n + 2
      /\ \A i \in 1 .. n + 2 : (a \o z)[i] = IF i <= n THEN a[i] ELSE z[i - n]
  BY <1>1, <1>4, ConcatProperties
<1>10. PICK v \in Seq(S) : v = b \o y
  BY <1>8
<1>11. PICK w \in Seq(S) : w = a \o z
  BY <1>9
<1>12. Len(v) = n + 2 /\ Len(w) = n + 2
  BY <1>5, <1>8, <1>9, <1>10, <1>11
<1>13. ASSUME NEW i \in 1 .. n + 2 PROVE v[i] = w[i]
  <2>1. CASE i <= n
    <3>1. i \in 1 .. n + 1 /\ i \in 1 .. (n + 1) + 1 /\ i <= n + 1
      BY <1>5, <2>1
    <3>2. v[i] = b[i] /\ b[i] = a[i] /\ w[i] = a[i]
      BY <1>7, <1>8, <1>9, <1>10, <1>11, <2>1, <3>1
    <3> QED BY <3>2
  <2>2. CASE i = n + 1
    <3>1. i \in 1 .. n + 1 /\ i \in 1 .. (n + 1) + 1 /\ i <= n + 1 /\ ~ (i <= n) /\ i - n = 1
      BY <1>5, <2>2
    <3>2. v[i] = b[i]
      BY <1>8, <1>10, <3>1
    <3>3. b[i] = o
      BY <1>2, <1>7, <3>1
    <3>4. w[i] = o
      BY <1>4, <1>9, <1>11, <3>1
    <3> QED BY <3>2, <3>3, <3>4
  <2>3. CASE i = n + 2
    <3>1. i \in 1 .. (n + 1) + 1 /\ ~ (i <= n + 1) /\ ~ (i <= n) /\ i - n = 2 /\ i - (n + 1) = 1
      BY <1>5, <2>3
    <3>2. v[i] = p
      BY <1>3, <1>8, <1>10, <3>1
    <3>3. w[i] = p
      BY <1>4, <1>9, <1>11, <3>1
    <3> QED BY <3>2, <3>3
  <2>4. i <= n \/ i = n + 1 \/ i = n + 2
    BY <1>5
  <2> QED BY <2>1, <2>2, <2>3, <2>4
<1>14. v = w
  BY <1>12, <1>13, SeqEqual
<1> QED BY <1>2, <1>3, <1>4, <1>6, <1>7, <1>10, <1>11, <1>14

(* A stream gets two more operations. *)
LEMMA TwoMoreBring ==
  ASSUME NEW c, NEW S, NEW a \in Seq(S), NEW o \in S, NEW p \in S,
         NEW s, NEW t \in Points, NEW u \in Points, NEW v \in Points,
         Brings(c, a, s, t), Advances(c, o, t, u), Advances(c, p, u, v),
         NEW b, b = a \o <<o, p>>
  PROVE  Brings(c, b, s, v)
<1>1. a \o <<o>> \in Seq(S) /\ b = (a \o <<o>>) \o <<p>>
  BY OneByOne
<1>2. PICK d \in Seq(S) : d = a \o <<o>>
  BY <1>1
<1>3. Brings(c, d, s, u)
  BY <1>2, OneMoreBrings
<1>4. b = d \o <<p>>
  BY <1>1, <1>2
<1> QED BY <1>3, <1>4, OneMoreBrings

(* A stage that comes to its hand-off finds the event of this forward. *)
LEMMA EventIsThere ==
  ASSUME ChainState, NEW r \in Ranks, pc[r] = "recv", layout.kind = "HYB" => send_done[r] # NoEvent
  PROVE  /\ r > 0 /\ Handed(r)
         /\ send_done[r] = [forward |-> call.id, record |-> asked[Sent(r - 1)]]
<1>1. /\ StageInv(r) /\ r > 0 /\ EdgeInv(r) /\ r \in Nat /\ ~ Replied(r) /\ call.id > 0
      /\ Runs(r) /\ cur[r].id = call.id /\ Underway /\ ~ Idle /\ HostAt(r) = 0
      /\ layout \in Layouts /\ layout.width = 1
  BY ChainRank, HostAtIs DEF StageInv, SlotOps
<1>2. PICK p \in Ranks : p = r - 1 /\ p + 1 = r /\ p \in Nat
  BY <1>1, ChainRank, ChainLayout
<1>3. Handed(r)
  <2>1. CASE layout.kind = "HYB"
    BY <1>1, <2>1 DEF EdgeInv
  <2>2. CASE layout.kind = "PP"
    <3>1. ReplyInv(r) /\ InTurn
      BY <2>2 DEF ChainState, SessionInv, RankInv, InTurn
    <3>2. call.at \in Nat /\ ~ (r > call.at)
      BY <1>1, <3>1 DEF ReplyInv, Underway, ChainState, SessionInv, SessionTypes
    <3>3. \A q \in Ranks : q < call.at => Replied(q) /\ reply[q].ok
      BY <1>1 DEF ChainState, SessionInv, CallInv
    <3>4. p < call.at
      BY <1>1, <1>2, <3>2, <3>3
    <3>5. Replied(p) /\ reply[p].ok /\ ~ Runs(p)
      BY <3>3, <3>4, ChainRank
    <3> QED BY <1>1, <1>2, <3>5 DEF HostAt, Handed
  <2>3. layout.kind # "TP"
    <3>1. layout.kind = "TP" => layout.stages = 1
      BY <1>1, TopologyAssumption
    <3>2. 0 .. 1 - 1 = {0}
      OBVIOUS
    <3> QED BY <1>1, <3>1, <3>2, ChainLayout
  <2>4. layout.kind \in {"TP", "PP", "HYB"}
    BY <1>1, TopologyAssumption
  <2> QED BY <2>1, <2>2, <2>3, <2>4
<1> QED BY <1>1, <1>3 DEF EdgeInv

(* A stage takes the event of the stage before and loads (peer_recv). *)
LEMMA RecvChain ==
  ASSUME ChainState, SessionInv', NEW r \in Ranks, PeerStep(r), PeerRecv(r)
  PROVE  ChainInv'
<1>1. pc[r] = "recv" /\ (layout.kind = "HYB" => send_done[r] # NoEvent)
  BY DEF PeerRecv
<1>2. /\ r > 0 /\ Handed(r) /\ r \in Nat
      /\ send_done[r] = [forward |-> call.id, record |-> asked[Sent(r - 1)]]
      /\ StageInv(r) /\ Runs(r) /\ cur[r].id = call.id /\ call.id \in Nat /\ call.id > 0
      /\ Underway /\ ~ Replied(r) /\ HostAt(r) = 0 /\ Producer(r) = r - 1 /\ r - 1 \in Ranks
  BY <1>1, EventIsThere, ChainRank, ChainLayout DEF Handed, SlotOps
<1>3. PICK m \in Nat : m = asked[Sent(r - 1)]
  BY <1>2, HostAtIs
<1>4. PICK w : w = WaitFor(Sent(r - 1), m)
  OBVIOUS
<1>5. PICK l : l = Load(call.id)
  OBVIOUS
<1>6. /\ Enqueue(r, <<w, l>>) /\ send_done' = [send_done EXCEPT ![r] = NoEvent]
      /\ GoesTo(r, "layers") /\ UNCHANGED <<layout, cur, round, sessionVars>>
  <2>1. send_done[r] # NoEvent /\ send_done[r].record = m
    BY <1>2, <1>3 DEF NoEvent
  <2>2. [Wait(<<"sent", Producer(r)>>) EXCEPT !.n = send_done[r].record] = w
    BY <1>2, <1>4, <2>1 DEF Wait, WaitFor, Sent
  <2>3. Enqueue(r, <<w>> \o <<l>>)
    BY <1>2, <1>5, <2>1, <2>2 DEF PeerRecv
  <2>4. <<w>> \o <<l>> = <<w, l>>
    <3>1. /\ <<>> \in Seq({w, l}) /\ <<w>> \in Seq({w, l}) /\ <<w, l>> \in Seq({w, l})
          /\ w \in {w, l} /\ l \in {w, l}
      OBVIOUS
    <3>2. <<>> \o <<w>> = <<w>> /\ <<>> \o <<w, l>> = <<w, l>>
      BY <3>1, ConcatEmptySeq
    <3>3. (<<>> \o <<w>>) \o <<l>> = <<>> \o <<w, l>>
      BY <3>1, OneByOne
    <3> QED BY <3>2, <3>3
  <2> QED BY <2>3, <2>4 DEF PeerRecv, PeerStep
<1>7. /\ DOMAIN pc = Ranks /\ NAr \in Nat /\ NAr > 0 /\ round[r] = 0
      /\ DOMAIN send_done = Ranks /\ StreamTypes
  BY <1>1, <1>2, TopologyAssumption
     DEF ChainState, SessionInv, SessionTypes, StageInv, ChainInv, ChainTypes
<1>8. /\ pc'[r] = "layers" /\ round'[r] = 0 /\ Runs(r)' /\ Underway' = Underway
      /\ ~ Replied(r)' /\ Ranks' = Ranks /\ cur' = cur /\ inbox' = inbox /\ call' = call
      /\ layout' = layout /\ answer' = answer
  BY <1>2, <1>6, <1>7 DEF GoesTo, Runs, Underway, Replied, Ranks, sessionVars
<1>9. HostAt(r)' = 2 /\ SentAt # 2 /\ SentAt # 0
  BY <1>7, <1>8 DEF HostAt, LoadedAt, SentAt
<1>10. w \in Instructions /\ l \in Instructions /\ w.op = "wait" /\ l.op = "load"
  <2>1. Sent(r - 1) \in Names
    <3>1. r - 1 \in Nat
      BY <1>2
    <3> QED BY <3>1 DEF Sent, Names
  <2> QED BY <1>2, <1>3, <1>4, <1>5, <2>1 DEF Instructions, WaitFor, Load
<1>11. <<w, l>> \in Seq(Instructions) /\ \A e \in Events : ~ Asks(<<w, l>>, e)
  <2>1. ASSUME NEW e \in Events PROVE ~ Asks(<<w, l>>, e)
    <3>1. Record(e).op = "record"
      BY DEF Record
    <3>2. \A i \in DOMAIN <<w, l>> : <<w, l>>[i] = w \/ <<w, l>>[i] = l
      OBVIOUS
    <3> QED BY <1>10, <3>1, <3>2 DEF Asks
  <2> QED BY <1>10, <2>1
<1>12. /\ queue'[r] = queue[r] \o <<w, l>> /\ asked' = asked
       /\ \A q \in Ranks \ {r} : queue'[q] = queue[q]
       /\ UNCHANGED <<buf, dram, staging, dst, fired>>
  <2>1. /\ queue'[r] = queue[r] \o <<w, l>> /\ asked' \in [Events -> Nat]
        /\ \A e \in Events : asked'[e] = IF Asks(<<w, l>>, e) THEN asked[e] + 1 ELSE asked[e]
        /\ \A q \in Ranks \ {r} : queue'[q] = queue[q]
        /\ UNCHANGED <<buf, dram, staging, dst, fired>>
    BY <1>6, <1>7, <1>11, EnqueueIs
  <2>2. asked \in [Events -> Nat] /\ \A e \in Events : asked'[e] = asked[e]
    BY <1>7, <1>11, <2>1 DEF StreamTypes
  <2> QED BY <2>1, <2>2
<1>13. ChainTypes'
  <2>1. DOMAIN send_done' = DOMAIN send_done
    BY <1>6
  <2> QED BY <1>6, <1>8, <1>11, <2>1, EnqueueTypes
<1>14. Kept(r)
  <2>1. PICK n \in Nat : n = asked[Sent(r)]
    BY HostAtIs
  <2>2. PICK c : c = ErrandOf(r)
    OBVIOUS
  <2>3. c.rank = r /\ c.forward = call.id /\ c.records = m
    BY <1>2, <1>3, <2>2 DEF ErrandOf, Errand
  <2>4. HostPoint(r) = Point(0, n) /\ HostPoint(r)' = Point(2, n) /\ ErrandOf(r)' = c
    BY <1>2, <1>8, <1>9, <1>12, <2>1, <2>2 DEF HostPoint, ErrandOf, Sent
  <2>5. /\ \A a \in Nat : Point(a, n) \in Points /\ Point(a, n).at = a /\ Point(a, n).n = n
    BY <2>1 DEF Point, Points
  <2>6. Advances(c, w, Point(0, n), Point(1, n))
    BY <1>2, <1>4, <1>10, <2>1, <2>3, <2>5 DEF Advances, Sent
  <2>7. Advances(c, l, Point(1, n), Point(2, n))
    BY <1>2, <1>5, <1>10, <2>1, <2>3, <2>5 DEF Advances
  <2>8. ASSUME NEW s, Brings(c, queue[r], s, Point(0, n))
        PROVE  Brings(c, queue'[r], s, Point(2, n))
    <3>1. queue[r] \in Seq(Instructions)
      BY ChainRank
    <3>2. Point(0, n) \in Points /\ Point(1, n) \in Points /\ Point(2, n) \in Points
      BY <2>5
    <3>3. PICK q \in Seq(Instructions) : q = queue[r]
      BY <3>1
    <3>4. PICK x : x = queue'[r] /\ x = q \o <<w, l>>
      BY <1>12, <3>3
    <3>5. Brings(c, q, s, Point(0, n))
      BY <2>8, <3>3
    <3>6. Brings(c, x, s, Point(2, n))
      <4>1. PICK t \in Points, u \in Points, v \in Points :
              t = Point(0, n) /\ u = Point(1, n) /\ v = Point(2, n)
        BY <3>2
      <4>2. Brings(c, q, s, t) /\ Advances(c, w, t, u) /\ Advances(c, l, u, v)
        BY <2>6, <2>7, <3>5, <4>1
      <4>3. w \in Instructions /\ l \in Instructions
        BY <1>10
      <4>4. Brings(c, x, s, v)
        BY <3>4, <4>2, <4>3, TwoMoreBring
      <4> QED BY <4>1, <4>4
    <3> QED BY <3>4, <3>6
  <2>9. \A s : Brings(ErrandOf(r), queue[r], s, HostPoint(r))
                  => Brings(ErrandOf(r)', queue'[r], s, HostPoint(r)')
    BY <2>2, <2>4, <2>8
  <2>10. /\ HostAt(r)' # 0 /\ call'.id = call.id /\ buf'[r] = buf[r]
         /\ fired'[Sent(r)] = fired[Sent(r)] /\ dst'[r + 1] = dst[r + 1]
    BY <1>8, <1>9, <1>12
  <2> QED BY <2>9, <2>10, KeptOnward
<1>15. OnlyWorker(r) /\ send_done'[r] = NoEvent /\ (r + 1 \in Ranks => send_done'[r + 1] = send_done[r + 1])
  <2>1. \A q \in Ranks \ {r} : RankSame(q)
    BY <1>6, <1>7, <1>8 DEF RankSame, GoesTo, sessionVars
  <2>2. /\ \A q \in Ranks \ {r} : send_done'[q] = send_done[q]
        /\ send_done'[r] = NoEvent
    BY <1>6, <1>7
  <2>3. r + 1 # r
    BY <1>2
  <2> QED BY <1>8, <1>12, <2>1, <2>2, <2>3 DEF OnlyWorker
<1>16. StageInv(r)'
  BY <1>2, <1>7, <1>8 DEF StageInv
<1>17. EdgeInv(r)'
  <2>1. HostAt(r - 1)' = HostAt(r - 1)
    <3>1. r - 1 \in Ranks \ {r}
      BY <1>2
    <3> QED BY <1>8, <1>15, <3>1, StageSame DEF OnlyWorker
  <2> QED BY <1>2, <1>9, <1>15, <2>1 DEF EdgeInv, Handed
<1>18. r + 1 \in Ranks => EdgeInv(r + 1)'
  BY <1>2, <1>9, <1>12, <1>15, EdgeNext
<1> QED BY <1>12, <1>13, <1>14, <1>15, <1>16, <1>17, <1>18, WorkerChain

(* A buffer that grows loses what the stage behind has read, or will be sent.   *)
LEMMA GrowChain ==
  ASSUME ChainState, SessionInv', NEW r \in Ranks, PeerStep(r), GrowDst(r)
  PROVE  ChainInv'
<1>1. /\ pc[r] = "out" /\ dst' = [dst EXCEPT ![r + 1] = Bad]
      /\ UNCHANGED <<topologyVars, arVars, queue, buf, dram, staging, asked, fired, send_done,
                     took, sessionVars>>
  <2>1. Consumer(r) = r + 1
    BY ChainRank, ChainLayout
  <2> QED BY <2>1 DEF PeerStep, GrowDst
<1>2. /\ layout' = layout /\ pc' = pc /\ cur' = cur /\ round' = round /\ inbox' = inbox
      /\ reply' = reply /\ call' = call /\ answer' = answer /\ queue' = queue /\ buf' = buf
      /\ dram' = dram /\ staging' = staging /\ asked' = asked /\ fired' = fired
      /\ send_done' = send_done
  BY <1>1 DEF topologyVars, sessionVars
<1>3. StreamTypes /\ DOMAIN dst = Ranks /\ DOMAIN send_done = Ranks
  BY DEF ChainState, ChainInv, ChainTypes
<1>4. Ranks' = Ranks /\ Events' = Events /\ Ranks \subseteq Nat
  BY <1>2, ChainRank, ChainLayout DEF Ranks, Events
<1>5. ChainTypes'
  BY <1>1, <1>2, <1>3, <1>4 DEF ChainTypes, StreamTypes
<1>6. OnlyWorker(r)
  <2>1. \A q \in Ranks \ {r} : RankSame(q)
    BY <1>2 DEF RankSame
  <2>2. ASSUME NEW q \in Ranks \ {r}, q + 1 \in Ranks PROVE dst'[q + 1] = dst[q + 1]
    <3>1. q \in Nat /\ r \in Nat
      BY <1>4
    <3>2. q + 1 # r + 1
      BY <3>1
    <3> QED BY <1>1, <1>3, <2>2, <3>2
  <2> QED BY <1>2, <2>1, <2>2 DEF OnlyWorker
<1>7. StageInv(r)' /\ HostAt(r)' = HostAt(r) /\ Replied(r)' = Replied(r)
  <2>1. RankSame(r)
    BY <1>2 DEF RankSame
  <2> QED BY <1>2, <2>1, StageSame
<1>8. HostAt(r) <= NAr + 2
  <2>1. Runs(r) /\ round[r] = NAr /\ NAr \in Nat
    BY <1>1, ChainRank, TopologyAssumption DEF StageInv, SlotOps
  <2>2. HostAt(r) = 2 + NAr
    BY <1>1, <2>1, HostAtIs
  <2> QED BY <2>1, <2>2
<1>9. Kept(r)
  BY <1>2, <1>7, <1>8, KeptSame
<1>10. (r > 0 => EdgeInv(r)') /\ (r + 1 \in Ranks => EdgeInv(r + 1)')
  BY <1>2, <1>6, <1>7, EdgesQuiet
<1> QED BY <1>2, <1>5, <1>6, <1>7, <1>9, <1>10, WorkerChain

(* A copy and a record enqueued together. *)
LEMMA AsksTwo ==
  ASSUME NEW e, NEW o, NEW x
  PROVE  Asks(<<o, x>>, e) <=> o = Record(e) \/ x = Record(e)
<1>1. PICK s : s = <<o, x>>
  OBVIOUS
<1>2. DOMAIN s = {1, 2} /\ s[1] = o /\ s[2] = x
  BY <1>1
<1>3. PICK z : z = Record(e)
  OBVIOUS
<1>4. (\E i \in DOMAIN s : s[i] = z) <=> o = z \/ x = z
  BY <1>2
<1> QED BY <1>1, <1>3, <1>4 DEF Asks

(* What a stage asks its stream for when it hands off. *)
LEMMA HandOffAsks ==
  ASSUME ChainState, NEW r \in Ranks, layout' = layout, NEW o, o = SendOut, NEW x, x = Record(Sent(r)),
         Enqueue(r, <<o, x>>)
  PROVE  /\ o \in Instructions /\ x \in Instructions /\ <<o, x>> \in Seq(Instructions)
         /\ o.op = "send" /\ x.op = "record"
         /\ queue'[r] = queue[r] \o <<o, x>>
         /\ asked'[Sent(r)] = asked[Sent(r)] + 1
         /\ \A q \in Ranks \ {r} : queue'[q] = queue[q] /\ asked'[Sent(q)] = asked[Sent(q)]
         /\ UNCHANGED <<buf, dram, staging, dst, fired>>
<1>1. StreamTypes /\ Ranks \subseteq Nat
  BY ChainRank, ChainLayout DEF ChainState, ChainInv, ChainTypes
<1>2. /\ o \in Instructions /\ x \in Instructions /\ o.op = "send" /\ x.op = "record"
  <2>1. Sent(r) \in Names
    BY <1>1 DEF Sent, Names
  <2> QED BY <2>1 DEF Instructions, SendOut, Record
<1>3. <<o, x>> \in Seq(Instructions)
  BY <1>2
<1>4. /\ queue'[r] = queue[r] \o <<o, x>>
      /\ \A q \in Ranks \ {r} : queue'[q] = queue[q]
      /\ \A e \in Events : asked'[e] = IF Asks(<<o, x>>, e) THEN asked[e] + 1 ELSE asked[e]
      /\ UNCHANGED <<buf, dram, staging, dst, fired>>
  BY <1>1, <1>3, EnqueueIs
<1>5. \A q \in Ranks : Sent(q) \in Events
  BY DEF Sent, Events
<1>6. Asks(<<o, x>>, Sent(r))
  BY AsksTwo
<1>7. ASSUME NEW q \in Ranks \ {r} PROVE ~ Asks(<<o, x>>, Sent(q))
  <2>1. Sent(q) # Sent(r)
    BY DEF Sent
  <2>2. o # Record(Sent(q)) /\ x # Record(Sent(q))
    BY <1>2, <2>1 DEF Record
  <2> QED BY <2>2, AsksTwo
<1> QED BY <1>2, <1>3, <1>4, <1>5, <1>6, <1>7

(* A stage hands off (peer_send). *)
LEMMA SendChain ==
  ASSUME ChainState, SessionInv', NEW r \in Ranks, PeerStep(r), PeerSend(r)
  PROVE  ChainInv'
<1>1. /\ Consumer(r) = r + 1 /\ (IsLast(r) <=> r + 1 \notin Ranks) /\ r \in Nat /\ Ranks \subseteq Nat
      /\ (r + 1 \in Ranks => (r + 1) - 1 = r /\ r + 1 > 0)
      /\ r > 0 => r - 1 \in Ranks /\ r - 1 # r
  BY ChainRank, ChainLayout
<1>2. PICK o : o = SendOut
  OBVIOUS
<1>3. PICK x : x = Record(Sent(r))
  OBVIOUS
<1>4. /\ pc[r] = "out" /\ r + 1 \in Ranks /\ Enqueue(r, <<o, x>>)
      /\ send_done' = [send_done EXCEPT
                         ![r + 1] = [forward |-> cur[r].id, record |-> asked[Sent(r)] + 1]]
      /\ GoesTo(r, "sent") /\ UNCHANGED <<layout, cur, round, sessionVars>>
  BY <1>1, <1>2, <1>3 DEF PeerStep, PeerSend, Sent
<1>5. /\ inbox' = inbox /\ reply' = reply /\ call' = call /\ answer' = answer
      /\ layout' = layout /\ cur' = cur /\ round' = round
  BY <1>4 DEF sessionVars
<1>6. /\ Runs(r) /\ cur[r].id = call.id /\ StageInv(r) /\ Underway /\ ~ Replied(r)
      /\ round[r] = NAr /\ NAr \in Nat /\ NAr > 0
      /\ DOMAIN pc = Ranks /\ DOMAIN send_done = Ranks
  <2>1. /\ Runs(r) /\ cur[r].id = call.id /\ StageInv(r) /\ Underway /\ ~ Replied(r)
    BY <1>4, ChainRank DEF SlotOps
  <2>2. round[r] = NAr
    BY <1>4, <2>1 DEF StageInv
  <2>3. DOMAIN pc = Ranks /\ DOMAIN send_done = Ranks
    BY DEF ChainState, SessionInv, SessionTypes, ChainInv, ChainTypes
  <2> QED BY <2>1, <2>2, <2>3, TopologyAssumption
<1>7. /\ o \in Instructions /\ x \in Instructions /\ <<o, x>> \in Seq(Instructions)
      /\ o.op = "send" /\ x.op = "record"
      /\ queue'[r] = queue[r] \o <<o, x>>
      /\ asked'[Sent(r)] = asked[Sent(r)] + 1
      /\ \A q \in Ranks \ {r} : queue'[q] = queue[q] /\ asked'[Sent(q)] = asked[Sent(q)]
      /\ UNCHANGED <<buf, dram, staging, dst, fired>>
  BY <1>2, <1>3, <1>4, HandOffAsks
<1>8. /\ pc'[r] = "sent" /\ Runs(r)' /\ Underway' = Underway /\ ~ Replied(r)' /\ Ranks' = Ranks
  BY <1>4, <1>5, <1>6 DEF GoesTo, Runs, Underway, Replied, Ranks
<1>9. /\ HostAt(r) = NAr + 2 /\ HostAt(r)' = SentAt /\ SentAt = NAr + 4
      /\ HostAt(r) # SentAt /\ HostAt(r) > 0 /\ SentAt > 0
  <2>1. HostAt(r) = 2 + NAr
    BY <1>4, <1>6, HostAtIs
  <2>2. HostAt(r)' = SentAt
    BY <1>8 DEF HostAt
  <2> QED BY <1>6, <2>1, <2>2 DEF SentAt
<1>10. ChainTypes'
  <2>1. DOMAIN send_done' = DOMAIN send_done
    BY <1>4
  <2> QED BY <1>4, <1>5, <1>7, <2>1, EnqueueTypes
<1>11. OnlyWorker(r)
  <2>1. \A q \in Ranks \ {r} : RankSame(q)
    BY <1>4, <1>5, <1>6 DEF RankSame, GoesTo
  <2>2. \A q \in Ranks \ {r, r + 1} : send_done'[q] = send_done[q]
    BY <1>4, <1>6
  <2> QED BY <1>5, <1>7, <2>1, <2>2 DEF OnlyWorker
<1>12. StageInv(r)'
  BY <1>4, <1>5, <1>6, <1>8 DEF StageInv
<1>13. Kept(r)
  <2>1. PICK n \in Nat : n = asked[Sent(r)]
    BY HostAtIs
  <2>2. PICK c : c = ErrandOf(r)
    OBVIOUS
  <2>3. c.rank = r /\ c.forward = call.id
    BY <2>2 DEF ErrandOf, Errand
  <2>4. \A a \in Nat, m \in Nat : /\ Point(a, m) \in Points /\ Point(a, m).at = a
                                  /\ Point(a, m).n = m
    BY DEF Point, Points
  <2>5. PICK t \in Points, u \in Points, v \in Points :
          /\ t = Point(NAr + 2, n) /\ t.at = NAr + 2 /\ t.n = n
          /\ u = Point(NAr + 3, n) /\ u.at = NAr + 3 /\ u.n = n
          /\ v = Point(SentAt, n + 1) /\ v.at = SentAt /\ v.n = n + 1
    <3>1. NAr + 2 \in Nat /\ NAr + 3 \in Nat /\ SentAt \in Nat /\ n + 1 \in Nat
      BY <1>6, <1>9
    <3> QED BY <2>4, <3>1
  <2>6. HostPoint(r) = t /\ HostPoint(r)' = v /\ ErrandOf(r)' = c
    <3>1. HostPoint(r) = t
      BY <1>9, <2>1, <2>5 DEF HostPoint
    <3>2. HostPoint(r)' = v
      BY <1>7, <1>9, <2>1, <2>5 DEF HostPoint, Sent
    <3>3. ErrandOf(r)' = c
      <4>1. r > 0 => asked'[Sent(r - 1)] = asked[Sent(r - 1)]
        BY <1>1, <1>7
      <4> QED BY <1>5, <2>2, <4>1 DEF ErrandOf, Sent
    <3> QED BY <3>1, <3>2, <3>3
  <2>7. Advances(c, o, t, u)
    BY <1>2, <1>6, <1>7, <2>1, <2>5 DEF Advances
  <2>8. Advances(c, x, u, v)
    BY <1>3, <1>6, <1>7, <2>1, <2>3, <2>5 DEF Advances, Sent
  <2>9. ASSUME NEW s, Brings(c, queue[r], s, t) PROVE Brings(c, queue'[r], s, v)
    <3>1. PICK q \in Seq(Instructions) : q = queue[r]
      BY ChainRank
    <3>2. PICK b : b = queue'[r] /\ b = q \o <<o, x>>
      BY <1>7, <3>1
    <3>3. Brings(c, q, s, t)
      BY <2>9, <3>1
    <3>4. o \in Instructions /\ x \in Instructions
      BY <1>7
    <3>5. Brings(c, b, s, v)
      BY <2>7, <2>8, <3>2, <3>3, <3>4, TwoMoreBring
    <3> QED BY <3>2, <3>5
  <2>10. \A s : Brings(ErrandOf(r), queue[r], s, HostPoint(r))
                  => Brings(ErrandOf(r)', queue'[r], s, HostPoint(r)')
    BY <2>2, <2>6, <2>9
  <2>11. /\ HostAt(r)' # 0 /\ call'.id = call.id /\ buf'[r] = buf[r]
         /\ fired'[Sent(r)] = fired[Sent(r)] /\ dst'[r + 1] = dst[r + 1]
    BY <1>5, <1>7, <1>9
  <2> QED BY <2>10, <2>11, KeptOnward
<1>14. \A q \in Ranks \ {r} : HostAt(q)' = HostAt(q) /\ Replied(q)' = Replied(q)
  BY <1>5, <1>11, StageSame DEF OnlyWorker
<1>15. ASSUME r > 0 PROVE EdgeInv(r)'
  <2>1. HostAt(r - 1)' = HostAt(r - 1)
    BY <1>1, <1>14, <1>15
  <2>2. EdgeInv(r) /\ send_done'[r] = send_done[r]
    <3>1. r # r + 1
      BY <1>1
    <3> QED BY <1>4, <1>15, <3>1, ChainRank
  <2>3. HostAt(r - 1) = SentAt /\ ~ Handed(r) /\ ~ Handed(r)'
    BY <1>9, <2>2 DEF EdgeInv, Handed
  <2>4. HostAt(r)' > 0
    BY <1>9
  <2> QED BY <1>5, <1>9, <2>1, <2>2, <2>3, <2>4 DEF EdgeInv
<1>16. PICK q \in Ranks : q = r + 1 /\ q - 1 = r /\ q > 0 /\ q # r
  BY <1>1, <1>4
<1>17. HostAt(q) = 0 /\ HostAt(q)' = 0
  <2>1. EdgeInv(q)
    BY <1>16, ChainRank
  <2>2. ~ (HostAt(q) > 0) /\ HostAt(q) \in Nat
    BY <1>9, <1>16, <2>1, HostAtIs DEF EdgeInv
  <2> QED BY <1>14, <1>16, <2>2
<1>18. EdgeInv(q)'
  <2>1. send_done'[q] = [forward |-> call.id, record |-> asked'[Sent(r)]]
    BY <1>4, <1>6, <1>7, <1>16
  <2>2. HostAt(q - 1)' = SentAt /\ HostAt(q)' = 0 /\ Sent(q - 1)' = Sent(r)
    BY <1>9, <1>16, <1>17 DEF Sent
  <2>3. Handed(q)'
    BY <2>2 DEF Handed
  <2> QED BY <1>5, <2>1, <2>2, <2>3 DEF EdgeInv
<1> QED BY <1>10, <1>11, <1>12, <1>13, <1>15, <1>16, <1>17, <1>18, WorkerChain

(* Every step of a hand-off. *)
LEMMA PeerChain ==
  ASSUME ChainState, SessionInv', NEW r \in Ranks, PeerStep(r)
  PROVE  ChainInv'
<1>1. PeerRecv(r) \/ GrowDst(r) \/ PeerSend(r)
  BY DEF PeerStep, HandOffStep
<1> QED BY <1>1, RecvChain, GrowChain, SendChain

-----------------------------------------------------------------------------
(* The devices: what an operation does to the memories. *)
Executed(r, o) ==
  /\ queue[r] # <<>> /\ queue'[r] = Tail(queue[r])
  /\ \A q \in Ranks \ {r} : queue'[q] = queue[q]
  /\ ChainTypes'
  /\ \A q \in Ranks \ {r} : /\ buf'[q] = buf[q]
                            /\ q + 1 \in Ranks => dst'[q + 1] = dst[q + 1]
  /\ \A q \in Ranks : /\ o = Record(Sent(q)) => fired'[Sent(q)] = fired[Sent(q)] + 1
                      /\ o # Record(Sent(q)) => fired'[Sent(q)] = fired[Sent(q)]
  /\ o.op = "embed" => buf'[r] = Content(o.f, 0, {r})
  /\ o.op = "load" => buf'[r] = LoadFrom(dst[r], r, o.f)
  /\ o.op = "layer" => buf'[r] = LayerOn(buf[r], r, o.f, o.j)
  /\ o.op = "send" => buf' = buf /\ (r + 1 \in Ranks => dst'[r + 1] = buf[r])
  /\ o.op = "record" => buf' = buf /\ dst' = dst
  /\ o.op = "wait" => buf' = buf /\ dst' = dst /\ fired[o.e] >= o.n

(* Which memories an executed operation changes. *)
LEMMA DeviceWrites ==
  ASSUME ChainState, NEW r \in Ranks, Device(r), NEW o, o = Head(queue[r])
  PROVE  Executed(r, o)
<1>1. /\ StreamTypes /\ DOMAIN dst = Ranks /\ DOMAIN send_done = Ranks
  BY DEF ChainState, ChainInv, ChainTypes
<1>2. /\ Consumer(r) = r + 1 /\ Group(Stage(r)) = {r} /\ Ranks \subseteq Nat /\ r \in Nat
  BY ChainRank, ChainLayout
<1>3. /\ Execute(r) /\ queue[r] # <<>> /\ queue' = [queue EXCEPT ![r] = Tail(@)]
      /\ UNCHANGED <<layout, asked, send_done>>
  BY DEF Device, Execute, topologyVars, handOffVars
<1>4. Ranks' = Ranks /\ Events' = Events
  BY <1>3 DEF Ranks, Events
<1>5. queue[r] \in Seq(Instructions) /\ DOMAIN queue = Ranks
  BY <1>1 DEF StreamTypes
<1>6. Tail(queue[r]) \in Seq(Instructions) /\ o \in Instructions
  BY <1>3, <1>5, HeadTailProperties
<1>7. /\ queue'[r] = Tail(queue[r]) /\ \A q \in Ranks \ {r} : queue'[q] = queue[q]
      /\ queue' \in [Ranks -> Seq(Instructions)]
  <2>1. queue \in [Ranks -> Seq(Instructions)]
    BY <1>1 DEF StreamTypes
  <2> QED BY <1>3, <1>6, <2>1
<1>8. /\ o.op = "embed" => buf' = [buf EXCEPT ![r] = Content(o.f, 0, {r})]
      /\ o.op = "load" => buf' = [buf EXCEPT ![r] = LoadFrom(dst[r], r, o.f)]
      /\ o.op = "layer" => buf' = [buf EXCEPT ![r] = LayerOn(buf[r], r, o.f, o.j)]
      /\ o.op = "sum" => buf' = [buf EXCEPT ![r] = Total(buf[r], staging[r], Peers(r))]
      /\ o.op \notin {"embed", "load", "layer", "sum"} => buf' = buf
      /\ o.op = "send" => dst' = [dst EXCEPT ![r + 1] = buf[r]]
      /\ o.op # "send" => dst' = dst
      /\ o.op = "record" => fired' = [fired EXCEPT ![o.e] = @ + 1]
      /\ o.op # "record" => fired' = fired
      /\ o.op = "wait" => fired[o.e] >= o.n
      /\ dram' = dram \/ dram' = [dram EXCEPT ![r] = buf[r]]
      /\ staging' = staging \/ \E c : staging' = [staging EXCEPT ![r][o.q] = c]
  BY <1>2, <1>3 DEF Execute, Writes
<1>9. /\ DOMAIN buf' = Ranks /\ DOMAIN dst' = Ranks /\ DOMAIN dram' = Ranks
      /\ \A q \in Ranks \ {r} : buf'[q] = buf[q]
  <2>1. DOMAIN buf = Ranks /\ DOMAIN dst = Ranks /\ DOMAIN dram = Ranks
    BY <1>1 DEF StreamTypes
  <2>2. buf' = buf \/ \E c : buf' = [buf EXCEPT ![r] = c]
    BY <1>8
  <2>3. dst' = dst \/ dst' = [dst EXCEPT ![r + 1] = buf[r]]
    BY <1>8
  <2> QED BY <1>8, <2>1, <2>2, <2>3
<1>10. DOMAIN staging' = Ranks /\ \A q \in Ranks : DOMAIN staging'[q] = Ranks
  <2>1. DOMAIN staging = Ranks /\ \A q \in Ranks : DOMAIN staging[q] = Ranks
    BY <1>1 DEF StreamTypes
  <2>2. ASSUME NEW c, staging' = [staging EXCEPT ![r][o.q] = c]
        PROVE  DOMAIN staging' = Ranks /\ \A q \in Ranks : DOMAIN staging'[q] = Ranks
    BY <2>1, <2>2
  <2> QED BY <1>8, <2>1, <2>2
<1>11. /\ fired' \in [Events -> Nat]
       /\ \A q \in Ranks : /\ o = Record(Sent(q)) => fired'[Sent(q)] = fired[Sent(q)] + 1
                           /\ o # Record(Sent(q)) => fired'[Sent(q)] = fired[Sent(q)]
  <2>1. fired \in [Events -> Nat] /\ \A q \in Ranks : Sent(q) \in Events
    BY <1>1 DEF StreamTypes, Sent, Events
  <2>2. CASE o.op = "record"
    <3>1. o = Record(o.e)
      BY <1>6, <2>2 DEF Instructions, Record
    <3>2. PICK e : e = o.e /\ o = Record(e)
      BY <3>1
    <3>3. fired' = [fired EXCEPT ![e] = @ + 1]
      BY <1>8, <2>2, <3>2
    <3>4. \A f : Record(f) = Record(e) <=> f = e
      BY DEF Record
    <3>5. \A q \in Ranks : o = Record(Sent(q)) <=> Sent(q) = e
      BY <3>2, <3>4
    <3>6. fired' \in [Events -> Nat]
      <4>1. DOMAIN fired' = Events
        BY <2>1, <3>3
      <4>2. ASSUME NEW g \in Events PROVE fired'[g] \in Nat
        <5>1. fired'[g] = IF g = e THEN fired[g] + 1 ELSE fired[g]
          BY <2>1, <3>3
        <5> QED BY <2>1, <5>1
      <4>3. fired' = [g \in Events |-> fired'[g]]
        BY <2>1, <3>3
      <4> QED BY <4>2, <4>3
    <3>7. ASSUME NEW q \in Ranks
          PROVE  fired'[Sent(q)] = IF Sent(q) = e THEN fired[Sent(q)] + 1 ELSE fired[Sent(q)]
      <4>1. PICK g \in Events : g = Sent(q)
        BY <2>1
      <4>2. fired'[g] = IF g = e THEN fired[g] + 1 ELSE fired[g]
        BY <2>1, <3>3, <4>1
      <4>3. fired[g] \in Nat
        BY <2>1
      <4> QED BY <4>1, <4>2, <4>3
    <3> QED BY <3>5, <3>6, <3>7
  <2>3. CASE o.op # "record"
    <3>1. \A q \in Ranks : o # Record(Sent(q))
      BY <2>3 DEF Record
    <3>2. \A q \in Ranks : fired[Sent(q)] \in Nat
      BY <2>1
    <3> QED BY <1>8, <2>1, <2>3, <3>1, <3>2
  <2> QED BY <2>2, <2>3
<1>12. ChainTypes'
  BY <1>1, <1>3, <1>4, <1>7, <1>9, <1>10, <1>11 DEF ChainTypes, StreamTypes
<1>13. ASSUME NEW q \in Ranks \ {r}, q + 1 \in Ranks PROVE dst'[q + 1] = dst[q + 1]
  <2>1. q + 1 # r + 1
    BY <1>2
  <2>2. dst' = dst \/ dst' = [dst EXCEPT ![r + 1] = buf[r]]
    BY <1>8
  <2> QED BY <1>1, <1>13, <2>1, <2>2
<1>14. /\ o.op = "embed" => buf'[r] = Content(o.f, 0, {r})
       /\ o.op = "load" => buf'[r] = LoadFrom(dst[r], r, o.f)
       /\ o.op = "layer" => buf'[r] = LayerOn(buf[r], r, o.f, o.j)
       /\ o.op = "send" => buf' = buf /\ (r + 1 \in Ranks => dst'[r + 1] = buf[r])
       /\ o.op = "record" => buf' = buf /\ dst' = dst
       /\ o.op = "wait" => buf' = buf /\ dst' = dst /\ fired[o.e] >= o.n
  <2>1. DOMAIN buf = Ranks /\ DOMAIN dst = Ranks
    BY <1>1 DEF StreamTypes
  <2> QED BY <1>8, <2>1
<1> QED BY <1>3, <1>7, <1>9, <1>11, <1>12, <1>13, <1>14 DEF Executed

(* A stage's device loads behind the hand-off of the stage before. *)
LEMMA StageBefore ==
  ASSUME ChainState, NEW r \in Ranks, r > 0, NEW G \in [Ranks -> Points], Located(G),
         HostAt(r) > 0, fired[Sent(r - 1)] >= asked[Sent(r - 1)]
  PROVE  G[r - 1].at = SentAt
<1>1. r - 1 \in Ranks /\ EdgeInv(r)
  BY ChainRank, ChainLayout
<1>2. PICK p \in Ranks : p = r - 1
  BY <1>1
<1>3. HostAt(p) = SentAt
  BY <1>1, <1>2 DEF EdgeInv
<1>4. Stands(p, G[p]) /\ G[p] \in Points
  BY DEF Located
<1>5. NotPast(G[p], HostPoint(p)) /\ G[p].at \in Nat /\ G[p].n \in Nat
  BY <1>4, StandsAt
<1>6. HostPoint(p).at = SentAt /\ HostPoint(p).n = asked[Sent(p)] /\ asked[Sent(p)] \in Nat
  BY <1>3, HostAtIs
<1>7. fired[Sent(p)] = G[p].n
  BY <1>4 DEF Stands
<1> QED BY <1>2, <1>5, <1>6, <1>7 DEF NotPast

(* What the device's memories hold behind an operation. *)
LEMMA HoldsNext ==
  ASSUME ChainState, NEW r \in Ranks, Device(r), NEW o, o = Head(queue[r]),
         NEW G \in [Ranks -> Points], Located(G), NEW s \in Points, s = G[r], NEW u \in Points,
         Advances(ErrandOf(r), o, s, u), u.at <= HostAt(r)
  PROVE  /\ u.at > 1 => buf'[r] = Content(call.id, IF u.at > NAr + 2 THEN NAr ELSE u.at - 2, {r})
         /\ u.at > NAr + 2 => dst'[r + 1] = Content(call.id, NAr, {r})
<1>1. PICK c : c = ErrandOf(r) /\ c.rank = r /\ c.forward = call.id
  BY DEF ErrandOf, Errand
<1>2. /\ o.op = "embed" => buf'[r] = Content(o.f, 0, {r})
      /\ o.op = "load" => buf'[r] = LoadFrom(dst[r], r, o.f)
      /\ o.op = "layer" => buf'[r] = LayerOn(buf[r], r, o.f, o.j)
      /\ o.op = "send" => buf' = buf /\ (r + 1 \in Ranks => dst'[r + 1] = buf[r])
      /\ o.op = "record" => buf' = buf /\ dst' = dst
  BY DeviceWrites DEF Executed
<1>3. /\ s.at \in Nat /\ u.at \in Nat /\ NAr \in Nat /\ NAr > 0
  BY TopologyAssumption DEF Points
<1>4. /\ s.at > 1 => buf[r] = Content(call.id, IF s.at > NAr + 2 THEN NAr ELSE s.at - 2, {r})
      /\ s.at > NAr + 2 => dst[r + 1] = Content(call.id, NAr, {r})
  BY DEF Located, Stands, Holds
<1>5. Advances(c, o, s, u)
  BY <1>1
<1>6. CASE u.at <= 1
  BY <1>3, <1>6
<1>7. CASE s.at = 0 /\ u.at = 2 /\ r = 0 /\ o = Embed(call.id)
  <2>1. o.op = "embed" /\ o.f = call.id
    BY <1>7 DEF Embed
  <2>2. buf'[r] = Content(call.id, 0, {r}) /\ ~ (u.at > NAr + 2) /\ u.at - 2 = 0
    BY <1>2, <1>3, <1>7, <2>1
  <2> QED BY <2>2
<1>8. CASE s.at = 1 /\ u.at = 2 /\ r > 0 /\ o = Load(call.id)
  <2>1. o.op = "load" /\ o.f = call.id
    BY <1>8 DEF Load
  <2>2. r - 1 \in Ranks /\ (r - 1) + 1 = r /\ Group(r - 1) = {r - 1} /\ Stage(r) = r /\ Group(r) = {r}
    BY <1>8, ChainRank, ChainLayout
  <2>3. G[r - 1].at = SentAt
    BY <1>8 DEF Located, Behind
  <2>4. dst[(r - 1) + 1] = Content(call.id, NAr, {r - 1})
    <3>1. Holds(r - 1, G[r - 1])
      BY <2>2 DEF Located, Stands
    <3>2. SentAt > NAr + 2
      BY <1>3 DEF SentAt
    <3> QED BY <2>3, <3>1, <3>2 DEF Holds
  <2>5. buf'[r] = Content(call.id, 0, {r})
    BY <1>2, <2>1, <2>2, <2>4 DEF LoadFrom
  <2>6. ~ (u.at > NAr + 2) /\ u.at - 2 = 0
    BY <1>3, <1>8
  <2> QED BY <2>5, <2>6
<1>9. CASE s.at > 1 /\ s.at < NAr + 2 /\ u.at = s.at + 1 /\ o = Layer(call.id, s.at - 1)
  <2>1. o.op = "layer" /\ o.f = call.id /\ o.j = s.at - 1
    BY <1>9 DEF Layer
  <2>2. Group(Stage(r)) = {r}
    BY ChainRank, ChainLayout
  <2>3. buf[r] = Content(call.id, (s.at - 1) - 1, {r})
    <3>1. ~ (s.at > NAr + 2) /\ s.at - 2 = (s.at - 1) - 1
      BY <1>3, <1>9
    <3> QED BY <1>4, <1>9, <3>1
  <2>4. buf'[r] = Content(call.id, s.at - 1, {r})
    BY <1>2, <2>1, <2>2, <2>3 DEF LayerOn
  <2>5. ~ (u.at > NAr + 2) /\ u.at - 2 = s.at - 1
    BY <1>3, <1>9
  <2> QED BY <2>4, <2>5
<1>10. CASE s.at = NAr + 2 /\ u.at = NAr + 3 /\ o = SendOut
  <2>1. o.op = "send"
    BY <1>10 DEF SendOut
  <2>2. buf[r] = Content(call.id, NAr, {r})
    <3>1. s.at > 1 /\ ~ (s.at > NAr + 2) /\ s.at - 2 = NAr
      BY <1>3, <1>10
    <3> QED BY <1>4, <3>1
  <2>3. r + 1 \in Ranks
    <3>1. HostAt(r) > NAr + 2
      BY <1>3, <1>10, HostAtIs
    <3> QED BY <3>1, HandsOnward
  <2>4. dst'[r + 1] = Content(call.id, NAr, {r}) /\ buf'[r] = Content(call.id, NAr, {r})
    BY <1>2, <2>1, <2>2, <2>3
  <2>5. u.at > NAr + 2
    BY <1>3, <1>10
  <2> QED BY <2>4, <2>5
<1>11. CASE s.at = NAr + 3 /\ u.at = SentAt /\ o.op = "record"
  <2>1. s.at > 1 /\ s.at > NAr + 2 /\ u.at > NAr + 2
    BY <1>3, <1>11 DEF SentAt
  <2> QED BY <1>2, <1>4, <1>11, <2>1
<1> QED BY <1>1, <1>3, <1>5, <1>6, <1>7, <1>8, <1>9, <1>10, <1>11 DEF Advances

(* A device executes the next operation of its stream. *)
LEMMA DeviceChain ==
  ASSUME ChainState, NEW r \in Ranks, Device(r)
  PROVE  ChainInv'
<1>1. PICK o : o = Head(queue[r])
  OBVIOUS
<1>2. /\ queue[r] # <<>> /\ queue'[r] = Tail(queue[r])
      /\ \A q \in Ranks \ {r} : queue'[q] = queue[q]
      /\ ChainTypes'
      /\ \A q \in Ranks \ {r} : /\ buf'[q] = buf[q]
                                /\ q + 1 \in Ranks => dst'[q + 1] = dst[q + 1]
      /\ \A q \in Ranks : /\ o = Record(Sent(q)) => fired'[Sent(q)] = fired[Sent(q)] + 1
                          /\ o # Record(Sent(q)) => fired'[Sent(q)] = fired[Sent(q)]
      /\ o.op = "wait" => fired[o.e] >= o.n
  <2>1. Executed(r, o)
    BY <1>1, DeviceWrites
  <2> QED BY <2>1 DEF Executed
<1>3. /\ UNCHANGED <<layout, pc, cur, round, inbox, reply, call, answer, asked, send_done>>
      /\ Ranks' = Ranks
  BY DEF Device, Execute, topologyVars, handOffVars, sessionVars, Ranks
<1>4. ASSUME NEW q \in Ranks
      PROVE  /\ StageInv(q)' /\ HostAt(q)' = HostAt(q) /\ Replied(q)' = Replied(q)
             /\ HostPoint(q)' = HostPoint(q) /\ ErrandOf(q)' = ErrandOf(q)
  <2>1. RankSame(q)
    BY <1>3 DEF RankSame
  <2>2. StageInv(q)' /\ HostAt(q)' = HostAt(q) /\ Replied(q)' = Replied(q)
    BY <1>3, <2>1, StageSame
  <2> QED BY <1>3, <2>2 DEF HostPoint, ErrandOf, Sent
<1>5. StagesInv'
  BY <1>3, <1>4 DEF StagesInv
<1>6. EdgesInv'
  <2>1. ASSUME NEW q \in Ranks, q > 0 PROVE EdgeInv(q)'
    <3>1. q - 1 \in Ranks
      BY <2>1, ChainRank, ChainLayout
    <3> QED BY <1>3, <1>4, <2>1, <3>1, EdgeSame
  <2> QED BY <1>3, <2>1 DEF EdgesInv
<1>7. ChainAnswer'
  BY <1>3 DEF ChainState, ChainInv, ChainAnswer
<1>8. PICK G \in [Ranks -> Points] : Located(G)
  BY DEF ChainState, ChainInv, ChainDevices
<1>9. PICK c : /\ c = ErrandOf(r) /\ c.rank = r
               /\ r > 0 => c.records = asked[Sent(r - 1)]
  <2>1. ErrandOf(r).rank = r /\ (r > 0 => ErrandOf(r).records = asked[Sent(r - 1)])
    BY DEF ErrandOf, Errand
  <2> QED BY <2>1
<1>10. PICK s \in Points : s = G[r]
  BY <1>8
<1>11. Stands(r, s) /\ Behind(r, G) /\ queue[r] \in Seq(Instructions)
  BY <1>8, <1>10, ChainRank DEF Located
<1>12. PICK u \in Points : Advances(c, o, s, u) /\ Brings(c, Tail(queue[r]), u, HostPoint(r))
  BY <1>1, <1>2, <1>9, <1>11, HeadBrings DEF Stands
<1>13. u.at <= HostAt(r) /\ s.at \in Nat /\ u.at \in Nat /\ u.n \in Nat /\ s.n \in Nat
  <2>1. Tail(queue[r]) \in Seq(Instructions)
    BY <1>2, <1>11, HeadTailProperties
  <2>2. NotPast(u, HostPoint(r))
    BY <1>12, <2>1, BringsForward
  <2> QED BY <2>2, HostAtIs DEF NotPast, Points
<1>14. /\ fired'[Sent(r)] = u.n
       /\ \A q \in Ranks \ {r} : fired'[Sent(q)] = fired[Sent(q)]
  <2>1. \A e, f : Record(e) = Record(f) => e = f
    BY DEF Record
  <2>2. \A e : Record(e).op = "record"
    BY DEF Record
  <2>3. (o.op = "record" => o = Record(Sent(r))) /\ u.n = s.n + (IF o.op = "record" THEN 1 ELSE 0)
    BY <1>9, <1>12 DEF Advances, Sent
  <2>4. fired'[Sent(r)] = u.n
    <3>1. fired[Sent(r)] = s.n
      BY <1>11 DEF Stands
    <3>2. CASE o.op = "record"
      BY <1>2, <2>3, <3>1, <3>2
    <3>3. CASE o.op # "record"
      <4>1. o # Record(Sent(r)) /\ u.n = s.n
        BY <1>13, <2>2, <2>3, <3>3
      <4> QED BY <1>2, <3>1, <4>1
    <3> QED BY <3>2, <3>3
  <2>5. ASSUME NEW q \in Ranks \ {r} PROVE o # Record(Sent(q))
    <3>1. Sent(q) # Sent(r)
      BY DEF Sent
    <3> QED BY <2>1, <2>2, <2>3, <3>1
  <2>6. \A q \in Ranks : fired[Sent(q)] \in Nat
    BY DEF ChainState, ChainInv, ChainTypes, StreamTypes, Sent, Events
  <2> QED BY <1>2, <2>4, <2>5, <2>6
<1>15. Holds(r, u)'
  BY <1>1, <1>3, <1>8, <1>9, <1>10, <1>12, <1>13, HoldsNext DEF Holds
<1>16. Stands(r, u)'
  <2>1. Brings(ErrandOf(r)', queue'[r], u, HostPoint(r)')
    BY <1>2, <1>4, <1>9, <1>12
  <2> QED BY <1>14, <1>15, <2>1 DEF Stands, Sent
<1>17. ASSUME NEW q \in Ranks \ {r} PROVE Stands(q, G[q])'
  <2>1. Stands(q, G[q])
    BY <1>8 DEF Located
  <2>2. Brings(ErrandOf(q)', queue'[q], G[q], HostPoint(q)')
    BY <1>2, <1>4, <2>1 DEF Stands
  <2>3. Holds(q, G[q])'
    <3>1. G[q].at > NAr + 2 => q + 1 \in Ranks
      <4>1. G[q].at <= HostAt(q) /\ G[q].at \in Nat /\ HostAt(q) \in Nat /\ NAr \in Nat
        BY <1>8, <2>1, StandsAt, HostAtIs, TopologyAssumption
      <4>2. G[q].at > NAr + 2 => HostAt(q) > NAr + 2
        BY <4>1
      <4> QED BY <4>2, HandsOnward
    <3> QED BY <1>2, <1>3, <2>1, <3>1 DEF Stands, Holds
  <2>4. fired'[Sent(q)] = G[q].n
    BY <1>14, <2>1 DEF Stands
  <2> QED BY <2>2, <2>3, <2>4 DEF Stands, Sent
<1>18. PICK H : H = [G EXCEPT ![r] = u]
  OBVIOUS
<1>19. H \in [Ranks -> Points] /\ H[r] = u /\ \A q \in Ranks \ {r} : H[q] = G[q]
  BY <1>8, <1>18
<1>20. NAr \in Nat /\ NAr > 0 /\ SentAt = NAr + 4
  BY TopologyAssumption DEF SentAt
<1>21. s.at # SentAt
  BY <1>12, <1>13, <1>20 DEF Advances
<1>22. r > 0 /\ u.at > 0 => G[r - 1].at = SentAt
  <2>1. SUFFICES ASSUME r > 0, u.at > 0 PROVE G[r - 1].at = SentAt
    OBVIOUS
  <2>2. CASE s.at > 0
    BY <1>10, <1>11, <2>1, <2>2 DEF Behind
  <2>3. CASE s.at = 0
    <3>1. o = WaitFor(<<"sent", r - 1>>, asked[Sent(r - 1)])
      BY <1>9, <1>12, <2>1, <2>3, <1>20 DEF Advances
    <3>2. o.op = "wait" /\ o.e = Sent(r - 1) /\ o.n = asked[Sent(r - 1)]
      BY <3>1 DEF WaitFor, Sent
    <3>3. fired[Sent(r - 1)] >= asked[Sent(r - 1)]
      BY <1>2, <3>2
    <3>4. HostAt(r) > 0
      BY <1>13, <2>1, HostAtIs
    <3> QED BY <1>8, <2>1, <3>3, <3>4, StageBefore
  <2> QED BY <1>13, <2>2, <2>3
<1>23. ASSUME NEW q \in Ranks PROVE Behind(q, H)
  <2>1. SUFFICES ASSUME q > 0, H[q].at > 0 PROVE H[q - 1].at = SentAt
    BY DEF Behind
  <2>2. q - 1 \in Ranks /\ q - 1 # q /\ q \in Nat /\ r \in Nat
    BY <2>1, ChainRank, ChainLayout
  <2>3. CASE q = r
    <3>1. H[q - 1] = G[q - 1]
      BY <1>19, <2>2, <2>3
    <3> QED BY <1>19, <1>22, <2>1, <2>3, <3>1
  <2>4. CASE q # r
    <3>1. G[q - 1].at = SentAt
      BY <1>8, <1>19, <2>1, <2>4 DEF Located, Behind
    <3>2. q - 1 # r
      BY <1>10, <1>21, <3>1
    <3> QED BY <1>19, <2>2, <3>1, <3>2
  <2> QED BY <2>3, <2>4
<1>24. Located(H)'
  <2>1. \A q \in Ranks : Stands(q, H[q])'
    BY <1>16, <1>17, <1>19
  <2>2. \A q \in Ranks' : Behind(q, H)'
    BY <1>3, <1>23 DEF Behind
  <2> QED BY <1>3, <2>1, <2>2 DEF Located
<1>25. ChainDevices'
  BY <1>3, <1>19, <1>24 DEF ChainDevices
<1> QED BY <1>2, <1>5, <1>6, <1>7, <1>25 DEF ChainInv

-----------------------------------------------------------------------------
(* Between forwards no device is in one, and no edge has an event that anybody  *)
(* will take for one of this forward.                                           *)
LEMMA ForgetsChain ==
  ASSUME ChainState, SessionInv', UNCHANGED <<layout, streamVars, handOffVars>>,
         \A r \in Ranks : HostAt(r)' = 0, StagesInv', ChainAnswer',
         layout.kind = "HYB" => \A r \in Ranks : r > 0 => ~ Handed(r)
  PROVE  ChainInv'
<1>1. /\ queue' = queue /\ asked' = asked /\ fired' = fired /\ send_done' = send_done
      /\ layout' = layout /\ Ranks' = Ranks /\ layout \in Layouts /\ layout.width = 1
  BY DEF streamVars, handOffVars, Ranks, ChainState, SessionInv, SessionTypes, Chained
<1>2. ChainTypes'
  BY <1>1, TypesSame
<1>3. \A r \in Ranks : Kept(r)
  BY <1>1, KeptForgets
<1>4. EdgesInv'
  <2>1. ASSUME NEW r \in Ranks, r > 0 PROVE EdgeInv(r)'
    <3>1. r - 1 \in Ranks
      BY <1>1, <2>1, ChainLayout
    <3>2. SentAt # 0
      BY TopologyAssumption DEF SentAt
    <3>3. HostAt(r)' = 0 /\ HostAt(r - 1)' = 0 /\ ~ Handed(r)'
      BY <3>1, <3>2 DEF Handed
    <3>4. layout.kind = "HYB" => send_done[r] = NoEvent
      <4>1. EdgeInv(r)
        BY <2>1, ChainRank
      <4> QED BY <2>1, <4>1 DEF EdgeInv
    <3> QED BY <1>1, <3>3, <3>4 DEF EdgeInv
  <2> QED BY <1>1, <2>1 DEF EdgesInv
<1>5. ChainDevices'
  BY <1>1, <1>3, <1>4, DevicesKept
<1> QED BY <1>2, <1>4, <1>5 DEF ChainInv

(* A step of the session that leaves the ranks where they are. *)
LEMMA SameChain ==
  ASSUME ChainState, SessionInv', StagesInv', call'.op = call.op, call'.id = call.id,
         UNCHANGED <<layout, pc, cur, round, streamVars, handOffVars, reply, answer>>
  PROVE  ChainInv'
<1>1. /\ queue' = queue /\ asked' = asked /\ fired' = fired /\ send_done' = send_done
      /\ buf' = buf /\ dst' = dst /\ answer' = answer
      /\ layout' = layout /\ Ranks' = Ranks /\ layout \in Layouts /\ layout.width = 1
  BY DEF streamVars, handOffVars, Ranks, ChainState, SessionInv, SessionTypes, Chained
<1>2. ChainTypes'
  BY <1>1, TypesSame
<1>3. ASSUME NEW r \in Ranks PROVE HostAt(r)' = HostAt(r) /\ Replied(r)' = Replied(r)
  <2>1. Runs(r)' = Runs(r) /\ Underway' = Underway /\ Replied(r)' = Replied(r)
    BY DEF Runs, Underway, Replied
  <2> QED BY <1>1, <2>1 DEF HostAt
<1>4. \A r \in Ranks : Kept(r)
  BY <1>1, <1>3, KeptSame
<1>5. EdgesInv'
  <2>1. ASSUME NEW r \in Ranks, r > 0 PROVE EdgeInv(r)'
    <3>1. r - 1 \in Ranks /\ EdgeInv(r)
      BY <1>1, <2>1, ChainRank, ChainLayout
    <3>2. HostAt(r)' = HostAt(r) /\ HostAt(r - 1)' = HostAt(r - 1) /\ Handed(r)' = Handed(r)
      BY <1>3, <3>1 DEF Handed
    <3> QED BY <1>1, <1>3, <3>1, <3>2 DEF EdgeInv, Sent
  <2> QED BY <1>1, <2>1 DEF EdgesInv
<1>6. ChainDevices'
  BY <1>1, <1>4, <1>5, DevicesKept
<1>7. ChainAnswer'
  BY <1>1 DEF ChainState, ChainInv, ChainAnswer
<1> QED BY <1>2, <1>5, <1>6, <1>7 DEF ChainInv

(* Without a forward underway no rank is in one. *)
LEMMA NoneRuns ==
  ASSUME ChainState, ~ Underway, NEW r \in Ranks
  PROVE  /\ ~ Runs(r) /\ HostAt(r) = 0 /\ (r > 0 => ~ Handed(r))
         /\ \A i \in DOMAIN inbox[r] : inbox[r][i].op # "forward"
<1>1. StageInv(r) /\ SentAt # 0
  BY ChainRank, TopologyAssumption DEF SentAt
<1>2. \A q \in Ranks : HostAt(q) = 0
  <2>1. ASSUME NEW q \in Ranks PROVE HostAt(q) = 0
    <3>1. ~ Runs(q)
      BY ChainRank
    <3> QED BY <3>1 DEF HostAt
  <2> QED BY <2>1
<1>3. r > 0 => ~ Handed(r)
  <2>1. r > 0 => r - 1 \in Ranks
    BY ChainRank, ChainLayout
  <2> QED BY <1>1, <1>2, <2>1 DEF Handed
<1> QED BY <1>1, <1>2, <1>3, ChainRank DEF StageInv

(* The session begins a call (run_forward and the slot's operations). *)
LEMMA CallsChain ==
  ASSUME ChainState, SessionInv', NEW op, NEW n, NEW rs, Calls(op, n, rs),
         op = "forward" /\ layout.kind = "HYB" => rs = Ranks
  PROVE  ChainInv'
<1>0. PICK c : c = [op |-> op, id |-> NextId, size |-> n]
  OBVIOUS
<1>1. /\ Idle /\ call' = [op |-> op, id |-> NextId, size |-> n, at |-> 0]
      /\ inbox' = [r \in Ranks |-> IF r \in rs THEN Append(inbox[r], c) ELSE inbox[r]]
      /\ reply' = [r \in Ranks |-> NoReply] /\ answer' = NoAnswer
      /\ UNCHANGED <<layout, pc, cur, round, streamVars, handOffVars>>
  BY <1>0 DEF Calls, Sends, Command, topologyVars
<1>2. ~ Underway /\ Ranks' = Ranks
  BY <1>1 DEF Underway, Idle, Ranks
<1>3. \A r \in Ranks : ~ Replied(r)' /\ Runs(r)' = Runs(r)
  BY <1>1 DEF Replied, NoReply, Runs
<1>4. \A r \in Ranks : /\ ~ Runs(r) /\ HostAt(r) = 0 /\ (r > 0 => ~ Handed(r))
                       /\ \A i \in DOMAIN inbox[r] : inbox[r][i].op # "forward"
  BY <1>2, NoneRuns
<1>5. \A r \in Ranks : HostAt(r)' = 0
  BY <1>3, <1>4 DEF HostAt
<1>6. ASSUME NEW r \in Ranks
      PROVE  /\ \A i \in DOMAIN inbox'[r] : inbox'[r][i].op = "forward"
                                              => Underway' /\ inbox'[r][i].id = call'.id
             /\ Underway' /\ layout.kind = "HYB" => Tasked(r)'
  <2>1. PICK box \in Seq(Commands) : box = inbox[r]
    BY DEF ChainState, SessionInv, RankInv, OrderInv
  <2>2. PICK m \in Nat : m = Len(box) /\ DOMAIN box = 1 .. m
    BY <2>1
  <2>3. /\ DOMAIN Append(box, c) = 1 .. m + 1
        /\ \A j \in 1 .. m : Append(box, c)[j] = box[j]
        /\ Append(box, c)[m + 1] = c
    BY <2>1, <2>2
  <2>4. c.op = op /\ c.id = call'.id /\ (Underway' <=> op = "forward")
    BY <1>0, <1>1 DEF Underway
  <2>5. ASSUME NEW i \in DOMAIN inbox'[r], inbox'[r][i].op = "forward" PROVE inbox'[r][i] = c
    <3>1. CASE r \in rs
      <4>1. inbox'[r] = Append(box, c)
        BY <1>1, <2>1, <3>1
      <4>2. i \in 1 .. m \/ i = m + 1
        BY <2>2, <2>3, <2>5, <4>1
      <4>3. i \notin 1 .. m
        BY <1>4, <2>1, <2>2, <2>3, <2>5, <4>1
      <4> QED BY <2>3, <4>1, <4>2, <4>3
    <3>2. CASE r \notin rs
      BY <1>1, <1>4, <2>5, <3>2
    <3> QED BY <3>1, <3>2
  <2>6. ASSUME op = "forward", layout.kind = "HYB" PROVE Tasked(r)'
    <3>1. inbox'[r] = Append(box, c)
      BY <1>1, <2>1, <2>6
    <3>2. m + 1 \in DOMAIN inbox'[r] /\ inbox'[r][m + 1].op = "forward"
      BY <2>3, <2>4, <2>6, <3>1
    <3> QED BY <3>2 DEF Tasked
  <2> QED BY <2>4, <2>5, <2>6
<1>7. StagesInv'
  <2>1. ASSUME NEW r \in Ranks PROVE StageInv(r)'
    <3>1. pc[r] \in SlotOps \cup {"idle"} /\ pc'[r] = pc[r]
      BY <1>1, <1>4, ChainRank
    <3>2. pc'[r] \notin {"recv", "layers", "out", "sent"}
      BY <3>1 DEF SlotOps
    <3> QED BY <1>1, <1>2, <1>3, <1>4, <1>6, <3>1, <3>2 DEF StageInv
  <2> QED BY <1>2, <2>1 DEF StagesInv
<1>8. ChainAnswer'
  BY <1>1 DEF ChainAnswer, NoAnswer
<1> QED BY <1>1, <1>4, <1>5, <1>7, <1>8, ForgetsChain

(* A call has returned, and no rank is in its forward any more. *)
LEMMA OverChain ==
  ASSUME ChainState, SessionInv', Receive, NEW a, Returns(a), inbox' = inbox,
         \A r \in Ranks : ~ Runs(r) /\ ~ Tasked(r) /\ (r > 0 /\ layout.kind = "HYB" => ~ Handed(r)),
         a.op = "forward" => a.logits = Content(call.id, NAr, {layout.stages - 1})
  PROVE  ChainInv'
<1>1. /\ Idle' /\ call'.id = call.id /\ call'.op = "none" /\ answer' = a
  BY CallOver DEF ChainState
<1>2. /\ UNCHANGED <<layout, pc, cur, round, streamVars, handOffVars, reply>> /\ Ranks' = Ranks
  BY DEF Receive, topologyVars, Ranks
<1>3. ~ Underway' /\ \A r \in Ranks : ~ Runs(r)' /\ Replied(r)' = Replied(r)
  BY <1>1, <1>2 DEF Underway, Runs, Replied
<1>4. \A r \in Ranks : HostAt(r)' = 0
  BY <1>3 DEF HostAt
<1>5. StagesInv'
  <2>1. ASSUME NEW r \in Ranks PROVE StageInv(r)'
    <3>1. /\ pc[r] \in SlotOps \cup {"idle"} /\ pc'[r] = pc[r] /\ StageInv(r)
          /\ \A i \in DOMAIN inbox[r] : inbox[r][i].op # "forward"
      BY <1>2, ChainRank DEF Tasked
    <3>2. pc'[r] \notin {"recv", "layers", "out", "sent"}
      BY <3>1 DEF SlotOps
    <3> QED BY <1>2, <1>3, <3>1, <3>2 DEF StageInv
  <2> QED BY <1>2, <2>1 DEF StagesInv
<1>6. ChainAnswer'
  BY <1>1, <1>2 DEF ChainAnswer
<1>7. layout.kind = "HYB" => \A r \in Ranks : r > 0 => ~ Handed(r)
  OBVIOUS
<1> QED BY <1>2, <1>4, <1>5, <1>6, <1>7, ForgetsChain

(* Who is behind a rank that failed has not begun, in a pipeline. *)
LEMMA NoneBehind ==
  ASSUME ChainState, Receive, Underway, ~ reply[call.at].ok
  PROVE  layout.kind # "HYB" /\ \A r \in Ranks : ~ Runs(r) /\ ~ Tasked(r)
<1>1. /\ ~ Idle /\ call.at \in Ranks /\ Replied(call.at) /\ call.id \in Nat
      /\ layout \in Layouts /\ layout.width = 1
  BY ReceiveLeaves DEF ChainState, Chained, SessionInv, SessionTypes
<1>2. layout.kind # "HYB"
  <2>1. StageInv(call.at)
    BY <1>1, ChainRank
  <2> QED BY <1>1, <2>1 DEF StageInv
<1>3. ASSUME NEW r \in Ranks, Replied(r) PROVE ~ Runs(r) /\ ~ Tasked(r)
  <2>1. ~ Runs(r) /\ inbox[r] = <<>>
    BY <1>3, ChainRank
  <2>2. DOMAIN inbox[r] = {}
    BY <2>1
  <2> QED BY <2>1, <2>2 DEF Tasked
<1>4. \A q \in Ranks : q < call.at => Replied(q)
  BY <1>1 DEF ChainState, SessionInv, CallInv
<1>5. ASSUME NEW r \in Ranks, r > call.at PROVE ~ Runs(r) /\ ~ Tasked(r)
  <2>1. layout.kind = "PP"
    <3>1. layout.kind \in {"TP", "PP", "HYB"} /\ (layout.kind = "TP" => layout.stages = 1)
      BY <1>1, TopologyAssumption
    <3>2. Ranks = 0 .. layout.stages - 1
      BY <1>1, ChainLayout
    <3>3. layout.stages = 1 => r = 0 /\ call.at = 0
      BY <1>1, <3>2
    <3> QED BY <1>2, <1>5, <3>1, <3>3
  <2>2. ReplyInv(r) /\ InTurn /\ StageInv(r)
    BY <2>1, ChainRank DEF ChainState, SessionInv, RankInv, InTurn
  <2>3. cur[r].id < call.id /\ \A i \in DOMAIN inbox[r] : inbox[r][i].id < call.id
    BY <1>1, <1>5, <2>2 DEF ReplyInv, Underway
  <2>4. ~ (call.id < call.id)
    BY <1>1
  <2> QED BY <2>2, <2>3, <2>4 DEF StageInv, Tasked
<1>6. ASSUME NEW r \in Ranks PROVE r < call.at \/ r = call.at \/ r > call.at
  <2>1. r \in Nat /\ call.at \in Nat
    BY <1>1, ChainLayout
  <2> QED BY <2>1
<1> QED BY <1>1, <1>2, <1>3, <1>4, <1>5, <1>6

(* The session receives a rank's reply and goes on, returns or gives up. *)
LEMMA ReceiveChain ==
  ASSUME ChainState, SessionInv', Receive
  PROVE  ChainInv'
<1>1. /\ ~ Idle /\ call.at \in Ranks /\ call.op \in Ops /\ Replied(call.at)
      /\ \A q \in Ranks : q < call.at => Replied(q) /\ reply[q].ok
      /\ layout \in Layouts /\ layout.width = 1 /\ call.id \in Nat
  BY ReceiveLeaves DEF ChainState, Chained, SessionInv, SessionTypes, CallInv
<1>2. UNCHANGED <<layout, pc, cur, round, streamVars, handOffVars, reply>> /\ Ranks' = Ranks
  BY DEF Receive, topologyVars, Ranks
<1>3. ASSUME ~ Underway, NEW r \in Ranks
      PROVE  ~ Runs(r) /\ ~ Tasked(r) /\ (r > 0 => ~ Handed(r))
  BY <1>3, NoneRuns DEF Tasked
<1>4. CASE ~ reply[call.at].ok
  <2>1. Returns(Failed) /\ inbox' = inbox /\ Failed.op # "forward"
    BY <1>4 DEF Receive, GivesUp, Failed
  <2>2. \A r \in Ranks : ~ Runs(r) /\ ~ Tasked(r) /\ (r > 0 /\ layout.kind = "HYB" => ~ Handed(r))
    BY <1>3, <1>4, NoneBehind
  <2> QED BY <2>1, <2>2, OverChain
<1>5. CASE reply[call.at].ok /\ call.at + 1 \in Ranks
  <2>1. PICK c : c = Command(call) /\ c.op = call.op /\ c.id = call.id
    <3>1. Command(call).op = call.op /\ Command(call).id = call.id
      BY DEF Command
    <3> QED BY <3>1
  <2>2. PICK rs : rs = IF InTurn /\ Underway THEN {call.at + 1} ELSE {}
    OBVIOUS
  <2>3. /\ call' = [call EXCEPT !.at = call.at + 1] /\ answer' = answer
        /\ inbox' = [r \in Ranks |-> IF r \in rs THEN Append(inbox[r], c) ELSE inbox[r]]
    BY <1>5, <2>1, <2>2 DEF Receive, Sends, Underway
  <2>4. call'.op = call.op /\ call'.id = call.id /\ Underway' = Underway
    <3>1. call \in [op : Ops \cup {"none"}, id : Nat, size : Nat, at : Nat]
      BY DEF ChainState, SessionInv, SessionTypes
    <3> QED BY <2>3, <3>1 DEF Underway
  <2>5. ASSUME NEW r \in Ranks
        PROVE  /\ \A i \in DOMAIN inbox'[r] : inbox'[r][i].op = "forward"
                                                => Underway /\ inbox'[r][i].id = call.id
               /\ layout.kind = "HYB" => (Tasked(r) => Tasked(r)')
    <3>1. PICK box \in Seq(Commands) : box = inbox[r]
      BY DEF ChainState, SessionInv, RankInv, OrderInv
    <3>2. PICK m \in Nat : m = Len(box) /\ DOMAIN box = 1 .. m
      BY <3>1
    <3>3. /\ DOMAIN Append(box, c) = 1 .. m + 1
          /\ \A j \in 1 .. m : Append(box, c)[j] = box[j]
          /\ Append(box, c)[m + 1] = c
      BY <3>1, <3>2
    <3>4. \A i \in 1 .. m : box[i].op = "forward" => Underway /\ box[i].id = call.id
      BY <3>1, <3>2, ChainRank DEF StageInv
    <3>5. CASE r \in rs
      <4>1. inbox'[r] = Append(box, c) /\ Underway /\ layout.kind # "HYB"
        BY <2>2, <2>3, <3>1, <3>5 DEF InTurn
      <4>2. ASSUME NEW i \in DOMAIN inbox'[r], inbox'[r][i].op = "forward"
            PROVE  inbox'[r][i].id = call.id
        <5>1. i \in 1 .. m \/ i = m + 1
          BY <3>2, <3>3, <4>1, <4>2
        <5> QED BY <2>1, <3>3, <3>4, <4>1, <4>2, <5>1
      <4> QED BY <4>1, <4>2
    <3>6. CASE r \notin rs
      <4>1. inbox'[r] = box
        BY <2>3, <3>1, <3>6
      <4> QED BY <3>1, <3>2, <3>4, <4>1 DEF Tasked
    <3> QED BY <3>5, <3>6
  <2>6. StagesInv'
    <3>1. ASSUME NEW r \in Ranks PROVE StageInv(r)'
      <4>1. StageInv(r) /\ Runs(r)' = Runs(r) /\ Replied(r)' = Replied(r)
        BY <1>2, ChainRank DEF Runs, Replied
      <4> QED BY <1>2, <2>4, <2>5, <4>1 DEF StageInv
    <3> QED BY <1>2, <3>1 DEF StagesInv
  <2> QED BY <1>2, <2>3, <2>4, <2>6, SameChain
<1>6. CASE reply[call.at].ok /\ call.at + 1 \notin Ranks
  <2>1. PICK a : a = [op |-> call.op, logits |-> reply[call.at].logits]
    OBVIOUS
  <2>2. Returns(a) /\ inbox' = inbox /\ a.op = call.op /\ a.logits = reply[call.at].logits
    BY <1>6, <2>1 DEF Receive
  <2>3. CASE ~ Underway
    BY <1>3, <2>2, <2>3, OverChain DEF Underway
  <2>4. CASE Underway
    <3>1. ASSUME NEW r \in Ranks PROVE Replied(r) /\ reply[r].ok
      <4>1. r <= call.at /\ r \in Nat /\ call.at \in Nat
        BY <1>1, <1>6, RanksAre
      <4>2. r < call.at \/ r = call.at
        BY <4>1
      <4> QED BY <1>1, <1>6, <4>2
    <3>2. ASSUME NEW r \in Ranks PROVE ~ Runs(r) /\ ~ Tasked(r) /\ ~ Handed(r)
      <4>1. ~ Runs(r) /\ inbox[r] = <<>>
        BY <3>1, ChainRank
      <4>2. DOMAIN inbox[r] = {}
        BY <4>1
      <4>3. HostAt(r) # 0
        <5>1. SentAt # 0 /\ LoadedAt(NAr) # 0
          BY TopologyAssumption DEF SentAt, LoadedAt
        <5> QED BY <2>4, <3>1, <4>1, <5>1 DEF HostAt
      <4> QED BY <4>1, <4>2, <4>3 DEF Tasked, Handed
    <3>3. a.logits = Content(call.id, NAr, {layout.stages - 1})
      <4>1. call.at = layout.stages - 1
        BY <1>1, <1>6, ChainLayout
      <4>2. StageInv(call.at)
        BY <1>1, ChainRank
      <4>3. reply[call.at].logits = Content(call.id, NAr, {call.at})
        BY <1>1, <1>6, <2>4, <4>2 DEF StageInv
      <4> QED BY <2>2, <4>1, <4>3
    <3> QED BY <2>2, <3>2, <3>3, OverChain
  <2> QED BY <2>3, <2>4
<1> QED BY <1>4, <1>5, <1>6

(* Nothing happens. *)
LEMMA StillChain ==
  ASSUME ChainState, SessionInv', UNCHANGED vars
  PROVE  ChainInv'
<1>1. /\ UNCHANGED <<layout, pc, cur, round, streamVars, handOffVars, reply, answer>>
      /\ inbox' = inbox /\ call' = call
  BY DEF vars, topologyVars, sessionVars
<1>2. StagesInv'
  <2>1. \A r \in Ranks : RankSame(r)
    BY <1>1 DEF RankSame
  <2>2. \A r \in Ranks : StageInv(r)'
    BY <1>1, <2>1, StageSame
  <2>3. Ranks' = Ranks
    BY <1>1 DEF Ranks
  <2> QED BY <2>2, <2>3 DEF StagesInv
<1> QED BY <1>1, <1>2, SameChain

(* Every step keeps ChainInv, one case per action. *)
LEMMA ChainNext ==
  ASSUME ChainState, SessionInv', Sound', [Next]_vars
  PROVE  ChainInv'
<1>1. CASE Forward
  <2>1. PICK n \in Sizes : Calls("forward", n, IF InTurn THEN {0} ELSE Ranks)
    BY <1>1 DEF Forward
  <2>2. layout.kind = "HYB" => ~ InTurn
    BY DEF InTurn
  <2> QED BY <2>1, <2>2, CallsChain
<1>2. CASE ResetKvSlot \/ SnapshotKvSlot \/ RestoreKvSlot
  <2>1. PICK op : op # "forward" /\ Calls(op, 0, Ranks)
    BY <1>2 DEF ResetKvSlot, SnapshotKvSlot, RestoreKvSlot
  <2> QED BY <2>1, CallsChain
<1>3. CASE Receive
  BY <1>3, ReceiveChain
<1>4. ASSUME NEW r \in Ranks, Works(r) PROVE ChainInv'
  BY <1>4, TakeChain, AnswersChain, LayersChain, PeerChain, NobodyTimesOut DEF Works
<1>5. ASSUME NEW r \in Ranks, Device(r) \/ Fail(r) \/ TimeOutEarly(r) PROVE ChainInv'
  BY <1>5, DeviceChain, AnswersChain, NobodyTimesOut
<1>6. CASE UNCHANGED vars
  BY <1>6, StillChain
<1> QED BY <1>1, <1>2, <1>3, <1>4, <1>5, <1>6 DEF Next

(* ChainInv to begin with. *)
LEMMA ChainInitially ==
  ASSUME Init, layout.width = 1
  PROVE  ChainInv
<1>1. /\ layout \in Layouts /\ pc = [r \in Ranks |-> "idle"] /\ cur = [r \in Ranks |-> NoCommand]
      /\ inbox = [r \in Ranks |-> <<>>] /\ reply = [r \in Ranks |-> NoReply] /\ call = NoCall
      /\ answer = NoAnswer /\ send_done = [r \in Ranks |-> NoEvent]
  BY DEF Init, TopologyInit, HandOffInit
<1>2. /\ queue = [r \in Ranks |-> <<>>] /\ buf = [r \in Ranks |-> Bad]
      /\ dram = [r \in Ranks |-> Bad] /\ staging = [r \in Ranks |-> [q \in Ranks |-> Bad]]
      /\ dst = [r \in Ranks |-> Bad]
      /\ asked = [e \in Events |-> 0] /\ fired = [e \in Events |-> 0]
  BY DEF Init, StreamsInit
<1>3. ~ Underway /\ SentAt # 0 /\ Ranks \subseteq Nat
  BY <1>1, ChainLayout, TopologyAssumption DEF Underway, NoCall, SentAt
<1>4. \A r \in Ranks : ~ Runs(r) /\ ~ Replied(r) /\ HostAt(r) = 0
  BY <1>1, <1>3 DEF Runs, NoCommand, Replied, NoReply, HostAt
<1>5. ChainTypes
  BY <1>1, <1>2 DEF ChainTypes, StreamTypes
<1>6. ChainAnswer
  BY <1>1 DEF ChainAnswer, NoAnswer
<1>7. StagesInv
  <2>1. ASSUME NEW r \in Ranks PROVE StageInv(r)
    <3>1. pc[r] = "idle" /\ inbox[r] = <<>>
      BY <1>1, <2>1
    <3>2. DOMAIN inbox[r] = {}
      BY <3>1
    <3> QED BY <1>3, <1>4, <3>1, <3>2 DEF StageInv
  <2> QED BY <2>1 DEF StagesInv
<1>8. EdgesInv
  <2>1. ASSUME NEW r \in Ranks, r > 0 PROVE EdgeInv(r)
    <3>1. r - 1 \in Ranks
      BY <1>1, <2>1, ChainLayout
    <3>2. HostAt(r) = 0 /\ ~ Handed(r) /\ send_done[r] = NoEvent
      BY <1>1, <1>3, <1>4, <3>1 DEF Handed
    <3> QED BY <3>2 DEF EdgeInv
  <2> QED BY <2>1 DEF EdgesInv
<1>9. ChainDevices
  <2>1. PICK s : s = Point(0, 0)
    OBVIOUS
  <2>2. s \in Points /\ s.at = 0 /\ s.n = 0
    BY <2>1 DEF Point, Points
  <2>3. PICK G : G = [r \in Ranks |-> s]
    OBVIOUS
  <2>4. G \in [Ranks -> Points] /\ \A r \in Ranks : G[r] = s
    BY <2>2, <2>3
  <2>5. ASSUME NEW r \in Ranks PROVE Stands(r, s)
    <3>1. Sent(r) \in Events
      BY DEF Sent, Events
    <3>2. HostPoint(r) = s /\ fired[Sent(r)] = 0
      BY <1>2, <1>4, <2>1, <3>1 DEF HostPoint
    <3>3. Brings(ErrandOf(r), queue[r], s, HostPoint(r))
      BY <1>2, <2>2, <3>2, NothingBrings
    <3>4. Holds(r, s)
      BY <2>2, TopologyAssumption DEF Holds
    <3> QED BY <2>2, <3>2, <3>3, <3>4 DEF Stands
  <2>6. \A r \in Ranks : Behind(r, G)
    BY <2>2, <2>4 DEF Behind
  <2> QED BY <2>4, <2>5, <2>6 DEF ChainDevices, Located
<1> QED BY <1>5, <1>6, <1>7, <1>8, <1>9 DEF ChainInv

-----------------------------------------------------------------------------
ChainSum == SessionInv /\ failures \in Nat /\ (Chained => ChainInv)

(* Failures are only ever counted up. *)
LEMMA FailuresGrow ==
  ASSUME [Next]_vars
  PROVE  layout' = layout /\ (failures' = failures \/ failures' = failures + 1)
<1>1. layout' = layout
  BY OtherSteps DEF ArStep, ArLayers, ArPublish, ArPull, ArAdd, ArClear, ArDone, ArSame
<1>2. ASSUME Forward \/ ResetKvSlot \/ SnapshotKvSlot \/ RestoreKvSlot
      PROVE  failures' = failures
  BY <1>2 DEF Forward, ResetKvSlot, SnapshotKvSlot, RestoreKvSlot, Calls
<1>3. ASSUME Receive PROVE failures' = failures
  BY <1>3 DEF Receive
<1>4. ASSUME NEW r \in Ranks, Works(r) PROVE failures' = failures
  BY <1>4 DEF Works, Take, Reset, Snapshot, Restore, AllReduceStep, PeerStep, Finish, TimeOut,
              sessionVars
<1>5. ASSUME NEW r \in Ranks, Device(r) PROVE failures' = failures
  BY <1>5 DEF Device, sessionVars
<1>6. ASSUME NEW r \in Ranks, Fail(r) \/ TimeOutEarly(r) PROVE failures' = failures + 1
  BY <1>6 DEF Fail, TimeOutEarly
<1>7. ASSUME UNCHANGED vars PROVE failures' = failures
  BY <1>7 DEF vars, sessionVars
<1>8. failures' = failures \/ failures' = failures + 1
  <2>1. \/ Forward \/ ResetKvSlot \/ SnapshotKvSlot \/ RestoreKvSlot
        \/ Receive
        \/ \E r \in Ranks : Works(r)
        \/ \E r \in Ranks : Device(r)
        \/ \E r \in Ranks : Fail(r) \/ TimeOutEarly(r)
        \/ UNCHANGED vars
    BY DEF Next
  <2> QED BY <1>2, <1>3, <1>4, <1>5, <1>6, <1>7, <2>1
<1> QED BY <1>1, <1>8

(* The inductive step, with the session's own invariant and the failures so far. *)
LEMMA ChainInductive == ChainSum /\ [Next]_vars => ChainSum'
<1> SUFFICES ASSUME ChainSum, [Next]_vars PROVE ChainSum'
  OBVIOUS
<1>1. SessionInv' /\ layout' = layout /\ failures' \in Nat /\ failures \in Nat
      /\ (failures' = failures \/ failures' = failures + 1)
  BY SessionInductive, FailuresGrow DEF ChainSum
<1>2. ASSUME Chained' PROVE ChainInv'
  <2>1. Chained
    BY <1>1, <1>2 DEF Chained, Sound
  <2>2. ChainState /\ Sound'
    BY <1>2, <2>1 DEF ChainSum, ChainState, Chained
  <2> QED BY <1>1, <2>2, ChainNext
<1> QED BY <1>1, <1>2 DEF ChainSum

(* In a pipeline of any number of stages, wherever and however often ranks fail, *)
(* and in a hybrid layout of one-rank stages until something fails: the logits a *)
(* forward returns are those of this forward, through every layer of every       *)
(* stage, whatever the streams' interleaving and whatever an abandoned forward   *)
(* has left in streams, edges and hand-off buffers (run_forward, peer_send,      *)
(* peer_recv).                                                                   *)
THEOREM ChainLogitsAreOwn == Spec => [](layout.width = 1 => LogitsAreOwn)
<1>1. Init => ChainSum
  <2> SUFFICES ASSUME Init PROVE ChainSum
    OBVIOUS
  <2>1. SessionInv
    BY SessionInitially
  <2>2. failures \in Nat
    <3>1. failures = 0
      BY DEF Init
    <3> QED BY <3>1
  <2>3. Chained => ChainInv
    BY ChainInitially DEF Chained
  <2> QED BY <2>1, <2>2, <2>3 DEF ChainSum
<1>2. ChainSum /\ [Next]_vars => ChainSum'
  BY ChainInductive
<1>3. ChainSum => (layout.width = 1 => LogitsAreOwn)
  <2> SUFFICES ASSUME ChainSum, layout.width = 1, Sound, answer.op = "forward"
               PROVE  answer.logits = Content(call.id, NAr, Group(layout.stages - 1))
    BY DEF LogitsAreOwn
  <2>1. ChainInv /\ layout \in Layouts
    BY DEF ChainSum, Chained, SessionInv, SessionTypes
  <2>2. answer.logits = Content(call.id, NAr, {layout.stages - 1})
    BY <2>1 DEF ChainInv, ChainAnswer
  <2>3. layout.stages - 1 \in Ranks
    <3>1. Ranks = 0 .. layout.stages - 1 /\ layout.stages \in Nat \ {0}
      BY <2>1, ChainLayout
    <3> QED BY <3>1
  <2>4. Group(layout.stages - 1) = {layout.stages - 1}
    BY <2>1, <2>3, ChainLayout
  <2> QED BY <2>2, <2>4
<1> QED BY <1>1, <1>2, <1>3, PTL DEF Spec
=============================================================================
