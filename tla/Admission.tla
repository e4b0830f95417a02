------------------------------ MODULE Admission ------------------------------
(***************************************************************************)
(* Admission control of the HTTP handlers (routes.rs): one atomic counter, *)
(* raised before it is compared with the cap and lowered by a guard or, on *)
(* a refusal, by the handler itself.  The raise and the lowering of a      *)
(* refused handler are two atomic operations, so others see the count in   *)
(* between.                                                                *)
(***************************************************************************)
EXTENDS Integers, FiniteSets

CONSTANTS
    Handlers,      \* the tasks that serve HTTP requests
    Slots,         \* the inflight pool
    MaxQueueDepth  \* --max-queue-depth; 0 turns the check off

ASSUME AdmissionAssumption ==
    /\ IsFiniteSet(Handlers)
    /\ IsFiniteSet(Slots)
    /\ MaxQueueDepth \in Nat

VARIABLES
    in_flight,  \* ServerState.in_flight
    guard       \* the AdmissionGuard of each handler

\* "refused": counted, about to take its own count back.
GuardStates == {"none", "counted", "noop", "refused"}

\* inflight_pool.len() + max_queue_depth
cap == Cardinality(Slots) + MaxQueueDepth

\* The handlers the counter stands for.
Counted == {h \in Handlers : guard[h] \in {"counted", "refused"}}
Admitted == {h \in Handlers : guard[h] \in {"counted", "noop"}}

AdmissionInit ==
    /\ in_flight = 0
    /\ guard = [h \in Handlers |-> "none"]

-----------------------------------------------------------------------------
\* The comparison with <= in place of <: one request too many gets in.
TryAdmitOffByOne(h) ==
    /\ guard[h] = "none"
    /\ in_flight' = in_flight + 1
    /\ guard' = [guard EXCEPT ![h] =
                   IF in_flight > cap THEN "refused" ELSE "counted"]

\* try_admit up to the comparison: prev is the value the fetch_add returned.
TryAdmit(h) ==
    /\ guard[h] = "none"
    /\ IF MaxQueueDepth = 0
         THEN /\ guard' = [guard EXCEPT ![h] = "noop"]
              /\ UNCHANGED in_flight
         ELSE /\ in_flight' = in_flight + 1
              /\ guard' = [guard EXCEPT ![h] =
                             IF in_flight >= cap THEN "refused" ELSE "counted"]

\* try_admit on a full queue: the fetch_sub before the 503.
RollBack(h) ==
    /\ guard[h] = "refused"
    /\ in_flight' = in_flight - 1
    /\ guard' = [guard EXCEPT ![h] = "none"]

\* A guard that forgets to lower the count.
DropGuardForgets(h) ==
    /\ guard[h] \in {"counted", "noop"}
    /\ guard' = [guard EXCEPT ![h] = "none"]
    /\ UNCHANGED in_flight

\* Drop of an AdmissionGuard.
DropGuardOf(h) ==
    /\ guard[h] \in {"counted", "noop"}
    /\ in_flight' = IF guard[h] = "counted" THEN in_flight - 1 ELSE in_flight
    /\ guard' = [guard EXCEPT ![h] = "none"]

AdmissionStep(h) == TryAdmit(h) \/ RollBack(h) \/ DropGuardOf(h)
admissionVars == <<in_flight, guard>>
AdmissionSpec == AdmissionInit /\ [][\E h \in Handlers : AdmissionStep(h)]_admissionVars

-----------------------------------------------------------------------------
\* The counter is the number of handlers that were counted and have not been
\* uncounted, whatever the order of raises, refusals and drops (try_admit and
\* the Drop of AdmissionGuard, routes.rs).
CountIsExact == in_flight = Cardinality(Counted)

\* At no time do more than inflight_slots + max_queue_depth handlers hold a
\* guard, although the count is raised before it is compared (try_admit).
AtMostCap ==
    MaxQueueDepth # 0 => Cardinality({h \in Handlers : guard[h] = "counted"}) <= cap
=============================================================================
