------------------------- MODULE RequestPathProofs -------------------------
(***************************************************************************)
(* Theorems about RequestPath, for any number of handlers and slots, any   *)
(* prompts, chunk size, queue depth and budget: first the admission count, *)
(* then the cache's entries and the generation threads that read them.     *)
(***************************************************************************)
EXTENDS RequestPath, FoldProofs, SequenceTheorems

-----------------------------------------------------------------------------
(* Admission: the counter, and how many hold a guard.                      *)

Held == {h \in Handlers : guard[h] = "counted"}

AdmissionInv ==
  /\ guard \in [Handlers -> GuardStates]
  /\ CountIsExact
  /\ MaxQueueDepth # 0 => Cardinality(Held) <= cap

LEMMA CapIsNat == cap \in Nat
  BY AdmissionAssumption, FS_CardinalityType DEF cap

(* The handlers that hold a guard are among those that are counted. *)
LEMMA HeldIsCounted ==
  /\ IsFiniteSet(Counted) /\ IsFiniteSet(Held)
  /\ Cardinality(Counted) \in Nat /\ Cardinality(Held) \in Nat
  /\ Cardinality(Held) <= Cardinality(Counted)
<1>1. Counted \subseteq Handlers /\ Held \subseteq Counted
  BY DEF Counted, Held
<1>2. IsFiniteSet(Counted) /\ IsFiniteSet(Held)
  BY <1>1, FS_Subset, AdmissionAssumption
<1> QED BY <1>1, <1>2, FS_Subset, FS_CardinalityType

LEMMA AdmissionInitially == AdmissionInit => AdmissionInv
<1>1. SUFFICES ASSUME AdmissionInit PROVE AdmissionInv
  OBVIOUS
<1>2. Counted = {} /\ Held = {}
  BY <1>1 DEF AdmissionInit, Counted, Held
<1>3. guard \in [Handlers -> GuardStates]
  BY <1>1 DEF AdmissionInit, GuardStates
<1> QED BY <1>1, <1>2, <1>3, CapIsNat, FS_EmptySet DEF AdmissionInit, AdmissionInv, CountIsExact

(* A raise, and the refusal or the guard that follows from the comparison. *)
LEMMA TryAdmitCounts ==
  ASSUME AdmissionInv, NEW h \in Handlers, TryAdmit(h)
  PROVE  AdmissionInv'
<1>1. guard' \in [Handlers -> GuardStates]
  BY DEF TryAdmit, AdmissionInv, GuardStates
<1>2. CASE MaxQueueDepth = 0
  <2>1. guard' = [guard EXCEPT ![h] = "noop"] /\ in_flight' = in_flight /\ guard[h] = "none"
    BY <1>2 DEF TryAdmit
  <2>2. Counted' = Counted
    BY <2>1 DEF Counted, AdmissionInv
  <2> QED BY <1>1, <1>2, <2>1, <2>2 DEF AdmissionInv, CountIsExact
<1>3. CASE MaxQueueDepth # 0 /\ in_flight >= cap
  <2>1. guard' = [guard EXCEPT ![h] = "refused"] /\ in_flight' = in_flight + 1 /\ guard[h] = "none"
    BY <1>3 DEF TryAdmit
  <2>2. Counted' = Counted \cup {h} /\ h \notin Counted /\ Held' = Held
    BY <2>1 DEF Counted, Held, AdmissionInv
  <2>3. Cardinality(Counted') = Cardinality(Counted) + 1
    BY <2>2, HeldIsCounted, FS_AddElement
  <2> QED BY <1>1, <2>1, <2>2, <2>3 DEF AdmissionInv, CountIsExact, cap
<1>4. CASE MaxQueueDepth # 0 /\ ~ (in_flight >= cap)
  <2>1. guard' = [guard EXCEPT ![h] = "counted"] /\ in_flight' = in_flight + 1 /\ guard[h] = "none"
    BY <1>4 DEF TryAdmit
  <2>2. /\ Counted' = Counted \cup {h} /\ h \notin Counted
        /\ Held' = Held \cup {h} /\ h \notin Held
    BY <2>1 DEF Counted, Held, AdmissionInv
  <2>3. /\ Cardinality(Counted') = Cardinality(Counted) + 1
        /\ Cardinality(Held') = Cardinality(Held) + 1
    BY <2>2, HeldIsCounted, FS_AddElement
  <2>4. in_flight = Cardinality(Counted) /\ in_flight < cap
    BY <1>4, CapIsNat, HeldIsCounted DEF AdmissionInv, CountIsExact
  <2>5. Cardinality(Held') <= cap /\ cap' = cap
    BY <2>3, <2>4, HeldIsCounted, CapIsNat DEF cap
  <2> QED BY <1>1, <2>1, <2>3, <2>4, <2>5 DEF AdmissionInv, CountIsExact
<1> QED BY <1>2, <1>3, <1>4

(* A handler that takes its own count back, or whose guard is dropped. *)
LEMMA LeavingCounts ==
  ASSUME AdmissionInv, NEW h \in Handlers, RollBack(h) \/ DropGuardOf(h)
  PROVE  AdmissionInv'
<1>1. guard' = [guard EXCEPT ![h] = "none"] /\ cap' = cap
  BY DEF RollBack, DropGuardOf, cap
<1>2. guard' \in [Handlers -> GuardStates]
  BY <1>1 DEF AdmissionInv, GuardStates
<1>3. Counted' = Counted \ {h} /\ Held' = Held \ {h}
  BY <1>1 DEF Counted, Held, AdmissionInv
<1>4. /\ h \in Counted => Cardinality(Counted') = Cardinality(Counted) - 1
      /\ h \in Held => Cardinality(Held') = Cardinality(Held) - 1
  BY <1>3, HeldIsCounted, FS_RemoveElement
<1>5. Cardinality(Held') <= Cardinality(Held) /\ Cardinality(Held') \in Nat
  BY <1>3, HeldIsCounted, FS_Subset, FS_CardinalityType
<1>6. MaxQueueDepth # 0 => Cardinality(Held') <= cap'
  BY <1>1, <1>5, CapIsNat, HeldIsCounted DEF AdmissionInv
<1>7. in_flight' = IF h \in Counted THEN in_flight - 1 ELSE in_flight
  BY DEF RollBack, DropGuardOf, Counted
<1>8. h \notin Counted => Counted' = Counted
  BY <1>3
<1> QED BY <1>2, <1>4, <1>6, <1>7, <1>8, HeldIsCounted DEF AdmissionInv, CountIsExact

(* Every step of the request path leaves the admission as it was or takes one *)
(* of its steps.                                                               *)
LEMMA AdmissionSteps ==
  ASSUME [Next]_vars
  PROVE  (\E h \in Handlers : AdmissionStep(h)) \/ UNCHANGED admissionVars
<1>1. CASE UNCHANGED vars
  BY <1>1 DEF vars, admissionVars
<1>2. ASSUME NEW h \in Handlers, Asks(h) \/ Refused(h) \/ Returns(h)
      PROVE  AdmissionStep(h)
  BY <1>2 DEF Asks, Refused, Returns, AdmissionStep
<1>3. ASSUME NEW h \in Handlers,
             \/ Dispatch(h) \/ Claim(h) \/ TakeLogits(h) \/ Restore(h) \/ TouchHit(h)
             \/ PrefillChunk(h) \/ FirstToken(h) \/ EmitFirstToken(h)
             \/ CaptureCopy(h) \/ Decode(h)
      PROVE  UNCHANGED admissionVars
  BY <1>3 DEF Dispatch, Claim, TakeLogits, Restore, TouchHit, PrefillChunk, FirstToken,
              EmitFirstToken, CaptureCopy, Decode
<1> QED BY <1>1, <1>2, <1>3 DEF Next

LEMMA AdmissionInductive == AdmissionInv /\ [Next]_vars => AdmissionInv'
<1>1. SUFFICES ASSUME AdmissionInv, [Next]_vars PROVE AdmissionInv'
  OBVIOUS
<1>2. CASE UNCHANGED admissionVars
  BY <1>1, <1>2 DEF admissionVars, AdmissionInv, CountIsExact, Counted, Held, cap
<1>3. ASSUME NEW h \in Handlers, AdmissionStep(h) PROVE AdmissionInv'
  BY <1>1, <1>3, TryAdmitCounts, LeavingCounts DEF AdmissionStep
<1> QED BY <1>1, <1>2, <1>3, AdmissionSteps

LEMMA AdmissionInvariant == Spec => []AdmissionInv
<1>1. Init => AdmissionInv
  BY AdmissionInitially DEF Init
<1> QED BY <1>1, AdmissionInductive, PTL DEF Spec

(* The counter in_flight is the number of handlers counted and not yet      *)
(* uncounted, for every order of raises, refusals and guard drops.          *)
THEOREM CountIsAlwaysExact == Spec => []CountIsExact
<1>1. AdmissionInv => CountIsExact
  BY DEF AdmissionInv
<1> QED BY <1>1, AdmissionInvariant, PTL

(* However many handlers raise the count before they compare it, no more    *)
(* than the slots and the queue depth hold a guard.                         *)
THEOREM NeverMoreThanCap == Spec => []AtMostCap
<1>1. AdmissionInv => AtMostCap
  BY DEF AdmissionInv, AtMostCap, Held
<1> QED BY <1>1, AdmissionInvariant, PTL
-----------------------------------------------------------------------------
(* Numbers and prefixes. *)

(* A bounded set of naturals has a greatest element, if any. *)
LEMMA GreatestOf ==
  ASSUME NEW N \in Nat, NEW T \in SUBSET (0 .. N), T # {}
  PROVE  \E n \in T : \A m \in T : m <= n
<1> DEFINE U == {N - n : n \in T}
<1>1. U \in SUBSET Nat /\ U # {}
  <2>1. \A n \in T : N - n \in Nat
    OBVIOUS
  <2> QED BY <2>1
<1>2. PICK u \in U : \A v \in U : u <= v
  BY <1>1, LeastOf
<1>3. PICK n \in T : u = N - n
  OBVIOUS
<1>4. ASSUME NEW m \in T PROVE m <= n
  <2>1. N - m \in U
    OBVIOUS
  <2>2. N - n <= N - m
    BY <2>1, <1>2, <1>3
  <2> QED BY <2>2
<1> QED BY <1>4

LEMMA PromptIsSeq ==
  ASSUME NEW p \in Prompts
  PROVE  p \in Seq(Nat) /\ Len(p) \in Nat /\ Len(p) > 0
<1>1. p \in Seq(Nat \ {0}) /\ Len(p) > 0
  BY CacheAssumption
<1>2. p \in Seq(Nat)
  BY <1>1, SeqMonotonic
<1> QED BY <1>1, <1>2, LenProperties

LEMMA PrefixFacts ==
  ASSUME NEW p \in Prompts, NEW n \in 0 .. Len(p)
  PROVE  /\ Prefix(p, n) \in Seq(Nat)
         /\ Len(Prefix(p, n)) = n
         /\ n > 0 => Prefix(p, n) \in Keys
         /\ n = Len(p) => Prefix(p, n) = p
         /\ n = 0 => Prefix(p, n) = <<>>
<1>1. p \in Seq(Nat) /\ Len(p) \in Nat
  BY PromptIsSeq
<1>2. Prefix(p, n) \in Seq(Nat) /\ Len(Prefix(p, n)) = n
  BY <1>1, SubSeqProperties DEF Prefix
<1>3. n > 0 => Prefix(p, n) \in Keys
  BY <1>1 DEF Keys
<1>4. n = Len(p) => Prefix(p, n) = p
  BY <1>1, SubSeqFull DEF Prefix
<1>5. n = 0 => Prefix(p, n) = <<>>
  BY <1>1, SubSeqEmpty DEF Prefix
<1> QED BY <1>2, <1>3, <1>4, <1>5

LEMMA KeyIsSeq ==
  ASSUME NEW k \in Keys
  PROVE  k \in Seq(Nat) /\ Len(k) \in Nat
<1>1. PICK p \in Prompts : \E n \in 1 .. Len(p) : k = Prefix(p, n)
  BY DEF Keys
<1>2. PICK n \in 1 .. Len(p) : k = Prefix(p, n)
  BY <1>1
<1>3. n \in 0 .. Len(p)
  BY PromptIsSeq
<1> QED BY <1>2, <1>3, PrefixFacts, LenProperties

(* A prefix and the chunk that follows it are the longer prefix. *)
LEMMA PrefixGrows ==
  ASSUME NEW p \in Prompts, NEW m \in 0 .. Len(p), NEW n \in m .. Len(p)
  PROVE  Prefix(p, m) \o SubSeq(p, m + 1, n) = Prefix(p, n)
<1>1. p \in Seq(Nat) /\ Len(p) \in Nat
  BY PromptIsSeq
<1>2. 1 \in 1 .. Len(p) + 1 /\ m \in 1 - 1 .. Len(p) /\ n \in m .. Len(p)
  BY <1>1
<1>3. SubSeq(p, 1, m) \o SubSeq(p, m + 1, n) = SubSeq(p, 1, n)
  BY <1>1, <1>2, ConcatAdjacentSubSeq
<1> QED BY <1>3 DEF Prefix

LEMMA ChunkEndsInside ==
  ASSUME NEW p \in Prompts
  PROVE  ChunkEnds(p) \subseteq 1 .. Len(p)
<1> DEFINE L == Len(p)
           C == ChunkTokens
<1>1. L \in Nat /\ L > 0 /\ C \in Nat /\ C > 0
  BY PromptIsSeq, CacheAssumption
<1>2. L \div C \in Nat /\ (L \div C) * C <= L
  BY <1>1
<1>3. ASSUME NEW i \in 1 .. (L \div C) PROVE i * C \in 1 .. L
  <2>1. i * C <= (L \div C) * C /\ i * C >= 1
    BY <1>1, <1>2
  <2> QED BY <2>1, <1>1, <1>2
<1> QED BY <1>1, <1>3 DEF ChunkEnds
-----------------------------------------------------------------------------
(* The cache: what its entries hold, whatever is inserted and evicted.       *)

ExactEntries(k) ==
  {[n_tokens |-> Len(k), kv |-> k, last_logits |-> row] : row \in {None, Row(k, FALSE)}}

CacheInv ==
  /\ DOMAIN by_terminal = Keys
  /\ \A k \in Keys : by_terminal[k] = None \/ by_terminal[k] \in ExactEntries(k)

LEMMA CacheInitially == CacheInit => CacheInv
  BY DEF CacheInit, CacheInv

(* Eviction only takes entries away, whichever keys it pops, so an insertion  *)
(* of an exact entry leaves exact entries.                                     *)
LEMMA InsertKeepsExact ==
  ASSUME CacheInv, NEW k \in Keys, NEW e \in ExactEntries(k), InsertWithKv(k, e)
  PROVE  CacheInv'
<1> DEFINE table == [by_terminal EXCEPT ![k] = e]
<1>1. PICK gone : by_terminal' = Without(table, gone)
  BY Zenon DEF InsertWithKv
<1>2. /\ DOMAIN table = Keys
      /\ \A x \in Keys : table[x] = None \/ table[x] \in ExactEntries(x)
  BY DEF CacheInv
<1> HIDE DEF table
<1>3. /\ DOMAIN by_terminal' = Keys
      /\ \A x \in Keys : by_terminal'[x] = None \/ by_terminal'[x] = table[x]
  BY <1>1, <1>2 DEF Without
<1> QED BY <1>2, <1>3 DEF CacheInv, ExactEntries

LEMMA EntryIsThere ==
  ASSUME NEW k \in Keys, NEW e \in ExactEntries(k)
  PROVE  e # None
<1> DEFINE Entries == [n_tokens : Nat, kv : Seq(Nat), last_logits : {None} \cup Logits]
<1>1. k \in Seq(Nat) /\ Len(k) \in Nat
  BY KeyIsSeq
<1>2. PICK row \in {None, Row(k, FALSE)} : e = [n_tokens |-> Len(k), kv |-> k, last_logits |-> row]
  BY DEF ExactEntries
<1>3. row \in {None} \cup Logits
  <2>1. Row(k, FALSE) \in Logits
    BY <1>1 DEF Row, Logits
  <2> QED BY <1>2, <2>1
<1>4. e \in Entries
  BY <1>1, <1>2, <1>3
<1> HIDE DEF Entries
<1> QED BY <1>4, PathAssumption DEF Entries

(* What is read of an entry that is there. *)
LEMMA EntryReads ==
  ASSUME CacheInv, NEW k \in Keys
  PROVE  /\ SnapshotFor(k) \in {None, k}
         /\ LogitsFor(k) \in {None, Row(k, FALSE)}
<1>1. CASE by_terminal[k] = None
  BY <1>1 DEF SnapshotFor, LogitsFor
<1>2. CASE by_terminal[k] # None
  <2>1. by_terminal[k] \in ExactEntries(k)
    BY <1>2 DEF CacheInv
  <2>2. PICK row \in {None, Row(k, FALSE)} :
          by_terminal[k] = [n_tokens |-> Len(k), kv |-> k, last_logits |-> row]
    BY <2>1 DEF ExactEntries
  <2>3. by_terminal[k].kv = k /\ by_terminal[k].last_logits = row
    BY <2>2
  <2> QED BY <2>2, <2>3, <1>2 DEF SnapshotFor, LogitsFor
<1> QED BY <1>1, <1>2

(* A match is a prefix of the prompt that was looked up. *)
LEMMA MatchIsPrefix ==
  ASSUME NEW p \in Prompts, LongestMatch(p) # None
  PROVE  \E n \in 1 .. Len(p) : LongestMatch(p) = Prefix(p, n)
<1> DEFINE hits == {n \in ChunkEnds(p) : by_terminal[Prefix(p, n)] # None}
           Longest(n) == n \in hits /\ \A m \in hits : m <= n
<1>1. hits \subseteq 1 .. Len(p) /\ Len(p) \in Nat
  BY ChunkEndsInside, PromptIsSeq
<1>2. hits # {} /\ LongestMatch(p) = Prefix(p, CHOOSE n \in hits : \A m \in hits : m <= n)
  BY DEF LongestMatch
<1> HIDE DEF hits
<1>3. hits \in SUBSET (0 .. Len(p))
  BY <1>1
<1>4. \E n \in hits : \A m \in hits : m <= n
  BY <1>1, <1>2, <1>3, GreatestOf
<1>5. (CHOOSE n \in hits : \A m \in hits : m <= n) \in hits
  BY <1>4
<1> QED BY <1>1, <1>2, <1>5
-----------------------------------------------------------------------------
(* The generation threads: what each has of its prompt, by where it stands.  *)

(* Between the lookup and the end of the restore: a proper prefix and no row, *)
(* or the whole prompt and its row.                                            *)
Matched(j) ==
  \/ j.buf = None /\ \E n \in 1 .. (Len(j.prompt) - 1) : j.hit = Prefix(j.prompt, n)
  \/ j.buf = Row(j.prompt, FALSE) /\ j.hit = j.prompt

(* The types of what a generation thread keeps. *)
Pcs ==
  {"none", "claim", "logits", "restore", "touch", "prefill", "prefilled", "capture", "decode", "over"}
Rows == {None} \cup Logits
Jobs ==
  [pc : Pcs, stream : BOOLEAN, prompt : Prompts \cup {<<>>}, fed : Seq(Nat),
   hit : Keys \cup {None}, restored : Nat, at : Nat, buf : Rows, copy : Rows, cached : BOOLEAN]

Working == Pcs \ {"none", "claim", "over"}

Stands(j) ==
  /\ j.pc \in Working => j.prompt \in Prompts
  /\ j.pc = "logits" => j.hit = j.prompt /\ j.fed = <<>>
  /\ j.pc \in {"logits", "restore"} => j.at = 0
  /\ j.pc \in {"restore", "touch"} => Matched(j)
  /\ j.pc = "touch" => j.fed = j.hit
  /\ j.pc = "prefill" => j.at < Len(j.prompt) /\ j.fed = Prefix(j.prompt, j.at)
  /\ j.pc \in {"prefilled", "capture", "decode"} => j.fed = j.prompt
  /\ j.pc = "prefilled" => j.buf = Row(j.prompt, FALSE)
  /\ j.pc \in {"capture", "decode"} => j.buf = Row(j.prompt, TRUE)
  /\ j.pc = "capture" => j.cached \/ j.copy = Row(j.prompt, FALSE)

JobsInv ==
  /\ job \in [Handlers -> Jobs]
  /\ \A h \in Handlers : Stands(job[h])

PathInv == CacheInv /\ JobsInv

LEMMA PromptIsKey ==
  ASSUME NEW p \in Prompts
  PROVE  p \in Keys /\ p # <<>> /\ Prefix(p, Len(p)) = p
<1>1. Len(p) \in 1 .. Len(p) /\ Len(p) \in 0 .. Len(p) /\ p # <<>>
  BY PromptIsSeq
<1> QED BY <1>1, PrefixFacts

LEMMA RowIsRow ==
  ASSUME NEW s \in Seq(Nat), NEW b \in BOOLEAN
  PROVE  Row(s, b) \in Rows /\ Row(s, b) # None
  BY PathAssumption DEF Row, Rows, Logits

LEMMA MaskedRow ==
  ASSUME NEW s
  PROVE  Masked(Row(s, FALSE)) = Row(s, TRUE)
<1> DEFINE AnyOf == [of : {s}, masked : BOOLEAN]
           r == Row(s, FALSE)
           t == Row(s, TRUE)
<1>1. r \in AnyOf /\ t \in AnyOf /\ r.of = s /\ t.of = s /\ t.masked = TRUE
  BY DEF Row
<1> HIDE DEF r, t
<1>2. [r EXCEPT !.masked = TRUE] = t
  BY <1>1
<1> QED BY <1>2 DEF Masked, r, t

LEMMA NoJobStands ==
  /\ NoJob \in Jobs /\ Stands(NoJob)
  /\ NoJob.pc = "none"
  /\ \A c \in {"claim", "over"} :
        [NoJob EXCEPT !.pc = c] \in Jobs /\ Stands([NoJob EXCEPT !.pc = c])
<1>1. Torn \in Seq(Nat) /\ <<>> \in Seq(Nat)
  BY DEF Torn, Garbage
<1> QED BY <1>1, Zenon DEF NoJob, Jobs, Stands, Pcs, Rows, Working

(* A step of one thread to a job that stands. *)
LEMMA GoesStands ==
  ASSUME JobsInv, NEW h \in Handlers, NEW j \in Jobs, Stands(j), Goes(h, j)
  PROVE  JobsInv'
<1>1. job' = [job EXCEPT ![h] = j]
  BY DEF Goes
<1>2. \A g \in Handlers : job'[g] = IF g = h THEN j ELSE job[g]
  BY <1>1 DEF JobsInv
<1> QED BY <1>1, <1>2 DEF JobsInv

LEMMA EndsStands ==
  ASSUME JobsInv, NEW h \in Handlers, Ends(h)
  PROVE  JobsInv'
<1>1. CASE guard[h] = "none"
  BY <1>1, NoJobStands, GoesStands DEF Ends
<1>2. CASE guard[h] # "none"
  BY <1>2, NoJobStands, GoesStands DEF Ends
<1> QED BY <1>1, <1>2
(* The lookup of the prompt in a slot that was just reset. *)
LEMMA ClaimStands ==
  ASSUME PathInv, NEW h \in Handlers, Claim(h)
  PROVE  JobsInv'
<1>1. CASE Ends(h)
  BY <1>1, EndsStands DEF PathInv
<1>2. CASE ~ Ends(h)
  <2>1. PICK p \in Prompts, st \in BOOLEAN :
          Goes(h, [NoJob EXCEPT
            !.prompt = p, !.stream = st, !.fed = <<>>, !.hit = LongestMatch(p),
            !.pc = IF LongestMatch(p) = None THEN "prefill"
                   ELSE IF Len(LongestMatch(p)) = Len(p) THEN "logits" ELSE "restore"])
    BY <1>2 DEF Claim
  <2> DEFINE k == LongestMatch(p)
             at == IF k = None THEN "prefill" ELSE IF Len(k) = Len(p) THEN "logits" ELSE "restore"
             j == [NoJob EXCEPT !.prompt = p, !.stream = st, !.fed = <<>>, !.hit = k, !.pc = at]
  <2>2. /\ Goes(h, j) /\ NoJob \in Jobs
        /\ NoJob.at = 0 /\ NoJob.buf = None /\ NoJob.copy = None
    BY <2>1, NoJobStands DEF NoJob
  <2>3. /\ Len(p) \in Nat /\ Len(p) > 0 /\ Prefix(p, 0) = <<>> /\ Prefix(p, Len(p)) = p
        /\ <<>> \in Seq(Nat)
    BY PromptIsSeq, PrefixFacts
  <2>4. CASE k = None
    <3>1. at = "prefill"
      BY <2>4
    <3>2. j \in Jobs
      BY <2>2, <2>3, <2>4, <3>1 DEF Jobs, Pcs, Rows
    <3>3. Stands(j)
      BY <2>2, <2>3, <3>1 DEF Stands, Working, Jobs
    <3> QED BY <2>2, <3>2, <3>3, GoesStands DEF PathInv
  <2>5. CASE k # None
    <3>1. PICK n \in 1 .. Len(p) : k = Prefix(p, n)
      BY <2>5, MatchIsPrefix
    <3>2. Len(k) = n /\ k \in Keys
      BY <3>1, <2>3, PrefixFacts
    <3>3. at = IF n = Len(p) THEN "logits" ELSE "restore"
      BY <3>2, <2>5
    <3>4. j \in Jobs
      BY <2>2, <2>3, <3>2, <3>3 DEF Jobs, Pcs, Rows
    <3>5. n = Len(p) => k = p
      BY <3>1, <2>3
    <3>6. n # Len(p) => n \in 1 .. (Len(p) - 1)
      BY <2>3
    <3>7. Stands(j)
      BY <2>2, <2>3, <3>1, <3>3, <3>5, <3>6 DEF Stands, Working, Matched, Jobs
    <3> QED BY <2>2, <3>4, <3>7, GoesStands DEF PathInv
  <2> QED BY <2>4, <2>5
<1> QED BY <1>1, <1>2

(* The row of a match of the whole prompt, or a miss. *)
LEMMA TakeLogitsStands ==
  ASSUME PathInv, NEW h \in Handlers, TakeLogits(h)
  PROVE  JobsInv'
<1> DEFINE j == job[h]
           row == LogitsFor(j.hit)
           i == [j EXCEPT !.buf = row, !.pc = IF row = None THEN "prefill" ELSE "restore"]
<1>1. j \in Jobs /\ Stands(j) /\ j.pc = "logits" /\ Goes(h, i)
  BY DEF PathInv, JobsInv, TakeLogits
<1>2. j.prompt \in Prompts /\ j.hit = j.prompt /\ j.fed = <<>> /\ j.at = 0
  BY <1>1 DEF Stands, Pcs, Working
<1>3. /\ j.prompt \in Seq(Nat) /\ Len(j.prompt) \in Nat /\ Len(j.prompt) > 0
      /\ Prefix(j.prompt, 0) = <<>> /\ j.prompt \in Keys
  BY <1>2, PromptIsSeq, PrefixFacts, PromptIsKey
<1>4. row \in {None, Row(j.prompt, FALSE)}
  BY <1>2, <1>3, EntryReads DEF PathInv
<1>5. row \in Rows
  BY <1>3, <1>4, RowIsRow DEF Rows
<1>6. i \in Jobs
  BY <1>1, <1>5 DEF Jobs, Pcs
<1>7. Stands(i)
  BY <1>1, <1>2, <1>3, <1>4 DEF Stands, Working, Matched, Jobs
<1> QED BY <1>1, <1>6, <1>7, GoesStands DEF PathInv

(* The restore: what comes back is what the match named, or the slot is reset. *)
LEMMA RestoreStands ==
  ASSUME PathInv, NEW h \in Handlers, Restore(h)
  PROVE  JobsInv'
<1> DEFINE j == job[h]
           kv == SnapshotFor(j.hit)
           miss == [j EXCEPT !.fed = <<>>, !.buf = None, !.pc = "prefill"]
           back == [j EXCEPT !.fed = kv, !.pc = "touch"]
<1>1. /\ j \in Jobs /\ Stands(j) /\ j.pc = "restore"
      /\ Goes(h, miss) \/ (kv # None /\ Goes(h, back)) \/ Ends(h)
  BY DEF PathInv, JobsInv, Restore
<1>2. j.prompt \in Prompts /\ j.at = 0 /\ Matched(j)
  BY <1>1 DEF Stands, Pcs, Working
<1>3. /\ Len(j.prompt) \in Nat /\ Len(j.prompt) > 0 /\ <<>> \in Seq(Nat)
      /\ Prefix(j.prompt, 0) = <<>>
  BY <1>2, PromptIsSeq, PrefixFacts
<1>4. CASE Goes(h, miss)
  <2>1. miss \in Jobs
    BY <1>1, <1>3 DEF Jobs, Pcs, Rows
  <2>2. Stands(miss)
    BY <1>1, <1>2, <1>3 DEF Stands, Working, Jobs
  <2> QED BY <1>4, <2>1, <2>2, GoesStands DEF PathInv
<1>5. CASE kv # None /\ Goes(h, back)
  <2>1. j.hit \in Keys /\ j.hit \in Seq(Nat)
    <3>1. CASE j.hit = j.prompt
      BY <3>1, <1>2, PromptIsKey, PromptIsSeq
    <3>2. CASE \E n \in 1 .. (Len(j.prompt) - 1) : j.hit = Prefix(j.prompt, n)
      BY <3>2, <1>2, <1>3, PrefixFacts
    <3> QED BY <3>1, <3>2, <1>2 DEF Matched
  <2>2. kv = j.hit
    BY <1>5, <2>1, EntryReads DEF PathInv
  <2>3. back \in Jobs
    BY <1>1, <2>1, <2>2 DEF Jobs, Pcs
  <2>4. Stands(back)
    BY <1>1, <1>2, <2>2 DEF Stands, Working, Jobs, Matched
  <2> QED BY <1>5, <2>3, <2>4, GoesStands DEF PathInv
<1> QED BY <1>1, <1>4, <1>5, EndsStands DEF PathInv

(* A full hit is prefilled, a prefix hit goes on where the prefix ends. *)
LEMMA TouchStands ==
  ASSUME PathInv, NEW h \in Handlers, TouchHit(h)
  PROVE  JobsInv'
<1> DEFINE j == job[h]
           n == Len(j.hit)
           full == [j EXCEPT !.pc = "prefilled", !.cached = TRUE]
           part == [j EXCEPT !.pc = "prefill", !.at = n, !.restored = n]
<1>1. /\ j \in Jobs /\ Stands(j) /\ j.pc = "touch"
      /\ IF j.buf # None THEN Goes(h, full) ELSE Goes(h, part)
  BY DEF PathInv, JobsInv, TouchHit
<1>2. j.prompt \in Prompts /\ Matched(j) /\ j.fed = j.hit
  BY <1>1 DEF Stands, Pcs, Working
<1>3. Len(j.prompt) \in Nat /\ j.prompt \in Seq(Nat)
  BY <1>2, PromptIsSeq
<1>4. CASE j.buf # None
  <2>1. j.buf = Row(j.prompt, FALSE) /\ j.hit = j.prompt
    BY <1>2, <1>4 DEF Matched
  <2>2. full \in Jobs
    BY <1>1 DEF Jobs, Pcs
  <2>3. Stands(full)
    BY <1>1, <1>2, <2>1 DEF Stands, Working, Jobs
  <2> QED BY <1>1, <1>4, <2>2, <2>3, GoesStands DEF PathInv
<1>5. CASE j.buf = None
  <2>1. PICK m \in 1 .. (Len(j.prompt) - 1) : j.hit = Prefix(j.prompt, m)
    BY <1>2, <1>3, <1>5, RowIsRow DEF Matched
  <2>2. n = m /\ n \in Nat /\ n < Len(j.prompt)
    <3>1. m \in 0 .. Len(j.prompt) /\ m < Len(j.prompt)
      BY <1>3
    <3> QED BY <2>1, <3>1, <1>2, PrefixFacts
  <2>3. part \in Jobs
    BY <1>1, <2>2 DEF Jobs, Pcs
  <2>4. Stands(part)
    BY <1>1, <1>2, <2>1, <2>2 DEF Stands, Working, Jobs
  <2> QED BY <1>1, <1>5, <2>3, <2>4, GoesStands DEF PathInv
<1> QED BY <1>4, <1>5
(* What a snapshot of the thread's slot is, when it holds a prefix. *)
LEMMA EntryIsExact ==
  ASSUME NEW h \in Handlers, NEW p \in Prompts, NEW n \in 1 .. Len(p),
         job[h].fed = Prefix(p, n), NEW row \in {None, Row(Prefix(p, n), FALSE)}
  PROVE  /\ Prefix(p, n) \in Keys
         /\ Entry(h, n, row) \in ExactEntries(Prefix(p, n))
<1>1. n \in 0 .. Len(p) /\ n > 0
  BY PromptIsSeq
<1>2. Prefix(p, n) \in Keys /\ Len(Prefix(p, n)) = n
  BY <1>1, PrefixFacts
<1> QED BY <1>2 DEF Entry, ExactEntries

(* One chunk: the boundary captured on the way holds the tokens fed so far. *)
LEMMA PrefillChunkKeeps ==
  ASSUME PathInv, NEW h \in Handlers, PrefillChunk(h)
  PROVE  PathInv'
<1> DEFINE j == job[h]
           end == ChunkEndAfter(j.prompt, j.at)
           now == j.fed \o SubSeq(j.prompt, j.at + 1, end)
           then == IF end = Len(j.prompt) THEN "prefilled" ELSE "prefill"
           i == [j EXCEPT !.at = end, !.fed = now, !.buf = Row(now, FALSE), !.pc = then]
<1>1. /\ j \in Jobs /\ Stands(j) /\ j.pc = "prefill"
      /\ Goes(h, i) \/ Ends(h)
      /\ \/ UNCHANGED cacheVars
         \/ j.at > j.restored /\ InsertWithKv(Prefix(j.prompt, j.at), Entry(h, j.at, None))
  BY DEF PathInv, JobsInv, PrefillChunk, InsertIntermediate
<1>2. /\ j.prompt \in Prompts /\ j.at \in Nat /\ j.restored \in Nat
      /\ j.at < Len(j.prompt) /\ j.fed = Prefix(j.prompt, j.at)
  BY <1>1 DEF Stands, Pcs, Working, Jobs
<1>3. Len(j.prompt) \in Nat /\ j.prompt \in Seq(Nat)
  BY <1>2, PromptIsSeq
<1>4. CacheInv'
  <2>1. CASE UNCHANGED cacheVars
    BY <2>1 DEF PathInv, CacheInv, cacheVars
  <2>2. CASE j.at > j.restored /\ InsertWithKv(Prefix(j.prompt, j.at), Entry(h, j.at, None))
    <3>1. j.at \in 1 .. Len(j.prompt)
      BY <2>2, <1>2, <1>3
    <3>2. /\ Prefix(j.prompt, j.at) \in Keys
          /\ Entry(h, j.at, None) \in ExactEntries(Prefix(j.prompt, j.at))
      BY <3>1, <1>2, EntryIsExact
    <3> QED BY <2>2, <3>2, InsertKeepsExact DEF PathInv
  <2> QED BY <1>1, <2>1, <2>2
<1>5. end \in 0 .. Len(j.prompt) /\ end \in j.at .. Len(j.prompt)
  <2>1. ChunkTokens \in Nat
    BY CacheAssumption
  <2>2. end = IF j.at + ChunkTokens < Len(j.prompt) THEN j.at + ChunkTokens ELSE Len(j.prompt)
    BY DEF ChunkEndAfter
  <2> HIDE DEF j, end
  <2> QED BY <1>2, <1>3, <2>1, <2>2
<1>6. j.at \in 0 .. Len(j.prompt)
  BY <1>2, <1>3
<1>7. now = Prefix(j.prompt, end)
  BY <1>2, <1>5, <1>6, PrefixGrows
<1>8. now \in Seq(Nat) /\ (end = Len(j.prompt) => now = j.prompt)
  BY <1>2, <1>5, <1>7, PrefixFacts
<1>9. Row(now, FALSE) \in Rows
  BY <1>8, RowIsRow
<1>10. /\ end \in Nat
       /\ \/ end = Len(j.prompt) /\ then = "prefilled"
          \/ end < Len(j.prompt) /\ then = "prefill"
  BY <1>3, <1>5
<1> HIDE DEF end, now, then
<1>11. i \in Jobs
  BY <1>1, <1>8, <1>9, <1>10 DEF Jobs, Pcs
<1>12. Stands(i)
  <2>1. /\ i.prompt = j.prompt /\ i.at = end /\ i.fed = now /\ i.buf = Row(now, FALSE)
        /\ i.pc = then
    BY <1>1 DEF Jobs
  <2> HIDE DEF i
  <2> QED BY <2>1, <1>2, <1>7, <1>8, <1>10 DEF Stands, Working
<1>13. JobsInv'
  BY <1>1, <1>11, <1>12, GoesStands, EndsStands DEF PathInv
<1> QED BY <1>4, <1>13 DEF PathInv

(* A capture of the whole prompt stores the row before any mask. *)
LEMMA CaptureKeeps ==
  ASSUME CacheInv, NEW h \in Handlers, job[h].prompt \in Prompts,
         job[h].fed = job[h].prompt, NEW row, row = Row(job[h].prompt, FALSE),
         UNCHANGED cacheVars \/ CaptureFull(h, row)
  PROVE  CacheInv'
<1> DEFINE p == job[h].prompt
<1>1. CASE UNCHANGED cacheVars
  BY <1>1 DEF CacheInv, cacheVars
<1>2. CASE InsertWithKv(p, Entry(h, Len(p), row))
  <2>1. Len(p) \in 1 .. Len(p) /\ Prefix(p, Len(p)) = p
    BY PromptIsKey, PromptIsSeq
  <2>2. p \in Keys /\ Entry(h, Len(p), row) \in ExactEntries(p)
    BY <2>1, EntryIsExact, Zenon
  <2> QED BY <1>2, <2>2, InsertKeepsExact
<1> QED BY <1>1, <1>2 DEF CaptureFull

LEMMA FirstTokenKeeps ==
  ASSUME PathInv, NEW h \in Handlers, FirstToken(h)
  PROVE  PathInv'
<1> DEFINE j == job[h]
           i == [j EXCEPT !.buf = Masked(@), !.pc = "decode"]
<1>1. /\ j \in Jobs /\ Stands(j) /\ j.pc = "prefilled" /\ Goes(h, i)
      /\ UNCHANGED cacheVars \/ CaptureFull(h, j.buf)
  BY DEF PathInv, JobsInv, FirstToken
<1>2. j.prompt \in Prompts /\ j.fed = j.prompt /\ j.buf = Row(j.prompt, FALSE)
  BY <1>1 DEF Stands, Pcs, Working
<1>3. CacheInv'
  BY <1>1, <1>2, CaptureKeeps DEF PathInv
<1>4. Masked(j.buf) = Row(j.prompt, TRUE) /\ Row(j.prompt, TRUE) \in Rows
  BY <1>2, PromptIsSeq, RowIsRow, MaskedRow
<1>5. i \in Jobs
  BY <1>1, <1>4 DEF Jobs, Pcs
<1>6. Stands(i)
  BY <1>1, <1>2, <1>4 DEF Stands, Working, Jobs
<1> QED BY <1>1, <1>3, <1>5, <1>6, GoesStands DEF PathInv

LEMMA EmitFirstTokenKeeps ==
  ASSUME PathInv, NEW h \in Handlers, EmitFirstToken(h)
  PROVE  PathInv'
<1> DEFINE j == job[h]
           copy == IF j.cached THEN None ELSE j.buf
           i == [j EXCEPT !.copy = copy, !.buf = Masked(@), !.pc = "capture"]
<1>1. /\ j \in Jobs /\ Stands(j) /\ j.pc = "prefilled" /\ UNCHANGED cacheVars
      /\ Goes(h, i) \/ Ends(h)
  BY DEF PathInv, JobsInv, EmitFirstToken
<1>2. j.prompt \in Prompts /\ j.fed = j.prompt /\ j.buf = Row(j.prompt, FALSE)
  BY <1>1 DEF Stands, Pcs, Working
<1>3. CacheInv'
  BY <1>1 DEF PathInv, CacheInv, cacheVars
<1>4. Masked(j.buf) = Row(j.prompt, TRUE) /\ Row(j.prompt, TRUE) \in Rows
  BY <1>2, PromptIsSeq, RowIsRow, MaskedRow
<1>5. copy \in Rows /\ (j.cached \/ copy = Row(j.prompt, FALSE))
  BY <1>1, <1>2 DEF Jobs, Rows
<1>6. i \in Jobs
  BY <1>1, <1>4, <1>5 DEF Jobs, Pcs
<1>7. Stands(i)
  BY <1>1, <1>2, <1>4, <1>5 DEF Stands, Working, Jobs
<1> QED BY <1>1, <1>3, <1>6, <1>7, GoesStands, EndsStands DEF PathInv

LEMMA CaptureCopyKeeps ==
  ASSUME PathInv, NEW h \in Handlers, CaptureCopy(h)
  PROVE  PathInv'
<1> DEFINE j == job[h]
           i == [j EXCEPT !.copy = None, !.pc = "decode"]
<1>1. /\ j \in Jobs /\ Stands(j) /\ j.pc = "capture" /\ Goes(h, i)
      /\ UNCHANGED cacheVars \/ (~ j.cached /\ CaptureFull(h, j.copy))
  BY DEF PathInv, JobsInv, CaptureCopy
<1>2. /\ j.prompt \in Prompts /\ j.fed = j.prompt
      /\ j.cached \/ j.copy = Row(j.prompt, FALSE)
  BY <1>1 DEF Stands, Pcs, Working
<1>3. CacheInv'
  <2>1. CASE UNCHANGED cacheVars
    BY <2>1 DEF PathInv, CacheInv, cacheVars
  <2>2. CASE ~ j.cached /\ CaptureFull(h, j.copy)
    BY <2>2, <1>2, CaptureKeeps DEF PathInv
  <2> QED BY <1>1, <2>1, <2>2
<1>4. i \in Jobs
  BY <1>1 DEF Jobs, Pcs, Rows
<1>5. Stands(i)
  BY <1>1, <1>2 DEF Stands, Working, Jobs
<1> QED BY <1>1, <1>3, <1>4, <1>5, GoesStands DEF PathInv

(* The handler's own steps leave the cache and every working thread alone. *)
LEMMA HandlerKeeps ==
  ASSUME PathInv, NEW h \in Handlers,
         Asks(h) \/ Refused(h) \/ Dispatch(h) \/ Returns(h) \/ Decode(h)
  PROVE  PathInv'
<1>1. CacheInv'
  BY DEF PathInv, CacheInv, cacheVars, Asks, Refused, Dispatch, Returns, Decode
<1>2. CASE Asks(h) \/ Refused(h)
  BY <1>1, <1>2 DEF PathInv, JobsInv, Asks, Refused
<1>3. CASE Dispatch(h)
  <2>1. Goes(h, [NoJob EXCEPT !.pc = "claim"])
    BY <1>3 DEF Dispatch
  <2> QED BY <1>1, <2>1, NoJobStands, GoesStands DEF PathInv
<1>4. CASE Returns(h)
  <2> DEFINE j == IF job[h].pc = "over" THEN NoJob ELSE job[h]
  <2>1. Goes(h, j)
    BY <1>4 DEF Returns, Goes
  <2>2. j \in Jobs /\ Stands(j)
    BY NoJobStands DEF PathInv, JobsInv
  <2> QED BY <1>1, <2>1, <2>2, GoesStands DEF PathInv
<1>5. CASE Decode(h)
  BY <1>1, <1>5, EndsStands DEF PathInv, Decode
<1> QED BY <1>2, <1>3, <1>4, <1>5

LEMMA PathInductive == PathInv /\ [Next]_vars => PathInv'
<1>1. SUFFICES ASSUME PathInv, [Next]_vars PROVE PathInv'
  OBVIOUS
<1>2. CASE UNCHANGED vars
  BY <1>1, <1>2 DEF vars, PathInv, CacheInv, JobsInv
<1>3. ASSUME NEW h \in Handlers, UNCHANGED cacheVars, JobsInv'
      PROVE  PathInv'
  BY <1>1, <1>3 DEF PathInv, CacheInv, cacheVars
<1>4. ASSUME NEW h \in Handlers, Claim(h) \/ TakeLogits(h) \/ Restore(h)
      PROVE  PathInv'
  BY <1>1, <1>3, <1>4, ClaimStands, TakeLogitsStands, RestoreStands
     DEF Claim, TakeLogits, Restore
<1>5. ASSUME NEW h \in Handlers, TouchHit(h)
      PROVE  PathInv'
  BY <1>1, <1>5, TouchStands DEF TouchHit, Touch, PathInv, CacheInv
<1>6. ASSUME NEW h \in Handlers,
             PrefillChunk(h) \/ FirstToken(h) \/ EmitFirstToken(h) \/ CaptureCopy(h)
      PROVE  PathInv'
  BY <1>1, <1>6, PrefillChunkKeeps, FirstTokenKeeps, EmitFirstTokenKeeps, CaptureCopyKeeps
<1>7. ASSUME NEW h \in Handlers,
             Asks(h) \/ Refused(h) \/ Dispatch(h) \/ Returns(h) \/ Decode(h)
      PROVE  PathInv'
  BY <1>1, <1>7, HandlerKeeps
<1> QED BY <1>1, <1>2, <1>4, <1>5, <1>6, <1>7 DEF Next

LEMMA PathInvariant == Spec => []PathInv
<1>1. Init => PathInv
  <2>1. SUFFICES ASSUME Init PROVE PathInv
    OBVIOUS
  <2>2. CacheInv
    BY <2>1, CacheInitially DEF Init
  <2>3. JobsInv
    BY <2>1, NoJobStands DEF Init, JobsInv
  <2> QED BY <2>2, <2>3 DEF PathInv
<1> QED BY <1>1, PathInductive, PTL DEF Spec

(* Every entry of the prefix cache holds the state after exactly the tokens of *)
(* its key and at most the unmasked row computed from them, for any prompts,   *)
(* budget and number of threads, and whatever was replaced or evicted.         *)
THEOREM EntriesAreAlwaysExact == Spec => []EntriesAreExact
<1>1. PathInv => EntriesAreExact
  <2>1. SUFFICES ASSUME PathInv, NEW k \in Resident
                 PROVE  /\ by_terminal[k].kv = k
                        /\ by_terminal[k].n_tokens = Len(k)
                        /\ by_terminal[k].last_logits # None
                              => by_terminal[k].last_logits = Row(k, FALSE)
    BY DEF EntriesAreExact
  <2>2. by_terminal[k] \in ExactEntries(k)
    BY <2>1 DEF PathInv, CacheInv, Resident
  <2>3. PICK row \in {None, Row(k, FALSE)} :
          by_terminal[k] = [n_tokens |-> Len(k), kv |-> k, last_logits |-> row]
    BY <2>2 DEF ExactEntries
  <2>4. /\ by_terminal[k].kv = k /\ by_terminal[k].n_tokens = Len(k)
        /\ by_terminal[k].last_logits = row
    BY <2>3
  <2> QED BY <2>4
<1> QED BY <1>1, PathInvariant, PTL

(* A request samples its first token from logits of its whole own prompt and   *)
(* decodes from the state after exactly that prompt, whatever it restored and   *)
(* whatever failed or was evicted under it.                                     *)
THEOREM AnswersAlwaysStartFromOwnPrompt == Spec => []AnswersStartFromOwnPrompt
<1>1. PathInv => AnswersStartFromOwnPrompt
  <2>1. SUFFICES ASSUME PathInv, NEW h \in Handlers,
                        job[h].pc \in {"prefilled", "capture", "decode"}
                 PROVE  /\ job[h].buf.of = job[h].prompt
                        /\ job[h].fed = job[h].prompt
                        /\ job[h].pc = "prefilled" => ~ job[h].buf.masked
    BY DEF AnswersStartFromOwnPrompt
  <2>2. Stands(job[h])
    BY <2>1 DEF PathInv, JobsInv
  <2> QED BY <2>1, <2>2 DEF Stands, Row
<1> QED BY <1>1, PathInvariant, PTL

-----------------------------------------------------------------------------
(* The LRU list: what retain leaves of it, one element after another. *)
Keeps(list, k) ==
  [i \in 1 .. Len(list) |-> [kept \in Seq(Keys) |->
      IF list[i] = k THEN kept ELSE Append(kept, list[i])]]

LEMMA RetainedIsFold ==
  ASSUME NEW list \in Seq(Keys), NEW k
  PROVE  \E F \in [0 .. Len(list) -> Seq(Keys)] :
            /\ F[0] = <<>>
            /\ \A i \in 1 .. Len(list) :
                 F[i] = IF list[i] = k THEN F[i - 1] ELSE Append(F[i - 1], list[i])
            /\ Retained(list, k) = F[Len(list)]
<1> DEFINE n == Len(list)
           S == 1 .. n
           D == Seq(Keys)
           c == Lasts(n)
           G == Keeps(list, k)
           Rhs(h) == [s \in SUBSET S |->
                        IF s = {} THEN <<>>
                        ELSE IF list[Max(s)] = k THEN h[s \ {Max(s)}]
                             ELSE Append(h[s \ {Max(s)}], list[Max(s)])]
           g == CHOOSE h : h = Rhs(h)
<1>1. n \in Nat /\ DOMAIN list = S /\ \A i \in S : list[i] \in Keys
  BY LenProperties, ElementOfSeq
<1>2. Retained(list, k) = g[S]
  BY <1>1, Zenon DEF Retained, FoldLeft, MapThenFoldSet
<1>3. G \in [1 .. n -> [D -> D]] /\ <<>> \in D
  BY <1>1 DEF Keeps
<1>15. PICK h \in [SUBSET (1 .. n) -> D] : IsLeftFold(h, n, <<>>, G)
  <2> HIDE DEF G, D, n
  <2> QED BY <1>1, <1>3, LeftFold
<1>4. /\ FoldsOn(h, 1 .. n, <<>>, c, G)
      /\ h[{}] = <<>>
      /\ \A i \in 1 .. n : h[1 .. i] = G[i][h[1 .. (i - 1)]]
  BY <1>15 DEF IsLeftFold
<1>5. \A i \in S, kept \in D : G[i][kept] = IF list[i] = k THEN kept ELSE Append(kept, list[i])
  BY DEF Keeps
<1>6. ChoosesFrom(c, S) /\ \A T \in SUBSET S : c[T] = Max(T)
  BY <1>1, LastsChoose DEF Lasts
<1> HIDE DEF G, c
<1>7. \A T \in SUBSET S : T # {} =>
        h[T] = IF list[Max(T)] = k THEN h[T \ {Max(T)}] ELSE Append(h[T \ {Max(T)}], list[Max(T)])
  <2>1. SUFFICES ASSUME NEW T \in SUBSET S, T # {}
                 PROVE  h[T] = IF list[Max(T)] = k THEN h[T \ {Max(T)}]
                               ELSE Append(h[T \ {Max(T)}], list[Max(T)])
    OBVIOUS
  <2>2. h[T] = G[c[T]][h[T \ {c[T]}]]
    BY <1>4, <2>1 DEF FoldsOn
  <2>3. c[T] \in S /\ h[T \ {c[T]}] \in D /\ c[T] = Max(T)
    BY <1>4, <1>6, <2>1 DEF ChoosesFrom
  <2> QED BY <1>5, <2>2, <2>3
<1>8. h = Rhs(h)
  BY <1>4, <1>7
<1>9. g = Rhs(g)
  BY <1>8
<1> HIDE DEF g
<1>10. /\ g[{}] = <<>>
       /\ \A T \in SUBSET S : T # {} =>
            g[T] = IF list[Max(T)] = k THEN g[T \ {Max(T)}]
                   ELSE Append(g[T \ {Max(T)}], list[Max(T)])
  <2> DEFINE rhs == Rhs(g)
  <2>1. /\ rhs[{}] = <<>>
        /\ \A T \in SUBSET S : T # {} =>
             rhs[T] = IF list[Max(T)] = k THEN g[T \ {Max(T)}]
                      ELSE Append(g[T \ {Max(T)}], list[Max(T)])
    OBVIOUS
  <2>2. g = rhs
    BY <1>9
  <2> HIDE DEF rhs
  <2> QED BY <2>1, <2>2
<1>11. \A T \in SUBSET S : g[T] = h[T]
  <2>1. SameStep(g, h, c, S)
    BY <1>4, <1>6, <1>7, <1>10 DEF SameStep
  <2>2. IsFiniteSet(S)
    BY <1>1, FS_Interval
  <2> HIDE DEF S
  <2> QED BY <1>6, <2>1, <2>2, FoldsAgree
<1> DEFINE F == [i \in 0 .. n |-> h[1 .. i]]
<1>12. F \in [0 .. n -> D]
  BY <1>1, <1>4
<1>13. F[0] = <<>> /\ F[n] = h[S]
  <2>1. 1 .. 0 = {}
    OBVIOUS
  <2> QED BY <1>1, <1>4, <2>1
<1>14. \A i \in 1 .. n : F[i] = IF list[i] = k THEN F[i - 1] ELSE Append(F[i - 1], list[i])
  <2>1. SUFFICES ASSUME NEW i \in 1 .. n
                 PROVE  F[i] = IF list[i] = k THEN F[i - 1] ELSE Append(F[i - 1], list[i])
    OBVIOUS
  <2>2. i - 1 \in 0 .. n /\ i \in 0 .. n /\ i \in S
    BY <1>1
  <2>3. F[i] = h[1 .. i] /\ F[i - 1] = h[1 .. (i - 1)] /\ F[i - 1] \in D
    BY <2>2, <1>12
  <2>4. h[1 .. i] = G[i][h[1 .. (i - 1)]]
    BY <1>4
  <2> HIDE DEF F
  <2> QED BY <1>5, <2>2, <2>3, <2>4
<1> HIDE DEF F
<1> QED BY <1>2, <1>11, <1>12, <1>13, <1>14

Lists(list, x) == \E i \in 1 .. Len(list) : list[i] = x
Distinct(list) == \A i, j \in 1 .. Len(list) : list[i] = list[j] => i = j

LEMMA AppendLists ==
  ASSUME NEW list \in Seq(Keys), NEW e \in Keys
  PROVE  /\ Append(list, e) \in Seq(Keys)
         /\ \A x : Lists(Append(list, e), x) <=> Lists(list, x) \/ x = e
         /\ Distinct(list) /\ ~ Lists(list, e) => Distinct(Append(list, e))
<1> DEFINE l == Append(list, e)
<1>1. /\ l \in Seq(Keys) /\ Len(l) = Len(list) + 1 /\ Len(list) \in Nat
      /\ \A i \in 1 .. Len(list) : l[i] = list[i]
      /\ l[Len(list) + 1] = e
  BY AppendProperties, LenProperties
<1> HIDE DEF l
<1>2. ASSUME NEW x PROVE Lists(l, x) <=> Lists(list, x) \/ x = e
  BY <1>1 DEF Lists
<1>3. ASSUME Distinct(list), ~ Lists(list, e) PROVE Distinct(l)
  BY <1>1, <1>3 DEF Distinct, Lists
<1> QED BY <1>1, <1>2, <1>3 DEF l

(* retain leaves everything but the key, in a list that still holds no key    *)
(* twice.                                                                      *)
LEMMA RetainedFacts ==
  ASSUME NEW list \in Seq(Keys), NEW k
  PROVE  /\ Retained(list, k) \in Seq(Keys)
         /\ \A x : Lists(Retained(list, k), x) <=> Lists(list, x) /\ x # k
         /\ Distinct(list) => Distinct(Retained(list, k))
<1> DEFINE n == Len(list)
<1>1. PICK F \in [0 .. n -> Seq(Keys)] :
        /\ F[0] = <<>>
        /\ \A i \in 1 .. n : F[i] = IF list[i] = k THEN F[i - 1] ELSE Append(F[i - 1], list[i])
        /\ Retained(list, k) = F[n]
  BY RetainedIsFold, Zenon
<1>2. n \in Nat /\ \A i \in 1 .. n : list[i] \in Keys
  BY LenProperties, ElementOfSeq
<1> HIDE DEF n
<1> DEFINE Upto(m, x) == \E i \in 1 .. m : list[i] = x
           Good(m) == /\ \A x : Lists(F[m], x) <=> Upto(m, x) /\ x # k
                      /\ Distinct(list) => Distinct(F[m])
           T == {m \in Nat : m <= n => Good(m)}
<1>3. 0 \in T
  <2>1. Len(F[0]) = 0
    BY <1>1
  <2>2. Good(0)
    BY <2>1 DEF Lists, Distinct
  <2> QED BY <2>2
<1>4. ASSUME NEW m \in Nat, m \in T PROVE m + 1 \in T
  <2>1. SUFFICES ASSUME m + 1 <= n PROVE Good(m + 1)
    OBVIOUS
  <2>2. Good(m) /\ m \in 0 .. n /\ m + 1 \in 1 .. n /\ (m + 1) - 1 = m
    BY <1>2, <1>4, <2>1
  <2>3. F[m + 1] = IF list[m + 1] = k THEN F[m] ELSE Append(F[m], list[m + 1])
    BY <1>1, <2>2
  <2>4. F[m] \in Seq(Keys) /\ list[m + 1] \in Keys
    BY <1>1, <1>2, <2>2
  <2>5. \A x : Upto(m + 1, x) <=> Upto(m, x) \/ x = list[m + 1]
    <3>1. 1 .. (m + 1) = (1 .. m) \cup {m + 1}
      BY <2>2
    <3> QED BY <3>1
  <2>6. Distinct(list) => ~ Upto(m, list[m + 1])
    BY <1>2, <2>2 DEF Distinct, n
  <2> HIDE DEF Upto
  <2>7. CASE list[m + 1] = k
    BY <2>2, <2>3, <2>5, <2>7
  <2>8. CASE list[m + 1] # k
    <3>1. F[m + 1] = Append(F[m], list[m + 1])
      BY <2>3, <2>8
    <3>2. \A x : Lists(F[m + 1], x) <=> Lists(F[m], x) \/ x = list[m + 1]
      BY <3>1, <2>4, AppendLists
    <3>3. \A x : Lists(F[m + 1], x) <=> Upto(m + 1, x) /\ x # k
      BY <3>2, <2>2, <2>5, <2>8
    <3>4. Distinct(list) => Distinct(F[m + 1])
      BY <3>1, <2>2, <2>4, <2>6, AppendLists
    <3> QED BY <3>3, <3>4
  <2> QED BY <2>7, <2>8
<1>5. n \in T
  <2> HIDE DEF T
  <2> QED BY <1>2, <1>3, <1>4, CountingUp
<1>6. Good(n)
  BY <1>2, <1>5
<1>7. F[n] \in Seq(Keys)
  BY <1>1, <1>2
<1>8. \A x : Lists(list, x) <=> Upto(n, x)
  BY DEF Lists, n
<1> HIDE DEF Upto
<1> QED BY <1>1, <1>6, <1>7, <1>8

LEMMA ToFrontFacts ==
  ASSUME NEW list \in Seq(Keys), NEW k \in Keys
  PROVE  /\ ToFront(k, list) \in Seq(Keys)
         /\ \A x : Lists(ToFront(k, list), x) <=> Lists(list, x) \/ x = k
         /\ Distinct(list) => Distinct(ToFront(k, list))
<1> DEFINE r == Retained(list, k)
           l == ToFront(k, list)
<1>1. /\ r \in Seq(Keys)
      /\ \A x : Lists(r, x) <=> Lists(list, x) /\ x # k
      /\ Distinct(list) => Distinct(r)
  BY RetainedFacts
<1>2. l = <<k>> \o r
  BY DEF ToFront
<1> HIDE DEF r, l
<1>3. /\ l \in Seq(Keys) /\ Len(r) \in Nat /\ Len(l) = Len(r) + 1
      /\ l[1] = k /\ \A i \in 1 .. Len(r) : l[i + 1] = r[i]
  BY <1>1, <1>2
<1>4. ASSUME NEW x PROVE Lists(l, x) <=> Lists(r, x) \/ x = k
  <2>1. \A i \in 1 .. Len(l) : i = 1 \/ (i - 1 \in 1 .. Len(r) /\ l[i] = r[i - 1])
    BY <1>3
  <2>2. \A i \in 1 .. Len(r) : i + 1 \in 1 .. Len(l)
    BY <1>3
  <2>3. 1 \in 1 .. Len(l)
    BY <1>3
  <2>4. ASSUME Lists(l, x) PROVE Lists(r, x) \/ x = k
    BY <1>3, <2>1, <2>4 DEF Lists
  <2>5. ASSUME Lists(r, x) \/ x = k PROVE Lists(l, x)
    <3>1. CASE x = k
      BY <1>3, <2>3, <3>1 DEF Lists
    <3>2. CASE Lists(r, x)
      <4>1. PICK i \in 1 .. Len(r) : r[i] = x
        BY <3>2 DEF Lists
      <4> QED BY <1>3, <2>2, <4>1 DEF Lists
    <3> QED BY <2>5, <3>1, <3>2
  <2> QED BY <2>4, <2>5
<1>5. ASSUME Distinct(list) PROVE Distinct(l)
  <2>1. \A i \in 1 .. Len(l) : i = 1 \/ (i - 1 \in 1 .. Len(r) /\ l[i] = r[i - 1])
    BY <1>3
  <2>2. ~ Lists(r, k) /\ Distinct(r)
    BY <1>1, <1>5
  <2>3. \A i \in 1 .. Len(r) : r[i] # k
    BY <2>2 DEF Lists
  <2>4. SUFFICES ASSUME NEW i \in 1 .. Len(l), NEW j \in 1 .. Len(l), l[i] = l[j] PROVE i = j
    BY DEF Distinct
  <2>5. CASE i = 1 \/ j = 1
    BY <1>3, <2>1, <2>3, <2>4, <2>5
  <2>6. CASE i # 1 /\ j # 1
    <3>1. i - 1 \in 1 .. Len(r) /\ j - 1 \in 1 .. Len(r) /\ r[i - 1] = r[j - 1]
      BY <2>1, <2>4, <2>6
    <3>2. i - 1 = j - 1
      BY <2>2, <3>1 DEF Distinct
    <3> QED BY <3>2
  <2> QED BY <2>5, <2>6
<1> QED BY <1>1, <1>3, <1>4, <1>5 DEF l

-----------------------------------------------------------------------------
(* Every entry stands in the list, once. *)
ListInv ==
  /\ lru_order \in Seq(Keys)
  /\ \A k \in Resident : Lists(lru_order, k)
  /\ Distinct(lru_order)

(* The eviction loop stops somewhere. *)
LEMMA EvictionsStop ==
  ASSUME NEW table, NEW list, Len(list) \in Nat, NEW used
  PROVE  LET n == Evictions(table, list, used)
         IN  /\ n \in 0 .. Len(list)
             /\ n = Len(list) \/ Minus(used, Freed(table, list, n)) <= Budget
<1> DEFINE enough == {n \in 0 .. Len(list) :
                        n = Len(list) \/ Minus(used, Freed(table, list, n)) <= Budget}
           n == Evictions(table, list, used)
<1>1. enough \in SUBSET Nat /\ Len(list) \in enough
  OBVIOUS
<1>2. n = CHOOSE m \in enough : \A l \in enough : m <= l
  BY DEF Evictions
<1> HIDE DEF enough, n
<1>3. \E m \in enough : \A l \in enough : m <= l
  BY <1>1, LeastOf
<1>4. n \in enough
  BY <1>2, <1>3
<1>5. n \in 0 .. Len(list) /\ (n = Len(list) \/ Minus(used, Freed(table, list, n)) <= Budget)
  BY <1>4 DEF enough
<1> QED BY <1>5 DEF n

(* What insert_with_kv makes of the table, the list and the count. *)
Inserted(k, e, list, n) ==
  LET table == [by_terminal EXCEPT ![k] = e]
      used  == Minus(used_bytes, Size(by_terminal[k])) + KvBytes(e)
  IN  /\ list \in Seq(Keys) /\ Len(list) \in Nat
      /\ Distinct(list)
      /\ \A x : Lists(list, x) <=> Lists(lru_order, x) \/ x = k
      /\ n \in 0 .. Len(list)
      /\ n = Len(list) \/ Minus(used, Freed(table, list, n)) <= Budget
      /\ by_terminal' = Without(table, Popped(list, n))
      /\ lru_order' = SubSeq(list, 1, Len(list) - n)
      /\ used_bytes' = Minus(used, Freed(table, list, n))

LEMMA InsertEffect ==
  ASSUME ListInv, NEW k \in Keys, NEW e, InsertWithKv(k, e)
  PROVE  \E list, n : Inserted(k, e, list, n)
<1> DEFINE table == [by_terminal EXCEPT ![k] = e]
           list == ToFront(k, lru_order)
           used == Minus(used_bytes, Size(by_terminal[k])) + KvBytes(e)
           n == Evictions(table, list, used)
<1>1. /\ list \in Seq(Keys) /\ Distinct(list)
      /\ \A x : Lists(list, x) <=> Lists(lru_order, x) \/ x = k
  BY ToFrontFacts DEF ListInv
<1>2. Len(list) \in Nat
  <2> HIDE DEF list
  <2> QED BY <1>1, LenProperties
<1>3. /\ n \in 0 .. Len(list)
      /\ n = Len(list) \/ Minus(used, Freed(table, list, n)) <= Budget
  <2> HIDE DEF table, list, used
  <2> QED BY <1>2, EvictionsStop
<1>4. /\ by_terminal' = Without(table, Popped(list, n))
      /\ lru_order' = SubSeq(list, 1, Len(list) - n)
      /\ used_bytes' = Minus(used, Freed(table, list, n))
  BY Zenon DEF InsertWithKv
<1>5. Inserted(k, e, list, n)
  <2> HIDE DEF list, n
  <2> QED BY <1>1, <1>2, <1>3, <1>4 DEF Inserted
<1> QED BY <1>5

(* What is left of the list and of the table. *)
LEMMA InsertedLists ==
  ASSUME CacheInv, ListInv, NEW k \in Keys, NEW e, NEW list, NEW n, Inserted(k, e, list, n)
  PROVE  ListInv'
<1> DEFINE table == [by_terminal EXCEPT ![k] = e]
           gone == Popped(list, n)
           left == SubSeq(list, 1, Len(list) - n)
           m == Len(list) - n
<1>1. /\ list \in Seq(Keys) /\ Len(list) \in Nat /\ n \in 0 .. Len(list)
      /\ Distinct(list)
      /\ \A x : Lists(list, x) <=> Lists(lru_order, x) \/ x = k
      /\ by_terminal' = Without(table, gone)
      /\ lru_order' = left
  BY DEF Inserted
<1>2. /\ m \in 0 .. Len(list)
      /\ left \in Seq(Keys) /\ Len(left) = m /\ \A i \in 1 .. m : left[i] = list[i]
  BY <1>1, SubSeqProperties
<1>3. gone = {list[i] : i \in (m + 1) .. Len(list)}
  BY DEF Popped
<1>4. DOMAIN table = Keys /\ \A x \in Keys : x # k => table[x] = by_terminal[x]
  BY DEF CacheInv
<1>5. DOMAIN by_terminal = Keys
  BY DEF CacheInv
<1> HIDE DEF table, gone, left
<1>6. ASSUME NEW x \in Resident'
      PROVE  x \in Keys /\ x \notin gone /\ Lists(list, x)
  <2>1. x \in Keys /\ x \notin gone /\ table[x] # None
    BY <1>1, <1>4 DEF Resident, Without
  <2>2. x = k \/ x \in Resident
    BY <2>1, <1>4, <1>5 DEF Resident
  <2> QED BY <2>1, <2>2, <1>1 DEF ListInv
<1>7. \A x \in Resident' : Lists(left, x)
  <2>1. SUFFICES ASSUME NEW x \in Resident' PROVE Lists(left, x)
    OBVIOUS
  <2>2. PICK i \in 1 .. Len(list) : list[i] = x
    BY <1>6 DEF Lists
  <2>3. i \notin (m + 1) .. Len(list)
    BY <1>3, <1>6, <2>2
  <2>4. i \in 1 .. m
    BY <1>1, <1>2, <2>2, <2>3
  <2> QED BY <1>2, <2>2, <2>4 DEF Lists
<1>8. Distinct(left)
  <2>1. \A i \in 1 .. m : i \in 1 .. Len(list)
    BY <1>1, <1>2
  <2> QED BY <1>1, <1>2, <2>1 DEF Distinct
<1> QED BY <1>1, <1>2, <1>7, <1>8 DEF ListInv

LEMMA InsertLists ==
  ASSUME CacheInv, ListInv, NEW k \in Keys, NEW e, InsertWithKv(k, e)
  PROVE  ListInv'
BY InsertEffect, InsertedLists

LEMMA TouchLists ==
  ASSUME ListInv, NEW k \in Keys, Touch(k)
  PROVE  ListInv'
<1> DEFINE l == ToFront(k, lru_order)
<1>1. lru_order' = l /\ by_terminal' = by_terminal
  BY DEF Touch
<1>2. /\ l \in Seq(Keys) /\ Distinct(l)
      /\ \A x : Lists(l, x) <=> Lists(lru_order, x) \/ x = k
  BY ToFrontFacts DEF ListInv
<1> HIDE DEF l
<1> QED BY <1>1, <1>2 DEF ListInv, Resident

(* The key a thread touches, and those it inserts. *)
LEMMA MatchedIsKey ==
  ASSUME NEW j, j.prompt \in Prompts, Matched(j)
  PROVE  j.hit \in Keys
<1>1. Len(j.prompt) \in Nat /\ j.prompt \in Keys
  BY PromptIsSeq, PromptIsKey
<1>2. ASSUME NEW n \in 1 .. (Len(j.prompt) - 1) PROVE Prefix(j.prompt, n) \in Keys
  <2>1. n \in 0 .. Len(j.prompt) /\ n > 0
    BY <1>1
  <2> QED BY <2>1, PrefixFacts
<1> QED BY <1>1, <1>2 DEF Matched

LEMMA ListInductive ==
  PathInv /\ ListInv /\ [Next]_vars => ListInv'
<1>1. SUFFICES ASSUME PathInv, ListInv, [Next]_vars PROVE ListInv'
  OBVIOUS
<1>2. CASE UNCHANGED cacheVars
  BY <1>1, <1>2 DEF cacheVars, ListInv, Resident
<1>3. ASSUME NEW h \in Handlers, TouchHit(h) PROVE ListInv'
  <2>1. Stands(job[h]) /\ job[h].pc = "touch" /\ Touch(job[h].hit)
    BY <1>1, <1>3 DEF PathInv, JobsInv, TouchHit
  <2>2. job[h].prompt \in Prompts /\ Matched(job[h])
    BY <2>1 DEF Stands, Pcs, Working
  <2> QED BY <1>1, <2>1, <2>2, MatchedIsKey, TouchLists
<1>4. ASSUME NEW h \in Handlers, PrefillChunk(h) PROVE ListInv'
  <2> DEFINE j == job[h]
  <2>1. /\ j \in Jobs /\ Stands(j) /\ j.pc = "prefill"
        /\ \/ UNCHANGED cacheVars
           \/ j.at > j.restored /\ InsertWithKv(Prefix(j.prompt, j.at), Entry(h, j.at, None))
    BY <1>1, <1>4 DEF PathInv, JobsInv, PrefillChunk, InsertIntermediate
  <2>2. j.prompt \in Prompts /\ j.at \in Nat /\ j.restored \in Nat /\ j.at < Len(j.prompt)
    BY <2>1 DEF Stands, Pcs, Working, Jobs
  <2>3. j.at > j.restored => Prefix(j.prompt, j.at) \in Keys
    <3>1. j.at > j.restored => j.at \in 0 .. Len(j.prompt) /\ j.at > 0
      BY <2>2, PromptIsSeq
    <3> QED BY <2>2, <3>1, PrefixFacts
  <2> HIDE DEF j
  <2> QED BY <1>1, <1>2, <2>1, <2>3, InsertLists DEF PathInv
<1>5. ASSUME NEW h \in Handlers, FirstToken(h) \/ CaptureCopy(h) PROVE ListInv'
  <2>1. /\ Stands(job[h]) /\ job[h].pc \in {"prefilled", "capture"}
        /\ UNCHANGED cacheVars \/ \E e : InsertWithKv(job[h].prompt, e)
    BY <1>1, <1>5 DEF PathInv, JobsInv, FirstToken, CaptureCopy, CaptureFull
  <2>2. job[h].prompt \in Keys
    BY <2>1, PromptIsKey DEF Stands, Pcs, Working
  <2> QED BY <1>1, <1>2, <2>1, <2>2, InsertLists DEF PathInv
<1>6. ASSUME NEW h \in Handlers,
             \/ Asks(h) \/ Refused(h) \/ Dispatch(h) \/ Returns(h) \/ Claim(h)
             \/ TakeLogits(h) \/ Restore(h) \/ EmitFirstToken(h) \/ Decode(h)
      PROVE  UNCHANGED cacheVars
  BY <1>6 DEF Asks, Refused, Dispatch, Returns, Claim, TakeLogits, Restore, EmitFirstToken, Decode
<1>7. CASE UNCHANGED vars
  BY <1>2, <1>7 DEF vars, cacheVars
<1> QED BY <1>1, <1>2, <1>3, <1>4, <1>5, <1>6, <1>7 DEF Next

LEMMA ListInvariant == Spec => []ListInv
<1>1. Init => ListInv
  <2>1. SUFFICES ASSUME Init PROVE ListInv
    OBVIOUS
  <2>2. lru_order = <<>> /\ Resident = {}
    BY <2>1 DEF Init, CacheInit, Resident
  <2> QED BY <2>2 DEF ListInv, Distinct
<1> QED BY <1>1, ListInductive, PathInvariant, PTL DEF Spec

(* Every entry of the prefix cache stands in the LRU list, which holds no key  *)
(* twice, whatever was touched after it was evicted (touch pushes the key of   *)
(* an entry that is gone) and however many entries one insertion evicts: no    *)
(* entry stays for ever and none is popped for nothing.                        *)
THEOREM EveryEntryStaysEvictable == Spec => []EveryEntryIsEvictable
<1>1. ListInv => EveryEntryIsEvictable
  BY DEF ListInv, EveryEntryIsEvictable, InList, Lists, Distinct
<1> QED BY <1>1, ListInvariant, PTL

-----------------------------------------------------------------------------
(* The budget: the bytes the entries hold, rows included, against the count.  *)
(* A full entry's row is not counted when it comes and is when it goes, so    *)
(* each request may widen the gap by a row, once.                              *)
HeldBytes == SumFunctionOnSet(Sizes(by_terminal), Resident)
Pending == {h \in Handlers : job[h].pc \notin {"none", "over", "decode"}}

BudgetInv ==
  /\ used_bytes \in Nat /\ used_bytes <= Budget
  /\ used_bytes <= SnapshotBytes
  /\ sent \in Nat /\ HeldBytes \in Nat
  /\ HeldBytes + LogitBytes * Cardinality(Pending) <= used_bytes + LogitBytes * sent

(* The bytes of one key's entry, with its row and without. *)
KvSize(e) == IF e = None THEN 0 ELSE KvBytes(e)
KvSizes(table) == [k \in DOMAIN table |-> KvSize(table[k])]

LEMMA EntrySizes ==
  ASSUME NEW k \in Keys, NEW e, e = None \/ e \in ExactEntries(k)
  PROVE  /\ Size(e) \in Nat /\ KvSize(e) \in Nat /\ KvSize(e) <= Size(e)
         /\ e # None => /\ KvBytes(e) \in Nat /\ RowOf(e) \in Nat
                        /\ KvSize(e) = KvBytes(e) /\ Size(e) = KvBytes(e) + RowOf(e)
<1>1. CASE e = None
  BY <1>1 DEF Size, KvSize
<1>2. CASE e # None
  <2>1. e \in ExactEntries(k)
    BY <1>2
  <2>2. PICK row \in {None, Row(k, FALSE)} : e = [n_tokens |-> Len(k), kv |-> k, last_logits |-> row]
    BY <2>1 DEF ExactEntries
  <2>3. e.kv = k
    BY <2>2
  <2>4. Len(k) \in Nat
    BY KeyIsSeq
  <2>5. StateBytes \in Nat /\ RowBytes \in Nat /\ LogitBytes \in Nat
    BY CacheAssumption
  <2>6. KvBytes(e) = StateBytes + RowBytes * Len(k) /\ RowBytes * Len(k) \in Nat
    BY <2>3, <2>4, <2>5 DEF KvBytes
  <2>7. RowOf(e) \in Nat /\ KvBytes(e) \in Nat
    BY <2>4, <2>5, <2>6 DEF RowOf
  <2>8. KvSize(e) = KvBytes(e) /\ Size(e) = KvBytes(e) + RowOf(e)
    BY <1>2 DEF KvSize, Size
  <2> QED BY <2>7, <2>8
<1> QED BY <1>1, <1>2

(* The two totals are sums over any finite set of keys that holds the entries. *)
Filled(table) == {k \in DOMAIN table : table[k] # None}
Exact(table) ==
  /\ DOMAIN table = Keys
  /\ \A k \in Keys : table[k] = None \/ table[k] \in ExactEntries(k)

LEMMA TotalsOver ==
  ASSUME NEW table, Exact(table), NEW T \in SUBSET Keys, IsFiniteSet(T), Filled(table) \subseteq T
  PROVE  /\ SumFunctionOnSet(Sizes(table), Filled(table)) = SumFunctionOnSet(Sizes(table), T)
         /\ SumFunctionOnSet([k \in Filled(table) |-> KvBytes(table[k])], Filled(table))
              = SumFunctionOnSet(KvSizes(table), T)
         /\ \A k \in T : /\ Sizes(table)[k] \in Nat /\ KvSizes(table)[k] \in Nat
                         /\ Sizes(table)[k] = Size(table[k])
                         /\ KvSizes(table)[k] = KvSize(table[k])
<1> DEFINE s == Sizes(table)
           v == KvSizes(table)
           R == Filled(table)
           r == [k \in R |-> KvBytes(table[k])]
<1>1. \A k \in T : s[k] = Size(table[k]) /\ v[k] = KvSize(table[k])
  BY DEF Exact, Sizes, KvSizes
<1>2. ASSUME NEW k \in T
      PROVE  /\ Size(table[k]) \in Nat /\ KvSize(table[k]) \in Nat
             /\ table[k] # None => KvSize(table[k]) = KvBytes(table[k])
  BY EntrySizes DEF Exact
<1>3. \A k \in T \ R : table[k] = None
  BY DEF Exact, Filled
<1>4. \A k \in T \ R : s[k] = 0 /\ v[k] = 0
  BY <1>1, <1>3 DEF Size, KvSize
<1>5. \A k \in T : s[k] \in Nat /\ v[k] \in Nat
  BY <1>1, <1>2
<1>6. \A k \in R : r[k] = v[k] /\ r[k] \in Nat /\ v[k] \in Nat /\ r[k] <= v[k]
  <2>1. \A k \in R : table[k] # None
    BY DEF Filled
  <2> QED BY <2>1, <1>1, <1>2
<1> HIDE DEF s, v, r, R
<1>7. R \in SUBSET T
  BY DEF R
<1>8. /\ SumFunctionOnSet(s, T) = SumFunctionOnSet(s, R)
      /\ SumFunctionOnSet(v, T) = SumFunctionOnSet(v, R)
  BY <1>4, <1>5, <1>7, SumIgnoresZeros
<1>9. SumFunctionOnSet(r, R) = SumFunctionOnSet(v, R)
  <2>1. IsFiniteSet(R)
    BY <1>7, FS_Subset
  <2> QED BY <2>1, <1>6, SumsCompare
<1> QED BY <1>1, <1>5, <1>8, <1>9 DEF s, v, r, R

(* The keys of a list are finitely many. *)
KeysOf(list) == {list[i] : i \in 1 .. Len(list)}

LEMMA ListIsFinite ==
  ASSUME NEW list \in Seq(Keys)
  PROVE  /\ IsFiniteSet(KeysOf(list)) /\ KeysOf(list) \in SUBSET Keys
         /\ \A x : x \in KeysOf(list) <=> Lists(list, x)
<1>1. Len(list) \in Nat /\ \A i \in 1 .. Len(list) : list[i] \in Keys
  BY LenProperties, ElementOfSeq
<1> DEFINE n == Len(list)
           T == {x \in Nat : x <= n => IsFiniteSet({list[i] : i \in 1 .. x})}
<1>2. 0 \in T
  <2>1. {list[i] : i \in 1 .. 0} = {}
    OBVIOUS
  <2> QED BY <2>1, FS_EmptySet
<1>3. ASSUME NEW x \in Nat, x \in T PROVE x + 1 \in T
  <2>1. SUFFICES ASSUME x + 1 <= n PROVE IsFiniteSet({list[i] : i \in 1 .. (x + 1)})
    OBVIOUS
  <2> DEFINE A == {list[i] : i \in 1 .. x}
             B == {list[i] : i \in 1 .. (x + 1)}
  <2>2. B = A \cup {list[x + 1]}
    <3>1. 1 .. (x + 1) = (1 .. x) \cup {x + 1}
      OBVIOUS
    <3> QED BY <3>1
  <2>3. IsFiniteSet(A)
    BY <1>1, <1>3, <2>1
  <2> HIDE DEF A, B
  <2>4. IsFiniteSet(B)
    BY <2>2, <2>3, FS_AddElement
  <2> QED BY <2>4 DEF B
<1>4. n \in T
  <2> HIDE DEF T
  <2> QED BY <1>1, <1>2, <1>3, CountingUp
<1>5. IsFiniteSet(KeysOf(list))
  BY <1>1, <1>4 DEF KeysOf
<1> QED BY <1>1, <1>5 DEF KeysOf, Lists

LEMMA MinusFacts ==
  ASSUME NEW a \in Nat, NEW b \in Nat
  PROVE  Minus(a, b) \in Nat /\ Minus(a, b) >= a - b /\ (Minus(a, b) = 0 \/ Minus(a, b) = a - b)
         /\ (a <= b => Minus(a, b) = 0)
  BY DEF Minus

(* What an insertion does to the totals and to the count. *)
LEMMA InsertBudget ==
  ASSUME CacheInv, ListInv, NEW k \in Keys, NEW e \in ExactEntries(k), InsertWithKv(k, e),
         used_bytes \in Nat, used_bytes <= SnapshotBytes
  PROVE  /\ used_bytes' \in Nat /\ used_bytes' <= Budget
         /\ used_bytes' <= SnapshotBytes'
         /\ HeldBytes \in Nat /\ HeldBytes' \in Nat
         /\ HeldBytes' - used_bytes' <= HeldBytes - used_bytes + RowOf(e)
<1>1. PICK list, n : Inserted(k, e, list, n)
  BY InsertEffect
<1> DEFINE table == [by_terminal EXCEPT ![k] = e]
           gone == Popped(list, n)
           prior == by_terminal[k]
           used == Minus(used_bytes, Size(prior)) + KvBytes(e)
           freed == Freed(table, list, n)
           T == KeysOf(list)
<1>2. /\ list \in Seq(Keys) /\ Len(list) \in Nat /\ n \in 0 .. Len(list)
      /\ \A x : Lists(list, x) <=> Lists(lru_order, x) \/ x = k
      /\ n = Len(list) \/ Minus(used, freed) <= Budget
      /\ by_terminal' = Without(table, gone)
      /\ used_bytes' = Minus(used, freed)
  BY <1>1 DEF Inserted
<1>3. IsFiniteSet(T) /\ T \in SUBSET Keys /\ k \in T /\ Resident \subseteq T
  BY <1>2, ListIsFinite DEF ListInv
<1>4. gone \in SUBSET T /\ (n = Len(list) => gone = T)
  <2>1. \A i \in (Len(list) - n + 1) .. Len(list) : i \in 1 .. Len(list)
    BY <1>2
  <2>2. n = Len(list) => (Len(list) - n + 1) .. Len(list) = 1 .. Len(list)
    BY <1>2
  <2> QED BY <2>1, <2>2 DEF Popped, KeysOf
<1>5. DOMAIN by_terminal = Keys /\ DOMAIN table = Keys /\ table[k] = e
      /\ \A x \in Keys : x # k => table[x] = by_terminal[x]
  BY DEF CacheInv
<1>6. CacheInv'
  BY InsertKeepsExact
<1>7. /\ DOMAIN by_terminal' = Keys
      /\ \A x \in Keys : by_terminal'[x] = IF x \in gone THEN None ELSE table[x]
  BY <1>2, <1>5 DEF Without
<1>8. Resident' \subseteq T
  <2>1. SUFFICES ASSUME NEW x \in Resident' PROVE x \in T
    OBVIOUS
  <2>2. x \in Keys /\ table[x] # None
    BY <1>7 DEF Resident
  <2>3. x = k \/ x \in Resident
    BY <1>5, <2>2 DEF Resident
  <2> QED BY <1>3, <2>3
<1> HIDE DEF table, gone, T
<1> DEFINE s0 == Sizes(by_terminal)
           s1 == Sizes(table)
           s2 == Sizes(by_terminal')
           v0 == KvSizes(by_terminal)
           v1 == KvSizes(table)
           v2 == KvSizes(by_terminal')
<1>9. /\ HeldBytes = SumFunctionOnSet(s0, T) /\ SnapshotBytes = SumFunctionOnSet(v0, T)
      /\ \A x \in T : /\ s0[x] \in Nat /\ v0[x] \in Nat
                      /\ s0[x] = Size(by_terminal[x]) /\ v0[x] = KvSize(by_terminal[x])
  <2>1. Exact(by_terminal) /\ Filled(by_terminal) = Resident
    BY DEF Exact, CacheInv, Filled, Resident
  <2>2. /\ HeldBytes = SumFunctionOnSet(Sizes(by_terminal), Filled(by_terminal))
        /\ SnapshotBytes = SumFunctionOnSet([x \in Filled(by_terminal) |-> KvBytes(by_terminal[x])],
                                           Filled(by_terminal))
    BY <2>1, Zenon DEF HeldBytes, SnapshotBytes
  <2> QED BY <1>3, <2>1, <2>2, TotalsOver
<1>10. HeldBytes' = SumFunctionOnSet(s2, T) /\ SnapshotBytes' = SumFunctionOnSet(v2, T)
  <2>1. Exact(by_terminal') /\ Filled(by_terminal') = Resident'
    BY <1>6 DEF Exact, CacheInv, Filled, Resident
  <2>2. /\ HeldBytes' = SumFunctionOnSet(Sizes(by_terminal'), Filled(by_terminal'))
        /\ SnapshotBytes' = SumFunctionOnSet([x \in Filled(by_terminal') |-> KvBytes(by_terminal'[x])],
                                            Filled(by_terminal'))
    BY <2>1, Zenon DEF HeldBytes, SnapshotBytes
  <2> QED BY <1>3, <1>8, <2>1, <2>2, TotalsOver
<1>11. /\ \A x \in T : s1[x] = Size(table[x]) /\ v1[x] = KvSize(table[x])
       /\ \A x \in T : s2[x] = Size(by_terminal'[x]) /\ v2[x] = KvSize(by_terminal'[x])
  BY <1>3, <1>5, <1>7 DEF Sizes, KvSizes
<1>12. Size(None) = 0 /\ KvSize(None) = 0
  BY DEF Size, KvSize
<1>13. e # None
  BY EntryIsThere
<1>14. /\ KvBytes(e) \in Nat /\ RowOf(e) \in Nat
       /\ KvSize(e) = KvBytes(e) /\ Size(e) = KvBytes(e) + RowOf(e)
  BY <1>13, EntrySizes
<1>15. \A x \in T : s1[x] \in Nat /\ v1[x] \in Nat /\ v1[x] <= s1[x]
  <2>1. ASSUME NEW x \in T
        PROVE  Size(table[x]) \in Nat /\ KvSize(table[x]) \in Nat /\ KvSize(table[x]) <= Size(table[x])
    <3>1. x \in Keys
      BY <1>3
    <3>2. table[x] = None \/ table[x] \in ExactEntries(x)
      BY <1>5, <3>1 DEF CacheInv
    <3> QED BY <3>1, <3>2, EntrySizes
  <2> QED BY <1>11, <2>1
<1>16. /\ \A x \in T : x # k => s1[x] = s0[x] /\ v1[x] = v0[x]
       /\ s1[k] = KvBytes(e) + RowOf(e) /\ v1[k] = KvBytes(e)
       /\ s0[k] = Size(prior) /\ v0[k] = KvSize(prior)
  BY <1>3, <1>5, <1>9, <1>11, <1>14
<1>17. \A x \in T : /\ s2[x] = IF x \in gone THEN 0 ELSE s1[x]
                    /\ v2[x] = IF x \in gone THEN 0 ELSE v1[x]
  <2>1. \A x \in T : by_terminal'[x] = IF x \in gone THEN None ELSE table[x]
    BY <1>3, <1>7
  <2> QED BY <2>1, <1>11, <1>12
<1>18. freed = SumFunctionOnSet(s1, gone)
  BY DEF Freed, gone
<1> DEFINE frees == SumFunctionOnSet(s1, gone)
           kvs == SumFunctionOnSet(v1, gone)
<1>19. Size(prior) \in Nat /\ KvSize(prior) \in Nat /\ KvSize(prior) <= Size(prior)
  BY EntrySizes DEF CacheInv
<1> HIDE DEF s0, s1, s2, v0, v1, v2, prior, freed
<1>20. /\ SumFunctionOnSet(s2, T) + frees + s0[k] = SumFunctionOnSet(s0, T) + s1[k]
       /\ frees \in Nat /\ SumFunctionOnSet(s0, T) \in Nat /\ SumFunctionOnSet(s2, T) \in Nat
  <2>1. Changes(s0, s1, s2, k, gone, T)
    BY <1>9, <1>15, <1>16, <1>17 DEF Changes
  <2> QED BY <1>3, <1>4, <2>1, SumsChange
<1>21. /\ SumFunctionOnSet(v2, T) + kvs + v0[k] = SumFunctionOnSet(v0, T) + v1[k]
       /\ kvs \in Nat /\ SumFunctionOnSet(v0, T) \in Nat /\ SumFunctionOnSet(v2, T) \in Nat
       /\ v0[k] <= SumFunctionOnSet(v0, T)
  <2>1. Changes(v0, v1, v2, k, gone, T)
    BY <1>9, <1>15, <1>16, <1>17 DEF Changes
  <2> QED BY <1>3, <1>4, <2>1, SumsChange
<1>22. kvs <= frees
  <2>1. IsFiniteSet(gone) /\ \A x \in gone : v1[x] \in Nat /\ s1[x] \in Nat /\ v1[x] <= s1[x]
    BY <1>3, <1>4, <1>15, FS_Subset
  <2> QED BY <2>1, SumsCompare
<1>23. n = Len(list) => SumFunctionOnSet(v2, T) = 0
  <2>1. ASSUME n = Len(list) PROVE \A x \in T : v2[x] = 0
    BY <2>1, <1>4, <1>17
  <2> QED BY <2>1, <1>3, SumOfZeros
<1> HIDE DEF frees, kvs
<1>24. /\ used_bytes' = Minus(used, frees)
       /\ n = Len(list) \/ Minus(used, frees) <= Budget
  BY <1>2, <1>18 DEF frees
<1>25. /\ Minus(used_bytes, Size(prior)) \in Nat
       /\ Minus(used_bytes, Size(prior)) >= used_bytes - Size(prior)
       /\ \/ Minus(used_bytes, Size(prior)) = 0
          \/ Minus(used_bytes, Size(prior)) = used_bytes - Size(prior)
  BY <1>19, MinusFacts
<1> DEFINE m == Minus(used_bytes, Size(prior))
           S0 == SumFunctionOnSet(s0, T)
           S2 == SumFunctionOnSet(s2, T)
           V0 == SumFunctionOnSet(v0, T)
           V2 == SumFunctionOnSet(v2, T)
           kv == KvBytes(e)
           row == RowOf(e)
           p == Size(prior)
           q == KvSize(prior)
<1>26. /\ S2 + frees + p = S0 + kv + row /\ V2 + kvs + q = V0 + kv
       /\ frees \in Nat /\ kvs \in Nat /\ S0 \in Nat /\ S2 \in Nat /\ V0 \in Nat /\ V2 \in Nat
       /\ kv \in Nat /\ row \in Nat /\ p \in Nat /\ q \in Nat /\ q <= p /\ kvs <= frees /\ q <= V0
       /\ m \in Nat /\ m >= used_bytes - p /\ (m = 0 \/ m = used_bytes - p)
       /\ used_bytes <= V0 /\ used = m + kv
       /\ n = Len(list) => V2 = 0
  BY <1>9, <1>14, <1>16, <1>19, <1>20, <1>21, <1>22, <1>23, <1>25
<1>27. HeldBytes = S0 /\ HeldBytes' = S2 /\ SnapshotBytes' = V2
  BY <1>9, <1>10
<1> HIDE DEF m, S0, S2, V0, V2, kv, row, p, q, used
<1>28. used \in Nat /\ used <= V0 - q + kv /\ used >= used_bytes - p + kv
  BY <1>26
<1>29. /\ Minus(used, frees) \in Nat /\ Minus(used, frees) >= used - frees
       /\ Minus(used, frees) = 0 \/ Minus(used, frees) = used - frees
  BY <1>26, <1>28, MinusFacts
<1> DEFINE u == Minus(used, frees)
<1> HIDE DEF u
<1>30. /\ used_bytes' = u /\ u \in Nat /\ u >= used - frees /\ (u = 0 \/ u = used - frees)
       /\ n = Len(list) \/ u <= Budget
  BY <1>24, <1>29 DEF u
<1>31. u <= V2
  BY <1>26, <1>28, <1>30
<1>32. u <= Budget
  <2>1. Budget \in Nat
    BY CacheAssumption
  <2> QED BY <2>1, <1>26, <1>30, <1>31
<1>33. S2 - u <= S0 - used_bytes + row
  BY <1>26, <1>28, <1>30
<1> QED BY <1>26, <1>27, <1>30, <1>31, <1>32, <1>33 DEF row

LEMMA PendingFacts ==
  IsFiniteSet(Pending) /\ Cardinality(Pending) \in Nat
<1>1. Pending \subseteq Handlers
  BY DEF Pending
<1>2. IsFiniteSet(Pending)
  BY <1>1, FS_Subset, AdmissionAssumption
<1> QED BY <1>2, FS_CardinalityType

LEMMA FewerPending ==
  ASSUME NEW A, NEW B, IsFiniteSet(A), B \subseteq A
  PROVE  Cardinality(B) \in Nat /\ Cardinality(B) <= Cardinality(A)
<1>1. IsFiniteSet(B) /\ Cardinality(B) <= Cardinality(A)
  BY FS_Subset
<1> QED BY <1>1, FS_CardinalityType

LEMMA OneMorePending ==
  ASSUME NEW A, NEW B, NEW h, IsFiniteSet(A), B \subseteq A \cup {h}
  PROVE  Cardinality(B) \in Nat /\ Cardinality(B) <= Cardinality(A) + 1
<1>1. /\ IsFiniteSet(A \cup {h}) /\ Cardinality(A) \in Nat
      /\ Cardinality(A \cup {h}) = IF h \in A THEN Cardinality(A) ELSE Cardinality(A) + 1
  BY FS_AddElement, FS_CardinalityType
<1>2. Cardinality(B) \in Nat /\ Cardinality(B) <= Cardinality(A \cup {h})
  BY <1>1, FewerPending
<1> QED BY <1>1, <1>2

LEMMA OneLessPending ==
  ASSUME NEW A, NEW B, NEW h \in A, IsFiniteSet(A), B \subseteq A \ {h}
  PROVE  Cardinality(B) \in Nat /\ Cardinality(B) + 1 <= Cardinality(A)
<1>1. /\ IsFiniteSet(A \ {h}) /\ Cardinality(A) \in Nat
      /\ Cardinality(A \ {h}) = Cardinality(A) - 1
  BY FS_RemoveElement, FS_CardinalityType
<1>2. Cardinality(B) \in Nat /\ Cardinality(B) <= Cardinality(A \ {h})
  BY <1>1, FewerPending
<1> QED BY <1>1, <1>2

(* One row fewer to come pays for one row more held. *)
LEMMA RowsPaidFor ==
  ASSUME NEW l \in Nat, NEW held \in Nat, NEW used \in Nat, NEW s \in Nat, NEW c \in Nat,
         held + l * c <= used + l * s,
         NEW held2 \in Nat, NEW used2 \in Nat, NEW s2 \in Nat, NEW c2 \in Nat, NEW row \in {0, l},
         held2 - used2 <= held - used + row,
         \/ row = 0 /\ s2 = s /\ c2 <= c
         \/ row = 0 /\ s2 = s + 1 /\ c2 <= c + 1
         \/ s2 = s /\ c2 + 1 <= c
  PROVE  held2 + l * c2 <= used2 + l * s2
<1>1. CASE row = 0 /\ s2 = s /\ c2 <= c
  <2>1. l * c2 <= l * c
    BY <1>1
  <2> QED BY <1>1, <2>1
<1>2. CASE row = 0 /\ s2 = s + 1 /\ c2 <= c + 1
  <2>1. l * c2 <= l * (c + 1) /\ l * (c + 1) = l * c + l /\ l * s2 = l * s + l
    BY <1>2
  <2> QED BY <1>2, <2>1
<1>3. CASE s2 = s /\ c2 + 1 <= c
  <2>1. l * (c2 + 1) <= l * c /\ l * (c2 + 1) = l * c2 + l
    BY <1>3
  <2> QED BY <1>3, <2>1
<1> QED BY <1>1, <1>2, <1>3

(* A step that adds no entry: no request is lost sight of before it is over.  *)
LEMMA PendingStays ==
  ASSUME BudgetInv, by_terminal' = by_terminal, used_bytes' = used_bytes,
         \/ sent' = sent /\ Pending' \subseteq Pending
         \/ sent' = sent + 1 /\ \E h \in Handlers : Pending' \subseteq Pending \cup {h}
  PROVE  BudgetInv'
<1> DEFINE c == Cardinality(Pending)
           d == Cardinality(Pending')
           b == HeldBytes
<1>1. c \in Nat /\ IsFiniteSet(Pending)
  BY PendingFacts
<1>2. d \in Nat /\ (\/ sent' = sent /\ d <= c
                    \/ sent' = sent + 1 /\ d <= c + 1)
  BY <1>1, FewerPending, OneMorePending
<1>3. HeldBytes' = b /\ SnapshotBytes' = SnapshotBytes
  BY DEF HeldBytes, SnapshotBytes, Resident
<1>4. /\ LogitBytes \in Nat /\ sent \in Nat /\ used_bytes \in Nat /\ b \in Nat
      /\ b + LogitBytes * c <= used_bytes + LogitBytes * sent
  BY CacheAssumption DEF BudgetInv
<1> HIDE DEF c, d, b
<1>5. sent' \in Nat /\ b - used_bytes <= b - used_bytes + 0 /\ 0 \in {0, LogitBytes}
  BY <1>2, <1>4
<1>6. b + LogitBytes * d <= used_bytes + LogitBytes * sent'
  BY <1>1, <1>2, <1>4, <1>5, RowsPaidFor
<1> QED BY <1>3, <1>4, <1>5, <1>6 DEF BudgetInv, d

(* A step that adds one: with a row, it is its request's last. *)
LEMMA PendingInserts ==
  ASSUME BudgetInv, CacheInv, ListInv, NEW k \in Keys, NEW e \in ExactEntries(k),
         InsertWithKv(k, e), sent' = sent,
         \/ RowOf(e) = 0 /\ Pending' \subseteq Pending
         \/ \E h \in Pending : Pending' \subseteq Pending \ {h}
  PROVE  BudgetInv'
<1> DEFINE c == Cardinality(Pending)
           d == Cardinality(Pending')
           row == RowOf(e)
           b == HeldBytes
           b2 == HeldBytes'
<1>1. c \in Nat /\ IsFiniteSet(Pending)
  BY PendingFacts
<1>2. d \in Nat /\ ((row = 0 /\ d <= c) \/ d + 1 <= c)
  BY <1>1, FewerPending, OneLessPending
<1>3. /\ used_bytes' \in Nat /\ used_bytes' <= Budget
      /\ used_bytes' <= SnapshotBytes'
      /\ b2 \in Nat /\ b2 - used_bytes' <= b - used_bytes + row
  BY InsertBudget DEF BudgetInv
<1>4. /\ LogitBytes \in Nat /\ sent \in Nat /\ used_bytes \in Nat /\ b \in Nat
      /\ b + LogitBytes * c <= used_bytes + LogitBytes * sent
  BY CacheAssumption DEF BudgetInv
<1>5. row \in {0, LogitBytes}
  BY DEF RowOf
<1> HIDE DEF c, d, row, b, b2
<1>6. b2 + LogitBytes * d <= used_bytes' + LogitBytes * sent'
  BY <1>1, <1>2, <1>3, <1>4, <1>5, RowsPaidFor
<1>7. sent' \in Nat
  BY <1>4
<1> QED BY <1>3, <1>6, <1>7 DEF BudgetInv, d, b2

(* Whose row is still to come, after a thread's step. *)
IsPending(j) == j.pc \notin {"none", "over", "decode"}

LEMMA GoesPending ==
  ASSUME JobsInv, NEW h \in Handlers, NEW j, Goes(h, j)
  PROVE  /\ IsPending(j) => Pending' \subseteq Pending \cup {h}
         /\ ~ IsPending(j) => Pending' \subseteq Pending \ {h}
<1>1. \A g \in Handlers : job'[g] = IF g = h THEN j ELSE job[g]
  BY DEF JobsInv, Goes
<1> QED BY <1>1 DEF Pending, IsPending

LEMMA EndsPending ==
  ASSUME JobsInv, NEW h \in Handlers, Ends(h)
  PROVE  Pending' \subseteq Pending \ {h}
<1>1. \/ Goes(h, NoJob)
      \/ Goes(h, [NoJob EXCEPT !.pc = "over"])
  BY DEF Ends
<1>2. ~ IsPending(NoJob) /\ ~ IsPending([NoJob EXCEPT !.pc = "over"])
  BY DEF IsPending, NoJob
<1> QED BY <1>1, <1>2, GoesPending

(* The steps before a request's row is taken keep it pending or end it. *)
LEMMA QuietKeepsPending ==
  ASSUME PathInv, NEW h \in Handlers,
         Claim(h) \/ TakeLogits(h) \/ Restore(h) \/ TouchHit(h) \/ EmitFirstToken(h) \/ Decode(h)
  PROVE  /\ Pending' \subseteq Pending
         /\ UNCHANGED <<by_terminal, used_bytes, sent>>
<1>1. JobsInv
  BY DEF PathInv
<1>2. UNCHANGED <<by_terminal, used_bytes, sent>>
  BY DEF Claim, TakeLogits, Restore, TouchHit, EmitFirstToken, Decode, cacheVars, Touch
<1>3. CASE Decode(h)
  BY <1>1, <1>2, <1>3, EndsPending DEF Decode
<1>4. CASE Claim(h) \/ TakeLogits(h) \/ Restore(h) \/ TouchHit(h) \/ EmitFirstToken(h)
  <2>1. h \in Pending
    BY <1>4 DEF Claim, TakeLogits, Restore, TouchHit, EmitFirstToken, Pending
  <2>2. Ends(h) \/ \E j : Goes(h, j)
    BY <1>4, Zenon DEF Claim, TakeLogits, Restore, TouchHit, EmitFirstToken
  <2>3. Pending' \subseteq Pending
    <3>1. CASE Ends(h)
      BY <1>1, <3>1, EndsPending
    <3>2. CASE \E j : Goes(h, j)
      BY <1>1, <2>1, <3>2, GoesPending
    <3> QED BY <2>2, <3>1, <3>2
  <2> QED BY <1>2, <2>3
<1> QED BY <1>2, <1>3, <1>4

LEMMA HandlerKeepsPending ==
  ASSUME PathInv, NEW h \in Handlers,
         Asks(h) \/ Refused(h) \/ Dispatch(h) \/ Returns(h)
  PROVE  /\ UNCHANGED <<by_terminal, used_bytes>>
         /\ \/ sent' = sent /\ Pending' \subseteq Pending
            \/ sent' = sent + 1 /\ Pending' \subseteq Pending \cup {h}
<1>1. JobsInv
  BY DEF PathInv
<1>2. UNCHANGED <<by_terminal, used_bytes>>
  BY DEF Asks, Refused, Dispatch, Returns, cacheVars
<1>3. CASE Asks(h) \/ Refused(h)
  BY <1>2, <1>3 DEF Asks, Refused, Pending
<1>4. CASE Dispatch(h)
  BY <1>1, <1>2, <1>4, GoesPending DEF Dispatch
<1>5. CASE Returns(h)
  <2> DEFINE j == IF job[h].pc = "over" THEN NoJob ELSE job[h]
  <2>1. sent' = sent /\ Goes(h, j)
    BY <1>5 DEF Returns, Goes
  <2>2. CASE job[h].pc = "over"
    <3>1. ~ IsPending(j)
      BY <2>2 DEF NoJob, IsPending
    <3> HIDE DEF j
    <3>2. Pending' \subseteq Pending
      BY <1>1, <2>1, <3>1, GoesPending
    <3> QED BY <1>2, <2>1, <3>2
  <2>3. CASE job[h].pc # "over"
    <3>1. IsPending(j) => h \in Pending
      BY <2>3 DEF IsPending, Pending
    <3> HIDE DEF j
    <3>2. Pending' \subseteq Pending
      BY <1>1, <2>1, <3>1, GoesPending
    <3> QED BY <1>2, <2>1, <3>2
  <2> QED BY <2>1, <2>2, <2>3
<1> QED BY <1>2, <1>3, <1>4, <1>5

LEMMA PrefillBudget ==
  ASSUME PathInv, ListInv, BudgetInv, NEW h \in Handlers, PrefillChunk(h)
  PROVE  BudgetInv'
<1> DEFINE j == job[h]
           k == Prefix(j.prompt, j.at)
           e == Entry(h, j.at, None)
<1>1. /\ j \in Jobs /\ Stands(j) /\ j.pc = "prefill" /\ sent' = sent
      /\ Ends(h) \/ \E i : Goes(h, i)
      /\ UNCHANGED cacheVars \/ (j.at > j.restored /\ InsertWithKv(k, e))
  <2>1. j \in Jobs /\ Stands(j) /\ j.pc = "prefill" /\ sent' = sent
    BY DEF PathInv, JobsInv, PrefillChunk
  <2>2. Ends(h) \/ \E i : Goes(h, i)
    BY Zenon DEF PrefillChunk
  <2>3. UNCHANGED cacheVars \/ (j.at > j.restored /\ InsertWithKv(k, e))
    BY DEF PrefillChunk, InsertIntermediate
  <2> QED BY <2>1, <2>2, <2>3
<1>2. /\ j.prompt \in Prompts /\ j.at \in Nat /\ j.restored \in Nat
      /\ j.at < Len(j.prompt) /\ j.fed = k
  BY <1>1 DEF Stands, Pcs, Working, Jobs
<1>3. Pending' \subseteq Pending
  <2>1. h \in Pending /\ JobsInv
    BY <1>1 DEF Pending, PathInv
  <2> QED BY <1>1, <2>1, EndsPending, GoesPending
<1>4. CASE UNCHANGED cacheVars
  BY <1>1, <1>3, <1>4, PendingStays DEF cacheVars
<1>5. CASE j.at > j.restored /\ InsertWithKv(k, e)
  <2>1. j.at \in 1 .. Len(j.prompt)
    BY <1>2, <1>5, PromptIsSeq
  <2>2. k \in Keys /\ e \in ExactEntries(k)
    BY <2>1, <1>2, EntryIsExact
  <2>3. RowOf(e) = 0
    BY DEF RowOf, Entry
  <2> HIDE DEF k, e
  <2> QED BY <1>1, <1>3, <1>5, <2>2, <2>3, PendingInserts DEF PathInv
<1> QED BY <1>1, <1>4, <1>5

LEMMA CaptureBudget ==
  ASSUME PathInv, ListInv, BudgetInv, NEW h \in Handlers, FirstToken(h) \/ CaptureCopy(h)
  PROVE  BudgetInv'
<1> DEFINE j == job[h]
           p == j.prompt
           e == Entry(h, Len(p), Row(p, FALSE))
<1>1. j \in Jobs /\ Stands(j) /\ j.pc \in {"prefilled", "capture"} /\ sent' = sent
  BY DEF PathInv, JobsInv, FirstToken, CaptureCopy
<1>2. p \in Prompts /\ j.fed = p
  BY <1>1 DEF Stands, Pcs, Working
<1>3. UNCHANGED cacheVars \/ InsertWithKv(p, e)
  <2>1. CASE FirstToken(h)
    <3>1. j.buf = Row(p, FALSE)
      BY <1>1, <2>1 DEF Stands, Pcs, Working, FirstToken
    <3> QED BY <2>1, <3>1 DEF FirstToken, CaptureFull
  <2>2. CASE CaptureCopy(h)
    <3>1. j.cached \/ j.copy = Row(p, FALSE)
      BY <1>1, <2>2 DEF Stands, Pcs, Working, CaptureCopy
    <3> QED BY <2>2, <3>1 DEF CaptureCopy, CaptureFull
  <2> QED BY <2>1, <2>2
<1>4. h \in Pending /\ Pending' \subseteq Pending \ {h}
  <2>1. h \in Pending /\ JobsInv
    BY <1>1 DEF Pending, PathInv
  <2>2. PICK i : Goes(h, i) /\ i.pc = "decode"
    <3>1. CASE FirstToken(h)
      <4>1. Goes(h, [j EXCEPT !.buf = Masked(@), !.pc = "decode"])
        BY <3>1 DEF FirstToken
      <4>2. [j EXCEPT !.buf = Masked(@), !.pc = "decode"].pc = "decode"
        BY <1>1 DEF Jobs
      <4> QED BY <4>1, <4>2
    <3>2. CASE CaptureCopy(h)
      <4>1. Goes(h, [j EXCEPT !.copy = None, !.pc = "decode"])
        BY <3>2 DEF CaptureCopy
      <4>2. [j EXCEPT !.copy = None, !.pc = "decode"].pc = "decode"
        BY <1>1 DEF Jobs
      <4> QED BY <4>1, <4>2
    <3> QED BY <3>1, <3>2
  <2>3. ~ IsPending(i)
    BY <2>2 DEF IsPending
  <2> QED BY <2>1, <2>2, <2>3, GoesPending
<1>5. CASE UNCHANGED cacheVars
  BY <1>1, <1>4, <1>5, PendingStays DEF cacheVars
<1>6. CASE InsertWithKv(p, e)
  <2>1. Len(p) \in 1 .. Len(p) /\ Prefix(p, Len(p)) = p
    BY <1>2, PromptIsKey, PromptIsSeq
  <2>2. p \in Keys /\ e \in ExactEntries(p)
    BY <1>2, <2>1, EntryIsExact, Zenon
  <2> HIDE DEF p, e
  <2> QED BY <1>1, <1>4, <1>6, <2>2, PendingInserts DEF PathInv
<1> QED BY <1>3, <1>5, <1>6

LEMMA BudgetInductive ==
  PathInv /\ ListInv /\ BudgetInv /\ [Next]_vars => BudgetInv'
<1>1. SUFFICES ASSUME PathInv, ListInv, BudgetInv, [Next]_vars PROVE BudgetInv'
  OBVIOUS
<1>2. CASE UNCHANGED vars
  <2>1. sent' = sent /\ Pending' = Pending
    BY <1>2 DEF vars, Pending
  <2> QED BY <1>1, <1>2, <2>1, PendingStays DEF vars, cacheVars
<1>3. ASSUME NEW h \in Handlers, PrefillChunk(h) PROVE BudgetInv'
  BY <1>1, <1>3, PrefillBudget
<1>4. ASSUME NEW h \in Handlers, FirstToken(h) \/ CaptureCopy(h) PROVE BudgetInv'
  BY <1>1, <1>4, CaptureBudget
<1>5. ASSUME NEW h \in Handlers, Asks(h) \/ Refused(h) \/ Dispatch(h) \/ Returns(h) PROVE BudgetInv'
  <2>1. UNCHANGED <<by_terminal, used_bytes>>
        /\ (\/ sent' = sent /\ Pending' \subseteq Pending
            \/ sent' = sent + 1 /\ Pending' \subseteq Pending \cup {h})
    BY <1>1, <1>5, HandlerKeepsPending
  <2> QED BY <1>1, <2>1, PendingStays
<1>6. ASSUME NEW h \in Handlers,
             \/ Claim(h) \/ TakeLogits(h) \/ Restore(h) \/ TouchHit(h)
             \/ EmitFirstToken(h) \/ Decode(h)
      PROVE BudgetInv'
  BY <1>1, <1>6, QuietKeepsPending, PendingStays
<1> QED BY <1>1, <1>2, <1>3, <1>4, <1>5, <1>6 DEF Next

LEMMA BudgetInitially == Init => BudgetInv
<1>1. SUFFICES ASSUME Init PROVE BudgetInv
  OBVIOUS
<1>2. Resident = {} /\ Pending = {} /\ used_bytes = 0 /\ sent = 0
  BY <1>1 DEF Init, CacheInit, Resident, Pending, NoJob
<1>3. HeldBytes = 0 /\ SnapshotBytes = 0
  BY <1>2, SumOfNone DEF HeldBytes, SnapshotBytes
<1>4. Cardinality(Pending) = 0
  BY <1>2, FS_EmptySet
<1>5. Budget \in Nat /\ LogitBytes \in Nat
  BY CacheAssumption
<1> QED BY <1>2, <1>3, <1>4, <1>5 DEF BudgetInv

(* The snapshots take no more than the entries. *)
LEMMA SnapshotsAreHeld ==
  ASSUME CacheInv, ListInv
  PROVE  SnapshotBytes \in Nat /\ SnapshotBytes <= HeldBytes
<1> DEFINE T == KeysOf(lru_order)
           s == Sizes(by_terminal)
           v == KvSizes(by_terminal)
<1>1. IsFiniteSet(T) /\ T \in SUBSET Keys /\ Resident \subseteq T
  BY ListIsFinite DEF ListInv
<1>2. Exact(by_terminal) /\ Filled(by_terminal) = Resident
  BY DEF Exact, CacheInv, Filled, Resident
<1> HIDE DEF T
<1>3. /\ HeldBytes = SumFunctionOnSet(s, T) /\ SnapshotBytes = SumFunctionOnSet(v, T)
      /\ \A x \in T : /\ s[x] \in Nat /\ v[x] \in Nat
                      /\ s[x] = Size(by_terminal[x]) /\ v[x] = KvSize(by_terminal[x])
  <2>1. /\ HeldBytes = SumFunctionOnSet(Sizes(by_terminal), Filled(by_terminal))
        /\ SnapshotBytes = SumFunctionOnSet([x \in Filled(by_terminal) |-> KvBytes(by_terminal[x])],
                                           Filled(by_terminal))
    BY <1>2, Zenon DEF HeldBytes, SnapshotBytes
  <2> QED BY <1>1, <1>2, <2>1, TotalsOver
<1>4. \A x \in T : v[x] <= s[x]
  <2>1. ASSUME NEW x \in T PROVE KvSize(by_terminal[x]) <= Size(by_terminal[x])
    <3>1. x \in Keys
      BY <1>1
    <3>2. by_terminal[x] = None \/ by_terminal[x] \in ExactEntries(x)
      BY <3>1 DEF CacheInv
    <3> QED BY <3>1, <3>2, EntrySizes
  <2> QED BY <1>3, <2>1
<1> HIDE DEF s, v
<1>5. SumFunctionOnSet(v, T) <= SumFunctionOnSet(s, T)
  BY <1>1, <1>3, <1>4, SumsCompare
<1>6. SumFunctionOnSet(v, T) \in Nat
  BY <1>1, <1>3, SumIsNat
<1> QED BY <1>3, <1>5, <1>6

(* The bytes the snapshots take outgrow the budget by at most one row of       *)
(* logits per completion there has been, for every budget, chunk size, cap,    *)
(* slot count and set of prompts: insert_with_kv takes the row of a full entry *)
(* off the count though it never added it, each request captures one such      *)
(* entry at most, and the count, though short, never exceeds the budget or     *)
(* what is held.                                                               *)
THEOREM BudgetHoldsUpToLostRows == Spec => []BudgetUpToLostRows
<1>1. CacheInv /\ ListInv /\ BudgetInv => BudgetUpToLostRows
  <2>1. SUFFICES ASSUME CacheInv, ListInv, BudgetInv PROVE BudgetUpToLostRows
    OBVIOUS
  <2> DEFINE c == Cardinality(Pending)
             l == LogitBytes * sent
  <2>2. c \in Nat /\ LogitBytes \in Nat /\ sent \in Nat /\ used_bytes \in Nat
    BY <2>1, PendingFacts, CacheAssumption DEF BudgetInv
  <2>3. LogitBytes * c \in Nat /\ l \in Nat
    BY <2>2
  <2>4. /\ HeldBytes + LogitBytes * c <= used_bytes + l /\ HeldBytes \in Nat
        /\ SnapshotBytes \in Nat /\ SnapshotBytes <= HeldBytes
    BY <2>1, SnapshotsAreHeld DEF BudgetInv
  <2> HIDE DEF c, l
  <2>5. SnapshotBytes <= used_bytes + l
    BY <2>2, <2>3, <2>4
  <2> QED BY <2>1, <2>5 DEF BudgetUpToLostRows, BudgetInv, l
<1>2. Spec => []BudgetInv
  BY BudgetInitially, BudgetInductive, ListInvariant, PathInvariant, PTL DEF Spec
<1>3. PathInv => CacheInv
  BY DEF PathInv
<1> QED BY <1>1, <1>2, <1>3, ListInvariant, PathInvariant, PTL
=============================================================================
