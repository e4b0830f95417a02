----------------------------- MODULE RequestPath -----------------------------
(***************************************************************************)
(* A completion request from the HTTP handler to its first tokens: the     *)
(* handler is admitted, hands the request to a generation thread, and the  *)
(* thread claims a slot, restores what the prefix cache has of the prompt, *)
(* prefills the rest in chunks, captures the slot's state and decodes.     *)
(* Composes Admission and PrefixCache.                                     *)
(*                                                                         *)
(* A slot is claimed by one thread at a time (module Scheduler), so its    *)
(* state is kept with the thread's job, the tokens it was fed standing for *)
(* KV rows and recurrent state, and what a thread does to its slot between *)
(* two uses of the cache is one step with the first of them.               *)
(***************************************************************************)
EXTENDS Admission, PrefixCache

CONSTANTS
    MinCapture,   \* MIN_CAPTURE_TOKENS
    MaxRequests   \* bound: completions the clients send in all

Logits == [of : Seq(Nat), masked : BOOLEAN]

ASSUME PathAssumption ==
    /\ None \notin Keys
    /\ None \notin Logits
    /\ None \notin [n_tokens : Nat, kv : Seq(Nat), last_logits : {None} \cup Logits]
    /\ MinCapture \in Nat
    /\ MaxRequests \in Nat

VARIABLES
    sent,    \* completions sent so far
    job      \* the generation thread of each handler's request

vars == <<in_flight, guard, by_terminal, lru_order, used_bytes, sent, job>>

Garbage == 0
Torn == <<Garbage>>     \* the state of a slot before a reset, or after a failure

\* No request: what a handler's job is before and after it.
NoJob == [pc |-> "none", stream |-> FALSE, prompt |-> <<>>, fed |-> Torn,
          hit |-> None, restored |-> 0, at |-> 0, buf |-> None, copy |-> None,
          cached |-> FALSE]

Init ==
    /\ AdmissionInit
    /\ CacheInit
    /\ sent = 0
    /\ job = [h \in Handlers |-> NoJob]

Goes(h, j) == job' = [job EXCEPT ![h] = j]
\* The thread is over; its handler may still hold the guard.
Ends(h) == Goes(h, IF guard[h] = "none" THEN NoJob ELSE [NoJob EXCEPT !.pc = "over"])

-----------------------------------------------------------------------------
(* The handler: try_admit, the request's thread, the guard's drop.         *)

\* chat_completions, messages, completions, infill and embeddings begin with
\* try_admit.
Asks(h) ==
    /\ job[h].pc = "none"
    /\ TryAdmit(h)
    /\ UNCHANGED <<cacheVars, sent, job>>

Refused(h) ==
    /\ RollBack(h)
    /\ UNCHANGED <<cacheVars, sent, job>>

\* spawn_blocking of the generation.
Dispatch(h) ==
    /\ h \in Admitted
    /\ job[h].pc = "none"
    /\ sent < MaxRequests
    /\ sent' = sent + 1
    /\ Goes(h, [NoJob EXCEPT !.pc = "claim"])
    /\ UNCHANGED <<admissionVars, cacheVars>>

\* The handler returns or is dropped: at once for a bad request and for a
\* streamed response, whose thread goes on, at the end of the generation for
\* the others, or at any time when the client disconnects.  The thread never
\* looks at the guard, so a drop commutes with its steps: the one before its
\* first step stands for any drop during its run.
Returns(h) ==
    /\ job[h].pc \in {"none", "claim", "over"}
    /\ DropGuardOf(h)
    /\ job' = [job EXCEPT ![h] = IF @.pc = "over" THEN NoJob ELSE @]
    /\ UNCHANGED <<cacheVars, sent>>

-----------------------------------------------------------------------------
(* The generation thread.                                                  *)

Holds(h) == job[h].pc \notin {"none", "claim", "over"}

\* Where the chunk that starts at a position ends.
ChunkEndAfter(p, at) == IF at + ChunkTokens < Len(p) THEN at + ChunkTokens ELSE Len(p)

\* The request's prompt and mode, which nothing read before, are chosen here:
\* claim_slot_blocking, then chunked_prefill_pp's first lock scope up to
\* longest_match: reset the slot (which may fail and end the request) and
\* look the prompt up.
Claim(h) ==
    /\ job[h].pc = "claim"
    /\ Cardinality({g \in Handlers : Holds(g)}) < Cardinality(Slots)
    /\ \/ Ends(h)
       \/ \E p \in Prompts, st \in BOOLEAN :
             LET k == LongestMatch(p)
             IN  Goes(h, [NoJob EXCEPT
                        !.prompt = p, !.stream = st, !.fed = <<>>, !.hit = k,
                        !.pc = IF k = None THEN "prefill"
                               ELSE IF Len(k) = Len(p) THEN "logits" ELSE "restore"])
    /\ UNCHANGED <<admissionVars, cacheVars, sent>>

\* logits_for after a match of the whole prompt; without a row it is a miss.
TakeLogits(h) ==
    /\ job[h].pc = "logits"
    /\ LET row == LogitsFor(job[h].hit)
       IN  Goes(h, [job[h] EXCEPT
                  !.buf = row, !.pc = IF row = None THEN "prefill" ELSE "restore"])
    /\ UNCHANGED <<admissionVars, cacheVars, sent>>

\* A restore failure that goes on to prefill without the reset.
RestoreNoReset(h) ==
    /\ job[h].pc = "restore"
    /\ LET kv == SnapshotFor(job[h].hit)
       IN  \/ Goes(h, [job[h] EXCEPT !.fed = IF kv = None THEN <<>> ELSE Torn,
                                     !.buf = None, !.pc = "prefill"])
           \/ kv # None /\ Goes(h, [job[h] EXCEPT !.fed = kv, !.pc = "touch"])
    /\ UNCHANGED <<admissionVars, cacheVars, sent>>

\* snapshot_for and restore_slot.  An entry gone since the match is a miss; a
\* restore that fails is one after another reset, which may fail as well.
Restore(h) ==
    /\ job[h].pc = "restore"
    /\ LET kv == SnapshotFor(job[h].hit)
       IN  \/ Goes(h, [job[h] EXCEPT !.fed = <<>>, !.buf = None, !.pc = "prefill"])
           \/ kv # None /\ Goes(h, [job[h] EXCEPT !.fed = kv, !.pc = "touch"])
           \/ kv # None /\ Ends(h)
    /\ UNCHANGED <<admissionVars, cacheVars, sent>>

\* touch, and the outcome of prefix_cache_try_restore: a full hit has its row
\* and prefills nothing, a prefix hit starts the prefill where it ends.
TouchHit(h) ==
    /\ job[h].pc = "touch"
    /\ Touch(job[h].hit)
    /\ LET n == Len(job[h].hit)
       IN  IF job[h].buf # None
             THEN Goes(h, [job[h] EXCEPT !.pc = "prefilled", !.cached = TRUE])
             ELSE Goes(h, [job[h] EXCEPT !.pc = "prefill", !.at = n, !.restored = n])
    /\ UNCHANGED <<admissionVars, sent>>

\* capture_boundaries: the last two chunk boundaries inside the prompt.
CaptureBoundaries(p) ==
    LET inside == {n \in ChunkEnds(p) : n < Len(p)}
    IN  {n \in inside : Cardinality({m \in inside : m > n}) < 2}

\* A cache entry of the thread's slot after n tokens of its prompt.
Entry(h, n, row) == [n_tokens |-> n, kv |-> job[h].fed, last_logits |-> row]

\* prefix_cache_insert_intermediate: a snapshot that fails skips the entry.
InsertIntermediate(h, n) ==
    \/ UNCHANGED cacheVars
    \/ InsertWithKv(Prefix(job[h].prompt, n), Entry(h, n, None))

\* One chunk of chunked_prefill_pp: the capture of the boundary it starts at,
\* unless that is the restored one, and the forward, which may fail and end
\* the request.
PrefillChunk(h) ==
    LET j   == job[h]
        end == ChunkEndAfter(j.prompt, j.at)
        now == j.fed \o SubSeq(j.prompt, j.at + 1, end)
    IN  /\ j.pc = "prefill"
        /\ IF j.at > j.restored /\ j.at \in CaptureBoundaries(j.prompt)
             THEN InsertIntermediate(h, j.at)
             ELSE UNCHANGED cacheVars
        /\ \/ Goes(h, [j EXCEPT
                    !.at = end, !.fed = now, !.buf = Row(now, FALSE),
                    !.pc = IF end = Len(j.prompt) THEN "prefilled" ELSE "prefill"])
           \/ Ends(h)
        /\ UNCHANGED <<admissionVars, sent>>

\* prefix_cache_try_capture_full: skipped for a short prompt and when the
\* snapshot fails.
CaptureFull(h, row) ==
    \/ UNCHANGED cacheVars
    \/ /\ Len(job[h].prompt) >= MinCapture
       /\ InsertWithKv(job[h].prompt, Entry(h, Len(job[h].prompt), row))

Masked(row) == [row EXCEPT !.masked = TRUE]

\* After the prefill, not streamed: capture unless the row came from the
\* cache, then mask the stop tokens and sample.
FirstToken(h) ==
    /\ job[h].pc = "prefilled"
    /\ ~ job[h].stream
    /\ IF job[h].cached THEN UNCHANGED cacheVars ELSE CaptureFull(h, job[h].buf)
    /\ Goes(h, [job[h] EXCEPT !.buf = Masked(@), !.pc = "decode"])
    /\ UNCHANGED <<admissionVars, sent>>

\* The copy taken after the mask.
EmitFirstTokenLateCopy(h) ==
    /\ job[h].pc = "prefilled"
    /\ job[h].stream
    /\ Goes(h, [job[h] EXCEPT
              !.copy = IF job[h].cached THEN None ELSE Masked(job[h].buf),
              !.buf = Masked(@), !.pc = "capture"])
    /\ UNCHANGED <<admissionVars, cacheVars, sent>>

\* Streamed: copy the row, mask, sample, emit; a client that has gone ends
\* the request here.
EmitFirstToken(h) ==
    /\ job[h].pc = "prefilled"
    /\ job[h].stream
    /\ \/ Goes(h, [job[h] EXCEPT !.copy = IF job[h].cached THEN None ELSE job[h].buf,
                                 !.buf = Masked(@), !.pc = "capture"])
       \/ Ends(h)
    /\ UNCHANGED <<admissionVars, cacheVars, sent>>

\* ... and the capture of the copy before the first decode.
CaptureCopy(h) ==
    /\ job[h].pc = "capture"
    /\ IF job[h].cached THEN UNCHANGED cacheVars ELSE CaptureFull(h, job[h].copy)
    /\ Goes(h, [job[h] EXCEPT !.copy = None, !.pc = "decode"])
    /\ UNCHANGED <<admissionVars, sent>>

\* The decode forwards take the slot past the prompt, the request ends and its
\* slot is released.
Decode(h) ==
    /\ job[h].pc = "decode"
    /\ Ends(h)
    /\ UNCHANGED <<admissionVars, cacheVars, sent>>

Next ==
    \E h \in Handlers :
        \/ Asks(h) \/ Refused(h) \/ Dispatch(h) \/ Returns(h)
        \/ Claim(h) \/ TakeLogits(h) \/ Restore(h) \/ TouchHit(h)
        \/ PrefillChunk(h) \/ FirstToken(h) \/ EmitFirstToken(h)
        \/ CaptureCopy(h) \/ Decode(h)

Spec == Init /\ [][Next]_vars

-----------------------------------------------------------------------------
\* A request samples its first token from logits of its whole own prompt and
\* goes on decoding from the state after exactly that prompt, whatever was
\* restored, evicted, replaced or failed on the way (chunked_prefill_pp,
\* prefix_cache_try_restore: "a partially-restored slot must never reach
\* prefill").
AnswersStartFromOwnPrompt ==
    \A h \in Handlers :
        job[h].pc \in {"prefilled", "capture", "decode"} =>
            /\ job[h].buf.of = job[h].prompt
            /\ job[h].fed = job[h].prompt
            /\ job[h].pc = "prefilled" => ~ job[h].buf.masked

\* The snapshots kept outgrow the budget by at most one row of logits for each
\* request there has been: insert_with_kv subtracts the bytes of a row it never
\* added, so the count falls short of the snapshots by a row for each full
\* entry replaced or evicted, and never exceeds them.
BudgetUpToLostRows ==
    /\ used_bytes <= Budget
    /\ used_bytes <= SnapshotBytes
    /\ SnapshotBytes <= used_bytes + LogitBytes * sent
=============================================================================
