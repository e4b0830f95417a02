--------------------------- MODULE GuidedDecoding ----------------------------
(***************************************************************************)
(* A completion in JSON mode: run_completion_blocking_ids of               *)
(* server/src/routes/decode_loop.rs with the mask of gpu_sampler.rs.  Each *)
(* step bans stop tokens, masks the best MaskWidth candidates that the     *)
(* automaton refuses, samples, and feeds the automaton what was sampled.   *)
(*                                                                         *)
(* Logits are not modelled: any MaskWidth tokens may be the best, and any  *)
(* token that is neither banned nor masked may be sampled: one that was    *)
(* looked at and kept, or one the mask did not look at.  If none is left,  *)
(* all logits are -inf and any token may come out of the sampler.  An      *)
(* answer strays with the first token that the mask did not keep.          *)
(***************************************************************************)
EXTENDS JsonGrammar, FiniteSets

CONSTANTS
    Tokens,      \* token ids
    Text,        \* the bytes that the tokenizer decodes a token to
    StopIds,     \* the tokens that end a turn
    AlwaysStop,  \* those of them that mark reasoning
    CloseIds,    \* the tokens of the marker that ends reasoning
    Nodes,       \* the schemas that requests ask for
    Primes,      \* beginnings of an answer that requests give (assistant prefill)
    Budgets,     \* tokens of reasoning that requests allow
    MaxTokens,   \* the length of an answer
    MinTokens,   \* MIN_RESPONSE_TOKENS
    MaskWidth    \* max_candidates

NoBudget == -1
ObjectMode == [kind |-> "json_object"]

ASSUME GuidedAssumption ==
    /\ IsFiniteSet(Tokens) /\ Text \in [Tokens -> Seq(Bytes)]
    /\ StopIds \subseteq Tokens /\ AlwaysStop \subseteq StopIds
    /\ CloseIds \in Seq(Tokens) \ {<<>>} /\ IsInjective(CloseIds)
    /\ Primes \subseteq Seq(Bytes)
    /\ MaxTokens \in Nat \ {0} /\ MinTokens \in Nat
    /\ MaskWidth \in 1 .. Cardinality(Tokens)
    /\ Budgets \subseteq Nat \cup {NoBudget}

VARIABLES
    asked,       \* what the request asks for: ObjectMode or a schema
    budget,      \* tokens of reasoning before the marker is forced, or NoBudget
    relax,       \* relax_stop_mask: the request has tools
    json_state,  \* the automaton
    generated,   \* generated.len()
    closing,     \* tokens of the marker at the end of what was generated; all of
                 \* them once it was there
    fired,       \* the marker is or was forced
    queue,       \* what is still to be forced of it
    finish,      \* finish_reason, "" while the loop runs
    cause,       \* what ended the loop
    answer,      \* the answer, prefill included, as the reference reads it
    strayed      \* history: the mask has not kept all of the answer

guidedVars == <<asked, budget, relax, json_state, generated, closing, fired, queue, finish,
                cause, answer, strayed>>

Schema == INSTANCE JsonSchema

\* JSON, with the extras that the two automata are known to take.
OfObject == INSTANCE JsonText WITH Lenient <- {"comma", "space", "key", "number"}
OfSchema == INSTANCE JsonText WITH Lenient <- {"key", "number"}
Reads(text, bytes) ==
    IF asked = ObjectMode THEN OfObject!ReadSlice(text, bytes) ELSE OfSchema!ReadSlice(text, bytes)

\* The automaton after some bytes.  Whether a value has started and whether it
\* is complete is the same for both.
After(state, bytes) ==
    IF asked = ObjectMode THEN FeedSlice(state, bytes)
    ELSE Schema!FeedSlice(state, bytes, asked)

\* Mutant: the automaton does not see the prefill.
GuidedInitUnprimed ==
    /\ asked \in {ObjectMode} \cup Nodes
    /\ budget \in Budgets
    /\ relax \in BOOLEAN
    /\ json_state = Fresh
    /\ \E prime \in Primes : answer = Reads(OfObject!Start, prime)
    /\ strayed = FALSE
    /\ generated = 0
    /\ closing = 0
    /\ fired = FALSE /\ queue = <<>>
    /\ finish = "" /\ cause = ""

GuidedInit ==
    /\ asked \in {ObjectMode} \cup Nodes
    /\ budget \in Budgets
    /\ relax \in BOOLEAN
    /\ \E prime \in Primes : /\ json_state = After(Fresh, prime)
                             /\ answer = Reads(OfObject!Start, prime)
    /\ strayed = json_state.invalid
    /\ generated = 0
    /\ closing = 0
    /\ fired = FALSE /\ queue = <<>>
    /\ finish = "" /\ cause = ""

-----------------------------------------------------------------------------
OpensObject(bytes) == \E i \in DOMAIN bytes : bytes[i] = "{"
\* Mutant: white space before the value is admitted.
AdmittedSpace(t) ==
    IF Text[t] = <<>> THEN IsComplete(json_state) ELSE ~After(json_state, Text[t]).invalid

\* Whether apply_json_mask_to_logits leaves a candidate its logit.
Admitted(t) ==
    LET probe == After(json_state, Text[t])
    IN  IF Text[t] = <<>> THEN IsComplete(json_state)
        ELSE /\ ~probe.invalid
             /\ HasStarted(json_state) \/ HasStarted(probe)
             /\ asked = ObjectMode /\ ~HasStarted(json_state) => OpensObject(Text[t])

\* The stop tokens whose logit is -inf whatever the automaton says: all of
\* them at first, then those of reasoning, none in a turn with tools.
Banned ==
    IF generated = 0 THEN StopIds
    ELSE IF relax THEN {}
    ELSE IF generated < MinTokens THEN StopIds
    ELSE AlwaysStop

\* The marker is forced once the budget is spent, token by token.
Marked == closing = Len(CloseIds)
Fires == generated > 0 /\ budget # NoBudget /\ generated >= budget /\ ~fired /\ ~Marked
Forced == IF Fires THEN CloseIds ELSE queue
Forcing == Forced # <<>>

ClosingAfter(t) ==
    IF Marked THEN closing
    ELSE IF t = CloseIds[closing + 1] THEN closing + 1
    ELSE IF t = CloseIds[1] THEN 1 ELSE 0

\* Banned tokens come last among the candidates, and the mask looks at the best
\* MaskWidth of them.  Any of the others that are not banned may be those that
\* it does not look at; if there are none, all that it looks at may be refused.
Candidates == Tokens \ Banned
Kept(t) == t \in Candidates /\ Admitted(t)
Unmasked(t) ==
    IF Cardinality(Candidates) > MaskWidth THEN t \in Candidates
    ELSE \A c \in Candidates : ~Admitted(c)

\* What comes next, and whether the mask has not kept it.
Sampled(t, stray) ==
    \/ Forcing /\ t = Head(Forced) /\ stray
    \/ ~Forcing /\ Kept(t) /\ ~stray
    \/ ~Forcing /\ Unmasked(t) /\ stray

\* After the first token only a stop token ends the loop; behind the others
\* the end of the value does too, and a marker or a stop string in the tail.
Ends(t, cut) ==
    IF t \in StopIds THEN [finish |-> "stop", cause |-> "stop token"]
    ELSE IF generated > 0 /\ IsComplete(After(json_state, Text[t]))
         THEN [finish |-> "stop", cause |-> "complete"]
    ELSE IF generated > 0 /\ cut THEN [finish |-> "stop", cause |-> "stop string"]
    ELSE IF generated + 1 >= MaxTokens THEN [finish |-> "length", cause |-> "length"]
    ELSE [finish |-> "", cause |-> ""]

Generate(t, cut, stray) ==
    /\ finish = ""
    /\ Sampled(t, stray)
    /\ strayed' = (strayed \/ stray)
    /\ json_state' = After(json_state, Text[t])
    /\ generated' = generated + 1
    /\ closing' = ClosingAfter(t)
    /\ fired' = (fired \/ Fires)
    /\ queue' = IF Forcing THEN Tail(Forced) ELSE <<>>
    /\ finish' = Ends(t, cut).finish
    /\ cause' = Ends(t, cut).cause
    \* finalise drops stop tokens.
    /\ answer' = IF t \in StopIds THEN answer ELSE Reads(answer, Text[t])
    /\ UNCHANGED <<asked, budget, relax>>

GuidedNext == \E t \in Tokens, cut \in BOOLEAN, stray \in BOOLEAN : Generate(t, cut, stray)

GuidedSpec == GuidedInit /\ [][GuidedNext]_guidedVars

-----------------------------------------------------------------------------
(* "this should always succeed when the mask was active": as long as the     *)
(* mask has kept every token, on top of a prefill that the automaton takes,  *)
(* no token breaks the automaton, not even next to stop-token bans; each     *)
(* answer starts the value with its first token (no "infinite leading        *)
(* whitespace"), and behind a value that was complete with the first token,  *)
(* where the loop goes on, nothing is added.                                 *)
MaskHolds ==
    [][~strayed' =>
          /\ ~json_state'.invalid
          /\ HasStarted(json_state')
          /\ IsComplete(json_state) => IsComplete(json_state')]_guidedVars

(* What the loop stops at as complete reads as JSON, extras aside, and all   *)
(* that the automaton takes, strayed or not, as the beginning of JSON, the   *)
(* prefill included: "so the mask state matches the model's position".       *)
AnswerIsJson ==
    /\ cause = "complete" => OfObject!Ended(answer)
    /\ ~json_state.invalid => ~OfObject!Broken(answer)
=============================================================================
