-------------------------- MODULE CompletionService -------------------------
(***************************************************************************)
(* What the scheduler promises a client, with no slots, queues or locks: a *)
(* completion has a conversation of its own, which grows by its prompt and *)
(* then by one token per decode step; every token is sampled from the      *)
(* state right after the token before it, and no step is run twice.        *)
(***************************************************************************)
EXTENDS Integers

CONSTANTS Requests, PromptLen, MaxTokens

VARIABLES
  stage,    (* "queued", "serving" or "ended"                              *)
  context,  (* tokens each conversation has been advanced by               *)
  tokens    (* tokens each completion has produced                         *)

vars == <<stage, context, tokens>>

Init ==
  /\ stage = [r \in Requests |-> "queued"]
  /\ context = [r \in Requests |-> 0]
  /\ tokens = [r \in Requests |-> 0]

(* Served from a cached prefix of its prompt, possibly all or none of it. *)
Admit(r) ==
  /\ stage[r] = "queued"
  /\ stage' = [stage EXCEPT ![r] = "serving"]
  /\ \E n \in 0..PromptLen[r] : context' = [context EXCEPT ![r] = n]
  /\ UNCHANGED tokens

(* The conversation of r may be advanced by its prompt, and afterwards by    *)
(* one step per produced token.                                              *)
Advanced(r, n) ==
  \/ context[r] < n /\ n <= PromptLen[r]
  \/ tokens[r] > 0 /\ context[r] = PromptLen[r] + tokens[r] - 1 /\ n = context[r] + 1

(* Any set of conversations advances together, each on its own. *)
Compute ==
  /\ \A r \in Requests :
       \/ context'[r] = context[r]
       \/ stage[r] = "serving" /\ Advanced(r, context'[r])
  /\ context' = [r \in Requests |-> context'[r]]
  /\ UNCHANGED <<stage, tokens>>

(* A token is sampled from an up to date conversation. *)
Sample(r) ==
  /\ stage[r] = "serving"
  /\ tokens[r] < MaxTokens[r]
  /\ context[r] = PromptLen[r] + tokens[r]
  /\ tokens' = [tokens EXCEPT ![r] = @ + 1]
  /\ UNCHANGED <<stage, context>>

(* A step of one conversation and the token it gives, at once. *)
ComputeAndSample(r) ==
  /\ stage[r] = "serving"
  /\ tokens[r] \in 1..(MaxTokens[r] - 1)
  /\ context[r] = PromptLen[r] + tokens[r] - 1
  /\ context' = [context EXCEPT ![r] = @ + 1]
  /\ tokens' = [tokens EXCEPT ![r] = @ + 1]
  /\ UNCHANGED stage

(* The completion is finished, or refused, or given up after an error. *)
End(r) ==
  /\ stage[r] # "ended"
  /\ stage' = [stage EXCEPT ![r] = "ended"]
  /\ context' = [context EXCEPT ![r] = 0]
  /\ UNCHANGED tokens

Next ==
  \/ Compute
  \/ \E r \in Requests : Admit(r) \/ Sample(r) \/ ComputeAndSample(r) \/ End(r)

Spec == Init /\ [][Next]_vars
=============================================================================
