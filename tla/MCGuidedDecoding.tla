-------------------------- MODULE MCGuidedDecoding ---------------------------
(***************************************************************************)
(* A vocabulary for TLC: every byte that the texts need as a token of its  *)
(* own, tokens of several bytes across the boundaries of JSON, an id that  *)
(* the tokenizer does not know (no text), and special tokens, whose text   *)
(* the tokenizer decodes like any other (skip_special_tokens is false).    *)
(* The marker that ends reasoning is not registered as a special token, so *)
(* its text is encoded as several others.                                  *)
(***************************************************************************)
EXTENDS GuidedDecoding, TLC

Single == [b \in {"{", "}", "[", "]", "\"", ":", ",", "0", "1", "a", " ", "\n"} |-> <<b>>]
Longer == ("{}" :> <<"{", "}">>) @@ ("{q" :> <<"{", "\"">>) @@ ("q:" :> <<"\"", ":">>)
             @@ ("[{" :> <<"[", "{">>) @@ ("1}" :> <<"1", "}">>) @@ (" {" :> <<" ", "{">>)
             @@ ("}, " :> <<"}", ",", " ">>)
Special == ("pad" :> <<>>) @@ ("im_end" :> <<"x", "x">>) @@ ("think" :> <<"x", "a", "x">>)
Marker == <<"</", "think>">>
MCText == Single @@ Longer @@ Special @@ ("</" :> <<"x", "/">>) @@ ("think>" :> <<"a", "x">>)
MCTokens == DOMAIN MCText

keyA == <<"a">>
MCNodes ==
    {[kind |-> "object", properties |-> [k \in {keyA} |-> [kind |-> "int"]],
      required |-> {keyA}, additional |-> FALSE],
     [kind |-> "array", items |-> [kind |-> "str"]]}
MCPrimes == {<<>>, <<"{">>}
MCBudgets == {NoBudget, 2}
=============================================================================
