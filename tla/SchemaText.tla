----------------------------- MODULE SchemaText ------------------------------
(***************************************************************************)
(* A reference to hold JsonSchema against: the compact texts, of at most n *)
(* bytes over an alphabet, of the JSON values that a schema allows.  Keys  *)
(* of an object are distinct and come in any order.  Numbers are those of  *)
(* JSON and, as the automaton takes them, with leading zeros, with no      *)
(* digit behind the point or with none in the exponent.                    *)
(***************************************************************************)
EXTENDS JsonBytes, FiniteSets

CONSTANT Letters  \* what keys and strings are made of

Quoted(w) == <<"\"">> \o w \o <<"\"">>
Words(letters, n) == IF n < 0 THEN {} ELSE BoundedSeq(letters, n)
AtMost(n, texts) == {w \in texts : Len(w) <= n}

Signed(alphabet, n) ==
    LET d == Words(alphabet \cap Digits, n) \ {<<>>}
    IN  d \cup IF "-" \in alphabet THEN {<<"-">> \o i : i \in d} ELSE {}
Decimals(alphabet, n) ==
    IF "." \notin alphabet \/ n < 2 THEN {}
    ELSE {i \o <<".">> \o d : i \in Signed(alphabet, n - 1),
                             d \in Words(alphabet \cap Digits, n - 2)}
\* A number with an exponent, whose digits may still be missing.
Powers(alphabet, n) ==
    IF "e" \notin alphabet \/ n < 2 THEN {}
    ELSE {i \o <<"e">> \o s \o d :
            i \in Signed(alphabet, n - 1) \cup Decimals(alphabet, n - 1),
            s \in {<<>>} \cup {<<b>> : b \in alphabet \cap {"+", "-"}},
            d \in Words(alphabet \cap Digits, n - 2)}
Names == [true |-> <<"t", "r", "u", "e">>, false |-> <<"f", "a", "l", "s", "e">>,
          null |-> <<"n", "u", "l", "l">>]

RECURSIVE Texts(_, _, _), Items(_, _, _), Fields(_, _, _, _)

\* Values of a node.
Texts(node, alphabet, n) ==
    IF n < 1 THEN {}
    ELSE AtMost(n,
      CASE node.kind = "enum" -> node.members
        [] node.kind = "null" -> {Names.null}
        [] node.kind = "bool" -> {Names.true, Names.false}
        [] node.kind = "int" -> Signed(alphabet, n)
        [] node.kind = "num" -> 
             Signed(alphabet, n) \cup Decimals(alphabet, n) \cup Powers(alphabet, n)
        [] node.kind = "str" -> {Quoted(w) : w \in Words(Letters, n - 2)}
        [] node.kind = "array" ->
             {<<"[">> \o items \o <<"]">> : items \in {<<>>} \cup Items(node.items, alphabet, n - 2)}
        [] node.kind = "object" ->
             {<<"{">> \o fields \o <<"}">> :
                fields \in (IF node.required = {} THEN {<<>>} ELSE {})
                              \cup Fields(node, {}, alphabet, n - 2)}
        [] node.kind = "any" ->
             UNION {Texts(any, alphabet, n) :
                any \in [kind : {"null", "bool", "num", "str"}]
                          \cup [kind : {"array"}, items : {node}]
                          \cup [kind : {"object"}, properties : {<<>>}, required : {{}},
                                additional : {TRUE}]})

\* One value after the other, with commas between.
Items(node, alphabet, n) ==
    LET first == Texts(node, alphabet, n)
    IN  first \cup UNION {{v \o <<",">> \o more : more \in Items(node, alphabet, n - Len(v) - 1)} :
                            v \in first}

\* One key with its value after the other, until the required ones are there.
Fields(node, seen, alphabet, n) ==
    LET keys == DOMAIN node.properties
                  \cup IF node.additional THEN Words(Letters, n - 4) ELSE {}
        value(k) == IF k \in DOMAIN node.properties THEN node.properties[k] ELSE [kind |-> "any"]
        first(k) == {Quoted(k) \o <<":">> \o v : v \in Texts(value(k), alphabet, n - Len(k) - 3)}
        more(k, f) == {f \o <<",">> \o rest :
                         rest \in Fields(node, seen \cup {k}, alphabet, n - Len(f) - 1)}
    IN  IF n < 4 THEN {}
        ELSE UNION {(IF node.required \subseteq seen \cup {k} THEN first(k) ELSE {})
                      \cup UNION {more(k, f) : f \in first(k)} : k \in keys \ seen}
=============================================================================
