--------------------------- MODULE MCJsonConstraint --------------------------
(***************************************************************************)
(* Schemas for TLC, each with the bytes that its texts need, how many are  *)
(* fed (fed) and how long the members are they are held against (whole).   *)
(***************************************************************************)
EXTENDS JsonConstraint

keyA == <<"a">>
keyAb == <<"a", "b">>
Integer == [kind |-> "int"]
Enum(members) == [kind |-> "enum", members |-> members]
Object(properties, required, additional) ==
    [kind |-> "object", properties |-> properties, required |-> required,
     additional |-> additional]
Array(items) == [kind |-> "array", items |-> items]
Case(node, alphabet, fed, whole) ==
    [node |-> node, alphabet |-> alphabet \cup {" ", ",", "\"", ":"}, fed |-> fed, whole |-> whole]

Braces == {"{", "}"}
Brackets == {"[", "]"}

\* Two keys, one a prefix of the other, one of them required.
TwoKeys ==
    Object([k \in {keyA, keyAb} |-> IF k = keyA THEN Integer ELSE [kind |-> "null"]], {keyA}, FALSE)
\* Any key, one of a type of its own.
MoreKeys == Object([k \in {keyA} |-> [kind |-> "str"]], {}, TRUE)
\* An enumeration of texts none of which begins another.
OneOf == Array(Enum({<<"\"", "a", "\"">>, <<"\"", "b", "\"">>, <<"1">>}))
\* A list of decimals behind a key.
Nested == Object([k \in {keyA} |-> Array([kind |-> "num"])], {}, FALSE)

MCCases ==
    {Case(TwoKeys, Braces \cup {"a", "b", "1", "n", "u", "l"}, 12, 22),
     Case(MoreKeys, Braces \cup {"a", "1", "\n"}, 6, 12),
     Case(OneOf, Brackets \cup {"a", "b", "1"}, 9, 12),
     Case(Nested, Braces \cup Brackets \cup {"a", "1", "0", "-", "."}, 10, 13),
     Case([kind |-> "num"], {"1", "0", "-", "+", ".", "e"}, 6, 6),
     Case([kind |-> "any"], Braces \cup Brackets \cup {"1"}, 4, 10)}
=============================================================================
