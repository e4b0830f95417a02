------------------------------ MODULE JsonText -------------------------------
(***************************************************************************)
(* A reference to hold the automata of guided decoding against: the        *)
(* grammar of RFC 8259, read a byte at a time by an automaton of its own.  *)
(* nest holds the brackets that are open, at the place in the grammar.     *)
(* The grammar is widened by what Lenient names:                           *)
(*   "comma"   a comma before a closing bracket,                           *)
(*   "space"   any white space inside strings, escapes and literals,       *)
(*   "key"     any white space inside keys,                                *)
(*   "number"  leading zeros, a point with no digit behind it, and white   *)
(*             space behind a number that is all there but for its         *)
(*             exponent's digits.                                          *)
(***************************************************************************)
EXTENDS JsonBytes

CONSTANT Lenient

Extras == {"comma", "space", "key", "number"}
ASSUME LenientAssumption == Lenient \subseteq Extras

May(what) == what \in Lenient

\* A place is a state of the grammar; of a string it also says whether the
\* string is a key, of an escape how many digits it lacks, of a literal what
\* is left of it.
At(what) == [what |-> what]
InString(what, key, left) == [what |-> what, key |-> key, left |-> left]
InLiteral(left) == [what |-> "literal", left |-> left]

Start == [nest |-> <<>>, at |-> At("value")]
Is(text, whats) == text.at.what \in whats
Broken(text) == Is(text, {"error"})
Ended(text) == Is(text, {"end"})

Numbers == {"minus", "zero", "digits", "point", "fraction", "e", "sign", "exponent"}
WholeNumbers == {"zero", "digits", "fraction", "exponent"}
                    \cup IF May("number") THEN {"point"} ELSE {}
Strings == {"string", "escape", "hex"}

To(text, at) == [text EXCEPT !.at = at]
Go(text, what) == To(text, At(what))
Break(text) == Go(text, "error")
Open(text, bracket, what) == [nest |-> Append(text.nest, bracket), at |-> At(what)]
Within(text, bracket) == text.nest # <<>> /\ Last(text.nest) = bracket
ValueOver(text) == Go(text, IF text.nest = <<>> THEN "end" ELSE "comma")
Close(text) == ValueOver([text EXCEPT !.nest = Front(@)])

NewValue(text, b) ==
    CASE b = "{" -> Open(text, "{", "first key")
      [] b = "[" -> Open(text, "[", "first value")
      [] b = "\"" -> To(text, InString("string", FALSE, 0))
      [] b \in DOMAIN Rest -> To(text, InLiteral(Rest[b]))
      [] b = "-" -> Go(text, "minus")
      [] b = "0" -> Go(text, "zero")
      [] b = "1" -> Go(text, "digits")
      [] OTHER -> Break(text)

GapByte(text, b) ==
    CASE b = "]" /\ Within(text, "[")
           /\ Is(text, {"first value", "comma"} \cup IF May("comma") THEN {"value"} ELSE {}) ->
             Close(text)
      [] b = "}" /\ Is(text, {"first key"} \cup (IF May("comma") THEN {"key"} ELSE {})
                              \cup IF Within(text, "{") THEN {"comma"} ELSE {}) ->
             Close(text)
      [] b = "\"" /\ Is(text, {"key", "first key"}) -> To(text, InString("string", TRUE, 0))
      [] b = ":" /\ Is(text, {"colon"}) -> Go(text, "value")
      [] b = "," /\ Is(text, {"comma"}) -> Go(text, IF Within(text, "{") THEN "key" ELSE "value")
      [] b \notin {"]"} /\ Is(text, {"value", "first value"}) -> NewValue(text, b)
      [] OTHER -> Break(text)

StringByte(text, b) ==
    LET at == text.at
        on(what, left) == To(text, InString(what, at.key, left))
        inKey == at.what = "string" /\ at.key
    IN  CASE b \in Whitespace ->
               IF May("space") \/ (May("key") /\ inKey) \/ (at.what = "string" /\ b = " ")
               THEN text
               ELSE Break(text)
          [] at.what = "hex" /\ b \in Hex ->
               on(IF at.left = 1 THEN "string" ELSE "hex", at.left - 1)
          [] at.what = "escape" /\ b \in Escapable -> on("string", 0)
          [] at.what = "escape" /\ b = "u" -> on("hex", 4)
          [] at.what = "string" /\ b = "\\" -> on("escape", 0)
          [] at.what = "string" /\ b = "\"" ->
               IF at.key THEN Go(text, "colon") ELSE ValueOver(text)
          [] at.what = "string" /\ b \notin Whitespace \cup {"\\", "\"", "ctl"} -> text
          [] OTHER -> Break(text)

LiteralByte(text, b) ==
    LET left == text.at.left
    IN  IF b \in Whitespace /\ May("space") THEN text
        ELSE IF b # Head(left) THEN Break(text)
        ELSE IF Len(left) = 1 THEN ValueOver(text)
        ELSE To(text, InLiteral(Tail(left)))

NumberPlace(what, b) ==
    CASE what = "minus" /\ b = "0" -> "zero"
      [] what = "minus" /\ b = "1" -> "digits"
      [] what = "zero" /\ b \in Digits /\ May("number") -> "digits"
      [] what = "digits" /\ b \in Digits -> "digits"
      [] what \in {"zero", "digits"} /\ b = "." -> "point"
      [] what \in {"point", "fraction"} /\ b \in Digits -> "fraction"
      [] what \in {"zero", "digits", "fraction"} /\ b = "e" -> "e"
      [] what = "point" /\ b = "e" /\ May("number") -> "e"
      [] what = "e" /\ b \in {"+", "-"} -> "sign"
      [] what \in {"e", "sign", "exponent"} /\ b \in Digits -> "exponent"
      [] OTHER -> "none"

NumberByte(text, b) ==
    LET next == NumberPlace(text.at.what, b)
    IN  IF next # "none" THEN Go(text, next)
        ELSE IF b \in Whitespace
             THEN IF Is(text, WholeNumbers)
                     \/ (May("number") /\ Is(text, {"e", "sign"})) THEN ValueOver(text)
                  ELSE Break(text)
             ELSE IF Is(text, WholeNumbers) THEN GapByte(ValueOver(text), b) ELSE Break(text)

Read(text, b) ==
    IF Broken(text) THEN text
    ELSE IF Is(text, Strings) THEN StringByte(text, b)
    ELSE IF Is(text, Numbers) THEN NumberByte(text, b)
    ELSE IF Is(text, {"literal"}) THEN LiteralByte(text, b)
    ELSE IF b \in Whitespace THEN text
    ELSE GapByte(text, b)

ReadSlice(text, bytes) == FoldLeft(Read, text, bytes)
=============================================================================
