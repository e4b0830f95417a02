----------------------------- MODULE JsonBytes -------------------------------
(***************************************************************************)
(* What the two automata of guided decoding share: the classes of bytes    *)
(* they tell apart, a stack of frames, and the steps inside a string, a    *)
(* number and a literal (true, false, null), which json_grammar.rs and     *)
(* json_schema.rs write out alike.                                         *)
(*                                                                         *)
(* A byte stands for its class: "0" and "1" for the digits, "a" for the    *)
(* other hexadecimal letters, " " and "\n" for white space, "x" for        *)
(* everything else above 0x1F and "ctl" for everything below.              *)
(***************************************************************************)
EXTENDS Integers, Sequences, SequencesExt

Whitespace == {" ", "\n"}
Digits == {"0", "1"}
Hex == Digits \cup {"a", "b", "e", "f"}
Escapable == {"\"", "\\", "/", "b", "f", "n", "r", "t"}
Bytes == Whitespace \cup Hex \cup Escapable
            \cup {"{", "}", "[", "]", ":", ",", "-", "+", ".", "u", "l", "s", "x", "ctl"}

\* The rest of a literal behind its first letter.
Rest == [b \in {"t", "f", "n"} |->
            CASE b = "t" -> <<"r", "u", "e">>
              [] b = "f" -> <<"a", "l", "s", "e">>
              [] b = "n" -> <<"u", "l", "l">>]

Flags == [digit : BOOLEAN, dot : BOOLEAN, exp : BOOLEAN, sign : BOOLEAN, expdigit : BOOLEAN]
NoFlags == [digit |-> FALSE, dot |-> FALSE, exp |-> FALSE, sign |-> FALSE, expdigit |-> FALSE]

Literal(b) == [kind |-> "literal", expected |-> Rest[b]]

-----------------------------------------------------------------------------
\* An automaton: the frames that are open, whether the value at the top is
\* closed, and whether a byte was refused.  What else is in the state of an
\* automaton that refused a byte is never looked at again.
Fresh == [stack |-> <<>>, finished |-> FALSE, invalid |-> FALSE]

Top(js) == Last(js.stack)
Inside(js, kind) == js.stack # <<>> /\ Top(js).kind = kind
Refuse(js) == [js EXCEPT !.invalid = TRUE]
Push(js, frame) == [js EXCEPT !.stack = Append(@, frame)]
Pop(js) == [js EXCEPT !.stack = Front(@)]
SetTop(js, frame) == [js EXCEPT !.stack[Len(js.stack)] = frame]

IsComplete(js) == ~js.invalid /\ js.finished /\ js.stack = <<>>

-----------------------------------------------------------------------------
\* One byte inside a string that does not close it.  escape: the byte before
\* was a backslash; unicode: hexadecimal digits of \uXXXX still to come.
StringTakes(f, b) ==
    \/ f.unicode > 0 /\ b \in Hex
    \/ f.unicode = 0 /\ f.escape /\ b \in Escapable \cup {"u"}
    \/ f.unicode = 0 /\ ~f.escape /\ b \notin {"\"", "\n", "ctl"}
StringAfter(f, b) ==
    IF f.unicode > 0 THEN [f EXCEPT !.unicode = @ - 1]
    ELSE IF f.escape THEN [f EXCEPT !.escape = FALSE, !.unicode = IF b = "u" THEN 4 ELSE 0]
    ELSE [f EXCEPT !.escape = b = "\\"]
StringCloses(f, b) == f.unicode = 0 /\ ~f.escape /\ b = "\""

\* One byte inside a number: a digit, or a point, an exponent or its sign.
TakesPoint(n, b) == b = "." /\ ~n.dot /\ ~n.exp /\ n.digit
TakesExponent(n, b) == b = "e" /\ ~n.exp /\ n.digit
TakesSign(n, b) == b \in {"+", "-"} /\ n.exp /\ ~n.sign /\ ~n.expdigit
NumberTakes(n, b) == b \in Digits \/ TakesPoint(n, b) \/ TakesExponent(n, b) \/ TakesSign(n, b)
NumberAfter(n, b) ==
    [digit |-> n.digit \/ b \in Digits,
     dot |-> n.dot \/ TakesPoint(n, b),
     exp |-> n.exp \/ TakesExponent(n, b),
     sign |-> n.sign \/ TakesSign(n, b),
     expdigit |-> n.expdigit \/ (b \in Digits /\ n.exp)]
\* Mutant: an exponent without digits ends a number.
NumberMayEndEarly(n) == n.digit
NumberMayEnd(n) == n.digit /\ (n.exp => n.expdigit)
=============================================================================
