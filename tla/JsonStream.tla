----------------------------- MODULE JsonStream ------------------------------
(***************************************************************************)
(* A text fed to JsonGrammar and to the reference, byte by byte, any bytes *)
(* in any order, nested up to MaxDepth.                                    *)
(***************************************************************************)
EXTENDS JsonGrammar, JsonText

CONSTANT MaxDepth
ASSUME MaxDepthAssumption == MaxDepth \in Nat

VARIABLES
    js,    \* the automaton under json_object
    text   \* the reference

vars == <<js, text>>

Init == js = Fresh /\ text = Start

FeedByte(b) ==
    /\ b \in {"{", "["} => Len(js.stack) < MaxDepth
    /\ js' = Feed(js, b)
    /\ text' = Read(text, b)

Next == \E b \in Bytes : FeedByte(b)

Spec == Init /\ [][Next]_vars

-----------------------------------------------------------------------------
ObjectFrames == [kind : {"object"}, expecting : {"key", "none", "colon", "value", "comma"}]
ArrayFrames == [kind : {"array"}, expecting : {"value", "comma"}]
StringFrames == [kind : {"string"}, escape : BOOLEAN, unicode : 0 .. 4, is_key : BOOLEAN]
NumberFrames == [kind : {"number"}, n : Flags]
Remainders == {Rest[b] : b \in DOMAIN Rest}
              \cup {<<"u", "e">>, <<"e">>, <<"l", "s", "e">>, <<"s", "e">>, <<"l", "l">>, <<"l">>}
LiteralFrames == [kind : {"literal"}, expected : Remainders]
Frames == ObjectFrames \cup ArrayFrames \cup StringFrames \cup NumberFrames \cup LiteralFrames

TypeOK ==
    /\ js.invalid \in BOOLEAN /\ js.finished \in BOOLEAN
    /\ \A i \in DOMAIN js.stack : js.stack[i] \in Frames

\* What a frame expects while the frame above it is open.
IsParent(f, g) ==
    LET readsKey == g.kind = "string" /\ g.is_key
    IN  \/ f.kind \in {"object", "array"} /\ f.expecting = "comma" /\ ~readsKey
        \/ f.kind = "object" /\ f.expecting = "none" /\ readsKey

(* A scalar is the innermost frame; a container with something open inside   *)
(* already expects what comes behind it, or is an object whose key is being  *)
(* read.  feed_number hands its byte to the parent, and fold_after_value and *)
(* the end of a key change it, on the strength of this.                      *)
ParentsAreReady ==
    ~js.invalid =>
        \A i \in 1 .. Len(js.stack) - 1 : IsParent(js.stack[i], js.stack[i + 1])

(* The automaton refuses a text exactly where the reference does, and calls  *)
(* it complete exactly where the reference does: with Lenient full, it       *)
(* accepts JSON and the named extras and nothing else ("true iff every byte  *)
(* fed so far has been consistent with valid JSON").                         *)
AcceptsExactly ==
    /\ js.invalid <=> Broken(text)
    /\ IsComplete(js) <=> Ended(text)

(* What is_valid accepted can still be closed: some byte other than white    *)
(* space is accepted too.  The sampler masks everything that is refused, so  *)
(* a state without one pads the answer until its length runs out.            *)
NeverStranded ==
    ~js.invalid /\ ~IsComplete(js) => \E b \in Bytes \ Whitespace : ~Feed(js, b).invalid
=============================================================================
