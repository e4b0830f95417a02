------------------------- MODULE JsonGrammarProofs --------------------------
(***************************************************************************)
(* Theorems about JsonStream, for texts of any length nested to any depth: *)
(* first the stack of frames, then what each kind of byte does to it, then *)
(* the automaton against the reference grammar.  Then about GuidedDecoding,*)
(* for any schemas: the automaton of a schema byte by byte, both automata  *)
(* token by token, and what the mask leaves the sampler.                   *)
(***************************************************************************)
EXTENDS JsonStream, GuidedDecoding, FoldProofs, SequenceTheorems, TLAPS

-----------------------------------------------------------------------------
Stacks == {s \in Seq(Frames) : \A i \in 1 .. Len(s) - 1 : IsParent(s[i], s[i + 1])}

LEMMA EmptyIsStack == <<>> \in Stacks
BY DEF Stacks

(* Putting a frame on a stack.                                               *)
LEMMA AppendToStack ==
  ASSUME NEW s \in Stacks, NEW f \in Frames, s = <<>> \/ IsParent(Last(s), f)
  PROVE  /\ Append(s, f) \in Stacks
         /\ Len(Append(s, f)) = Len(s) + 1
         /\ Last(Append(s, f)) = f
         /\ \A i \in 1 .. Len(s) : Append(s, f)[i] = s[i]
<1>1. s \in Seq(Frames) /\ Append(s, f) \in Seq(Frames) /\ Len(s) \in Nat
  BY DEF Stacks
<1>2. /\ Len(Append(s, f)) = Len(s) + 1
      /\ \A i \in 1 .. Len(s) : Append(s, f)[i] = s[i]
      /\ Append(s, f)[Len(s) + 1] = f
  BY <1>1
<1>3. ASSUME NEW i \in 1 .. Len(s)
      PROVE  IsParent(Append(s, f)[i], Append(s, f)[i + 1])
  <2>1. CASE i < Len(s)
    <3>1. i \in 1 .. Len(s) - 1 /\ i + 1 \in 1 .. Len(s)
      BY <1>1, <2>1
    <3> QED BY <1>2, <3>1 DEF Stacks
  <2>2. CASE i = Len(s)
    <3>1. s # <<>> /\ Append(s, f)[i] = Last(s) /\ Append(s, f)[i + 1] = f
      BY <1>1, <1>2, <2>2 DEF Last
    <3> QED BY <3>1
  <2> QED BY <1>1, <2>1, <2>2
<1>4. Append(s, f) \in Stacks
  <2>1. Len(Append(s, f)) - 1 = Len(s)
    BY <1>1, <1>2
  <2> QED BY <1>1, <1>3, <2>1 DEF Stacks
<1>5. Last(Append(s, f)) = f
  BY <1>2 DEF Last
<1> QED BY <1>2, <1>4, <1>5

(* Taking one off.                                                           *)
LEMMA FrontOfStack ==
  ASSUME NEW s \in Stacks, s # <<>>
  PROVE  /\ Front(s) \in Stacks
         /\ Len(Front(s)) = Len(s) - 1
         /\ \A i \in 1 .. Len(s) - 1 : Front(s)[i] = s[i]
         /\ Front(s) # <<>> => IsParent(Last(Front(s)), Last(s)) /\ Last(Front(s)) = s[Len(s) - 1]
<1>1. s \in Seq(Frames) /\ Len(s) \in Nat \ {0}
  BY DEF Stacks
<1>2. /\ Front(s) \in Seq(Frames)
      /\ Len(Front(s)) = Len(s) - 1
      /\ \A i \in 1 .. Len(s) - 1 : Front(s)[i] = s[i]
  <2>1. 1 \in 1 .. Len(s) + 1 /\ Len(s) - 1 \in 1 - 1 .. Len(s)
    BY <1>1
  <2>2. Len(s) - 1 - 1 + 1 = Len(s) - 1 /\ \A i \in 1 .. Len(s) - 1 : 1 + i - 1 = i
    BY <1>1
  <2> QED BY <1>1, <2>1, <2>2, SubSeqProperties DEF Front
<1>3. ASSUME NEW i \in 1 .. Len(s) - 2
      PROVE  IsParent(Front(s)[i], Front(s)[i + 1])
  <2>1. i \in 1 .. Len(s) - 1 /\ i + 1 \in 1 .. Len(s) - 1
    BY <1>1
  <2> QED BY <1>2, <2>1 DEF Stacks
<1>4. ASSUME Front(s) # <<>>
      PROVE  IsParent(Last(Front(s)), Last(s)) /\ Last(Front(s)) = s[Len(s) - 1]
  <2>1. Len(s) - 1 \in 1 .. Len(s) - 1
    BY <1>1, <1>2, <1>4
  <2>2. Last(Front(s)) = s[Len(s) - 1] /\ Last(s) = s[Len(s) - 1 + 1]
    BY <1>1, <1>2, <2>1 DEF Last
  <2> QED BY <2>1, <2>2 DEF Stacks
<1> QED BY <1>1, <1>2, <1>3, <1>4 DEF Stacks

(* Changing the topmost.                                                     *)
LEMMA TopOfStack ==
  ASSUME NEW s \in Stacks, NEW f \in Frames, s # <<>>,
         Front(s) # <<>> => IsParent(Last(Front(s)), f)
  PROVE  /\ [s EXCEPT ![Len(s)] = f] \in Stacks
         /\ Len([s EXCEPT ![Len(s)] = f]) = Len(s)
         /\ Last([s EXCEPT ![Len(s)] = f]) = f
         /\ \A i \in 1 .. Len(s) - 1 : [s EXCEPT ![Len(s)] = f][i] = s[i]
<1> DEFINE t == [s EXCEPT ![Len(s)] = f]
<1>1. s \in Seq(Frames) /\ Len(s) \in Nat \ {0}
  BY DEF Stacks
<1>2. t \in Seq(Frames) /\ Len(t) = Len(s) /\ t[Len(s)] = f
      /\ \A i \in 1 .. Len(s) - 1 : t[i] = s[i]
  BY <1>1
<1>3. ASSUME NEW i \in 1 .. Len(s) - 1
      PROVE  IsParent(t[i], t[i + 1])
  <2>1. CASE i < Len(s) - 1
    <3>1. i + 1 \in 1 .. Len(s) - 1
      BY <1>1, <2>1
    <3> QED BY <1>2, <3>1 DEF Stacks
  <2>2. CASE i = Len(s) - 1
    <3>1. Len(Front(s)) = i /\ i \in Nat \ {0}
      BY <1>1, <2>2, FrontOfStack
    <3>2. Front(s) # <<>>
      BY <3>1
    <3>3. Last(Front(s)) = s[i]
      BY <2>2, <3>2, FrontOfStack
    <3>4. t[i] = s[i] /\ t[i + 1] = f
      <4>1. i + 1 = Len(s)
        BY <1>1, <2>2
      <4> QED BY <1>2, <4>1
    <3> QED BY <3>2, <3>3, <3>4
  <2> QED BY <1>1, <2>1, <2>2
<1> HIDE DEF t
<1>4. t \in Stacks /\ Len(t) = Len(s) /\ Last(t) = f /\ \A i \in 1 .. Len(s) - 1 : t[i] = s[i]
  BY <1>1, <1>2, <1>3 DEF Stacks, Last
<1> QED BY <1>4 DEF t

-----------------------------------------------------------------------------
(* A frame is of the set of frames of its kind, and the frames that are made *)
(* are frames.                                                               *)
LEMMA FramesByKind ==
  ASSUME NEW f \in Frames
  PROVE  /\ f.kind = "object" <=> f \in ObjectFrames
         /\ f.kind = "array" <=> f \in ArrayFrames
         /\ f.kind = "string" <=> f \in StringFrames
         /\ f.kind = "number" <=> f \in NumberFrames
         /\ f.kind = "literal" <=> f \in LiteralFrames
         /\ f.kind \in {"object", "array", "string", "number", "literal"}
BY DEF Frames, ObjectFrames, ArrayFrames, StringFrames, NumberFrames, LiteralFrames

LEMMA NewFrames ==
  ASSUME NEW b
  PROVE  /\ ObjectFrame \in ObjectFrames /\ ArrayFrame \in ArrayFrames
         /\ \A isKey \in BOOLEAN : StringFrame(isKey) \in StringFrames
         /\ NumberFrame(b) \in NumberFrames
         /\ b \in DOMAIN Rest => Literal(b) \in LiteralFrames
<1>1. ObjectFrame \in ObjectFrames /\ ArrayFrame \in ArrayFrames
  BY DEF ObjectFrame, ArrayFrame, ObjectFrames, ArrayFrames
<1>2. \A isKey \in BOOLEAN : StringFrame(isKey) \in StringFrames
  BY DEF StringFrame, StringFrames
<1>3. NumberFrame(b) \in NumberFrames
  <2> DEFINE n == [NoFlags EXCEPT !.digit = b \in Digits]
  <2>1. NoFlags \in Flags
    BY DEF NoFlags, Flags
  <2>2. \A v \in BOOLEAN : [NoFlags EXCEPT !.digit = v] \in Flags
    BY <2>1 DEF Flags
  <2>3. (b \in Digits) \in BOOLEAN
    OBVIOUS
  <2>4. n \in Flags
    BY <2>2, <2>3
  <2> QED BY <2>4 DEF NumberFrame, NumberFrames
<1>4. b \in DOMAIN Rest => Literal(b) \in LiteralFrames
  BY DEF Literal, LiteralFrames, Remainders
<1> QED BY <1>1, <1>2, <1>3, <1>4

Automata == [stack : Seq(Frames), finished : BOOLEAN, invalid : BOOLEAN]

(* An automaton that has refused nothing, on a stack that is one.            *)
Live(a) == a \in Automata /\ ~a.invalid /\ a.stack \in Stacks

(* An object whose key is being read is not the topmost frame.               *)
ReadsKey(f) == f.kind = "object" /\ f.expecting = "none"
Sound(a) ==
  /\ a \in Automata
  /\ ~a.invalid => a.stack \in Stacks /\ (a.stack # <<>> => ~ReadsKey(Top(a)))

IsKeyString(f) == f.kind = "string" /\ f.is_key
Settled(f) == f.kind \in {"object", "array"} /\ f.expecting = "comma"

LEMMA RefuseIsSound ==
  ASSUME NEW a \in Automata
  PROVE  Sound(Refuse(a)) /\ Refuse(a) \in Automata /\ Refuse(a).invalid
BY DEF Sound, Refuse, Automata

LEMMA PushIsLive ==
  ASSUME NEW a, Live(a), NEW f \in Frames, a.stack = <<>> \/ IsParent(Top(a), f)
  PROVE  /\ Live(Push(a, f))
         /\ Push(a, f).stack = Append(a.stack, f)
         /\ Push(a, f).finished = a.finished
         /\ Push(a, f).stack # <<>>
         /\ Top(Push(a, f)) = f
<1>1. a \in Automata /\ a.stack \in Stacks /\ a.stack \in Seq(Frames)
  BY DEF Live, Automata
<1>2. /\ Append(a.stack, f) \in Stacks
      /\ Len(Append(a.stack, f)) = Len(a.stack) + 1
      /\ Last(Append(a.stack, f)) = f
  BY <1>1, AppendToStack DEF Top
<1>3. Append(a.stack, f) \in Seq(Frames) /\ Append(a.stack, f) # <<>>
  BY <1>1
<1>4. Push(a, f) = [stack |-> Append(a.stack, f), finished |-> a.finished, invalid |-> a.invalid]
  BY <1>1 DEF Push, Automata
<1> QED BY <1>1, <1>2, <1>3, <1>4 DEF Live, Automata, Top

LEMMA SetTopIsLive ==
  ASSUME NEW a, Live(a), NEW f \in Frames, a.stack # <<>>,
         Front(a.stack) # <<>> => IsParent(Last(Front(a.stack)), f)
  PROVE  /\ Live(SetTop(a, f))
         /\ SetTop(a, f).stack = [a.stack EXCEPT ![Len(a.stack)] = f]
         /\ SetTop(a, f).finished = a.finished
         /\ SetTop(a, f).stack # <<>>
         /\ Top(SetTop(a, f)) = f
<1> DEFINE t == [a.stack EXCEPT ![Len(a.stack)] = f]
<1>1. a \in Automata /\ a.stack \in Stacks /\ a.stack \in Seq(Frames)
  BY DEF Live, Automata
<1>2. t \in Stacks /\ Len(t) = Len(a.stack) /\ Last(t) = f
  BY <1>1, TopOfStack
<1>3. t \in Seq(Frames) /\ t # <<>>
  BY <1>1, <1>2 DEF Stacks
<1>4. SetTop(a, f) = [stack |-> t, finished |-> a.finished, invalid |-> a.invalid]
  BY <1>1 DEF SetTop, Automata
<1> HIDE DEF t
<1>5. /\ Live(SetTop(a, f)) /\ SetTop(a, f).stack = t /\ SetTop(a, f).finished = a.finished
      /\ SetTop(a, f).stack # <<>> /\ Top(SetTop(a, f)) = f
  BY <1>1, <1>2, <1>3, <1>4 DEF Live, Automata, Top
<1> QED BY <1>5 DEF t

LEMMA CloseIsLive ==
  ASSUME NEW a, Live(a), a.stack # <<>>, ~IsKeyString(Top(a))
  PROVE  /\ Live(CloseValue(a))
         /\ CloseValue(a).stack = Front(a.stack)
         /\ IF Front(a.stack) = <<>> THEN CloseValue(a).finished
            ELSE CloseValue(a).finished = a.finished /\ Settled(Top(CloseValue(a)))
<1>1. a \in Automata /\ a.stack \in Stacks
  BY DEF Live, Automata
<1>2. /\ Front(a.stack) \in Stacks /\ Front(a.stack) \in Seq(Frames)
      /\ Front(a.stack) # <<>> => IsParent(Last(Front(a.stack)), Last(a.stack))
  BY <1>1, FrontOfStack DEF Stacks
<1>3. Pop(a) = [stack |-> Front(a.stack), finished |-> a.finished, invalid |-> a.invalid]
  BY <1>1 DEF Pop, Automata
<1>4. CASE Front(a.stack) = <<>>
  <2>1. CloseValue(a) = [Pop(a) EXCEPT !.finished = TRUE]
    BY <1>3, <1>4 DEF CloseValue, FoldAfterValue
  <2>2. Pop(a) \in Automata /\ Pop(a).stack = <<>> /\ ~Pop(a).invalid
    BY <1>2, <1>3, <1>4 DEF Live, Automata
  <2>3. /\ CloseValue(a) \in Automata /\ CloseValue(a).stack = <<>>
        /\ ~CloseValue(a).invalid /\ CloseValue(a).finished
    BY <2>1, <2>2 DEF Automata
  <2> QED BY <1>4, <2>3, EmptyIsStack DEF Live
<1>5. CASE Front(a.stack) # <<>>
  <2>1. Settled(Top(Pop(a)))
    BY <1>2, <1>3, <1>5 DEF Top, IsParent, IsKeyString, Settled
  <2>2. CloseValue(a) = Pop(a)
    BY <1>3, <1>5, <2>1 DEF CloseValue, FoldAfterValue, Settled
  <2> QED BY <1>1, <1>2, <1>3, <1>5, <2>1, <2>2 DEF Live, Automata
<1> QED BY <1>4, <1>5

-----------------------------------------------------------------------------
(* One byte: the automaton stays sound.                                      *)
LEMMA LiveIsSound ==
  ASSUME NEW a, Live(a), a.stack # <<>> => ~ReadsKey(Top(a))
  PROVE  Sound(a)
BY DEF Live, Sound

LEMMA StartValueIsSound ==
  ASSUME NEW a, Live(a), NEW b, a.stack = <<>> \/ Settled(Top(a))
  PROVE  Sound(StartValue(a, b))
<1>1. ASSUME NEW f \in Frames, ~ReadsKey(f), ~IsKeyString(f)
      PROVE  Sound(Push(a, f))
  <2>1. a.stack = <<>> \/ IsParent(Top(a), f)
    BY <1>1 DEF IsParent, Settled, IsKeyString
  <2> QED BY <1>1, <2>1, PushIsLive, LiveIsSound
<1>2. /\ ObjectFrame \in Frames /\ ~ReadsKey(ObjectFrame) /\ ~IsKeyString(ObjectFrame)
      /\ ArrayFrame \in Frames /\ ~ReadsKey(ArrayFrame) /\ ~IsKeyString(ArrayFrame)
      /\ StringFrame(FALSE) \in Frames /\ ~ReadsKey(StringFrame(FALSE))
      /\ ~IsKeyString(StringFrame(FALSE))
      /\ NumberFrame(b) \in Frames /\ ~ReadsKey(NumberFrame(b)) /\ ~IsKeyString(NumberFrame(b))
  BY NewFrames DEF Frames, ReadsKey, IsKeyString, ObjectFrame, ArrayFrame, StringFrame, NumberFrame
<1>3. b \in DOMAIN Rest =>
        Literal(b) \in Frames /\ ~ReadsKey(Literal(b)) /\ ~IsKeyString(Literal(b))
  BY NewFrames DEF Frames, ReadsKey, IsKeyString, Literal
<1>4. Sound(Refuse(a))
  BY RefuseIsSound DEF Live
<1> QED BY <1>1, <1>2, <1>3, <1>4 DEF StartValue

(* A container may change what it expects.                                   *)
LEMMA ExpectIsLive ==
  ASSUME NEW a, Live(a), a.stack # <<>>, NEW what,
         \/ Top(a).kind = "object" /\ what \in {"key", "none", "colon", "value", "comma"}
         \/ Top(a).kind = "array" /\ what \in {"value", "comma"}
  PROVE  /\ Live(Expect(a, what))
         /\ Expect(a, what).stack # <<>>
         /\ Len(Expect(a, what).stack) = Len(a.stack)
         /\ \A i \in 1 .. Len(a.stack) - 1 : Expect(a, what).stack[i] = a.stack[i]
         /\ Expect(a, what).finished = a.finished
         /\ Top(Expect(a, what)).kind = Top(a).kind
         /\ Top(Expect(a, what)).expecting = what
<1> DEFINE f == [Top(a) EXCEPT !.expecting = what]
<1>1. a.stack \in Stacks /\ a.stack \in Seq(Frames) /\ Len(a.stack) \in Nat \ {0}
  BY DEF Live, Stacks
<1>2. Top(a) \in Frames
  BY <1>1 DEF Top, Last
<1>3. f \in Frames /\ f.kind = Top(a).kind /\ f.expecting = what
  <2>1. CASE Top(a).kind = "object"
    <3>1. Top(a) \in ObjectFrames
      BY <1>2, <2>1, FramesByKind
    <3> QED BY <2>1, <3>1 DEF ObjectFrames, Frames
  <2>2. CASE Top(a).kind = "array"
    <3>1. Top(a) \in ArrayFrames
      BY <1>2, <2>2, FramesByKind
    <3> QED BY <2>2, <3>1 DEF ArrayFrames, Frames
  <2> QED BY <2>1, <2>2
<1>4. Front(a.stack) # <<>> => IsParent(Last(Front(a.stack)), f)
  <2>1. Front(a.stack) # <<>> => IsParent(Last(Front(a.stack)), Top(a))
    BY <1>1, FrontOfStack DEF Top
  <2> QED BY <1>3, <2>1 DEF IsParent
<1>5. Expect(a, what) = SetTop(a, f)
  BY DEF Expect
<1> HIDE DEF f
<1>6. /\ Live(Expect(a, what)) /\ Expect(a, what).stack # <<>>
      /\ Expect(a, what).stack = [a.stack EXCEPT ![Len(a.stack)] = f]
      /\ Expect(a, what).finished = a.finished /\ Top(Expect(a, what)) = f
  BY <1>3, <1>4, <1>5, SetTopIsLive
<1>7. /\ Len(Expect(a, what).stack) = Len(a.stack)
      /\ \A i \in 1 .. Len(a.stack) - 1 : Expect(a, what).stack[i] = a.stack[i]
  BY <1>1, <1>6
<1> QED BY <1>3, <1>6, <1>7

LEMMA CloseIsSound ==
  ASSUME NEW a, Live(a), a.stack # <<>>, ~IsKeyString(Top(a))
  PROVE  Sound(CloseValue(a))
BY CloseIsLive, LiveIsSound DEF Settled, ReadsKey

LEMMA FeedObjectIsSound ==
  ASSUME NEW a, Live(a), a.stack # <<>>, NEW b, Top(a).kind = "object"
  PROVE  Sound(FeedObject(a, b))
<1> DEFINE e == Top(a).expecting
<1>1. ~IsKeyString(Top(a))
  BY DEF IsKeyString
<1>2. CASE e = "key" /\ b = "\""
  <2> DEFINE o == Expect(a, "none")
  <2>1. Live(o) /\ o.stack # <<>> /\ Top(o).kind = "object" /\ Top(o).expecting = "none"
    BY ExpectIsLive
  <2>2. /\ StringFrame(TRUE) \in Frames
        /\ StringFrame(TRUE).kind = "string" /\ StringFrame(TRUE).is_key
    BY NewFrames DEF Frames, StringFrame
  <2>3. IsParent(Top(o), StringFrame(TRUE))
    BY <2>1, <2>2 DEF IsParent
  <2> HIDE DEF o
  <2>4. Live(Push(o, StringFrame(TRUE))) /\ Top(Push(o, StringFrame(TRUE))) = StringFrame(TRUE)
    BY <2>1, <2>2, <2>3, PushIsLive
  <2>5. Sound(Push(o, StringFrame(TRUE)))
    BY <2>2, <2>4, LiveIsSound DEF ReadsKey
  <2> QED BY <1>2, <2>5 DEF FeedObject, o
<1>3. Sound(CloseValue(a)) /\ Sound(Refuse(a))
  BY <1>1, CloseIsSound, RefuseIsSound DEF Live
<1>4. Sound(Expect(a, "value")) /\ Sound(Expect(a, "key"))
  BY ExpectIsLive, LiveIsSound DEF ReadsKey
<1>5. Sound(StartValue(Expect(a, "comma"), b))
  <2>1. Live(Expect(a, "comma")) /\ Settled(Top(Expect(a, "comma")))
    BY ExpectIsLive DEF Settled
  <2> QED BY <2>1, StartValueIsSound
<1> QED BY <1>2, <1>3, <1>4, <1>5 DEF FeedObject

LEMMA FeedArrayIsSound ==
  ASSUME NEW a, Live(a), a.stack # <<>>, NEW b, Top(a).kind = "array"
  PROVE  Sound(FeedArray(a, b))
<1>1. ~IsKeyString(Top(a))
  BY DEF IsKeyString
<1>2. Sound(CloseValue(a)) /\ Sound(Refuse(a))
  BY <1>1, CloseIsSound, RefuseIsSound DEF Live
<1>3. Sound(Expect(a, "value"))
  BY ExpectIsLive, LiveIsSound DEF ReadsKey
<1>4. Sound(StartValue(Expect(a, "comma"), b))
  <2>1. Live(Expect(a, "comma")) /\ Settled(Top(Expect(a, "comma")))
    BY ExpectIsLive DEF Settled
  <2> QED BY <2>1, StartValueIsSound
<1> QED BY <1>2, <1>3, <1>4 DEF FeedArray

LEMMA FeedStringIsSound ==
  ASSUME NEW a, Live(a), a.stack # <<>>, NEW b, Top(a).kind = "string"
  PROVE  Sound(FeedString(a, b))
<1> DEFINE f == Top(a)
<1>1. a \in Automata /\ a.stack \in Stacks /\ a.stack \in Seq(Frames) /\ f \in StringFrames
  <2>1. a.stack \in Seq(Frames) /\ a \in Automata /\ a.stack \in Stacks
    BY DEF Live, Stacks
  <2>2. f \in Frames
    BY <2>1 DEF Top, Last
  <2> QED BY <2>1, <2>2, FramesByKind
<1>2. Front(a.stack) # <<>> => IsParent(Last(Front(a.stack)), f)
  BY <1>1, FrontOfStack DEF Top
<1>3. ASSUME StringTakes(f, b)
      PROVE  Sound(SetTop(a, StringAfter(f, b)))
  <2> DEFINE g == StringAfter(f, b)
  <2>1. \A e \in BOOLEAN, u \in 0 .. 4 :
          /\ [f EXCEPT !.escape = e, !.unicode = u] \in StringFrames
          /\ [f EXCEPT !.unicode = u] \in StringFrames
          /\ [f EXCEPT !.escape = e] \in StringFrames
    BY <1>1 DEF StringFrames
  <2>2. f.unicode > 0 => f.unicode - 1 \in 0 .. 4
    BY <1>1 DEF StringFrames
  <2>3. (b = "\\") \in BOOLEAN /\ FALSE \in BOOLEAN /\ (IF b = "u" THEN 4 ELSE 0) \in 0 .. 4
    OBVIOUS
  <2>4. g \in StringFrames
    BY <2>1, <2>2, <2>3 DEF StringAfter
  <2>5. g.kind = "string" /\ g.is_key = f.is_key /\ f.kind = "string"
    BY <1>1 DEF StringAfter, StringFrames
  <2>6. Front(a.stack) # <<>> => IsParent(Last(Front(a.stack)), g)
    BY <1>2, <2>5 DEF IsParent
  <2> HIDE DEF g
  <2>7. g \in Frames /\ ~ReadsKey(g)
    BY <2>4, <2>5 DEF Frames, ReadsKey
  <2>8. Live(SetTop(a, g)) /\ Top(SetTop(a, g)) = g
    BY <2>6, <2>7, SetTopIsLive
  <2>9. Sound(SetTop(a, g))
    BY <2>7, <2>8, LiveIsSound
  <2> QED BY <2>9 DEF g
<1>4. Sound(Refuse(a))
  BY <1>1, RefuseIsSound
<1>5. ASSUME ~f.is_key
      PROVE  Sound(CloseValue(a))
  BY <1>5, CloseIsSound DEF IsKeyString
<1>6. Live(Pop(a)) /\ Pop(a).stack = Front(a.stack)
  <2>1. Pop(a) = [stack |-> Front(a.stack), finished |-> a.finished, invalid |-> a.invalid]
    BY <1>1 DEF Pop, Automata
  <2>2. Front(a.stack) \in Stacks /\ Front(a.stack) \in Seq(Frames)
    BY <1>1, FrontOfStack DEF Stacks
  <2> QED BY <1>1, <2>1, <2>2 DEF Live, Automata
<1>7. ASSUME Inside(Pop(a), "object")
      PROVE  Sound(Expect(Pop(a), "colon"))
  <2>1. /\ Live(Expect(Pop(a), "colon"))
        /\ Top(Expect(Pop(a), "colon")).expecting = "colon"
    BY <1>6, <1>7, ExpectIsLive DEF Inside
  <2> QED BY <2>1, LiveIsSound DEF ReadsKey
<1>8. ASSUME f.is_key, ~Inside(Pop(a), "object")
      PROVE  Sound(Pop(a))
  <2>1. Pop(a).stack = <<>>
    BY <1>1, <1>2, <1>6, <1>8 DEF IsParent, Inside, Top, StringFrames
  <2> QED BY <1>6, <2>1, LiveIsSound
<1> QED BY <1>3, <1>4, <1>5, <1>7, <1>8 DEF FeedString

(* What is left of a literal.                                                *)
LEMMA TailOfRemainder ==
  ASSUME NEW left \in Remainders
  PROVE  left # <<>> /\ (Len(left) # 1 => Tail(left) \in Remainders)
<1>1. Remainders = {<<"r", "u", "e">>, <<"u", "e">>, <<"e">>,
                    <<"a", "l", "s", "e">>, <<"l", "s", "e">>, <<"s", "e">>,
                    <<"u", "l", "l">>, <<"l", "l">>, <<"l">>}
  BY DEF Remainders, Rest
<1>2. /\ Tail(<<"r", "u", "e">>) = <<"u", "e">> /\ Tail(<<"u", "e">>) = <<"e">>
      /\ Tail(<<"a", "l", "s", "e">>) = <<"l", "s", "e">>
      /\ Tail(<<"l", "s", "e">>) = <<"s", "e">> /\ Tail(<<"s", "e">>) = <<"e">>
      /\ Tail(<<"u", "l", "l">>) = <<"l", "l">> /\ Tail(<<"l", "l">>) = <<"l">>
      /\ Len(<<"e">>) = 1 /\ Len(<<"l">>) = 1
  OBVIOUS
<1>3. left # <<>>
  BY <1>1
<1> QED BY <1>1, <1>2, <1>3

LEMMA FeedLiteralIsSound ==
  ASSUME NEW a, Live(a), a.stack # <<>>, NEW b, Top(a).kind = "literal"
  PROVE  Sound(FeedLiteral(a, b))
<1> DEFINE f == Top(a)
           left == f.expected
           g == [f EXCEPT !.expected = Tail(left)]
<1>1. a \in Automata /\ a.stack \in Stacks /\ f \in LiteralFrames
  <2>1. a.stack \in Seq(Frames) /\ a \in Automata /\ a.stack \in Stacks
    BY DEF Live, Stacks
  <2>2. f \in Frames
    BY <2>1 DEF Top, Last
  <2> QED BY <2>1, <2>2, FramesByKind
<1>2. left \in Remainders
  BY <1>1 DEF LiteralFrames
<1>3. Len(left) # 1 => Tail(left) \in Remainders
  BY <1>2, TailOfRemainder
<1>4. Sound(Refuse(a)) /\ Sound(CloseValue(a))
  BY <1>1, RefuseIsSound, CloseIsSound DEF IsKeyString
<1>5. ASSUME Len(left) # 1
      PROVE  Sound(SetTop(a, g))
  <2>1. g \in LiteralFrames
    BY <1>1, <1>3, <1>5 DEF LiteralFrames
  <2>2. g \in Frames /\ ~ReadsKey(g) /\ ~IsKeyString(g) /\ ~IsKeyString(f)
    BY <1>1, <2>1 DEF Frames, ReadsKey, IsKeyString, LiteralFrames
  <2>3. Front(a.stack) # <<>> => IsParent(Last(Front(a.stack)), f)
    BY <1>1, FrontOfStack DEF Top
  <2>4. Front(a.stack) # <<>> => IsParent(Last(Front(a.stack)), g)
    BY <2>2, <2>3 DEF IsParent, IsKeyString
  <2> HIDE DEF g
  <2>5. Live(SetTop(a, g)) /\ Top(SetTop(a, g)) = g
    BY <2>2, <2>4, SetTopIsLive
  <2> QED BY <2>2, <2>5, LiveIsSound
<1> QED BY <1>4, <1>5 DEF FeedLiteral

(* Outside the scalars, in a container or at the top.                        *)
LEMMA FeedGapIsSound ==
  ASSUME NEW a, Live(a), NEW b, a.stack = <<>> \/ Top(a).kind \in {"object", "array"}
  PROVE  Sound(FeedGap(a, b))
<1>1. CASE a.stack = <<>>
  <2>1. Sound(Refuse(a)) /\ Sound(StartValue(a, b))
    BY <1>1, RefuseIsSound, StartValueIsSound DEF Live
  <2> QED BY <1>1, <2>1 DEF FeedGap, FeedTop
<1>2. CASE a.stack # <<>>
  BY <1>2, FeedObjectIsSound, FeedArrayIsSound DEF FeedGap
<1> QED BY <1>1, <1>2

LEMMA NumberAfterIsFlags ==
  ASSUME NEW n, NEW b
  PROVE  NumberAfter(n, b) \in Flags
<1>1. \A d, p, e, s, x \in BOOLEAN :
        [digit |-> d, dot |-> p, exp |-> e, sign |-> s, expdigit |-> x] \in Flags
  BY DEF Flags
<1>2. /\ (n.digit \/ b \in Digits) \in BOOLEAN
      /\ (n.dot \/ TakesPoint(n, b)) \in BOOLEAN
      /\ (n.exp \/ TakesExponent(n, b)) \in BOOLEAN
      /\ (n.sign \/ TakesSign(n, b)) \in BOOLEAN
      /\ (n.expdigit \/ (b \in Digits /\ n.exp)) \in BOOLEAN
  OBVIOUS
<1> QED BY <1>1, <1>2 DEF NumberAfter

LEMMA FeedNumberIsSound ==
  ASSUME NEW a, Live(a), a.stack # <<>>, NEW b, Top(a).kind = "number"
  PROVE  Sound(FeedNumber(a, b))
<1> DEFINE f == Top(a)
           g == [f EXCEPT !.n = NumberAfter(f.n, b)]
<1>1. a \in Automata /\ a.stack \in Stacks /\ f \in NumberFrames
  <2>1. a.stack \in Seq(Frames) /\ a \in Automata /\ a.stack \in Stacks
    BY DEF Live, Stacks
  <2>2. f \in Frames
    BY <2>1 DEF Top, Last
  <2> QED BY <2>1, <2>2, FramesByKind
<1>2. ~IsKeyString(f)
  BY <1>1 DEF IsKeyString, NumberFrames
<1>3. NumberAfter(f.n, b) \in Flags
  BY NumberAfterIsFlags
<1>4. Sound(SetTop(a, g))
  <2>1. g \in NumberFrames
    BY <1>1, <1>3 DEF NumberFrames
  <2>2. g \in Frames /\ ~ReadsKey(g) /\ ~IsKeyString(g)
    BY <2>1 DEF Frames, ReadsKey, IsKeyString, NumberFrames
  <2>3. Front(a.stack) # <<>> => IsParent(Last(Front(a.stack)), f)
    BY <1>1, FrontOfStack DEF Top
  <2>4. Front(a.stack) # <<>> => IsParent(Last(Front(a.stack)), g)
    BY <1>2, <2>2, <2>3 DEF IsParent, IsKeyString
  <2> HIDE DEF g
  <2>5. Live(SetTop(a, g)) /\ Top(SetTop(a, g)) = g
    BY <2>2, <2>4, SetTopIsLive
  <2> QED BY <2>2, <2>5, LiveIsSound
<1>5. Sound(FeedGap(CloseValue(a), b))
  <2>1. /\ Live(CloseValue(a))
        /\ CloseValue(a).stack = <<>> \/ Top(CloseValue(a)).kind \in {"object", "array"}
    BY <1>2, CloseIsLive DEF Settled
  <2> QED BY <2>1, FeedGapIsSound
<1>6. Sound(Refuse(a))
  BY <1>1, RefuseIsSound
<1> QED BY <1>4, <1>5, <1>6 DEF FeedNumber

LEMMA FeedIsSound ==
  ASSUME NEW a, Sound(a), NEW b
  PROVE  Sound(Feed(a, b))
<1>1. CASE a.invalid
  BY <1>1 DEF Feed
<1>2. CASE ~a.invalid
  <2>1. Live(a)
    BY <1>2 DEF Sound, Live
  <2>2. a.stack # <<>> =>
          Top(a).kind \in {"object", "array", "string", "number", "literal"}
    <3>1. a.stack \in Seq(Frames)
      BY <2>1 DEF Live, Stacks
    <3>2. a.stack # <<>> => Top(a) \in Frames
      BY <3>1 DEF Top, Last
    <3> QED BY <3>2, FramesByKind
  <2>3. Sound(FeedSpace(a))
    <3>1. CASE ~Inside(a, "number")
      BY <3>1 DEF FeedSpace
    <3>2. CASE Inside(a, "number")
      <4>1. Sound(CloseValue(a)) /\ Sound(Refuse(a))
        BY <2>1, <3>2, CloseIsSound, RefuseIsSound DEF Live, Inside, IsKeyString
      <4> QED BY <3>2, <4>1 DEF FeedSpace
    <3> QED BY <3>1, <3>2
  <2>4. /\ Inside(a, "string") => Sound(FeedString(a, b))
        /\ Inside(a, "number") => Sound(FeedNumber(a, b))
        /\ Inside(a, "literal") => Sound(FeedLiteral(a, b))
    BY <2>1, FeedStringIsSound, FeedNumberIsSound, FeedLiteralIsSound DEF Inside
  <2>5. ASSUME ~Inside(a, "string"), ~Inside(a, "number"), ~Inside(a, "literal")
        PROVE  Sound(FeedGap(a, b))
    BY <2>1, <2>2, <2>5, FeedGapIsSound DEF Inside
  <2> QED BY <1>2, <2>3, <2>4, <2>5 DEF Feed
<1> QED BY <1>1, <1>2

-----------------------------------------------------------------------------
(* The inductive invariant: whatever is fed, what has not refused anything   *)
(* keeps a stack on which every container expects what comes behind its      *)
(* innermost value.                                                          *)
THEOREM SoundIsInductive == Spec => []Sound(js)
<1>1. Init => Sound(js)
  <2>1. Fresh \in Automata /\ Fresh.stack = <<>>
    BY DEF Fresh, Automata
  <2>2. Sound(Fresh)
    BY <2>1, EmptyIsStack DEF Sound
  <2> QED BY <2>2 DEF Init
<1>2. Sound(js) /\ [Next]_vars => Sound(js)'
  <2> SUFFICES ASSUME Sound(js), [Next]_vars PROVE Sound(js')
    BY DEF Sound, Automata
  <2>1. CASE Next
    <3>1. PICK b \in Bytes : FeedByte(b)
      BY <2>1 DEF Next
    <3>2. js' = Feed(js, b)
      BY <3>1 DEF FeedByte
    <3> QED BY <3>2, FeedIsSound
  <2>2. CASE UNCHANGED vars
    BY <2>2 DEF vars
  <2> QED BY <2>1, <2>2
<1> QED BY <1>1, <1>2, PTL DEF Spec

(* The automaton only ever holds frames: four hexadecimal digits are         *)
(* awaited at most, of a literal a rest of true, false or null.              *)
THEOREM TypeCorrect == Spec => []TypeOK
<1>1. Sound(js) => TypeOK
  BY DEF Sound, Automata, TypeOK
<1> QED BY <1>1, SoundIsInductive, PTL

(* However deep the nesting, a container with something open inside already  *)
(* expects what comes behind it: the number that hands its last byte to its  *)
(* parent hands it to one that waits for a comma or its end.                 *)
THEOREM ParentsAlwaysReady == Spec => []ParentsAreReady
<1>1. Sound(js) => ParentsAreReady
  BY DEF Sound, Stacks, ParentsAreReady
<1> QED BY <1>1, SoundIsInductive, PTL

-----------------------------------------------------------------------------
(* There is always a byte to go on with.                                     *)
LEMMA NothingRefusedByMoving ==
  ASSUME NEW a \in Automata, ~a.invalid, NEW f
  PROVE  ~Push(a, f).invalid /\ ~SetTop(a, f).invalid
BY DEF Automata, Push, SetTop

LEMMA ScalarGoesOn ==
  ASSUME NEW a, Live(a), a.stack # <<>>, Top(a).kind \in {"string", "number", "literal"}
  PROVE  \E b \in Bytes \ Whitespace : ~Feed(a, b).invalid
<1> DEFINE f == Top(a)
<1>1. a \in Automata /\ ~a.invalid /\ f \in Frames
  BY DEF Live, Stacks, Top, Last
<1>2. CASE f.kind = "string"
  <2>1. /\ "0" \in Hex /\ "n" \in Escapable
        /\ {"0", "n", "x"} \subseteq Bytes \ Whitespace
        /\ "x" \notin {"\"", "\n", "ctl"}
    BY DEF Hex, Digits, Escapable, Bytes, Whitespace
  <2>2. f.unicode \in 0 .. 4
    BY <1>1, <1>2, FramesByKind DEF StringFrames
  <2>3. PICK b \in {"0", "n", "x"} : StringTakes(f, b)
    BY <2>1, <2>2 DEF StringTakes
  <2>4. Feed(a, b) = SetTop(a, StringAfter(f, b))
    BY <1>1, <1>2, <2>1, <2>3 DEF Feed, FeedString, Inside
  <2> QED BY <1>1, <2>1, <2>4, NothingRefusedByMoving
<1>3. CASE f.kind = "number"
  <2>1. "0" \in Digits /\ "0" \in Bytes \ Whitespace
    BY DEF Digits, Hex, Bytes, Whitespace
  <2>2. Feed(a, "0") = SetTop(a, [f EXCEPT !.n = NumberAfter(f.n, "0")])
    BY <1>1, <1>3, <2>1 DEF Feed, FeedNumber, NumberTakes, Inside
  <2> QED BY <1>1, <2>1, <2>2, NothingRefusedByMoving
<1>4. CASE f.kind = "literal"
  <2> DEFINE b == Head(f.expected)
  <2>1. f.expected \in Remainders
    BY <1>1, <1>4, FramesByKind DEF LiteralFrames
  <2>2. f.expected # <<>> /\ b \in {"r", "u", "e", "a", "l", "s"}
    BY <2>1 DEF Remainders, Rest
  <2>3. b \in Bytes \ Whitespace
    BY <2>2 DEF Bytes, Escapable, Hex, Whitespace
  <2>4. Feed(a, b) = FeedLiteral(a, b)
    BY <1>1, <1>4, <2>3 DEF Feed, Inside
  <2>5. ~IsKeyString(f)
    BY <1>4 DEF IsKeyString
  <2>6. ~CloseValue(a).invalid
    BY <2>5, CloseIsLive DEF Live
  <2>7. ~Feed(a, b).invalid
    BY <1>1, <2>2, <2>4, <2>6, NothingRefusedByMoving DEF FeedLiteral
  <2> QED BY <2>3, <2>7
<1> QED BY <1>2, <1>3, <1>4

LEMMA GapGoesOn ==
  ASSUME NEW a, Live(a), ~IsComplete(a),
         a.stack # <<>> => Top(a).kind \in {"object", "array"} /\ ~ReadsKey(Top(a))
  PROVE  \E b \in Bytes \ Whitespace : ~Feed(a, b).invalid
<1>1. a \in Automata /\ ~a.invalid
  BY DEF Live
<1>2. {"{", "}", "]", ":", "\""} \subseteq Bytes \ Whitespace
  BY DEF Bytes, Whitespace, Escapable
<1>3. CASE a.stack = <<>>
  <2>1. Feed(a, "{") = Push(a, ObjectFrame)
    BY <1>1, <1>2, <1>3 DEF Feed, Inside, FeedGap, FeedTop, StartValue, IsComplete
  <2> QED BY <1>1, <1>2, <2>1, NothingRefusedByMoving
<1>4. CASE a.stack # <<>> /\ Top(a).kind = "array"
  <2>1. Feed(a, "]") = CloseValue(a)
    BY <1>1, <1>2, <1>4 DEF Feed, Inside, FeedGap, FeedArray
  <2>2. ~CloseValue(a).invalid
    BY <1>4, CloseIsLive DEF Live, IsKeyString
  <2> QED BY <1>2, <2>1, <2>2
<1>5. CASE a.stack # <<>> /\ Top(a).kind = "object"
  <2> DEFINE e == Top(a).expecting
  <2>1. e \in {"key", "colon", "value", "comma"}
    <3>1. Top(a) \in Frames
      BY <1>5 DEF Live, Stacks, Top, Last
    <3> QED BY <1>5, <3>1, FramesByKind DEF ObjectFrames, ReadsKey
  <2>2. \A b : b \notin Whitespace => Feed(a, b) = FeedObject(a, b)
    BY <1>1, <1>5 DEF Feed, Inside, FeedGap
  <2>3. CASE e \in {"key", "comma"}
    <3>1. Feed(a, "}") = CloseValue(a)
      BY <1>2, <2>2, <2>3 DEF FeedObject
    <3>2. ~CloseValue(a).invalid
      BY <1>5, CloseIsLive DEF Live, IsKeyString
    <3> QED BY <1>2, <3>1, <3>2
  <2>4. CASE e = "colon"
    <3>1. Feed(a, ":") = Expect(a, "value")
      BY <1>2, <2>2, <2>4 DEF FeedObject
    <3>2. ~Expect(a, "value").invalid
      BY <1>5, ExpectIsLive DEF Live
    <3> QED BY <1>2, <3>1, <3>2
  <2>5. CASE e = "value"
    <3>1. Feed(a, "{") = StartValue(Expect(a, "comma"), "{")
      BY <1>2, <2>2, <2>5 DEF FeedObject
    <3>2. Feed(a, "{") = Push(Expect(a, "comma"), ObjectFrame)
      BY <3>1 DEF StartValue
    <3>3. Expect(a, "comma") \in Automata /\ ~Expect(a, "comma").invalid
      BY <1>5, ExpectIsLive DEF Live
    <3> QED BY <1>2, <3>2, <3>3, NothingRefusedByMoving
  <2> QED BY <2>1, <2>3, <2>4, <2>5
<1> QED BY <1>3, <1>4, <1>5

(* A sampler that masks whatever is refused always has a byte left, in any   *)
(* text that is not complete, however long and deep it is.                   *)
THEOREM NothingStrands == Spec => []NeverStranded
<1>1. Sound(js) => NeverStranded
  <2> SUFFICES ASSUME Sound(js), ~js.invalid, ~IsComplete(js)
               PROVE  \E b \in Bytes \ Whitespace : ~Feed(js, b).invalid
    BY DEF NeverStranded
  <2>1. Live(js) /\ (js.stack # <<>> => ~ReadsKey(Top(js)))
    BY DEF Sound, Live
  <2>2. js.stack # <<>> =>
          Top(js).kind \in {"object", "array", "string", "number", "literal"}
    <3>1. js.stack # <<>> => Top(js) \in Frames
      BY <2>1 DEF Live, Stacks, Top, Last
    <3> QED BY <3>1, FramesByKind
  <2> QED BY <2>1, <2>2, ScalarGoesOn, GapGoesOn
<1> QED BY <1>1, SoundIsInductive, PTL

-----------------------------------------------------------------------------
(* The automaton and the reference read every text alike, at any depth: the *)
(* brackets that are open are those of the containers on the stack, and the  *)
(* topmost frame determines the place in the grammar.                        *)
Brackets == {"{", "["}
Bracket(f) == IF f.kind = "object" THEN "{" ELSE "["
Containers == {"object", "array"}

IsText(t) == t = [nest |-> t.nest, at |-> t.at] /\ t.nest \in Seq(Brackets)

(* The lowest k frames are the containers whose brackets are open.           *)
Matches(t, s, k) == Len(t.nest) = k /\ \A i \in 1 .. k : t.nest[i] = Bracket(s[i])

ObjectPlace(expecting, what) ==
  /\ expecting = "key" => what \in {"key", "first key"}
  /\ expecting = "colon" => what = "colon"
  /\ expecting = "value" => what = "value"
  /\ expecting = "comma" => what = "comma"

ArrayPlace(expecting, what) ==
  /\ expecting = "value" => what \in {"value", "first value"}
  /\ expecting = "comma" => what = "comma"

StringPlace(f, at) ==
  /\ f.unicode > 0 => ~f.escape
  /\ at = InString(IF f.unicode > 0 THEN "hex" ELSE IF f.escape THEN "escape" ELSE "string",
                   f.is_key, f.unicode)

(* The flags of a number that was read as far as a place.                    *)
NumberAgrees(n, what) ==
  /\ what = "minus" => ~n.digit /\ ~n.dot /\ ~n.exp
  /\ what # "minus" => n.digit
  /\ what \in {"zero", "digits"} => ~n.dot
  /\ what \in {"point", "fraction"} => n.dot
  /\ what \in {"minus", "zero", "digits", "point", "fraction"} => ~n.exp /\ ~n.sign /\ ~n.expdigit
  /\ what \in {"e", "sign", "exponent"} => n.exp
  /\ what = "e" => ~n.sign /\ ~n.expdigit
  /\ what = "sign" => n.sign /\ ~n.expdigit
  /\ what = "exponent" => n.expdigit
  /\ what \in Numbers

FramePlace(f, at) ==
  /\ f.kind = "object" => ObjectPlace(f.expecting, at.what)
  /\ f.kind = "array" => ArrayPlace(f.expecting, at.what)
  /\ f.kind = "string" => StringPlace(f, at)
  /\ f.kind = "number" => NumberAgrees(f.n, at.what)
  /\ f.kind = "literal" => at = InLiteral(f.expected)

(* An empty stack; a container, or a scalar with the rest below it.          *)
AtTop(a, t) == Matches(t, a.stack, 0) /\ t.at.what = IF a.finished THEN "end" ELSE "value"
AtContainer(a, t) == Matches(t, a.stack, Len(a.stack)) /\ FramePlace(Top(a), t.at)
AtScalar(a, t) ==
  /\ Matches(t, a.stack, Len(a.stack) - 1) /\ FramePlace(Top(a), t.at)
  /\ IsKeyString(Top(a)) => Len(a.stack) > 1

Agree(a, t) ==
  /\ Sound(a) /\ IsText(t)
  /\ a.invalid => Broken(t)
  /\ ~a.invalid =>
       IF a.stack = <<>> THEN AtTop(a, t)
       ELSE IF Top(a).kind \in Containers THEN AtContainer(a, t)
       ELSE AtScalar(a, t)

-----------------------------------------------------------------------------
(* The reference's steps, by what they leave and what they change.           *)
LEMMA TextMoves ==
  ASSUME NEW t, IsText(t), NEW at, NEW what
  PROVE  /\ IsText(To(t, at)) /\ To(t, at).nest = t.nest /\ To(t, at).at = at
         /\ IsText(Go(t, what)) /\ Go(t, what).nest = t.nest /\ Go(t, what).at = At(what)
         /\ IsText(Break(t)) /\ Broken(Break(t))
BY DEF IsText, To, Go, At, Break, Broken, Is

LEMMA RefuseAgrees ==
  ASSUME NEW a \in Automata, NEW t, IsText(t)
  PROVE  Agree(Refuse(a), Break(t))
BY RefuseIsSound, TextMoves DEF Agree

(* A value closed.                                                           *)
LEMMA CloseAgrees ==
  ASSUME NEW a, Live(a), a.stack # <<>>, ~IsKeyString(Top(a)),
         NEW t, IsText(t), Matches(t, a.stack, Len(a.stack) - 1)
  PROVE  Agree(CloseValue(a), ValueOver(t))
<1> DEFINE c == CloseValue(a)
           u == ValueOver(t)
<1>1. a.stack \in Stacks /\ a.stack \in Seq(Frames) /\ Len(a.stack) \in Nat \ {0}
  BY DEF Live, Stacks
<1>2. /\ Sound(c) /\ ~c.invalid /\ c.stack = Front(a.stack)
      /\ c.stack = <<>> => c.finished
      /\ c.stack # <<>> => Settled(Top(c))
  BY CloseIsSound, CloseIsLive DEF Live
<1>3. /\ Len(c.stack) = Len(a.stack) - 1
      /\ \A i \in 1 .. Len(a.stack) - 1 : c.stack[i] = a.stack[i]
  BY <1>1, <1>2, FrontOfStack
<1>4. /\ IsText(u) /\ u.nest = t.nest
      /\ u.at.what = IF t.nest = <<>> THEN "end" ELSE "comma"
  <2> DEFINE what == IF t.nest = <<>> THEN "end" ELSE "comma"
  <2>1. u = Go(t, what) /\ At(what).what = what
    BY DEF ValueOver, At
  <2> QED BY <2>1, TextMoves
<1>5. Matches(u, c.stack, Len(c.stack))
  BY <1>3, <1>4 DEF Matches
<1>6. c.stack \in Seq(Frames)
  BY <1>2 DEF Sound, Automata
<1>7. (t.nest = <<>>) = (c.stack = <<>>)
  BY <1>3, <1>6 DEF Matches, IsText
<1> HIDE DEF c, u
<1>8. CASE c.stack = <<>>
  <2>1. Len(c.stack) = 0
    BY <1>8
  <2> QED BY <1>2, <1>4, <1>5, <1>7, <1>8, <2>1 DEF Agree, AtTop, c, u
<1>9. CASE c.stack # <<>>
  <2>1. FramePlace(Top(c), u.at)
    BY <1>2, <1>4, <1>7, <1>9 DEF FramePlace, ObjectPlace, ArrayPlace, Settled
  <2> QED BY <1>2, <1>4, <1>5, <1>9, <2>1 DEF Agree, AtContainer, Settled, Containers, c, u
<1> QED BY <1>8, <1>9

(* A container, with its bracket, and a scalar.                              *)
LEMMA PushAgrees ==
  ASSUME NEW a, Live(a), NEW f \in Frames, ~ReadsKey(f),
         IF a.stack = <<>> THEN ~IsKeyString(f) ELSE IsParent(Top(a), f),
         NEW t, IsText(t), Matches(t, a.stack, Len(a.stack)),
         NEW u, IsText(u), FramePlace(f, u.at),
         u.nest = IF f.kind \in Containers THEN Append(t.nest, Bracket(f)) ELSE t.nest
  PROVE  Agree(Push(a, f), u)
<1> DEFINE p == Push(a, f)
<1>1. /\ a.stack \in Stacks /\ a.stack \in Seq(Frames) /\ Len(a.stack) \in Nat
      /\ t.nest \in Seq(Brackets)
  BY DEF Live, Stacks, IsText
<1>2. Live(p) /\ p.stack = Append(a.stack, f) /\ p.stack # <<>> /\ Top(p) = f
  BY PushIsLive
<1>3. Sound(p) /\ ~p.invalid
  BY <1>2, LiveIsSound DEF Live
<1>4. /\ Len(p.stack) = Len(a.stack) + 1
      /\ \A i \in 1 .. Len(a.stack) : p.stack[i] = a.stack[i]
      /\ p.stack[Len(a.stack) + 1] = f
  BY <1>1, <1>2
<1> HIDE DEF p
<1>5. CASE f.kind \in Containers
  <2>1. /\ Len(u.nest) = Len(a.stack) + 1
        /\ \A i \in 1 .. Len(a.stack) : u.nest[i] = t.nest[i]
        /\ u.nest[Len(a.stack) + 1] = Bracket(f)
    BY <1>1, <1>5 DEF Matches
  <2>2. Matches(u, p.stack, Len(p.stack))
    <3>1. ASSUME NEW i \in 1 .. Len(a.stack) + 1
          PROVE  u.nest[i] = Bracket(p.stack[i])
      <4>1. i \in 1 .. Len(a.stack) \/ i = Len(a.stack) + 1
        BY <1>1
      <4> QED BY <1>4, <2>1, <4>1 DEF Matches
    <3> QED BY <1>4, <2>1, <3>1 DEF Matches
  <2>3. AtContainer(p, u)
    BY <1>2, <2>2 DEF AtContainer
  <2> QED BY <1>2, <1>3, <1>5, <2>3 DEF Agree, p
<1>6. CASE f.kind \notin Containers
  <2>1. Matches(u, p.stack, Len(p.stack) - 1)
    BY <1>1, <1>4, <1>6 DEF Matches
  <2>2. IsKeyString(f) => Len(p.stack) > 1
    BY <1>1, <1>4
  <2>3. AtScalar(p, u)
    BY <1>2, <2>1, <2>2 DEF AtScalar
  <2> QED BY <1>2, <1>3, <1>6, <2>3 DEF Agree, p
<1> QED BY <1>5, <1>6

(* A value starts where one may.                                             *)
LEMMA StartAgrees ==
  ASSUME NEW a, Live(a), a.stack = <<>> \/ Settled(Top(a)),
         NEW t, IsText(t), Matches(t, a.stack, Len(a.stack)), NEW b \in Bytes
  PROVE  Agree(StartValue(a, b), NewValue(t, b))
<1>1. a \in Automata /\ t.nest \in Seq(Brackets)
  BY DEF Live, IsText
<1>2. ASSUME NEW f \in Frames, ~ReadsKey(f), ~IsKeyString(f),
             NEW u, IsText(u), FramePlace(f, u.at),
             u.nest = IF f.kind \in Containers THEN Append(t.nest, Bracket(f)) ELSE t.nest
      PROVE  Agree(Push(a, f), u)
  <2>1. a.stack # <<>> => IsParent(Top(a), f)
    BY <1>2 DEF IsParent, Settled, IsKeyString
  <2> QED BY <1>2, <2>1, PushAgrees
<1>3. CASE b = "{"
  <2>1. ObjectFrame \in Frames /\ ~ReadsKey(ObjectFrame) /\ ~IsKeyString(ObjectFrame)
    BY NewFrames DEF Frames, ObjectFrame, ReadsKey, IsKeyString
  <2>2. NewValue(t, b) = Open(t, "{", "first key") /\ StartValue(a, b) = Push(a, ObjectFrame)
    BY <1>3 DEF NewValue, StartValue, Rest
  <2>3. IsText(Open(t, "{", "first key"))
    <3>1. Append(t.nest, "{") \in Seq(Brackets)
      <4>1. "{" \in Brackets
        BY DEF Brackets
      <4> QED BY <1>1, <4>1, AppendProperties
    <3> QED BY <3>1 DEF IsText, Open
  <2>4. FramePlace(ObjectFrame, Open(t, "{", "first key").at)
    BY DEF FramePlace, ObjectFrame, ObjectPlace, Open, At
  <2>5. Open(t, "{", "first key").nest = Append(t.nest, Bracket(ObjectFrame))
        /\ ObjectFrame.kind \in Containers
    BY DEF Open, ObjectFrame, Bracket, Containers
  <2> QED BY <1>2, <2>1, <2>2, <2>3, <2>4, <2>5
<1>4. CASE b = "["
  <2>1. ArrayFrame \in Frames /\ ~ReadsKey(ArrayFrame) /\ ~IsKeyString(ArrayFrame)
    BY NewFrames DEF Frames, ArrayFrame, ReadsKey, IsKeyString
  <2>2. NewValue(t, b) = Open(t, "[", "first value") /\ StartValue(a, b) = Push(a, ArrayFrame)
    BY <1>4 DEF NewValue, StartValue, Rest
  <2>3. IsText(Open(t, "[", "first value"))
    <3>1. Append(t.nest, "[") \in Seq(Brackets)
      <4>1. "[" \in Brackets
        BY DEF Brackets
      <4> QED BY <1>1, <4>1, AppendProperties
    <3> QED BY <3>1 DEF IsText, Open
  <2>4. FramePlace(ArrayFrame, Open(t, "[", "first value").at)
    BY DEF FramePlace, ArrayFrame, ArrayPlace, Open, At
  <2>5. Open(t, "[", "first value").nest = Append(t.nest, Bracket(ArrayFrame))
        /\ ArrayFrame.kind \in Containers
    BY DEF Open, ArrayFrame, Bracket, Containers
  <2> QED BY <1>2, <2>1, <2>2, <2>3, <2>4, <2>5
<1>5. ASSUME NEW f \in Frames, ~ReadsKey(f), ~IsKeyString(f), f.kind \notin Containers,
             NEW at, FramePlace(f, at)
      PROVE  Agree(Push(a, f), To(t, at))
  BY <1>2, <1>5, TextMoves
<1>6. CASE b = "\""
  <2> DEFINE f == StringFrame(FALSE)
             at == InString("string", FALSE, 0)
  <2>1. f \in Frames /\ ~ReadsKey(f) /\ ~IsKeyString(f) /\ f.kind \notin Containers
    BY NewFrames DEF Frames, StringFrame, ReadsKey, IsKeyString, Containers
  <2>2. NewValue(t, b) = To(t, at) /\ StartValue(a, b) = Push(a, f)
    BY <1>6 DEF NewValue, StartValue, Rest
  <2>3. FramePlace(f, at)
    BY DEF FramePlace, StringPlace, StringFrame
  <2> HIDE DEF f, at
  <2> QED BY <1>5, <2>1, <2>2, <2>3
<1>7. CASE b \in DOMAIN Rest
  <2> DEFINE f == Literal(b)
             at == InLiteral(Rest[b])
  <2>0. b \in {"t", "f", "n"}
    BY <1>7 DEF Rest
  <2>1. f \in Frames /\ ~ReadsKey(f) /\ ~IsKeyString(f) /\ f.kind \notin Containers
    BY <1>7, NewFrames DEF Frames, Literal, ReadsKey, IsKeyString, Containers
  <2>2. NewValue(t, b) = To(t, at) /\ StartValue(a, b) = Push(a, f)
    BY <1>7, <2>0 DEF NewValue, StartValue
  <2>3. FramePlace(f, at)
    BY DEF FramePlace, Literal
  <2> HIDE DEF f, at
  <2> QED BY <1>5, <2>1, <2>2, <2>3
<1>8. CASE b \in {"-", "0", "1"}
  <2> DEFINE f == NumberFrame(b)
             what == IF b = "-" THEN "minus" ELSE IF b = "0" THEN "zero" ELSE "digits"
  <2>1. f \in Frames /\ ~ReadsKey(f) /\ ~IsKeyString(f) /\ f.kind \notin Containers
    BY NewFrames DEF Frames, NumberFrame, ReadsKey, IsKeyString, Containers
  <2>2. NewValue(t, b) = To(t, At(what)) /\ StartValue(a, b) = Push(a, f)
    BY <1>8 DEF NewValue, StartValue, Rest, Digits, Go
  <2>3. FramePlace(f, At(what))
    <3>1. /\ f.kind = "number" /\ f.n.digit = (b # "-")
          /\ ~f.n.dot /\ ~f.n.exp /\ ~f.n.sign /\ ~f.n.expdigit
      <4>1. (b \in Digits) = (b # "-")
        BY <1>8 DEF Digits
      <4> QED BY <4>1 DEF NumberFrame, NoFlags
    <3>2. NumberAgrees(f.n, what)
      BY <1>8, <3>1 DEF NumberAgrees, Numbers
    <3> QED BY <3>1, <3>2 DEF FramePlace, At
  <2> HIDE DEF f, what
  <2> QED BY <1>5, <2>1, <2>2, <2>3
<1>9. CASE b \notin {"{", "[", "\"", "-", "0", "1"} /\ b \notin DOMAIN Rest
  <2>1. StartValue(a, b) = Refuse(a) /\ NewValue(t, b) = Break(t)
    BY <1>9 DEF StartValue, NewValue, Digits
  <2> QED BY <1>1, <2>1, RefuseAgrees
<1> QED BY <1>3, <1>4, <1>6, <1>7, <1>8, <1>9

(* A container expects something else.                                       *)
LEMMA ExpectAgrees ==
  ASSUME NEW a, Live(a), a.stack # <<>>, NEW what, what # "none",
         \/ Top(a).kind = "object" /\ what \in {"key", "colon", "value", "comma"}
         \/ Top(a).kind = "array" /\ what \in {"value", "comma"},
         NEW t, IsText(t), Matches(t, a.stack, Len(a.stack))
  PROVE  /\ Matches(t, Expect(a, what).stack, Len(Expect(a, what).stack))
         /\ Agree(Expect(a, what), Go(t, what))
<1> DEFINE e == Expect(a, what)
           u == Go(t, what)
<1>1. /\ Live(e) /\ e.stack # <<>> /\ Len(e.stack) = Len(a.stack)
      /\ \A i \in 1 .. Len(a.stack) - 1 : e.stack[i] = a.stack[i]
      /\ Top(e).kind = Top(a).kind /\ Top(e).expecting = what
  BY ExpectIsLive
<1>2. IsText(u) /\ u.nest = t.nest /\ u.at.what = what
  <2>1. At(what).what = what
    BY DEF At
  <2> QED BY <2>1, TextMoves
<1> HIDE DEF e, u
<1>3. Len(a.stack) \in Nat \ {0}
  BY DEF Live, Stacks
<1>4. ASSUME NEW i \in 1 .. Len(a.stack)
      PROVE  Bracket(e.stack[i]) = Bracket(a.stack[i])
  <2>1. CASE i \in 1 .. Len(a.stack) - 1
    BY <1>1, <2>1
  <2>2. CASE i = Len(a.stack)
    BY <1>1, <2>2 DEF Top, Last, Bracket
  <2> QED BY <1>3, <2>1, <2>2
<1>5. Matches(t, e.stack, Len(e.stack)) /\ Matches(u, e.stack, Len(e.stack))
  BY <1>1, <1>2, <1>4 DEF Matches
<1>6. FramePlace(Top(e), u.at)
  BY <1>1, <1>2 DEF FramePlace, ObjectPlace, ArrayPlace
<1>7. Sound(e) /\ ~e.invalid
  BY <1>1, LiveIsSound DEF ReadsKey, Live
<1>8. Agree(e, u)
  BY <1>1, <1>2, <1>5, <1>6, <1>7 DEF Agree, AtContainer, Containers
<1> QED BY <1>5, <1>8 DEF e, u

(* A container closes.                                                       *)
LEMMA CloseContainerAgrees ==
  ASSUME NEW a, Live(a), a.stack # <<>>, Top(a).kind \in Containers,
         NEW t, IsText(t), Matches(t, a.stack, Len(a.stack))
  PROVE  Agree(CloseValue(a), Close(t))
<1> DEFINE u == [t EXCEPT !.nest = Front(@)]
<1>1. Len(a.stack) \in Nat \ {0} /\ t.nest \in Seq(Brackets) /\ Len(t.nest) = Len(a.stack)
  BY DEF Live, Stacks, IsText, Matches
<1>2. /\ Front(t.nest) \in Seq(Brackets)
      /\ Len(Front(t.nest)) = Len(t.nest) - 1
      /\ \A i \in 1 .. Len(t.nest) - 1 : Front(t.nest)[i] = t.nest[i]
  <2>1. 1 \in 1 .. Len(t.nest) + 1 /\ Len(t.nest) - 1 \in 1 - 1 .. Len(t.nest)
    BY <1>1
  <2>2. Len(t.nest) - 1 - 1 + 1 = Len(t.nest) - 1 /\ \A i \in 1 .. Len(t.nest) - 1 : 1 + i - 1 = i
    BY <1>1
  <2> QED BY <1>1, <2>1, <2>2, SubSeqProperties DEF Front
<1>3. u = [nest |-> Front(t.nest), at |-> t.at]
  BY DEF IsText
<1>4. IsText(u) /\ Matches(u, a.stack, Len(a.stack) - 1)
  BY <1>1, <1>2, <1>3 DEF IsText, Matches
<1>5. Close(t) = ValueOver(u)
  BY DEF Close
<1> HIDE DEF u
<1> QED BY <1>4, <1>5, CloseAgrees DEF Containers, IsKeyString

-----------------------------------------------------------------------------
(* The innermost bracket, and which one it is.                               *)
LEMMA InnermostBracket ==
  ASSUME NEW a, Live(a), NEW t, IsText(t), Matches(t, a.stack, Len(a.stack))
  PROVE  /\ a.stack # <<>> => \A b \in Brackets : Within(t, b) <=> b = Bracket(Top(a))
         /\ a.stack = <<>> => \A b : ~Within(t, b)
<1>1. Len(a.stack) \in Nat /\ Len(t.nest) = Len(a.stack) /\ t.nest \in Seq(Brackets)
  BY DEF Live, Stacks, IsText, Matches
<1>2. CASE a.stack = <<>>
  <2>1. t.nest = <<>>
    BY <1>1, <1>2
  <2> QED BY <1>2, <2>1 DEF Within
<1>3. CASE a.stack # <<>>
  <2>1. Len(a.stack) # 0
    BY <1>3 DEF Live, Stacks
  <2>2. t.nest # <<>> /\ Len(t.nest) \in 1 .. Len(a.stack)
    BY <1>1, <2>1
  <2>3. Last(t.nest) = Bracket(Top(a))
    BY <1>1, <2>2 DEF Last, Top, Matches
  <2> QED BY <1>3, <2>2, <2>3 DEF Within
<1> QED BY <1>2, <1>3

LEMMA FeedObjectAgrees ==
  ASSUME Lenient = Extras,
         NEW a, Live(a), a.stack # <<>>, Top(a).kind = "object", ~ReadsKey(Top(a)),
         NEW t, IsText(t), AtContainer(a, t), NEW b \in Bytes
  PROVE  Agree(FeedObject(a, b), GapByte(t, b))
<1> DEFINE e == Top(a).expecting
<1>1. /\ a \in Automata /\ Matches(t, a.stack, Len(a.stack)) /\ ObjectPlace(e, t.at.what)
      /\ Within(t, "{") /\ ~Within(t, "[") /\ May("comma")
  BY InnermostBracket DEF AtContainer, FramePlace, Live, Brackets, Bracket, May, Extras
<1>2. e \in {"key", "colon", "value", "comma"}
  <2>1. Top(a) \in Frames
    BY DEF Live, Stacks, Top, Last
  <2> QED BY <2>1, FramesByKind DEF ObjectFrames, ReadsKey
<1>3. Agree(Refuse(a), Break(t))
  BY <1>1, RefuseAgrees
<1>4. Agree(CloseValue(a), Close(t))
  BY <1>1, CloseContainerAgrees DEF Containers
<1>5. CASE e = "key"
  <2>1. t.at.what \in {"key", "first key"}
    BY <1>1, <1>5 DEF ObjectPlace
  <2>2. CASE b = "\""
    <3> DEFINE o == Expect(a, "none")
               f == StringFrame(TRUE)
               at == InString("string", TRUE, 0)
    <3>1. GapByte(t, b) = To(t, at) /\ FeedObject(a, b) = Push(o, f)
      BY <1>5, <2>1, <2>2 DEF GapByte, Is, FeedObject
    <3>2. /\ Live(o) /\ o.stack # <<>> /\ Len(o.stack) = Len(a.stack)
          /\ \A i \in 1 .. Len(a.stack) - 1 : o.stack[i] = a.stack[i]
          /\ Top(o).kind = "object" /\ Top(o).expecting = "none"
      BY ExpectIsLive
    <3>3. f \in Frames /\ f.kind = "string" /\ f.is_key /\ ~f.escape /\ f.unicode = 0
      BY NewFrames DEF Frames, StringFrame
    <3>4. FramePlace(f, at)
      BY DEF FramePlace, StringPlace, StringFrame
    <3> HIDE DEF o, f, at
    <3>5. Matches(t, o.stack, Len(o.stack))
      <4>1. Len(a.stack) \in Nat \ {0}
        BY DEF Live, Stacks
      <4>2. ASSUME NEW i \in 1 .. Len(a.stack)
            PROVE  Bracket(o.stack[i]) = Bracket(a.stack[i])
        <5>1. CASE i \in 1 .. Len(a.stack) - 1
          BY <3>2, <5>1
        <5>2. CASE i = Len(a.stack)
          BY <3>2, <5>2 DEF Top, Last, Bracket
        <5> QED BY <4>1, <5>1, <5>2
      <4> QED BY <1>1, <3>2, <4>2 DEF Matches
    <3>6. IsParent(Top(o), f) /\ ~ReadsKey(f) /\ f.kind \notin Containers
      BY <3>2, <3>3 DEF IsParent, ReadsKey, Containers
    <3>7. IsText(To(t, at)) /\ To(t, at).nest = t.nest /\ To(t, at).at = at
      BY TextMoves
    <3> QED BY <3>1, <3>2, <3>3, <3>4, <3>5, <3>6, <3>7, PushAgrees
  <2>3. CASE b = "}"
    <3>1. GapByte(t, b) = Close(t) /\ FeedObject(a, b) = CloseValue(a)
      BY <1>1, <1>5, <2>1, <2>3 DEF GapByte, Is, FeedObject
    <3> QED BY <1>4, <3>1
  <2>4. CASE b \notin {"\"", "}"}
    <3>1. GapByte(t, b) = Break(t) /\ FeedObject(a, b) = Refuse(a)
      BY <1>1, <1>5, <2>1, <2>4 DEF GapByte, Is, FeedObject
    <3> QED BY <1>3, <3>1
  <2> QED BY <2>2, <2>3, <2>4
<1>6. CASE e = "colon"
  <2>1. t.at.what = "colon"
    BY <1>1, <1>6 DEF ObjectPlace
  <2>2. CASE b = ":"
    <3>1. GapByte(t, b) = Go(t, "value") /\ FeedObject(a, b) = Expect(a, "value")
      BY <1>6, <2>1, <2>2 DEF GapByte, Is, FeedObject
    <3> QED BY <1>1, <3>1, ExpectAgrees
  <2>3. CASE b # ":"
    <3>1. GapByte(t, b) = Break(t) /\ FeedObject(a, b) = Refuse(a)
      BY <1>1, <1>6, <2>1, <2>3 DEF GapByte, Is, FeedObject
    <3> QED BY <1>3, <3>1
  <2> QED BY <2>2, <2>3
<1>7. CASE e = "value"
  <2> DEFINE o == Expect(a, "comma")
  <2>1. t.at.what = "value"
    BY <1>1, <1>7 DEF ObjectPlace
  <2>2. Live(o) /\ Settled(Top(o))
    BY ExpectIsLive DEF Settled
  <2>3. Matches(t, o.stack, Len(o.stack))
    BY <1>1, ExpectAgrees
  <2>4. FeedObject(a, b) = StartValue(o, b)
    BY <1>7 DEF FeedObject
  <2>5. GapByte(t, b) = NewValue(t, b)
    <3>1. CASE b = "]"
      BY <1>1, <2>1, <3>1 DEF GapByte, Is, NewValue, Rest
    <3>2. CASE b # "]"
      BY <1>1, <2>1, <3>2 DEF GapByte, Is
    <3> QED BY <3>1, <3>2
  <2> HIDE DEF o
  <2> QED BY <2>2, <2>3, <2>4, <2>5, StartAgrees
<1>8. CASE e = "comma"
  <2>1. t.at.what = "comma"
    BY <1>1, <1>8 DEF ObjectPlace
  <2>2. CASE b = "}"
    <3>1. GapByte(t, b) = Close(t) /\ FeedObject(a, b) = CloseValue(a)
      BY <1>1, <1>8, <2>1, <2>2 DEF GapByte, Is, FeedObject
    <3> QED BY <1>4, <3>1
  <2>3. CASE b = ","
    <3>1. GapByte(t, b) = Go(t, "key") /\ FeedObject(a, b) = Expect(a, "key")
      BY <1>1, <1>8, <2>1, <2>3 DEF GapByte, Is, FeedObject
    <3> QED BY <1>1, <3>1, ExpectAgrees
  <2>4. CASE b \notin {"}", ","}
    <3>1. GapByte(t, b) = Break(t) /\ FeedObject(a, b) = Refuse(a)
      BY <1>1, <1>8, <2>1, <2>4 DEF GapByte, Is, FeedObject
    <3> QED BY <1>3, <3>1
  <2> QED BY <2>2, <2>3, <2>4
<1> QED BY <1>2, <1>5, <1>6, <1>7, <1>8

LEMMA FeedArrayAgrees ==
  ASSUME Lenient = Extras,
         NEW a, Live(a), a.stack # <<>>, Top(a).kind = "array",
         NEW t, IsText(t), AtContainer(a, t), NEW b \in Bytes
  PROVE  Agree(FeedArray(a, b), GapByte(t, b))
<1> DEFINE e == Top(a).expecting
<1>1. /\ a \in Automata /\ Matches(t, a.stack, Len(a.stack)) /\ ArrayPlace(e, t.at.what)
      /\ Within(t, "[") /\ ~Within(t, "{") /\ May("comma")
  BY InnermostBracket DEF AtContainer, FramePlace, Live, Brackets, Bracket, May, Extras
<1>2. e \in {"value", "comma"}
  <2>1. Top(a) \in Frames
    BY DEF Live, Stacks, Top, Last
  <2> QED BY <2>1, FramesByKind DEF ArrayFrames
<1>3. t.at.what \in {"value", "first value", "comma"}
  BY <1>1, <1>2 DEF ArrayPlace
<1>4. CASE b = "]"
  <2>1. GapByte(t, b) = Close(t) /\ FeedArray(a, b) = CloseValue(a)
    BY <1>1, <1>3, <1>4 DEF GapByte, Is, FeedArray
  <2> QED BY <1>1, <2>1, CloseContainerAgrees DEF Containers
<1>5. CASE b # "]" /\ e = "value"
  <2> DEFINE o == Expect(a, "comma")
  <2>1. t.at.what \in {"value", "first value"}
    BY <1>1, <1>5 DEF ArrayPlace
  <2>2. Live(o) /\ Settled(Top(o))
    BY ExpectIsLive DEF Settled
  <2>3. Matches(t, o.stack, Len(o.stack))
    BY <1>1, ExpectAgrees
  <2>4. FeedArray(a, b) = StartValue(o, b)
    BY <1>5 DEF FeedArray
  <2>5. GapByte(t, b) = NewValue(t, b)
    BY <1>1, <1>5, <2>1 DEF GapByte, Is
  <2> HIDE DEF o
  <2> QED BY <2>2, <2>3, <2>4, <2>5, StartAgrees
<1>6. CASE b # "]" /\ e = "comma"
  <2>1. t.at.what = "comma"
    BY <1>1, <1>6 DEF ArrayPlace
  <2>2. CASE b = ","
    <3>1. GapByte(t, b) = Go(t, "value") /\ FeedArray(a, b) = Expect(a, "value")
      BY <1>1, <1>6, <2>1, <2>2 DEF GapByte, Is, FeedArray
    <3> QED BY <1>1, <3>1, ExpectAgrees
  <2>3. CASE b # ","
    <3>1. GapByte(t, b) = Break(t) /\ FeedArray(a, b) = Refuse(a)
      BY <1>1, <1>6, <2>1, <2>3 DEF GapByte, Is, FeedArray
    <3> QED BY <1>1, <3>1, RefuseAgrees
  <2> QED BY <2>2, <2>3
<1> QED BY <1>2, <1>4, <1>5, <1>6

(* Where no scalar is being read.                                            *)
LEMMA FeedGapAgrees ==
  ASSUME Lenient = Extras,
         NEW a, NEW t, Agree(a, t), ~a.invalid, NEW b \in Bytes,
         a.stack = <<>> \/ Top(a).kind \in Containers
  PROVE  Agree(FeedGap(a, b), GapByte(t, b))
<1>1. Live(a) /\ IsText(t) /\ a \in Automata
  BY DEF Agree, Sound, Live
<1>2. CASE a.stack = <<>>
  <2>1. Matches(t, a.stack, Len(a.stack)) /\ t.at.what = IF a.finished THEN "end" ELSE "value"
    BY <1>2 DEF Agree, AtTop
  <2>2. ~Within(t, "[") /\ ~Within(t, "{")
    BY <1>1, <1>2, <2>1, InnermostBracket
  <2>3. CASE a.finished
    <3>1. GapByte(t, b) = Break(t) /\ FeedGap(a, b) = Refuse(a)
      BY <1>2, <2>1, <2>2, <2>3 DEF GapByte, Is, FeedGap, FeedTop
    <3> QED BY <1>1, <3>1, RefuseAgrees
  <2>4. CASE ~a.finished
    <3>1. FeedGap(a, b) = StartValue(a, b)
      BY <1>2, <2>4 DEF FeedGap, FeedTop
    <3>2. GapByte(t, b) = NewValue(t, b)
      <4>1. CASE b = "]"
        BY <2>1, <2>2, <2>4, <4>1 DEF GapByte, Is, NewValue, Rest
      <4>2. CASE b # "]"
        BY <2>1, <2>2, <2>4, <4>2 DEF GapByte, Is
      <4> QED BY <4>1, <4>2
    <3> QED BY <1>1, <1>2, <2>1, <3>1, <3>2, StartAgrees
  <2> QED BY <2>3, <2>4
<1>3. CASE a.stack # <<>>
  <2>1. AtContainer(a, t) /\ ~ReadsKey(Top(a)) /\ Top(a).kind \in {"object", "array"}
    BY <1>3 DEF Agree, Sound, Containers
  <2>2. Top(a).kind = "object" => FeedGap(a, b) = FeedObject(a, b)
    BY <1>3 DEF FeedGap
  <2>3. Top(a).kind = "array" => FeedGap(a, b) = FeedArray(a, b)
    BY <1>3 DEF FeedGap
  <2> QED BY <1>1, <1>3, <2>1, <2>2, <2>3, FeedObjectAgrees, FeedArrayAgrees
<1> QED BY <1>2, <1>3

(* A scalar goes on.                                                         *)
LEMMA SetTopAgrees ==
  ASSUME NEW a, Live(a), a.stack # <<>>, Top(a).kind \notin Containers,
         NEW f \in Frames, f.kind = Top(a).kind, IsKeyString(f) <=> IsKeyString(Top(a)),
         NEW t, IsText(t), AtScalar(a, t), NEW at, FramePlace(f, at)
  PROVE  Agree(SetTop(a, f), To(t, at))
<1> DEFINE o == SetTop(a, f)
           u == To(t, at)
<1>1. a.stack \in Stacks /\ a.stack \in Seq(Frames) /\ Len(a.stack) \in Nat \ {0}
  BY DEF Live, Stacks
<1>2. Front(a.stack) # <<>> => IsParent(Last(Front(a.stack)), f)
  <2>1. Front(a.stack) # <<>> => IsParent(Last(Front(a.stack)), Top(a))
    BY <1>1, FrontOfStack DEF Top
  <2> QED BY <2>1 DEF IsParent, IsKeyString
<1>3. /\ Live(o) /\ o.stack = [a.stack EXCEPT ![Len(a.stack)] = f]
      /\ o.stack # <<>> /\ Top(o) = f
  BY <1>2, SetTopIsLive
<1>4. ~ReadsKey(f)
  BY DEF ReadsKey, Containers
<1>5. Sound(o) /\ ~o.invalid
  BY <1>3, <1>4, LiveIsSound DEF Live
<1>6. /\ Len(o.stack) = Len(a.stack)
      /\ \A i \in 1 .. Len(a.stack) - 1 : o.stack[i] = a.stack[i]
  BY <1>1, <1>3
<1>7. IsText(u) /\ u.nest = t.nest /\ u.at = at
  BY TextMoves
<1> HIDE DEF o, u
<1>8. AtScalar(o, u)
  BY <1>3, <1>6, <1>7 DEF AtScalar, Matches
<1>9. Agree(o, u)
  BY <1>3, <1>5, <1>7, <1>8 DEF Agree
<1> QED BY <1>9 DEF o, u

LEMMA FeedStringAgrees ==
  ASSUME Lenient = Extras,
         NEW a, Live(a), a.stack # <<>>, Top(a).kind = "string",
         NEW t, IsText(t), AtScalar(a, t), NEW b \in Bytes \ Whitespace
  PROVE  Agree(FeedString(a, b), StringByte(t, b))
<1> DEFINE f == Top(a)
           at == t.at
<1>1. a \in Automata /\ f \in StringFrames /\ ~ReadsKey(f) /\ f.kind \notin Containers
  <2>1. f \in Frames /\ a \in Automata
    BY DEF Live, Stacks, Top, Last
  <2> QED BY <2>1, FramesByKind DEF ReadsKey, Containers
<1>2. f.kind = "string" /\ f.escape \in BOOLEAN /\ f.unicode \in 0 .. 4 /\ f.is_key \in BOOLEAN
  BY <1>1 DEF StringFrames
<1>2a. f.unicode > 0 \/ (f.unicode = 0 /\ ~(f.unicode > 0))
  <2>1. f.unicode \in 0 .. 4
    BY <1>2
  <2> QED BY <2>1
<1>3. StringPlace(f, at)
  BY DEF AtScalar, FramePlace
<1>4. at.key = f.is_key /\ at.left = f.unicode
      /\ at.what = IF f.unicode > 0 THEN "hex" ELSE IF f.escape THEN "escape" ELSE "string"
  BY <1>3 DEF StringPlace, InString
<1>5. ASSUME NEW e \in BOOLEAN, NEW u \in 0 .. 4, u > 0 => ~e,
             NEW g \in StringFrames, g.escape = e, g.unicode = u, g.is_key = f.is_key,
             NEW what, what = IF u > 0 THEN "hex" ELSE IF e THEN "escape" ELSE "string"
      PROVE  Agree(SetTop(a, g), To(t, InString(what, at.key, u)))
  <2>1. g.kind = "string"
    BY <1>5 DEF StringFrames
  <2>2. g \in Frames /\ g.kind = Top(a).kind /\ (IsKeyString(g) <=> IsKeyString(Top(a)))
    BY <1>2, <1>5, <2>1 DEF Frames, IsKeyString
  <2>3. FramePlace(g, InString(what, at.key, u))
    BY <1>4, <1>5, <2>1 DEF FramePlace, StringPlace
  <2> QED BY <1>1, <2>2, <2>3, SetTopAgrees
<1>6. Agree(Refuse(a), Break(t))
  BY <1>1, RefuseAgrees
<1>7. ASSUME NEW e \in BOOLEAN, NEW u \in 0 .. 4
      PROVE  /\ [f EXCEPT !.escape = e] \in StringFrames
             /\ [f EXCEPT !.unicode = u] \in StringFrames
             /\ [f EXCEPT !.escape = e, !.unicode = u] \in StringFrames
             /\ [f EXCEPT !.escape = e].escape = e
             /\ [f EXCEPT !.unicode = u].unicode = u
             /\ [f EXCEPT !.escape = e, !.unicode = u].escape = e
             /\ [f EXCEPT !.escape = e, !.unicode = u].unicode = u
             /\ [f EXCEPT !.escape = e].unicode = f.unicode
             /\ [f EXCEPT !.unicode = u].escape = f.escape
             /\ [f EXCEPT !.escape = e].is_key = f.is_key
             /\ [f EXCEPT !.unicode = u].is_key = f.is_key
             /\ [f EXCEPT !.escape = e, !.unicode = u].is_key = f.is_key
  BY <1>1 DEF StringFrames
<1>8. CASE f.unicode > 0
  <2>1. f.unicode # 0 /\ ~f.escape /\ at.what = "hex"
    BY <1>2, <1>3, <1>4, <1>8 DEF StringPlace
  <2>2. CASE b \in Hex
    <3> DEFINE g == [f EXCEPT !.unicode = @ - 1]
               u == f.unicode - 1
    <3>1. FeedString(a, b) = SetTop(a, g)
      BY <1>8, <2>2 DEF FeedString, StringTakes, StringAfter
    <3>2. StringByte(t, b) = To(t, InString(IF u > 0 THEN "hex" ELSE "string", at.key, u))
      <4>1. (IF at.left = 1 THEN "string" ELSE "hex") = (IF u > 0 THEN "hex" ELSE "string")
            /\ at.left - 1 = u
        BY <1>2, <1>4, <1>8
      <4> QED BY <2>1, <2>2, <4>1 DEF StringByte
    <3>3. u \in 0 .. 4 /\ FALSE \in BOOLEAN
      BY <1>2, <1>8
    <3>4. g \in StringFrames /\ g.escape = FALSE /\ g.unicode = u /\ g.is_key = f.is_key
      BY <1>2, <1>7, <2>1, <3>3
    <3> HIDE DEF g, u
    <3> QED BY <1>5, <3>1, <3>2, <3>3, <3>4
  <2>3. CASE b \notin Hex
    <3>1. FeedString(a, b) = Refuse(a)
      BY <2>1, <2>3 DEF FeedString, StringTakes, StringCloses
    <3>2. StringByte(t, b) = Break(t)
      BY <2>1, <2>3 DEF StringByte
    <3> QED BY <1>6, <3>1, <3>2
  <2> QED BY <2>2, <2>3
<1>9. CASE f.unicode = 0 /\ f.escape
  <2>1. at.what = "escape" /\ ~(f.unicode > 0)
    BY <1>2, <1>4, <1>9
  <2>2. CASE b \in Escapable \cup {"u"}
    <3> DEFINE u == IF b = "u" THEN 4 ELSE 0
               g == [f EXCEPT !.escape = FALSE, !.unicode = u]
    <3>1. FeedString(a, b) = SetTop(a, g)
      BY <1>9, <2>1, <2>2 DEF FeedString, StringTakes, StringAfter
    <3>2. StringByte(t, b) = To(t, InString(IF u > 0 THEN "hex" ELSE "string", at.key, u))
      <4>1. CASE b = "u"
        BY <2>1, <4>1 DEF StringByte, Escapable, Whitespace
      <4>2. CASE b # "u"
        <5>1. u = 0 /\ b \in Escapable /\ b \notin Whitespace
          BY <2>2, <4>2
        <5>2. StringByte(t, b) = To(t, InString("string", at.key, 0))
          BY <2>1, <5>1 DEF StringByte
        <5> QED BY <5>1, <5>2
      <4> QED BY <4>1, <4>2
    <3>3. u \in 0 .. 4 /\ FALSE \in BOOLEAN
      OBVIOUS
    <3>4. g \in StringFrames /\ g.escape = FALSE /\ g.unicode = u /\ g.is_key = f.is_key
      BY <1>7, <3>3
    <3> HIDE DEF g, u
    <3> QED BY <1>5, <3>1, <3>2, <3>3, <3>4
  <2>3. CASE b \notin Escapable \cup {"u"}
    <3>1. FeedString(a, b) = Refuse(a) /\ StringByte(t, b) = Break(t)
      BY <1>9, <2>1, <2>3 DEF FeedString, StringTakes, StringCloses, StringByte
    <3> QED BY <1>6, <3>1
  <2> QED BY <2>2, <2>3
<1>10. CASE f.unicode = 0 /\ ~f.escape /\ b # "\""
  <2>0. ~(f.unicode > 0)
    <3>1. f.unicode = 0
      BY <1>10, Zenon
    <3> QED BY <3>1
  <2>1. at.what = "string" /\ b \notin {" ", "\n"} /\ ~(f.unicode > 0)
    BY <1>4, <1>10, <2>0, Zenon DEF Whitespace
  <2>2. CASE b # "ctl"
    <3> DEFINE e == b = "\\"
               g == [f EXCEPT !.escape = b = "\\"]
    <3>1. FeedString(a, b) = SetTop(a, g)
      BY <1>10, <2>1, <2>2 DEF FeedString, StringTakes, StringAfter
    <3>2. StringByte(t, b) = To(t, InString(IF e THEN "escape" ELSE "string", at.key, 0))
      <4>1. CASE e
        BY <2>1, <2>2, <4>1 DEF StringByte
      <4>2. CASE ~e
        <5>1. at = InString("string", at.key, 0)
          BY <1>3, <1>4, <1>10, <2>1 DEF StringPlace
        <5>2. To(t, at) = t
          BY DEF To, IsText
        <5>3. StringByte(t, b) = t
          BY <1>10, <2>1, <2>2, <4>2 DEF StringByte, Whitespace
        <5> QED BY <4>2, <5>1, <5>2, <5>3
      <4> QED BY <4>1, <4>2
    <3>3. e \in BOOLEAN /\ 0 \in 0 .. 4
      OBVIOUS
    <3>4. g \in StringFrames /\ g.escape = e /\ g.unicode = 0 /\ g.is_key = f.is_key
      BY <1>7, <1>10, <3>3
    <3> HIDE DEF g, e
    <3> QED BY <1>5, <3>1, <3>2, <3>3, <3>4
  <2>3. CASE b = "ctl"
    <3>1. FeedString(a, b) = Refuse(a) /\ StringByte(t, b) = Break(t)
      BY <1>10, <2>1, <2>3 DEF FeedString, StringTakes, StringCloses, StringByte, Whitespace
    <3> QED BY <1>6, <3>1
  <2> QED BY <2>2, <2>3
<1>11. CASE f.unicode = 0 /\ ~f.escape /\ b = "\""
  <2>1. ~(f.unicode > 0)
    <3>1. f.unicode = 0
      BY <1>11, Zenon
    <3> QED BY <3>1
  <2>2. at.what = "string"
    BY <1>4, <1>11, <2>1, Zenon
  <2>3. Matches(t, a.stack, Len(a.stack) - 1)
    BY DEF AtScalar
  <2>4. CASE ~f.is_key
    <3>1. FeedString(a, b) = CloseValue(a) /\ StringByte(t, b) = ValueOver(t)
      BY <1>4, <1>11, <2>1, <2>2, <2>4 DEF FeedString, StringTakes, StringCloses,
                                                 StringByte, Whitespace
    <3> QED BY <2>3, <2>4, <3>1, CloseAgrees DEF IsKeyString
  <2>5. CASE f.is_key
    <3> DEFINE p == Pop(a)
    <3>1. StringByte(t, b) = Go(t, "colon")
      BY <1>4, <1>11, <2>1, <2>2, <2>5 DEF StringByte, Whitespace
    <3>2. /\ Front(a.stack) \in Stacks /\ Front(a.stack) \in Seq(Frames) /\ Len(a.stack) > 1
          /\ Len(Front(a.stack)) = Len(a.stack) - 1 /\ Len(a.stack) \in Nat
          /\ \A i \in 1 .. Len(a.stack) - 1 : Front(a.stack)[i] = a.stack[i]
          /\ Front(a.stack) # <<>> => IsParent(Last(Front(a.stack)), f)
      BY <1>2, <2>5, FrontOfStack DEF Live, Stacks, AtScalar, IsKeyString, Top
    <3>3. Front(a.stack) # <<>>
      BY <3>2
    <3>4. p = [stack |-> Front(a.stack), finished |-> a.finished, invalid |-> a.invalid]
      BY <1>1 DEF Pop, Automata
    <3>5. Live(p) /\ p.stack # <<>> /\ Top(p).kind = "object"
      BY <1>1, <1>2, <2>5, <3>2, <3>3, <3>4 DEF Live, Automata, IsParent, Top
    <3>6. Matches(t, p.stack, Len(p.stack))
      BY <2>3, <3>2, <3>4 DEF Matches
    <3>7. FeedString(a, b) = Expect(p, "colon")
      BY <1>11, <2>1, <2>5, <3>5 DEF FeedString, StringTakes, StringCloses, Inside
    <3> HIDE DEF p
    <3> QED BY <3>1, <3>5, <3>6, <3>7, ExpectAgrees
  <2> QED BY <2>4, <2>5
<1> QED BY <1>8, <1>9, <1>10, <1>11, <1>2a

LEMMA FeedLiteralAgrees ==
  ASSUME Lenient = Extras,
         NEW a, Live(a), a.stack # <<>>, Top(a).kind = "literal",
         NEW t, IsText(t), AtScalar(a, t), NEW b \in Bytes \ Whitespace
  PROVE  Agree(FeedLiteral(a, b), LiteralByte(t, b))
<1> DEFINE f == Top(a)
           left == f.expected
           g == [f EXCEPT !.expected = Tail(left)]
<1>1. a \in Automata /\ f \in LiteralFrames /\ left \in Remainders
  <2>1. f \in Frames /\ a \in Automata
    BY DEF Live, Stacks, Top, Last
  <2>2. f \in LiteralFrames
    BY <2>1, FramesByKind
  <2> QED BY <2>1, <2>2 DEF LiteralFrames
<1>2. left # <<>> /\ (Len(left) # 1 => Tail(left) \in Remainders)
  BY <1>1, TailOfRemainder
<1>3. t.at = InLiteral(left)
  BY DEF AtScalar, FramePlace
<1>4. t.at.left = left
  BY <1>3 DEF InLiteral
<1>5. CASE b # Head(left)
  <2>1. FeedLiteral(a, b) = Refuse(a) /\ LiteralByte(t, b) = Break(t)
    BY <1>4, <1>5 DEF FeedLiteral, LiteralByte
  <2> QED BY <1>1, <2>1, RefuseAgrees
<1>6. CASE b = Head(left) /\ Len(left) = 1
  <2>1. FeedLiteral(a, b) = CloseValue(a) /\ LiteralByte(t, b) = ValueOver(t)
    BY <1>2, <1>4, <1>6 DEF FeedLiteral, LiteralByte
  <2> QED BY <2>1, CloseAgrees DEF AtScalar, IsKeyString
<1>7. CASE b = Head(left) /\ Len(left) # 1
  <2>1. /\ FeedLiteral(a, b) = SetTop(a, g)
        /\ LiteralByte(t, b) = To(t, InLiteral(Tail(left)))
    BY <1>2, <1>4, <1>7 DEF FeedLiteral, LiteralByte
  <2>2. g \in LiteralFrames /\ g.expected = Tail(left) /\ g.kind = "literal"
    BY <1>1, <1>2, <1>7 DEF LiteralFrames
  <2> HIDE DEF g
  <2>3. g \in Frames /\ ~IsKeyString(g) /\ ~IsKeyString(f) /\ f.kind \notin Containers
    BY <2>2 DEF Frames, IsKeyString, Containers
  <2>4. FramePlace(g, InLiteral(Tail(left)))
    BY <2>2 DEF FramePlace
  <2> QED BY <2>1, <2>2, <2>3, <2>4, SetTopAgrees
<1> QED BY <1>5, <1>6, <1>7

(* The flags of a number say how far it was read.                            *)
LEMMA NumberStep ==
  ASSUME Lenient = Extras, NEW n \in Flags, NEW what, NumberAgrees(n, what),
         NEW b \in Bytes \ Whitespace
  PROVE  /\ NumberTakes(n, b) <=> NumberPlace(what, b) # "none"
         /\ NumberTakes(n, b) => NumberAgrees(NumberAfter(n, b), NumberPlace(what, b))
         /\ NumberMayEnd(n) <=> what \in WholeNumbers
         /\ n.digit <=> what \in WholeNumbers \cup {"e", "sign"}
<1>1. May("number")
  BY DEF May, Extras
<1>2. WholeNumbers = {"zero", "digits", "fraction", "exponent", "point"}
  BY <1>1 DEF WholeNumbers
<1>3. what \in Numbers
  BY DEF NumberAgrees
<1>4. NumberMayEnd(n) <=> what \in WholeNumbers
  BY <1>2, <1>3 DEF NumberMayEnd, NumberAgrees, Numbers
<1>5. n.digit <=> what \in WholeNumbers \cup {"e", "sign"}
  BY <1>2, <1>3 DEF NumberAgrees, Numbers
<1>6. NumberTakes(n, b) <=> NumberPlace(what, b) # "none"
  BY <1>1, <1>3
     DEF NumberTakes, TakesPoint, TakesExponent, TakesSign, NumberPlace, NumberAgrees, Numbers,
         Digits
<1>7. ASSUME NumberTakes(n, b)
      PROVE  NumberAgrees(NumberAfter(n, b), NumberPlace(what, b))
  BY <1>1, <1>3, <1>7
     DEF NumberTakes, TakesPoint, TakesExponent, TakesSign, NumberPlace, NumberAgrees, Numbers,
         Digits, NumberAfter
<1> QED BY <1>4, <1>5, <1>6, <1>7

(* Bytes and white space inside a number.                                    *)
LEMMA FeedNumberAgrees ==
  ASSUME Lenient = Extras,
         NEW a, Live(a), a.stack # <<>>, Top(a).kind = "number",
         NEW t, IsText(t), AtScalar(a, t)
  PROVE  /\ \A b \in Bytes \ Whitespace : Agree(FeedNumber(a, b), NumberByte(t, b))
         /\ \A b \in Whitespace : Agree(FeedSpace(a), NumberByte(t, b))
<1> DEFINE f == Top(a)
           n == f.n
           what == t.at.what
<1>1. a \in Automata /\ f \in NumberFrames /\ n \in Flags
  <2>1. f \in Frames /\ a \in Automata
    BY DEF Live, Stacks, Top, Last
  <2>2. f \in NumberFrames
    BY <2>1, FramesByKind
  <2> QED BY <2>1, <2>2 DEF NumberFrames
<1>2. NumberAgrees(n, what)
  BY DEF AtScalar, FramePlace
<1>3. Agree(Refuse(a), Break(t))
  BY <1>1, RefuseAgrees
<1>4. Agree(CloseValue(a), ValueOver(t))
  BY CloseAgrees DEF AtScalar, IsKeyString
<1>5. ASSUME NEW b \in Bytes \ Whitespace
      PROVE  Agree(FeedNumber(a, b), NumberByte(t, b))
  <2> DEFINE next == NumberPlace(what, b)
             g == [f EXCEPT !.n = NumberAfter(n, b)]
  <2>1. /\ NumberTakes(n, b) <=> next # "none"
        /\ NumberTakes(n, b) => NumberAgrees(NumberAfter(n, b), next)
        /\ NumberMayEnd(n) <=> what \in WholeNumbers
    BY <1>1, <1>2, NumberStep
  <2>2. CASE NumberTakes(n, b)
    <3>1. FeedNumber(a, b) = SetTop(a, g) /\ NumberByte(t, b) = To(t, At(next))
      BY <2>1, <2>2 DEF FeedNumber, NumberByte, Go
    <3>2. g \in NumberFrames /\ g.n = NumberAfter(n, b) /\ g.kind = "number"
      BY <1>1, NumberAfterIsFlags DEF NumberFrames
    <3> HIDE DEF g
    <3>3. g \in Frames /\ ~IsKeyString(g) /\ ~IsKeyString(f) /\ f.kind \notin Containers
      BY <3>2 DEF Frames, IsKeyString, Containers
    <3>4. FramePlace(g, At(next))
      BY <2>1, <2>2, <3>2 DEF FramePlace, At
    <3> QED BY <3>1, <3>2, <3>3, <3>4, SetTopAgrees
  <2>3. CASE ~NumberTakes(n, b) /\ NumberMayEnd(n)
    <3>1. FeedNumber(a, b) = FeedGap(CloseValue(a), b)
      BY <2>3 DEF FeedNumber
    <3>2. NumberByte(t, b) = GapByte(ValueOver(t), b)
      BY <2>1, <2>3 DEF NumberByte, Is
    <3>3. /\ ~CloseValue(a).invalid
          /\ CloseValue(a).stack = <<>> \/ Top(CloseValue(a)).kind \in Containers
      BY CloseIsLive DEF Live, IsKeyString, Settled, Containers
    <3> QED BY <1>4, <3>1, <3>2, <3>3, FeedGapAgrees
  <2>4. CASE ~NumberTakes(n, b) /\ ~NumberMayEnd(n)
    <3>1. FeedNumber(a, b) = Refuse(a) /\ NumberByte(t, b) = Break(t)
      BY <2>1, <2>4 DEF FeedNumber, NumberByte, Is
    <3> QED BY <1>3, <3>1
  <2> QED BY <2>2, <2>3, <2>4
<1>6. ASSUME NEW b \in Whitespace
      PROVE  Agree(FeedSpace(a), NumberByte(t, b))
  <2>1. n.digit <=> what \in WholeNumbers \cup {"e", "sign"}
    <3>1. "x" \in Bytes \ Whitespace
      BY DEF Bytes, Whitespace
    <3> QED BY <1>1, <1>2, <3>1, NumberStep
  <2>2. NumberPlace(what, b) = "none" /\ b \in Whitespace /\ May("number")
    BY <1>6 DEF NumberPlace, Whitespace, Digits, May, Extras
  <2>3. CASE n.digit
    <3>1. FeedSpace(a) = CloseValue(a) /\ NumberByte(t, b) = ValueOver(t)
      BY <2>1, <2>2, <2>3 DEF FeedSpace, Inside, NumberByte, Is
    <3> QED BY <1>4, <3>1
  <2>4. CASE ~n.digit
    <3>1. FeedSpace(a) = Refuse(a) /\ NumberByte(t, b) = Break(t)
      BY <2>1, <2>2, <2>4 DEF FeedSpace, Inside, NumberByte, Is
    <3> QED BY <1>3, <3>1
  <2> QED BY <2>3, <2>4
<1> QED BY <1>5, <1>6

-----------------------------------------------------------------------------
(* The reference is where the frame is.                                      *)
LEMMA PlaceOfText ==
  ASSUME NEW a, NEW t, Agree(a, t), ~a.invalid
  PROVE  /\ ~Broken(t)
         /\ Is(t, {"end"}) <=> a.stack = <<>> /\ a.finished
         /\ Is(t, Strings) <=> Inside(a, "string")
         /\ Is(t, Numbers) <=> Inside(a, "number")
         /\ Is(t, {"literal"}) <=> Inside(a, "literal")
<1>1. CASE a.stack = <<>>
  BY <1>1 DEF Agree, AtTop, Broken, Is, Strings, Numbers, Inside
<1>2. CASE a.stack # <<>>
  <2> DEFINE f == Top(a)
  <2>1. f \in Frames /\ ~ReadsKey(f) /\ FramePlace(f, t.at)
    <3>1. Live(a) /\ ~ReadsKey(f)
      BY <1>2 DEF Agree, Sound, Live
    <3>2. f \in Frames
      BY <1>2, <3>1 DEF Live, Stacks, Top, Last
    <3> QED BY <1>2, <3>1, <3>2 DEF Agree, AtContainer, AtScalar
  <2>2. CASE f.kind = "object"
    <3>1. f.expecting \in {"key", "colon", "value", "comma"}
      BY <2>1, <2>2, FramesByKind DEF ObjectFrames, ReadsKey
    <3>2. t.at.what \in {"key", "first key", "colon", "value", "comma"}
      BY <2>1, <2>2, <3>1 DEF FramePlace, ObjectPlace
    <3> QED BY <1>2, <2>2, <3>2 DEF Broken, Is, Strings, Numbers, Inside
  <2>3. CASE f.kind = "array"
    <3>1. f.expecting \in {"value", "comma"}
      BY <2>1, <2>3, FramesByKind DEF ArrayFrames
    <3>2. t.at.what \in {"value", "first value", "comma"}
      BY <2>1, <2>3, <3>1 DEF FramePlace, ArrayPlace
    <3> QED BY <1>2, <2>3, <3>2 DEF Broken, Is, Strings, Numbers, Inside
  <2>4. CASE f.kind = "string"
    <3>1. t.at.what \in Strings
      BY <2>1, <2>4 DEF FramePlace, StringPlace, InString, Strings
    <3> QED BY <1>2, <2>4, <3>1 DEF Broken, Is, Strings, Numbers, Inside
  <2>5. CASE f.kind = "number"
    <3>1. t.at.what \in Numbers
      BY <2>1, <2>5 DEF FramePlace, NumberAgrees
    <3> QED BY <1>2, <2>5, <3>1 DEF Broken, Is, Strings, Numbers, Inside
  <2>6. CASE f.kind = "literal"
    <3>1. t.at.what = "literal"
      BY <2>1, <2>6 DEF FramePlace, InLiteral
    <3> QED BY <1>2, <2>6, <3>1 DEF Broken, Is, Strings, Numbers, Inside
  <2> QED BY <2>1, <2>2, <2>3, <2>4, <2>5, <2>6, FramesByKind
<1> QED BY <1>1, <1>2

LEMMA FeedAgrees ==
  ASSUME Lenient = Extras, NEW a, NEW t, Agree(a, t), NEW b \in Bytes
  PROVE  Agree(Feed(a, b), Read(t, b))
<1>1. CASE a.invalid
  <2>1. Feed(a, b) = a /\ Read(t, b) = t
    BY <1>1 DEF Agree, Feed, Read
  <2> QED BY <2>1
<1>2. CASE ~a.invalid
  <2>1. Live(a) /\ IsText(t) /\ May("space")
    BY <1>2 DEF Agree, Sound, Live, May, Extras
  <2>2. /\ ~Broken(t)
        /\ Is(t, Strings) <=> Inside(a, "string")
        /\ Is(t, Numbers) <=> Inside(a, "number")
        /\ Is(t, {"literal"}) <=> Inside(a, "literal")
    BY <1>2, PlaceOfText
  <2>3. a.stack # <<>> =>
          Top(a).kind \in {"object", "array", "string", "number", "literal"}
    <3>1. a.stack # <<>> => Top(a) \in Frames
      BY <2>1 DEF Live, Stacks, Top, Last
    <3> QED BY <3>1, FramesByKind
  <2>4. CASE Inside(a, "string")
    <3>1. AtScalar(a, t) /\ ~Inside(a, "number")
      BY <1>2, <2>4 DEF Agree, Inside, Containers
    <3>2. CASE b \in Whitespace
      <4>1. Feed(a, b) = a /\ Read(t, b) = t
        BY <1>2, <2>1, <2>2, <2>4, <3>1, <3>2
           DEF Feed, FeedSpace, Read, StringByte, Whitespace, Hex, Digits, Escapable
      <4> QED BY <4>1
    <3>3. CASE b \notin Whitespace
      <4>1. Feed(a, b) = FeedString(a, b) /\ Read(t, b) = StringByte(t, b)
        BY <1>2, <2>2, <2>4, <3>3 DEF Feed, Read
      <4> QED BY <2>1, <2>4, <3>1, <3>3, <4>1, FeedStringAgrees DEF Inside
    <3> QED BY <3>2, <3>3
  <2>5. CASE Inside(a, "number")
    <3>1. AtScalar(a, t) /\ ~Inside(a, "string")
      BY <1>2, <2>5 DEF Agree, Inside, Containers
    <3>2. Read(t, b) = NumberByte(t, b)
      BY <2>2, <2>5, <3>1 DEF Read
    <3>3. Feed(a, b) = IF b \in Whitespace THEN FeedSpace(a) ELSE FeedNumber(a, b)
      BY <1>2, <2>5, <3>1 DEF Feed
    <3> QED BY <2>1, <2>5, <3>1, <3>2, <3>3, FeedNumberAgrees DEF Inside
  <2>6. CASE Inside(a, "literal")
    <3>1. AtScalar(a, t) /\ ~Inside(a, "number") /\ ~Inside(a, "string")
      BY <1>2, <2>6 DEF Agree, Inside, Containers
    <3>2. CASE b \in Whitespace
      <4>1. Feed(a, b) = a /\ Read(t, b) = t
        BY <1>2, <2>1, <2>2, <2>6, <3>1, <3>2 DEF Feed, FeedSpace, Read, LiteralByte
      <4> QED BY <4>1
    <3>3. CASE b \notin Whitespace
      <4>1. Feed(a, b) = FeedLiteral(a, b) /\ Read(t, b) = LiteralByte(t, b)
        BY <1>2, <2>2, <2>6, <3>1, <3>3 DEF Feed, Read
      <4> QED BY <2>1, <2>6, <3>1, <3>3, <4>1, FeedLiteralAgrees DEF Inside
    <3> QED BY <3>2, <3>3
  <2>7. CASE ~Inside(a, "string") /\ ~Inside(a, "number") /\ ~Inside(a, "literal")
    <3>1. a.stack = <<>> \/ Top(a).kind \in Containers
      BY <2>3, <2>7 DEF Inside, Containers
    <3>2. CASE b \in Whitespace
      <4>1. Feed(a, b) = a /\ Read(t, b) = t
        BY <1>2, <2>2, <2>7, <3>2 DEF Feed, FeedSpace, Read
      <4> QED BY <4>1
    <3>3. CASE b \notin Whitespace
      <4>1. Feed(a, b) = FeedGap(a, b) /\ Read(t, b) = GapByte(t, b)
        BY <1>2, <2>2, <2>7, <3>3 DEF Feed, Read
      <4> QED BY <1>2, <3>1, <4>1, FeedGapAgrees
    <3> QED BY <3>2, <3>3
  <2> QED BY <2>4, <2>5, <2>6, <2>7
<1> QED BY <1>1, <1>2

(* Nested to any depth and of any length, a text is refused by the automaton *)
(* at the byte where JSON, widened by its three leniencies, refuses it, and  *)
(* is complete when that is: is_valid and is_complete are exact.             *)
THEOREM AcceptsExactlyLenientJson ==
  ASSUME Lenient = Extras
  PROVE  Spec => []AcceptsExactly
<1>1. Init => Agree(js, text)
  <2>1. Fresh \in Automata /\ Fresh.stack = <<>> /\ ~Fresh.finished /\ ~Fresh.invalid
    BY DEF Fresh, Automata
  <2>2. Sound(Fresh)
    BY <2>1, EmptyIsStack DEF Sound
  <2>3. IsText(Start) /\ Start.nest = <<>> /\ Start.at.what = "value"
    BY DEF IsText, Start, At
  <2>4. AtTop(Fresh, Start)
    BY <2>1, <2>3 DEF AtTop, Matches
  <2>5. Agree(Fresh, Start)
    BY <2>1, <2>2, <2>3, <2>4 DEF Agree
  <2> QED BY <2>5 DEF Init
<1>2. Agree(js, text) /\ [Next]_vars => Agree(js, text)'
  <2> SUFFICES ASSUME Agree(js, text), [Next]_vars PROVE Agree(js', text')
    OBVIOUS
  <2>1. CASE Next
    <3>1. PICK b \in Bytes : FeedByte(b)
      BY <2>1 DEF Next
    <3>2. js' = Feed(js, b) /\ text' = Read(text, b)
      BY <3>1 DEF FeedByte
    <3> QED BY <3>2, FeedAgrees
  <2>2. CASE UNCHANGED vars
    BY <2>2 DEF vars
  <2> QED BY <2>1, <2>2
<1>3. Agree(js, text) => AcceptsExactly
  <2>1. ASSUME Agree(js, text), js.invalid PROVE AcceptsExactly
    BY <2>1 DEF Agree, AcceptsExactly, IsComplete, Broken, Ended, Is
  <2>2. ASSUME Agree(js, text), ~js.invalid PROVE AcceptsExactly
    BY <2>2, PlaceOfText DEF AcceptsExactly, IsComplete, Ended
  <2> QED BY <2>1, <2>2
<1> QED BY <1>1, <1>2, <1>3, PTL DEF Spec

-----------------------------------------------------------------------------
(* The automaton of a schema: it keeps frames that its schema's nodes allow, *)
(* and there is always a byte to go on with.  W holds the nodes of a schema, *)
(* those that stand for any value and any object among them.                 *)
KeyBytes == Bytes \ (Whitespace \cup {"\"", "\\", "ctl"})
PlainNodes == {[kind |-> k] : k \in {"any", "bool", "null", "int", "num", "str"}}

(* Members have a first byte that is not white space.                        *)
IsEnum(node) ==
  /\ node.kind = "enum" /\ node.members # {}
  /\ node.members \in SUBSET Seq(Bytes)
  /\ \A m \in node.members : m # <<>> /\ m[1] \notin Whitespace

IsObject(node, W) ==
  /\ node.kind = "object" /\ node.additional \in BOOLEAN
  /\ \A k \in DOMAIN node.properties : node.properties[k] \in W
IsArray(node, W) == node.kind = "array" /\ node.items \in W

Schemas(W) ==
  /\ Schema!AnyNode \in W /\ Schema!AnyObject \in W
  /\ \A node \in W : \/ node \in PlainNodes \/ IsEnum(node)
                     \/ IsObject(node, W) \/ IsArray(node, W)

(* Keys without white space and escapes, and a closed object has keys, those *)
(* that are required among them.  Elsewhere the automaton may come to where it *)
(* takes white space only.                                                   *)
Readable(W) ==
  \A node \in W : IsObject(node, W) =>
     /\ DOMAIN node.properties \subseteq Seq(KeyBytes)
     /\ ~ node.additional => node.required \subseteq DOMAIN node.properties
                             /\ DOMAIN node.properties # {}

SchemaObjects(W) ==
  [kind : {"object"}, node : W, seen : Seq(Seq(Bytes)), pending : Seq(Bytes),
   stage : {"key_or_close", "key", "in_key", "colon", "value", "comma_or_close"}]
SchemaArrays(W) ==
  [kind : {"array"}, items : W, stage : {"value_or_close", "value", "comma_or_close"}]
SchemaStrings == [kind : {"string"}, escape : BOOLEAN, unicode : 0 .. 4]
SchemaNumbers == [kind : {"number"}, integer : BOOLEAN, n : Flags]
SchemaEnums == [kind : {"enum"}, candidates : SUBSET Seq(Bytes), pos : Nat \ {0}]

(* An object waits for a key only where one may come, and what has been read *)
(* of a key begins one.                                                      *)
ObjectGoesOn(o) ==
  /\ o.stage \in {"key_or_close", "key"} => o.node.additional \/ Schema!Unseen(o) # {}
  /\ o.stage = "in_key" =>
       o.node.additional \/ \E k \in Schema!Unseen(o) : Schema!IsPrefix(o.pending, k)
EnumGoesOn(f) == \E m \in f.candidates : Len(m) > f.pos

SchemaContainers(W) ==
  {o \in SchemaObjects(W) : o.node.kind = "object" /\ (Readable(W) => ObjectGoesOn(o))} \cup SchemaArrays(W)
SchemaScalars ==
  SchemaStrings \cup SchemaNumbers \cup LiteralFrames \cup {f \in SchemaEnums : EnumGoesOn(f)}
SchemaFrames(W) == SchemaContainers(W) \cup SchemaScalars

(* Whatever has another frame above it is a container.                       *)
SchemaStacks(W) ==
  {s \in Seq(SchemaFrames(W)) : \A i \in 1 .. Len(s) - 1 : s[i] \in SchemaContainers(W)}

SchemaAutomata(W) == [stack : SchemaStacks(W), finished : BOOLEAN, invalid : BOOLEAN]
SchemaSound(W, a) == a \in SchemaAutomata(W)

(* What a byte makes of an automaton whose value has started.                *)
GoesOn(W, r) == SchemaSound(W, r) /\ (r.invalid \/ HasStarted(r))

LEMMA ContainersByKind ==
  ASSUME NEW W, NEW f \in SchemaFrames(W)
  PROVE  /\ f.kind = "object" => /\ f \in SchemaObjects(W) /\ f.node.kind = "object"
                                 /\ (Readable(W) => ObjectGoesOn(f))
         /\ f.kind = "array" => f \in SchemaArrays(W)
         /\ f.kind = "string" => f \in SchemaStrings
         /\ f.kind = "number" => f \in SchemaNumbers
         /\ f.kind = "literal" => f \in LiteralFrames
         /\ f.kind = "enum" => f \in SchemaEnums /\ EnumGoesOn(f)
         /\ f.kind \in {"object", "array", "string", "number", "literal", "enum"}
         /\ f.kind \in {"object", "array"} => f \in SchemaContainers(W)
<1>1. CASE f \in SchemaContainers(W)
  BY <1>1 DEF SchemaContainers, SchemaObjects, SchemaArrays
<1>2. CASE f \in SchemaStrings
  BY <1>2 DEF SchemaStrings
<1>3. CASE f \in SchemaNumbers
  BY <1>3 DEF SchemaNumbers
<1>4. CASE f \in LiteralFrames
  BY <1>4 DEF LiteralFrames
<1>5. CASE f \in SchemaEnums /\ EnumGoesOn(f)
  BY <1>5 DEF SchemaEnums
<1> QED BY <1>1, <1>2, <1>3, <1>4, <1>5 DEF SchemaFrames, SchemaScalars

LEMMA SchemaRefuse ==
  ASSUME NEW W, NEW a, SchemaSound(W, a)
  PROVE  GoesOn(W, Refuse(a)) /\ Refuse(a).invalid
<1>1. Refuse(a) \in SchemaAutomata(W) /\ Refuse(a).invalid
  BY DEF SchemaSound, SchemaAutomata, Refuse
<1> QED BY <1>1 DEF SchemaSound, GoesOn

LEMMA SchemaPush ==
  ASSUME NEW W, NEW a, SchemaSound(W, a), NEW f \in SchemaFrames(W),
         a.stack = <<>> \/ Top(a) \in SchemaContainers(W)
  PROVE  GoesOn(W, Push(a, f)) /\ Push(a, f).invalid = a.invalid /\ HasStarted(Push(a, f))
<1>1. a.stack \in Seq(SchemaFrames(W)) /\ \A i \in 1 .. Len(a.stack) - 1 : a.stack[i] \in SchemaContainers(W)
  BY DEF SchemaSound, SchemaAutomata, SchemaStacks
<1> DEFINE s == Append(a.stack, f)
<1>2. Push(a, f) = [stack |-> s, finished |-> a.finished, invalid |-> a.invalid]
  BY DEF SchemaSound, SchemaAutomata, Push
<1>3. /\ s \in Seq(SchemaFrames(W)) /\ Len(s) = Len(a.stack) + 1 /\ s # <<>>
      /\ \A i \in 1 .. Len(a.stack) : s[i] = a.stack[i]
  <2>1. PICK F : F = SchemaFrames(W)
    OBVIOUS
  <2>2. PICK t \in Seq(F) : t = a.stack
    BY <1>1, <2>1
  <2>3. /\ Append(t, f) \in Seq(F) /\ Len(Append(t, f)) = Len(t) + 1
        /\ \A i \in 1 .. Len(t) : Append(t, f)[i] = t[i]
    BY <2>1
  <2>4. Append(t, f) # <<>>
    BY <2>1, AppendProperties
  <2> QED BY <2>1, <2>2, <2>3, <2>4
<1>4. Len(a.stack) \in Nat /\ (Len(a.stack) > 0 => a.stack[Len(a.stack)] \in SchemaContainers(W))
  BY <1>1 DEF Top, Last
<1>5. ASSUME NEW i \in 1 .. Len(s) - 1 PROVE s[i] \in SchemaContainers(W)
  <2>1. i \in 1 .. Len(a.stack) /\ (i \in 1 .. Len(a.stack) - 1 \/ i = Len(a.stack))
    BY <1>3, <1>4, <1>5
  <2> QED BY <1>1, <1>3, <1>4, <2>1
<1> HIDE DEF s
<1>6. s \in SchemaStacks(W)
  BY <1>3, <1>5 DEF SchemaStacks
<1> QED BY <1>2, <1>3, <1>6 DEF SchemaSound, SchemaAutomata, GoesOn, HasStarted

LEMMA SchemaSetTop ==
  ASSUME NEW W, NEW a, SchemaSound(W, a), a.stack # <<>>, NEW f \in SchemaFrames(W)
  PROVE  /\ GoesOn(W, SetTop(a, f)) /\ SetTop(a, f).invalid = a.invalid
         /\ SetTop(a, f).stack # <<>> /\ Top(SetTop(a, f)) = f
         /\ HasStarted(SetTop(a, f))
<1> DEFINE n == Len(a.stack)
           s == [a.stack EXCEPT ![n] = f]
<1>1. /\ a.stack \in Seq(SchemaFrames(W)) /\ n \in Nat \ {0}
      /\ \A i \in 1 .. n - 1 : a.stack[i] \in SchemaContainers(W)
  BY DEF SchemaSound, SchemaAutomata, SchemaStacks
<1>2. SetTop(a, f) = [stack |-> s, finished |-> a.finished, invalid |-> a.invalid]
  BY DEF SchemaSound, SchemaAutomata, SetTop
<1>3. /\ s \in Seq(SchemaFrames(W)) /\ Len(s) = n /\ s # <<>> /\ s[n] = f
      /\ \A i \in 1 .. n - 1 : s[i] = a.stack[i]
  <2>1. PICK F : F = SchemaFrames(W)
    OBVIOUS
  <2>2. PICK t \in Seq(F) : t = a.stack
    BY <1>1, <2>1
  <2>3. PICK u : u = [t EXCEPT ![n] = f]
    OBVIOUS
  <2>4. /\ u \in Seq(F) /\ Len(u) = n /\ u[n] = f
        /\ \A i \in 1 .. n - 1 : u[i] = t[i]
    BY <1>1, <2>1, <2>2, <2>3
  <2>5. u # <<>>
    BY <1>1, <2>4
  <2> QED BY <2>1, <2>2, <2>3, <2>4, <2>5
<1> HIDE DEF s
<1>4. s \in SchemaStacks(W)
  BY <1>1, <1>3 DEF SchemaStacks
<1> QED BY <1>2, <1>3, <1>4 DEF SchemaSound, SchemaAutomata, GoesOn, HasStarted, Top, Last

LEMMA SchemaTop ==
  ASSUME NEW W, NEW a, SchemaSound(W, a), a.stack # <<>>
  PROVE  Top(a) \in SchemaFrames(W)
<1>1. a.stack \in Seq(SchemaFrames(W))
  BY DEF SchemaSound, SchemaAutomata, SchemaStacks
<1> QED BY <1>1 DEF Top, Last

-----------------------------------------------------------------------------
(* What both automata share is the same for the schema's.                    *)
LEMMA SchemaSharesEach ==
  ASSUME NEW a, NEW f, NEW b, NEW kind
  PROVE  /\ Schema!Top(a) = Top(a) /\ Schema!Pop(a) = Pop(a)
         /\ Schema!Push(a, f) = Push(a, f) /\ Schema!SetTop(a, f) = SetTop(a, f)
         /\ Schema!Refuse(a) = Refuse(a) /\ Schema!Inside(a, kind) = Inside(a, kind)
         /\ Schema!StringTakes(f, b) = StringTakes(f, b)
         /\ Schema!StringAfter(f, b) = StringAfter(f, b)
         /\ Schema!StringCloses(f, b) = StringCloses(f, b)
         /\ Schema!Whitespace = Whitespace /\ Schema!Digits = Digits
         /\ Schema!NumberTakes(f, b) = NumberTakes(f, b)
         /\ Schema!NumberAfter(f, b) = NumberAfter(f, b)
         /\ Schema!NumberMayEnd(f) = NumberMayEnd(f)
         /\ Schema!Rest = Rest /\ Schema!Literal(b) = Literal(b) /\ Schema!NoFlags = NoFlags
<1>1. Schema!Top(a) = Top(a)
  BY DEF Top, Schema!Top, Last, Schema!Last
<1>2. Schema!Pop(a) = Pop(a)
  BY DEF Pop, Schema!Pop, Front, Schema!Front
<1>3. /\ Schema!Push(a, f) = Push(a, f) /\ Schema!SetTop(a, f) = SetTop(a, f)
      /\ Schema!Refuse(a) = Refuse(a)
  BY DEF Push, Schema!Push, SetTop, Schema!SetTop, Refuse, Schema!Refuse
<1>4. Schema!Inside(a, kind) = Inside(a, kind)
  BY <1>1 DEF Inside, Schema!Inside
<1>5. Schema!Whitespace = Whitespace /\ Schema!Digits = Digits
  BY DEF Whitespace, Schema!Whitespace, Digits, Schema!Digits
<1>6. Schema!Hex = Hex /\ Schema!Escapable = Escapable
  BY <1>5 DEF Hex, Schema!Hex, Escapable, Schema!Escapable
<1>7. Schema!StringTakes(f, b) = StringTakes(f, b)
  BY <1>6 DEF StringTakes, Schema!StringTakes
<1>8. Schema!StringAfter(f, b) = StringAfter(f, b)
  BY DEF StringAfter, Schema!StringAfter
<1>9. Schema!StringCloses(f, b) = StringCloses(f, b)
  BY DEF StringCloses, Schema!StringCloses
<1>10. /\ Schema!TakesPoint(f, b) = TakesPoint(f, b)
       /\ Schema!TakesExponent(f, b) = TakesExponent(f, b)
       /\ Schema!TakesSign(f, b) = TakesSign(f, b)
  BY DEF TakesPoint, TakesExponent, TakesSign, Schema!TakesPoint, Schema!TakesExponent,
         Schema!TakesSign
<1>11. Schema!NumberTakes(f, b) = NumberTakes(f, b)
  BY <1>5, <1>10 DEF NumberTakes, Schema!NumberTakes
<1>12. Schema!NumberAfter(f, b) = NumberAfter(f, b)
  BY <1>5, <1>10 DEF NumberAfter, Schema!NumberAfter
<1>13. Schema!NumberMayEnd(f) = NumberMayEnd(f)
  BY DEF NumberMayEnd, Schema!NumberMayEnd
<1>14. Schema!Rest = Rest
  BY DEF Rest, Schema!Rest
<1>15. Schema!Literal(b) = Literal(b)
  BY <1>14 DEF Literal, Schema!Literal
<1>16. Schema!NoFlags = NoFlags
  BY DEF NoFlags, Schema!NoFlags
<1> QED BY <1>1, <1>2, <1>3, <1>4, <1>5, <1>7, <1>8, <1>9, <1>11, <1>12, <1>13, <1>14, <1>15,
           <1>16

LEMMA SchemaShares ==
  /\ \A a : Schema!Top(a) = Top(a) /\ Schema!Pop(a) = Pop(a) /\ Schema!Refuse(a) = Refuse(a)
  /\ \A a, f : Schema!Push(a, f) = Push(a, f) /\ Schema!SetTop(a, f) = SetTop(a, f)
  /\ \A a, kind : Schema!Inside(a, kind) = Inside(a, kind)
  /\ \A f, b : /\ Schema!StringTakes(f, b) = StringTakes(f, b)
               /\ Schema!StringAfter(f, b) = StringAfter(f, b)
               /\ Schema!StringCloses(f, b) = StringCloses(f, b)
               /\ Schema!NumberTakes(f, b) = NumberTakes(f, b)
               /\ Schema!NumberAfter(f, b) = NumberAfter(f, b)
  /\ \A f : Schema!NumberMayEnd(f) = NumberMayEnd(f)
  /\ \A b : Schema!Literal(b) = Literal(b)
  /\ Schema!Whitespace = Whitespace /\ Schema!Digits = Digits
  /\ Schema!Rest = Rest /\ Schema!NoFlags = NoFlags
BY SchemaSharesEach, Zenon

(* A closed value leaves what is around it.                                  *)
Ready(W, a) == SchemaSound(W, a) /\ (a.stack = <<>> \/ Top(a) \in SchemaContainers(W))

LEMMA SchemaPop ==
  ASSUME NEW W, NEW a, SchemaSound(W, a), a.stack # <<>>
  PROVE  Ready(W, Pop(a)) /\ Pop(a).invalid = a.invalid
<1>1. PICK F : F = SchemaFrames(W)
  OBVIOUS
<1>2. PICK s \in Seq(F) : s = a.stack
  BY <1>1 DEF SchemaSound, SchemaAutomata, SchemaStacks
<1>3. /\ Len(s) \in Nat \ {0}
      /\ \A i \in 1 .. Len(s) - 1 : s[i] \in SchemaContainers(W)
  BY <1>2 DEF SchemaSound, SchemaAutomata, SchemaStacks
<1>4. PICK t : t = Front(s)
  OBVIOUS
<1>5. t \in Seq(F) /\ Len(t) = Len(s) - 1 /\ \A i \in 1 .. Len(s) - 1 : t[i] = s[i]
  <2>1. 1 \in 1 .. Len(s) + 1 /\ Len(s) - 1 \in 1 - 1 .. Len(s)
    BY <1>3
  <2>2. Len(s) - 1 - 1 + 1 = Len(s) - 1 /\ \A i \in 1 .. Len(s) - 1 : 1 + i - 1 = i
    BY <1>3
  <2> QED BY <1>4, <2>1, <2>2, SubSeqProperties DEF Front
<1>6. t \in SchemaStacks(W)
  BY <1>1, <1>3, <1>5 DEF SchemaStacks
<1>7. t # <<>> => Last(t) \in SchemaContainers(W)
  <2>1. SUFFICES ASSUME t # <<>> PROVE Last(t) \in SchemaContainers(W)
    OBVIOUS
  <2>2. Len(t) \in Nat \ {0}
    BY <1>5, <2>1
  <2>3. Len(t) \in 1 .. Len(s) - 1
    BY <1>3, <1>5, <2>2
  <2> QED BY <1>3, <1>5, <2>3 DEF Last
<1>8. Pop(a) = [stack |-> t, finished |-> a.finished, invalid |-> a.invalid]
  BY <1>2, <1>4 DEF SchemaSound, SchemaAutomata, Pop
<1>9. a.finished \in BOOLEAN /\ a.invalid \in BOOLEAN
  BY DEF SchemaSound, SchemaAutomata
<1> QED BY <1>6, <1>7, <1>8, <1>9 DEF Ready, SchemaSound, SchemaAutomata, Top

LEMMA SchemaFold ==
  ASSUME NEW W, NEW a, Ready(W, a)
  PROVE  /\ GoesOn(W, Schema!FoldAfterValue(a)) /\ Ready(W, Schema!FoldAfterValue(a))
         /\ Schema!FoldAfterValue(a).invalid = a.invalid
         /\ HasStarted(Schema!FoldAfterValue(a))
<1>1. SchemaSound(W, a)
  BY DEF Ready
<1>2. CASE a.stack = <<>>
  <2>1. Schema!FoldAfterValue(a) = [a EXCEPT !.finished = TRUE]
    BY <1>2 DEF Schema!FoldAfterValue
  <2>2. PICK S : S = SchemaStacks(W)
    OBVIOUS
  <2>3. PICK r : r = [a EXCEPT !.finished = TRUE]
    OBVIOUS
  <2>4. r \in [stack : S, finished : BOOLEAN, invalid : BOOLEAN]
        /\ r.stack = <<>> /\ r.finished /\ r.invalid = a.invalid
    BY <1>1, <1>2, <2>2, <2>3 DEF SchemaSound, SchemaAutomata
  <2> QED BY <2>1, <2>2, <2>3, <2>4 DEF GoesOn, Ready, SchemaSound, SchemaAutomata, HasStarted
<1>3. CASE a.stack # <<>> /\ Inside(a, "array") /\ Top(a).stage = "value_or_close"
  <2>1. PICK f : f = [Top(a) EXCEPT !.stage = "comma_or_close"]
    OBVIOUS
  <2>2. Schema!FoldAfterValue(a) = SetTop(a, f)
    BY <1>3, <2>1, SchemaShares DEF Schema!FoldAfterValue, Schema!Stage
  <2>3. Top(a) \in SchemaArrays(W)
    BY <1>1, <1>3, SchemaTop, ContainersByKind DEF Inside
  <2>4. f \in SchemaArrays(W)
    BY <2>1, <2>3 DEF SchemaArrays
  <2>5. f \in SchemaContainers(W) /\ f \in SchemaFrames(W)
    BY <2>4 DEF SchemaContainers, SchemaFrames
  <2>6. /\ GoesOn(W, SetTop(a, f)) /\ SetTop(a, f).invalid = a.invalid
        /\ Top(SetTop(a, f)) = f /\ HasStarted(SetTop(a, f))
    BY <1>1, <1>3, <2>5, SchemaSetTop
  <2> QED BY <2>2, <2>5, <2>6 DEF Ready, GoesOn
<1>4. CASE a.stack # <<>> /\ ~ (Inside(a, "array") /\ Top(a).stage = "value_or_close")
  <2>1. Schema!FoldAfterValue(a) = a
    BY <1>4, SchemaShares DEF Schema!FoldAfterValue
  <2>2. HasStarted(a)
    BY <1>4 DEF HasStarted
  <2>3. GoesOn(W, a)
    BY <1>1, <2>2 DEF GoesOn
  <2> QED BY <2>1, <2>2, <2>3
<1> QED BY <1>2, <1>3, <1>4

LEMMA SchemaClose ==
  ASSUME NEW W, NEW a, SchemaSound(W, a), a.stack # <<>>
  PROVE  /\ GoesOn(W, Schema!CloseValue(a)) /\ Ready(W, Schema!CloseValue(a))
         /\ Schema!CloseValue(a).invalid = a.invalid
         /\ HasStarted(Schema!CloseValue(a))
<1>1. Schema!CloseValue(a) = Schema!FoldAfterValue(Pop(a))
  BY SchemaShares DEF Schema!CloseValue
<1>2. Ready(W, Pop(a)) /\ Pop(a).invalid = a.invalid
  BY SchemaPop
<1> QED BY <1>1, <1>2, SchemaFold

(* A value starts where its node allows it.                                  *)
LEMMA SchemaStartEnum ==
  ASSUME NEW W, NEW a, Ready(W, a), NEW b, NEW node, IsEnum(node)
  PROVE  /\ GoesOn(W, Schema!StartEnum(a, b, node.members))
         /\ (\E m \in node.members : m[1] = b) /\ ~ a.invalid =>
              ~ Schema!StartEnum(a, b, node.members).invalid
<1> DEFINE C == {m \in node.members : m # <<>> /\ m[1] = b}
           r == Schema!StartEnum(a, b, node.members)
<1>1. SchemaSound(W, a)
  BY DEF Ready
<1>2. C \in SUBSET Seq(Bytes) /\ \A m \in C : m # <<>>
  BY DEF IsEnum
<1>3. (\E m \in node.members : m[1] = b) => C # {}
  BY DEF IsEnum
<1>4. r = IF C = {} THEN Refuse(a)
          ELSE IF \A m \in C : Len(m) = 1 THEN Schema!FoldAfterValue(a)
          ELSE Push(a, Schema!EnumFrame(C, 1))
  BY SchemaShares DEF Schema!StartEnum
<1> HIDE DEF C, r
<1>5. CASE C = {}
  BY <1>1, <1>3, <1>4, <1>5, SchemaRefuse DEF r
<1>6. CASE C # {} /\ \A m \in C : Len(m) = 1
  BY <1>4, <1>6, SchemaFold DEF r
<1>7. CASE C # {} /\ ~ \A m \in C : Len(m) = 1
  <2>1. PICK f : f = Schema!EnumFrame(C, 1)
    OBVIOUS
  <2>2. PICK m \in C : Len(m) # 1
    BY <1>7
  <2>3. m \in Seq(Bytes) /\ m # <<>>
    BY <1>2, <2>2
  <2>4. Len(m) > 1
    BY <2>2, <2>3
  <2>5. f \in SchemaEnums /\ f.candidates = C /\ f.pos = 1
    BY <1>2, <2>1 DEF Schema!EnumFrame, SchemaEnums
  <2>6. f \in SchemaFrames(W)
    BY <2>2, <2>4, <2>5 DEF SchemaFrames, SchemaScalars, EnumGoesOn
  <2>7. GoesOn(W, Push(a, f)) /\ Push(a, f).invalid = a.invalid
    BY <1>1, <2>6, SchemaPush DEF Ready
  <2> QED BY <1>4, <1>7, <2>1, <2>7 DEF r
<1> QED BY <1>5, <1>6, <1>7 DEF r

(* The frame that a byte opens for a node that is not an enumeration.        *)
Opened(node, b) ==
  CASE b = "{" -> Schema!ObjectFrame(IF node = Schema!AnyNode THEN Schema!AnyObject ELSE node)
    [] b = "[" -> Schema!ArrayFrame(IF node = Schema!AnyNode THEN Schema!AnyNode ELSE node.items)
    [] b = "\"" -> Schema!StringFrame
    [] b \in DOMAIN Rest -> Literal(b)
    [] OTHER -> Schema!NumberFrame(b, node.kind = "int")

LEMMA SchemaNewFrames ==
  ASSUME NEW W, Schemas(W), NEW node \in W, ~ IsEnum(node), NEW b, Schema!Opens(node, b)
  PROVE  Opened(node, b) \in SchemaFrames(W)
<1>1. \/ node \in PlainNodes
      \/ node.kind = "object" /\ IsObject(node, W)
      \/ node.kind = "array" /\ IsArray(node, W)
  BY DEF Schemas, IsObject, IsArray
<1>2. DOMAIN Rest = {"t", "f", "n"} /\ Schema!Rest = Rest /\ Schema!Digits = {"0", "1"}
  BY SchemaShares DEF Rest, Digits
<1>3. /\ node.kind = "object" => b = "{"
      /\ node.kind = "array" => b = "["
      /\ node.kind = "str" => b = "\""
      /\ node.kind = "bool" => b \in {"t", "f"}
      /\ node.kind = "null" => b = "n"
      /\ node.kind \in {"int", "num"} => b \in {"0", "1", "-"}
  BY <1>2 DEF Schema!Opens
<1>4. /\ node.kind = "any" => node = Schema!AnyNode
      /\ node = Schema!AnyNode => node.kind = "any"
      /\ node.kind \in {"any", "object", "array", "str", "bool", "null", "int", "num"}
      /\ node.kind = "object" => IsObject(node, W)
      /\ node.kind = "array" => IsArray(node, W)
  BY <1>1 DEF PlainNodes, Schema!AnyNode
<1>5. CASE b = "{"
  <2>1. PICK o : o = IF node = Schema!AnyNode THEN Schema!AnyObject ELSE node
    OBVIOUS
  <2>2. node = Schema!AnyNode \/ node.kind = "object"
    BY <1>3, <1>4, <1>5
  <2>3. /\ o \in W /\ o.kind = "object"
        /\ Readable(W) => o.additional \/ DOMAIN o.properties # {}
    <3>1. Schema!AnyObject.kind = "object" /\ Schema!AnyObject.additional
      BY DEF Schema!AnyObject
    <3> QED BY <1>4, <2>1, <2>2, <3>1 DEF Schemas, Readable, IsObject
  <2>4. PICK f : f = Schema!ObjectFrame(o)
    OBVIOUS
  <2>5. /\ f.node = o /\ f.seen = <<>> /\ f.stage = "key_or_close" /\ f.pending = <<>>
        /\ f \in SchemaObjects(W)
    <3>1. f = [kind |-> "object", node |-> o, seen |-> <<>>, stage |-> "key_or_close",
               pending |-> <<>>]
      BY <2>4 DEF Schema!ObjectFrame
    <3>2. <<>> \in Seq(Seq(Bytes)) /\ <<>> \in Seq(Bytes)
      OBVIOUS
    <3> HIDE DEF Bytes
    <3> QED BY <2>3, <3>1, <3>2 DEF SchemaObjects
  <2>6. Schema!Unseen(f) = DOMAIN o.properties
    <3>1. Schema!ToSet(<<>>) = {}
      BY DEF Schema!ToSet
    <3> QED BY <2>5, <3>1 DEF Schema!Unseen
  <2>7. Readable(W) => ObjectGoesOn(f)
    BY <2>3, <2>5, <2>6 DEF ObjectGoesOn
  <2>8. f \in SchemaFrames(W)
    BY <2>3, <2>5, <2>7 DEF SchemaFrames, SchemaContainers
  <2>9. Opened(node, b) = Schema!ObjectFrame(o)
    <3>1. b # "[" /\ b # "\"" /\ b \notin DOMAIN Rest
      BY <1>2, <1>5
    <3> QED BY <1>5, <2>1, <3>1, Zenon DEF Opened
  <2> QED BY <2>4, <2>8, <2>9
<1>6. CASE b = "["
  <2>1. PICK i : i = IF node = Schema!AnyNode THEN Schema!AnyNode ELSE node.items
    OBVIOUS
  <2>2. node = Schema!AnyNode \/ node.kind = "array"
    BY <1>3, <1>4, <1>6
  <2>3. i \in W
    BY <1>4, <2>1, <2>2 DEF Schemas, IsArray
  <2>4. Schema!ArrayFrame(i) \in SchemaArrays(W)
    BY <2>3 DEF Schema!ArrayFrame, SchemaArrays
  <2>5. b # "{" /\ b # "\"" /\ b \notin DOMAIN Rest
    BY <1>2, <1>6
  <2>6. Opened(node, b) = Schema!ArrayFrame(i)
    BY <1>6, <2>1, <2>5, Zenon DEF Opened
  <2> QED BY <2>4, <2>6 DEF SchemaFrames, SchemaContainers
<1>7. CASE b = "\""
  <2>1. Schema!StringFrame \in SchemaStrings
    BY DEF Schema!StringFrame, SchemaStrings
  <2>2. b # "{" /\ b # "[" /\ b \notin DOMAIN Rest
    BY <1>2, <1>7
  <2>3. Opened(node, b) = Schema!StringFrame
    BY <1>7, <2>2, Zenon DEF Opened
  <2> QED BY <2>1, <2>3 DEF SchemaFrames, SchemaScalars
<1>8. CASE b \in DOMAIN Rest
  <2>1. Literal(b) \in LiteralFrames
    BY <1>8, NewFrames
  <2>2. b # "{" /\ b # "[" /\ b # "\""
    BY <1>2, <1>8
  <2>3. Opened(node, b) = Literal(b)
    BY <1>8, <2>2 DEF Opened
  <2> QED BY <2>1, <2>3 DEF SchemaFrames, SchemaScalars
<1>9. CASE b \notin {"{", "[", "\""} /\ b \notin DOMAIN Rest
  <2> DEFINE n == [NoFlags EXCEPT !.digit = b \in Digits]
  <2>1. n \in Flags
    <3>1. NoFlags \in Flags
      BY DEF NoFlags, Flags
    <3>2. \A v \in BOOLEAN : [NoFlags EXCEPT !.digit = v] \in Flags
      BY <3>1 DEF Flags
    <3>3. (b \in Digits) \in BOOLEAN
      OBVIOUS
    <3> QED BY <3>2, <3>3
  <2>2. Schema!NumberFrame(b, node.kind = "int")
          = [kind |-> "number", integer |-> node.kind = "int", n |-> n]
    BY SchemaShares DEF Schema!NumberFrame
  <2> HIDE DEF n
  <2>3. (node.kind = "int") \in BOOLEAN
    OBVIOUS
  <2>4. Schema!NumberFrame(b, node.kind = "int") \in SchemaNumbers
    <3>1. PICK v \in BOOLEAN : v = (node.kind = "int")
      OBVIOUS
    <3>2. [kind |-> "number", integer |-> v, n |-> n] \in SchemaNumbers
      BY <2>1, <3>1 DEF SchemaNumbers
    <3> QED BY <2>2, <3>1, <3>2, Zenon
  <2>5. Opened(node, b) = Schema!NumberFrame(b, node.kind = "int")
    BY <1>9 DEF Opened
  <2> QED BY <2>4, <2>5 DEF SchemaFrames, SchemaScalars
<1> QED BY <1>5, <1>6, <1>7, <1>8, <1>9

LEMMA SchemaStartValue ==
  ASSUME NEW W, Schemas(W), NEW a, Ready(W, a), NEW b, NEW node \in W
  PROVE  GoesOn(W, Schema!StartValue(a, b, node))
<1>1. SchemaSound(W, a)
  BY DEF Ready
<1>2. CASE node.kind = "enum"
  <2>1. IsEnum(node)
    BY <1>2 DEF Schemas, PlainNodes, IsObject, IsArray
  <2> QED BY <1>2, <2>1, SchemaStartEnum DEF Schema!StartValue
<1>3. CASE node.kind # "enum" /\ ~ Schema!Opens(node, b)
  BY <1>1, <1>3, SchemaRefuse, SchemaShares DEF Schema!StartValue
<1>4. CASE node.kind # "enum" /\ Schema!Opens(node, b)
  <2>1. Schema!StartValue(a, b, node) = Push(a, Opened(node, b))
    BY <1>4, SchemaShares, Zenon DEF Schema!StartValue, Opened
  <2>2. Opened(node, b) \in SchemaFrames(W)
    BY <1>4, SchemaNewFrames DEF IsEnum
  <2> QED BY <1>1, <2>1, <2>2, SchemaPush DEF Ready
<1> QED BY <1>2, <1>3, <1>4

(* Some byte that is not white space starts a value of a node.               *)
LEMMA SchemaStarts ==
  ASSUME NEW W, Schemas(W), NEW a, Ready(W, a), ~ a.invalid, NEW node \in W
  PROVE  \E b \in Bytes \ Whitespace : /\ ~ Schema!StartValue(a, b, node).invalid
                                       /\ HasStarted(Schema!StartValue(a, b, node))
<1>1. SchemaSound(W, a)
  BY DEF Ready
<1>2. CASE node.kind = "enum"
  <2>1. IsEnum(node)
    BY <1>2 DEF Schemas, PlainNodes, IsObject, IsArray
  <2>2. PICK m \in node.members : m \in Seq(Bytes) /\ m # <<>> /\ m[1] \notin Whitespace
    BY <2>1 DEF IsEnum
  <2>3. m[1] \in Bytes
    BY <2>2
  <2>4. ~ Schema!StartEnum(a, m[1], node.members).invalid
        /\ GoesOn(W, Schema!StartEnum(a, m[1], node.members))
    BY <2>1, SchemaStartEnum
  <2>5. Schema!StartValue(a, m[1], node) = Schema!StartEnum(a, m[1], node.members)
    BY <1>2 DEF Schema!StartValue
  <2> QED BY <2>2, <2>3, <2>4, <2>5 DEF GoesOn
<1>3. CASE node.kind # "enum"
  <2>1. node.kind \in {"any", "object", "array", "str", "bool", "null", "int", "num"}
    BY <1>3 DEF Schemas, PlainNodes, IsObject, IsArray, IsEnum
  <2>2. {"{", "[", "\"", "t", "n", "0"} \subseteq Bytes \ Whitespace
    BY DEF Bytes, Whitespace, Escapable, Hex, Digits
  <2>3. \E b \in {"{", "[", "\"", "t", "n", "0"} : Schema!Opens(node, b)
    <3>1. Schema!Digits = {"0", "1"}
      BY SchemaShares DEF Digits
    <3>2. CASE node.kind \in {"object", "any"}
      <4>1. Schema!Opens(node, "{")
        BY <3>2 DEF Schema!Opens
      <4> QED BY <4>1
    <3>3. CASE node.kind = "array"
      <4>1. Schema!Opens(node, "[")
        BY <3>3 DEF Schema!Opens
      <4> QED BY <4>1
    <3>4. CASE node.kind = "str"
      <4>1. Schema!Opens(node, "\"")
        BY <3>4 DEF Schema!Opens
      <4> QED BY <4>1
    <3>5. CASE node.kind = "bool"
      <4>1. Schema!Opens(node, "t")
        BY <3>5 DEF Schema!Opens
      <4> QED BY <4>1
    <3>6. CASE node.kind = "null"
      <4>1. Schema!Opens(node, "n")
        BY <3>6 DEF Schema!Opens
      <4> QED BY <4>1
    <3>7. CASE node.kind \in {"int", "num"}
      <4>1. Schema!Opens(node, "0")
        BY <3>1, <3>7 DEF Schema!Opens
      <4> QED BY <4>1
    <3> QED BY <2>1, <3>2, <3>3, <3>4, <3>5, <3>6, <3>7
  <2>4. PICK b \in {"{", "[", "\"", "t", "n", "0"} : Schema!Opens(node, b)
    BY <2>3
  <2>5. Schema!StartValue(a, b, node) = Push(a, Opened(node, b))
    BY <1>3, <2>4, SchemaShares, Zenon DEF Schema!StartValue, Opened
  <2>6. Opened(node, b) \in SchemaFrames(W)
    BY <1>3, <2>4, SchemaNewFrames DEF IsEnum
  <2>7. HasStarted(Push(a, Opened(node, b))) /\ ~ Push(a, Opened(node, b)).invalid
    BY <1>1, <2>6, SchemaPush DEF Ready
  <2> QED BY <2>2, <2>5, <2>7
<1> QED BY <1>2, <1>3

-----------------------------------------------------------------------------
(* One byte inside a scalar.                                                 *)
LEMMA SchemaFeedString ==
  ASSUME NEW W, NEW a, SchemaSound(W, a), a.stack # <<>>, Top(a).kind = "string", NEW b
  PROVE  /\ GoesOn(W, Schema!FeedString(a, b))
         /\ ~ a.invalid => \E c \in Bytes \ Whitespace : ~ Schema!FeedString(a, c).invalid
<1>1. PICK f \in SchemaStrings : f = Top(a)
  BY SchemaTop, ContainersByKind
<1>2. f.escape \in BOOLEAN /\ f.unicode \in 0 .. 4
  BY DEF SchemaStrings
<1>3. ASSUME NEW c PROVE StringAfter(f, c) \in SchemaStrings
  <2>1. \A e \in BOOLEAN, u \in 0 .. 4 :
          /\ [f EXCEPT !.escape = e, !.unicode = u] \in SchemaStrings
          /\ [f EXCEPT !.unicode = u] \in SchemaStrings
          /\ [f EXCEPT !.escape = e] \in SchemaStrings
    BY DEF SchemaStrings
  <2>2. f.unicode > 0 => f.unicode - 1 \in 0 .. 4
    BY <1>2
  <2>3. (c = "\\") \in BOOLEAN /\ FALSE \in BOOLEAN /\ (IF c = "u" THEN 4 ELSE 0) \in 0 .. 4
    OBVIOUS
  <2> QED BY <2>1, <2>2, <2>3 DEF StringAfter
<1>4. ASSUME NEW c PROVE /\ GoesOn(W, SetTop(a, StringAfter(f, c)))
                         /\ SetTop(a, StringAfter(f, c)).invalid = a.invalid
  <2>1. PICK g \in SchemaStrings : g = StringAfter(f, c)
    BY <1>3
  <2>2. g \in SchemaFrames(W)
    BY DEF SchemaFrames, SchemaScalars
  <2> QED BY <2>1, <2>2, SchemaSetTop
<1>5. ASSUME NEW c PROVE Schema!FeedString(a, c) =
                           IF StringTakes(f, c) THEN SetTop(a, StringAfter(f, c))
                           ELSE IF StringCloses(f, c) THEN Schema!CloseValue(a)
                           ELSE Refuse(a)
  BY <1>1, SchemaShares DEF Schema!FeedString
<1>6. GoesOn(W, Schema!FeedString(a, b))
  BY <1>4, <1>5, SchemaClose, SchemaRefuse
<1>7. ASSUME ~ a.invalid PROVE \E c \in Bytes \ Whitespace : ~ Schema!FeedString(a, c).invalid
  <2>1. /\ "0" \in Hex /\ "n" \in Escapable
        /\ {"0", "n", "x"} \subseteq Bytes \ Whitespace
        /\ "x" \notin {"\"", "\n", "ctl"}
    BY DEF Hex, Digits, Escapable, Bytes, Whitespace
  <2>2. PICK c \in {"0", "n", "x"} : StringTakes(f, c)
    BY <1>2, <2>1 DEF StringTakes
  <2>3. Schema!FeedString(a, c) = SetTop(a, StringAfter(f, c))
    BY <1>5, <2>2
  <2> QED BY <1>4, <1>7, <2>1, <2>2, <2>3
<1> QED BY <1>6, <1>7

LEMMA SchemaFeedLiteral ==
  ASSUME NEW W, NEW a, SchemaSound(W, a), a.stack # <<>>, Top(a).kind = "literal", NEW b
  PROVE  /\ GoesOn(W, Schema!FeedLiteral(a, b))
         /\ ~ a.invalid => \E c \in Bytes \ Whitespace : ~ Schema!FeedLiteral(a, c).invalid
<1>1. PICK f \in LiteralFrames : f = Top(a)
  BY SchemaTop, ContainersByKind
<1> DEFINE left == f.expected
           g == [f EXCEPT !.expected = Tail(left)]
<1>2. left \in Remainders
  BY DEF LiteralFrames
<1>3. ASSUME Len(left) # 1 PROVE GoesOn(W, SetTop(a, g)) /\ SetTop(a, g).invalid = a.invalid
  <2>1. Tail(left) \in Remainders
    BY <1>2, <1>3, TailOfRemainder
  <2>2. g \in LiteralFrames
    BY <2>1 DEF LiteralFrames
  <2> HIDE DEF g
  <2>3. g \in SchemaFrames(W)
    BY <2>2 DEF SchemaFrames, SchemaScalars
  <2> QED BY <2>3, SchemaSetTop
<1>4. ASSUME NEW c PROVE Schema!FeedLiteral(a, c) =
                           IF Head(left) # c THEN Refuse(a)
                           ELSE IF Len(left) = 1 THEN Schema!CloseValue(a)
                           ELSE SetTop(a, g)
  BY <1>1, SchemaShares DEF Schema!FeedLiteral
<1> HIDE DEF g, left
<1>5. GoesOn(W, Schema!FeedLiteral(a, b))
  BY <1>3, <1>4, SchemaClose, SchemaRefuse
<1>6. ASSUME ~ a.invalid PROVE \E c \in Bytes \ Whitespace : ~ Schema!FeedLiteral(a, c).invalid
  <2>1. Head(left) \in {"r", "u", "e", "a", "l", "s"}
    BY <1>2 DEF left, Remainders, Rest
  <2>2. Head(left) \in Bytes \ Whitespace
    BY <2>1 DEF Bytes, Escapable, Hex, Whitespace
  <2>3. ~ Schema!FeedLiteral(a, Head(left)).invalid
    BY <1>3, <1>4, <1>6, SchemaClose
  <2> QED BY <2>2, <2>3
<1> QED BY <1>5, <1>6

(* The members that are left of an enumeration are each longer or at an end. *)
LEMMA SchemaFeedEnum ==
  ASSUME NEW W, NEW a, SchemaSound(W, a), a.stack # <<>>, Top(a).kind = "enum", NEW b
  PROVE  /\ GoesOn(W, Schema!FeedEnum(a, b))
         /\ ~ a.invalid => \E c \in Bytes : ~ Schema!FeedEnum(a, c).invalid
<1>1. PICK f : f = Top(a)
  OBVIOUS
<1>2. f \in SchemaEnums /\ EnumGoesOn(f)
  BY <1>1, SchemaTop, ContainersByKind
<1>3. f.pos \in Nat \ {0} /\ f.candidates \in SUBSET Seq(Bytes)
  BY <1>2 DEF SchemaEnums
<1> DEFINE left(c) == {m \in f.candidates : Len(m) > f.pos /\ m[f.pos + 1] = c}
           g(c) == Schema!EnumFrame(left(c), f.pos + 1)
<1>4. ASSUME NEW c PROVE Schema!FeedEnum(a, c) =
                           IF left(c) = {} THEN Refuse(a)
                           ELSE IF \A m \in left(c) : Len(m) = f.pos + 1
                                THEN Schema!CloseValue(a)
                           ELSE SetTop(a, g(c))
  BY <1>1, SchemaShares DEF Schema!FeedEnum
<1>5. ASSUME NEW c, ~ \A m \in left(c) : Len(m) = f.pos + 1
      PROVE  GoesOn(W, SetTop(a, g(c))) /\ SetTop(a, g(c)).invalid = a.invalid
  <2>1. PICK m \in left(c) : Len(m) # f.pos + 1
    BY <1>5
  <2>2. m \in Seq(Bytes) /\ Len(m) > f.pos
    BY <1>3, <2>1
  <2>3. Len(m) > f.pos + 1 /\ f.pos + 1 \in Nat \ {0}
    BY <1>3, <2>1, <2>2
  <2>4. left(c) \in SUBSET Seq(Bytes)
    BY <1>3
  <2>5. PICK C \in SUBSET Seq(Bytes) : C = left(c)
    BY <2>4
  <2>6. PICK h : h = Schema!EnumFrame(C, f.pos + 1)
    OBVIOUS
  <2>7. h \in SchemaEnums /\ h.candidates = C /\ h.pos = f.pos + 1
    BY <2>3, <2>6 DEF Schema!EnumFrame, SchemaEnums
  <2>8. m \in C
    BY <2>1, <2>5
  <2>9. h \in SchemaFrames(W)
    BY <2>3, <2>7, <2>8 DEF SchemaFrames, SchemaScalars, EnumGoesOn
  <2> QED BY <2>5, <2>6, <2>9, SchemaSetTop
<1> HIDE DEF g
<1>6. GoesOn(W, Schema!FeedEnum(a, b))
  BY <1>4, <1>5, SchemaClose, SchemaRefuse
<1>7. ASSUME ~ a.invalid PROVE \E c \in Bytes : ~ Schema!FeedEnum(a, c).invalid
  <2>1. PICK m \in f.candidates : Len(m) > f.pos
    BY <1>2 DEF EnumGoesOn
  <2>2. m \in Seq(Bytes) /\ f.pos + 1 \in 1 .. Len(m)
    BY <1>3, <2>1
  <2>3. PICK c \in Bytes : c = m[f.pos + 1]
    BY <2>2
  <2>4. left(c) # {}
    BY <2>1, <2>3
  <2>5. ~ Schema!FeedEnum(a, c).invalid
    BY <1>4, <1>5, <1>7, <2>4, SchemaClose
  <2> QED BY <2>5
<1> QED BY <1>6, <1>7

LEMMA SchemaFeedSpace ==
  ASSUME NEW W, NEW a, SchemaSound(W, a)
  PROVE  /\ HasStarted(a) => GoesOn(W, Schema!FeedSpace(a))
         /\ SchemaSound(W, Schema!FeedSpace(a))
         /\ a.stack = <<>> => Schema!FeedSpace(a) = a
<1>1. Schema!FeedSpace(a) = IF ~ Inside(a, "number") THEN a
                            ELSE IF Top(a).n.digit THEN Schema!CloseValue(a)
                            ELSE Refuse(a)
  BY SchemaShares DEF Schema!FeedSpace
<1>2. Inside(a, "number") => a.stack # <<>>
  BY DEF Inside
<1> QED BY <1>1, <1>2, SchemaClose, SchemaRefuse DEF GoesOn

-----------------------------------------------------------------------------
(* An object whose key is being read.                                        *)
LEMMA PrefixMeans ==
  ASSUME NEW S, NEW s \in Seq(S), NEW t \in Seq(S)
  PROVE  Schema!IsPrefix(s, t) <=> Len(s) <= Len(t) /\ \A i \in 1 .. Len(s) : s[i] = t[i]
<1>1. Len(s) \in Nat /\ Len(t) \in Nat
  OBVIOUS
<1>2. ASSUME Len(s) <= Len(t)
      PROVE  /\ SubSeq(s, 1, Len(s)) \in Seq(S) /\ Len(SubSeq(s, 1, Len(s))) = Len(s)
             /\ \A i \in 1 .. Len(s) : SubSeq(s, 1, Len(s))[i] = s[i]
             /\ SubSeq(t, 1, Len(s)) \in Seq(S) /\ Len(SubSeq(t, 1, Len(s))) = Len(s)
             /\ \A i \in 1 .. Len(s) : SubSeq(t, 1, Len(s))[i] = t[i]
  <2>1. /\ 1 \in 1 .. Len(s) + 1 /\ Len(s) \in 1 - 1 .. Len(s)
        /\ 1 \in 1 .. Len(t) + 1 /\ Len(s) \in 1 - 1 .. Len(t)
    BY <1>1, <1>2
  <2>2. Len(s) - 1 + 1 = Len(s) /\ \A i \in 1 .. Len(s) : 1 + i - 1 = i
    BY <1>1
  <2> QED BY <2>1, <2>2, SubSeqProperties
<1>3. ASSUME Len(s) <= Len(t), \A i \in 1 .. Len(s) : s[i] = t[i]
      PROVE  SubSeq(s, 1, Len(s)) = SubSeq(t, 1, Len(s))
  <2>1. PICK u \in Seq(S) : u = SubSeq(s, 1, Len(s))
    BY <1>2, <1>3
  <2>2. PICK v \in Seq(S) : v = SubSeq(t, 1, Len(s))
    BY <1>2, <1>3
  <2>3. Len(u) = Len(v) /\ \A i \in 1 .. Len(u) : u[i] = v[i]
    BY <1>2, <1>3, <2>1, <2>2
  <2>4. u = v
    BY <2>3, SeqEqual
  <2> QED BY <2>1, <2>2, <2>4
<1>4. ASSUME Len(s) <= Len(t), SubSeq(s, 1, Len(s)) = SubSeq(t, 1, Len(s)), NEW i \in 1 .. Len(s)
      PROVE  s[i] = t[i]
  BY <1>2, <1>4
<1> QED BY <1>3, <1>4 DEF Schema!IsPrefix

LEMMA EmptyBegins ==
  ASSUME NEW S, NEW t \in Seq(S)
  PROVE  Schema!IsPrefix(<<>>, t)
<1>1. PICK e \in Seq(S) : e = <<>>
  <2>1. <<>> \in Seq(S)
    OBVIOUS
  <2> QED BY <2>1
<1>2. Len(e) = 0 /\ Len(t) \in Nat
  BY <1>1
<1>3. Len(e) <= Len(t) /\ \A i \in 1 .. Len(e) : e[i] = t[i]
  BY <1>2
<1> QED BY <1>1, <1>3, PrefixMeans

LEMMA SchemaObjectTop ==
  ASSUME NEW W, Schemas(W), NEW a, SchemaSound(W, a), a.stack # <<>>, Top(a).kind = "object"
  PROVE  /\ Top(a) \in SchemaObjects(W) /\ (Readable(W) => ObjectGoesOn(Top(a)))
         /\ Top(a).node \in W /\ IsObject(Top(a).node, W)
         /\ Top(a).seen \in Seq(Seq(Bytes)) /\ Top(a).pending \in Seq(Bytes)
         /\ Top(a).node.kind = "object"
<1>1. PICK o : o = Top(a)
  OBVIOUS
<1>2. o \in SchemaObjects(W) /\ (Readable(W) => ObjectGoesOn(o)) /\ o.node.kind = "object"
  BY <1>1, SchemaTop, ContainersByKind
<1>3. o.node \in W /\ o.seen \in Seq(Seq(Bytes)) /\ o.pending \in Seq(Bytes)
  BY <1>2 DEF SchemaObjects
<1>4. IsObject(o.node, W)
  BY <1>2, <1>3 DEF Schemas, PlainNodes, IsEnum, IsArray
<1> QED BY <1>1, <1>2, <1>3, <1>4

(* An object that goes on may take the place of the one at the top.          *)
LEMMA SchemaSetObject ==
  ASSUME NEW W, NEW a, SchemaSound(W, a), a.stack # <<>>,
         NEW o \in SchemaObjects(W), o.node.kind = "object", Readable(W) => ObjectGoesOn(o)
  PROVE  /\ GoesOn(W, SetTop(a, o)) /\ SetTop(a, o).invalid = a.invalid
         /\ Ready(W, SetTop(a, o))
<1>1. o \in SchemaContainers(W) /\ o \in SchemaFrames(W)
  BY DEF SchemaContainers, SchemaFrames
<1>2. /\ GoesOn(W, SetTop(a, o)) /\ SetTop(a, o).invalid = a.invalid
      /\ Top(SetTop(a, o)) = o
  BY <1>1, SchemaSetTop
<1> QED BY <1>1, <1>2 DEF Ready, GoesOn

LEMMA SchemaKeyEnds ==
  ASSUME NEW W, NEW a, SchemaSound(W, a), a.stack # <<>>,
         NEW o \in SchemaObjects(W), o = Top(a), o.node.kind = "object"
  PROVE  LET g == [o EXCEPT !.seen = Append(@, o.pending), !.stage = "colon"]
         IN  GoesOn(W, SetTop(a, g)) /\ SetTop(a, g).invalid = a.invalid
<1>1. PICK S : S = Seq(Bytes)
  OBVIOUS
<1>2. PICK T : T = Seq(S)
  OBVIOUS
<1>3. o.seen \in T /\ o.pending \in S
  BY <1>1, <1>2 DEF SchemaObjects
<1>4. PICK w \in T : w = Append(o.seen, o.pending)
  <2>1. PICK u \in T, v \in S : u = o.seen /\ v = o.pending
    BY <1>3
  <2>2. Append(u, v) \in T
    BY <1>2
  <2> QED BY <2>1, <2>2
<1>5. PICK g : g = [o EXCEPT !.seen = w, !.stage = "colon"]
  OBVIOUS
<1>6. g \in SchemaObjects(W) /\ g.node = o.node /\ g.stage = "colon"
  BY <1>1, <1>2, <1>5 DEF SchemaObjects
<1>7. ObjectGoesOn(g)
  BY <1>6 DEF ObjectGoesOn
<1>8. g = [o EXCEPT !.seen = Append(@, o.pending), !.stage = "colon"]
  BY <1>4, <1>5
<1>9. GoesOn(W, SetTop(a, g)) /\ SetTop(a, g).invalid = a.invalid
  BY <1>6, <1>7, SchemaSetObject
<1> QED BY <1>8, <1>9, Zenon

LEMMA SchemaKeyGrows ==
  ASSUME NEW W, NEW a, SchemaSound(W, a), a.stack # <<>>,
         NEW o \in SchemaObjects(W), o = Top(a), o.node.kind = "object", o.stage = "in_key",
         NEW longer \in Seq(Bytes),
         o.node.additional \/ \E k \in Schema!Unseen(o) : Schema!IsPrefix(longer, k)
  PROVE  LET g == [o EXCEPT !.pending = longer]
         IN  GoesOn(W, SetTop(a, g)) /\ SetTop(a, g).invalid = a.invalid
<1>1. PICK g : g = [o EXCEPT !.pending = longer]
  OBVIOUS
<1>2. /\ g \in SchemaObjects(W) /\ g.node = o.node /\ g.seen = o.seen /\ g.stage = "in_key"
      /\ g.pending = longer
  <2>1. PICK S : S = Seq(Bytes)
    OBVIOUS
  <2>2. PICK T : T = Seq(S)
    OBVIOUS
  <2> QED BY <1>1, <2>1, <2>2 DEF SchemaObjects
<1>3. ObjectGoesOn(g)
  BY <1>2 DEF ObjectGoesOn, Schema!Unseen
<1>4. GoesOn(W, SetTop(a, g)) /\ SetTop(a, g).invalid = a.invalid
  BY <1>2, <1>3, SchemaSetObject
<1> QED BY <1>1, <1>4, Zenon

LEMMA SchemaFeedKey ==
  ASSUME NEW W, Schemas(W), NEW a, SchemaSound(W, a), a.stack # <<>>, Top(a).kind = "object",
         Top(a).stage = "in_key", NEW b \in Bytes
  PROVE  GoesOn(W, Schema!FeedKey(a, b))
<1>1. PICK o : o = Top(a)
  OBVIOUS
<1>2. o \in SchemaObjects(W) /\ o.node.kind = "object" /\ o.pending \in Seq(Bytes)
  BY <1>1, SchemaObjectTop
<1>3. PICK longer \in Seq(Bytes) : longer = Append(o.pending, b)
  <2>1. PICK p \in Seq(Bytes) : p = o.pending
    BY <1>2
  <2>2. Append(p, b) \in Seq(Bytes)
    OBVIOUS
  <2> QED BY <2>1, <2>2
<1> DEFINE ended == [o EXCEPT !.seen = Append(@, o.pending), !.stage = "colon"]
           grown == [o EXCEPT !.pending = longer]
<1>4. GoesOn(W, SetTop(a, ended))
  BY <1>1, <1>2, SchemaKeyEnds
<1>5. ASSUME o.node.additional \/ \E k \in Schema!Unseen(o) : Schema!IsPrefix(longer, k)
      PROVE  GoesOn(W, SetTop(a, grown))
  BY <1>1, <1>2, <1>5, SchemaKeyGrows
<1>6. Schema!FeedKey(a, b) =
        IF b = "\""
        THEN IF Schema!KeyIsNew(o) THEN SetTop(a, ended) ELSE Refuse(a)
        ELSE IF b \in {"\\", "ctl"} THEN Refuse(a)
        ELSE IF o.node.additional \/ \E k \in Schema!Unseen(o) : Schema!IsPrefix(longer, k)
        THEN SetTop(a, grown)
        ELSE Refuse(a)
  BY <1>1, <1>3, SchemaShares DEF Schema!FeedKey
<1>7. GoesOn(W, Refuse(a))
  BY SchemaRefuse
<1> HIDE DEF ended, grown
<1> QED BY <1>4, <1>5, <1>6, <1>7

LEMMA SchemaKeyGoesOn ==
  ASSUME NEW W, Schemas(W), Readable(W), NEW a, SchemaSound(W, a), a.stack # <<>>, Top(a).kind = "object",
         Top(a).stage = "in_key", ~ a.invalid
  PROVE  \E b \in Bytes \ Whitespace : ~ Schema!FeedKey(a, b).invalid
<1>1. PICK o : o = Top(a)
  OBVIOUS
<1>2. /\ o \in SchemaObjects(W) /\ o.node.kind = "object" /\ o.pending \in Seq(Bytes)
      /\ ObjectGoesOn(o) /\ IsObject(o.node, W) /\ o.node \in W /\ o.stage = "in_key"
  BY <1>1, SchemaObjectTop
<1>3. ASSUME NEW c \in KeyBytes,
             o.node.additional \/ \E k \in Schema!Unseen(o) :
                                    Schema!IsPrefix(Append(o.pending, c), k)
      PROVE  ~ Schema!FeedKey(a, c).invalid /\ c \in Bytes \ Whitespace
  <2>1. c \in Bytes \ Whitespace /\ c # "\"" /\ c \notin {"\\", "ctl"}
    BY DEF KeyBytes
  <2>2. PICK longer \in Seq(Bytes) : longer = Append(o.pending, c)
    <3>1. PICK p \in Seq(Bytes) : p = o.pending
      BY <1>2
    <3>2. c \in Bytes
      BY <2>1
    <3>3. Append(p, c) \in Seq(Bytes)
      BY <3>2
    <3> QED BY <3>1, <3>3
  <2>3. Schema!FeedKey(a, c) = SetTop(a, [o EXCEPT !.pending = longer])
    BY <1>1, <1>3, <2>1, <2>2, SchemaShares DEF Schema!FeedKey
  <2>4. SetTop(a, [o EXCEPT !.pending = longer]).invalid = a.invalid
    <3>1. o.node.additional \/ \E k \in Schema!Unseen(o) : Schema!IsPrefix(longer, k)
      BY <1>3, <2>2
    <3> QED BY <1>1, <1>2, <3>1, SchemaKeyGrows
  <2> QED BY <2>1, <2>3, <2>4
<1>4. CASE o.node.additional
  <2>1. "x" \in KeyBytes
    BY DEF KeyBytes, Bytes, Whitespace
  <2> QED BY <1>3, <1>4, <2>1
<1>5. CASE ~ o.node.additional
  <2>1. PICK k \in Schema!Unseen(o) : Schema!IsPrefix(o.pending, k)
    BY <1>2, <1>5 DEF ObjectGoesOn
  <2>2. k \in DOMAIN o.node.properties /\ k \in Seq(KeyBytes) /\ k \notin Schema!ToSet(o.seen)
    BY <1>2, <2>1 DEF Schema!Unseen, Readable
  <2>3. k \in Seq(Bytes) /\ KeyBytes \subseteq Bytes
    <3>1. KeyBytes \subseteq Bytes
      BY DEF KeyBytes
    <3>2. PICK m \in Seq(KeyBytes) : m = k
      BY <2>2
    <3>3. \A i \in 1 .. Len(m) : m[i] \in Bytes
      BY <3>1
    <3>4. m \in Seq(Bytes)
      BY <3>3
    <3> QED BY <3>1, <3>2, <3>4
  <2>4. Len(o.pending) <= Len(k) /\ \A i \in 1 .. Len(o.pending) : o.pending[i] = k[i]
    BY <1>2, <2>1, <2>3, PrefixMeans
  <2>5. CASE Len(o.pending) = Len(k)
    <3>1. o.pending = k
      <4>1. \A i \in 1 .. Len(o.pending) : o.pending[i] = k[i]
        BY <2>4
      <4> QED BY <1>2, <2>3, <2>5, <4>1, SeqEqual
    <3>2. Schema!KeyIsNew(o)
      BY <2>2, <3>1 DEF Schema!KeyIsNew
    <3> DEFINE ended == [o EXCEPT !.seen = Append(@, o.pending), !.stage = "colon"]
    <3>3. Schema!FeedKey(a, "\"") = SetTop(a, ended)
      BY <1>1, <3>2, SchemaShares DEF Schema!FeedKey
    <3>4. SetTop(a, ended).invalid = a.invalid
      BY <1>1, <1>2, SchemaKeyEnds, Zenon
    <3>5. "\"" \in Bytes \ Whitespace
      BY DEF Bytes, Escapable, Whitespace
    <3> HIDE DEF ended
    <3> QED BY <3>3, <3>4, <3>5
  <2>6. CASE Len(o.pending) < Len(k)
    <3>1. PICK n \in Nat : n = Len(o.pending) + 1
      BY <1>2
    <3>2. n \in 1 .. Len(k)
      BY <1>2, <2>3, <2>6, <3>1
    <3>3. PICK c \in KeyBytes : c = k[n]
      BY <2>2, <3>2
    <3>4. PICK longer \in Seq(Bytes) : longer = Append(o.pending, c)
      <4>1. PICK p \in Seq(Bytes) : p = o.pending
        BY <1>2
      <4>2. c \in Bytes
        BY <2>3, <3>3
      <4>3. Append(p, c) \in Seq(Bytes)
        BY <4>2
      <4> QED BY <4>1, <4>3
    <3>5. Len(longer) = n /\ \A i \in 1 .. n : longer[i] = k[i]
      <4>1. PICK p \in Seq(Bytes) : p = o.pending
        BY <1>2
      <4>2. /\ Len(Append(p, c)) = Len(p) + 1 /\ Append(p, c)[Len(p) + 1] = c
            /\ \A i \in 1 .. Len(p) : Append(p, c)[i] = p[i]
        BY <2>3, <3>3, AppendProperties
      <4>3. \A i \in 1 .. n : i \in 1 .. Len(p) \/ i = n
        BY <3>1, <4>1
      <4> QED BY <2>4, <3>1, <3>3, <3>4, <4>1, <4>2, <4>3
    <3>6. Schema!IsPrefix(longer, k)
      BY <2>3, <3>2, <3>5, PrefixMeans
    <3> QED BY <1>3, <2>1, <3>3, <3>4, <3>6
  <2>7. Len(o.pending) \in Nat /\ Len(k) \in Nat
    BY <1>2, <2>3
  <2> QED BY <2>4, <2>5, <2>6, <2>7
<1> QED BY <1>4, <1>5

-----------------------------------------------------------------------------
(* One byte in a container, outside its keys and scalars.                    *)
LEMMA SchemaObjectStage ==
  ASSUME NEW W, Schemas(W), NEW a, SchemaSound(W, a), a.stack # <<>>, Top(a).kind = "object",
         NEW stage \in {"key", "colon", "value", "comma_or_close"},
         stage = "key" => Schema!MayGoOn(Top(a))
  PROVE  /\ GoesOn(W, Schema!Stage(a, stage)) /\ Schema!Stage(a, stage).invalid = a.invalid
         /\ Ready(W, Schema!Stage(a, stage))
<1>1. PICK o \in SchemaObjects(W) : o = Top(a) /\ o.node.kind = "object"
  BY SchemaObjectTop
<1>2. PICK g : g = [o EXCEPT !.stage = stage]
  OBVIOUS
<1>3. g \in SchemaObjects(W) /\ g.node = o.node /\ g.seen = o.seen /\ g.stage = stage
  <2>1. PICK S : S = Seq(Bytes)
    OBVIOUS
  <2>2. PICK T : T = Seq(S)
    OBVIOUS
  <2> QED BY <1>2, <2>1, <2>2 DEF SchemaObjects
<1>4. ObjectGoesOn(g)
  BY <1>1, <1>3 DEF ObjectGoesOn, Schema!Unseen, Schema!MayGoOn
<1>5. Schema!Stage(a, stage) = SetTop(a, g)
  BY <1>1, <1>2, SchemaShares DEF Schema!Stage
<1> QED BY <1>1, <1>3, <1>4, <1>5, SchemaSetObject

LEMMA SchemaKeyOpens ==
  ASSUME NEW W, Schemas(W), NEW a, SchemaSound(W, a), a.stack # <<>>, Top(a).kind = "object",
         Top(a).stage \in {"key_or_close", "key"}
  PROVE  LET g == [Top(a) EXCEPT !.stage = "in_key", !.pending = <<>>]
         IN  GoesOn(W, SetTop(a, g)) /\ SetTop(a, g).invalid = a.invalid
<1>1. PICK o : o = Top(a)
  OBVIOUS
<1>2. /\ o \in SchemaObjects(W) /\ o.node.kind = "object" /\ o.node \in W
      /\ (Readable(W) => ObjectGoesOn(o))
      /\ IsObject(o.node, W) /\ o.stage \in {"key_or_close", "key"}
  BY <1>1, SchemaObjectTop
<1>3. PICK S : S = Seq(Bytes)
  OBVIOUS
<1>4. PICK e \in S : e = <<>>
  <2>1. <<>> \in Seq(Bytes)
    OBVIOUS
  <2> QED BY <1>3, <2>1
<1>5. PICK g : g = [o EXCEPT !.stage = "in_key", !.pending = e]
  OBVIOUS
<1>6. /\ g \in SchemaObjects(W) /\ g.node = o.node /\ g.seen = o.seen /\ g.stage = "in_key"
      /\ g.pending = <<>>
  <2>1. PICK T : T = Seq(S)
    OBVIOUS
  <2> QED BY <1>2, <1>3, <1>4, <1>5, <2>1 DEF SchemaObjects
<1>7. ASSUME Readable(W)
      PROVE  o.node.additional \/ \E k \in Schema!Unseen(o) : Schema!IsPrefix(<<>>, k)
  <2>1. ASSUME NEW k \in DOMAIN o.node.properties
        PROVE  Schema!IsPrefix(<<>>, k)
    <3>1. k \in Seq(KeyBytes)
      BY <1>2, <1>7 DEF Readable
    <3> QED BY <3>1, EmptyBegins
  <2> QED BY <1>2, <1>7, <2>1 DEF ObjectGoesOn, Schema!Unseen
<1>8. Readable(W) => ObjectGoesOn(g)
  BY <1>6, <1>7 DEF ObjectGoesOn, Schema!Unseen
<1>9. GoesOn(W, SetTop(a, g)) /\ SetTop(a, g).invalid = a.invalid
  BY <1>6, <1>8, <1>2, SchemaSetObject
<1>10. g = [Top(a) EXCEPT !.stage = "in_key", !.pending = <<>>]
  BY <1>1, <1>4, <1>5
<1> QED BY <1>9, <1>10, Zenon

LEMMA SchemaValueNode ==
  ASSUME NEW W, Schemas(W), NEW o, IsObject(o.node, W)
  PROVE  Schema!ValueNode(o) \in W
BY DEF Schemas, IsObject, Schema!ValueNode

LEMMA SchemaFeedObject ==
  ASSUME NEW W, Schemas(W), NEW a, SchemaSound(W, a), a.stack # <<>>, Top(a).kind = "object",
         NEW b \in Bytes
  PROVE  GoesOn(W, Schema!FeedObject(a, b))
<1>1. PICK o : o = Top(a)
  OBVIOUS
<1>2. IsObject(o.node, W)
  BY <1>1, SchemaObjectTop
<1> DEFINE opened == [o EXCEPT !.stage = "in_key", !.pending = <<>>]
<1>3. ASSUME o.stage \in {"key_or_close", "key"} PROVE GoesOn(W, SetTop(a, opened))
  BY <1>1, <1>3, SchemaKeyOpens
<1>4. ASSUME Schema!MayGoOn(o) PROVE GoesOn(W, Schema!Stage(a, "key"))
  BY <1>1, <1>4, SchemaObjectStage
<1>5. GoesOn(W, Schema!Stage(a, "value"))
  BY SchemaObjectStage
<1>6. GoesOn(W, Schema!StartValue(Schema!Stage(a, "comma_or_close"), b, Schema!ValueNode(o)))
  <2>1. Ready(W, Schema!Stage(a, "comma_or_close"))
    BY SchemaObjectStage
  <2> QED BY <1>2, <2>1, SchemaValueNode, SchemaStartValue
<1>7. GoesOn(W, Refuse(a)) /\ GoesOn(W, Schema!CloseValue(a))
  BY SchemaRefuse, SchemaClose
<1>8. o.stage = "in_key" => GoesOn(W, Schema!FeedKey(a, b))
  BY <1>1, SchemaFeedKey
<1>9. Schema!FeedObject(a, b) =
        IF o.stage = "in_key" THEN Schema!FeedKey(a, b)
        ELSE IF b = "\"" /\ o.stage \in {"key_or_close", "key"} THEN SetTop(a, opened)
        ELSE IF (b = "}" /\ o.stage \in {"key_or_close", "comma_or_close"}) /\ Schema!MayClose(o)
             THEN Schema!CloseValue(a)
        ELSE IF (b = "," /\ o.stage = "comma_or_close") /\ Schema!MayGoOn(o)
             THEN Schema!Stage(a, "key")
        ELSE IF o.stage = "colon" /\ b = ":" THEN Schema!Stage(a, "value")
        ELSE IF o.stage = "value"
             THEN Schema!StartValue(Schema!Stage(a, "comma_or_close"), b, Schema!ValueNode(o))
        ELSE Refuse(a)
  BY <1>1, SchemaShares DEF Schema!FeedObject
<1> HIDE DEF opened
<1> QED BY <1>3, <1>4, <1>5, <1>6, <1>7, <1>8, <1>9

LEMMA SchemaObjectGoesOn ==
  ASSUME NEW W, Schemas(W), Readable(W), NEW a, SchemaSound(W, a), a.stack # <<>>, Top(a).kind = "object",
         ~ a.invalid
  PROVE  \E b \in Bytes \ Whitespace : ~ Schema!FeedObject(a, b).invalid
<1>1. PICK o : o = Top(a)
  OBVIOUS
<1>2. /\ o \in SchemaObjects(W) /\ IsObject(o.node, W) /\ o.node.kind = "object"
      /\ o.node \in W
  BY <1>1, SchemaObjectTop
<1>3. {"\"", "}", ",", ":"} \subseteq Bytes \ Whitespace
  BY DEF Bytes, Escapable, Whitespace
<1>4. o.stage \in {"key_or_close", "key", "in_key", "colon", "value", "comma_or_close"}
  BY <1>2 DEF SchemaObjects
<1>5. CASE o.stage = "in_key"
  <2>1. \A b : Schema!FeedObject(a, b) = Schema!FeedKey(a, b)
    BY <1>1, <1>5, SchemaShares DEF Schema!FeedObject
  <2> QED BY <1>1, <1>5, <2>1, SchemaKeyGoesOn
<1>6. CASE o.stage \in {"key_or_close", "key"}
  <2> DEFINE opened == [o EXCEPT !.stage = "in_key", !.pending = <<>>]
  <2>1. Schema!FeedObject(a, "\"") = SetTop(a, opened)
    BY <1>1, <1>6, SchemaShares DEF Schema!FeedObject
  <2>2. SetTop(a, opened).invalid = a.invalid
    BY <1>1, <1>6, SchemaKeyOpens
  <2> HIDE DEF opened
  <2> QED BY <1>3, <2>1, <2>2
<1>7. CASE o.stage = "colon"
  <2>1. Schema!FeedObject(a, ":") = Schema!Stage(a, "value")
    BY <1>1, <1>7, SchemaShares DEF Schema!FeedObject
  <2>2. Schema!Stage(a, "value").invalid = a.invalid
    BY SchemaObjectStage
  <2> QED BY <1>3, <2>1, <2>2
<1>8. CASE o.stage = "value"
  <2>1. PICK s : s = Schema!Stage(a, "comma_or_close")
    OBVIOUS
  <2>2. Ready(W, s) /\ ~ s.invalid
    BY <2>1, SchemaObjectStage
  <2>3. PICK b \in Bytes \ Whitespace : ~ Schema!StartValue(s, b, Schema!ValueNode(o)).invalid
    BY <1>2, <2>2, SchemaValueNode, SchemaStarts
  <2>4. Schema!FeedObject(a, b) = Schema!StartValue(s, b, Schema!ValueNode(o))
    BY <1>1, <1>8, <2>1, SchemaShares DEF Schema!FeedObject
  <2> QED BY <2>3, <2>4
<1>9. CASE o.stage = "comma_or_close"
  <2>1. CASE Schema!MayClose(o)
    <3>1. Schema!FeedObject(a, "}") = Schema!CloseValue(a)
      BY <1>1, <1>9, <2>1, SchemaShares DEF Schema!FeedObject
    <3>2. Schema!CloseValue(a).invalid = a.invalid
      BY SchemaClose
    <3> QED BY <1>3, <3>1, <3>2
  <2>2. CASE ~ Schema!MayClose(o)
    <3>1. Schema!MayGoOn(o)
      BY <1>2, <2>2 DEF Readable, IsObject, Schema!MayClose, Schema!MayGoOn, Schema!Unseen
    <3>2. Schema!FeedObject(a, ",") = Schema!Stage(a, "key")
      BY <1>1, <1>9, <3>1, SchemaShares DEF Schema!FeedObject
    <3>3. Schema!Stage(a, "key").invalid = a.invalid
      BY <1>1, <3>1, SchemaObjectStage
    <3> QED BY <1>3, <3>2, <3>3
  <2> QED BY <2>1, <2>2
<1> QED BY <1>4, <1>5, <1>6, <1>7, <1>8, <1>9

LEMMA SchemaArrayStage ==
  ASSUME NEW W, NEW a, SchemaSound(W, a), a.stack # <<>>, Top(a).kind = "array",
         NEW stage \in {"value", "comma_or_close"}
  PROVE  /\ GoesOn(W, Schema!Stage(a, stage)) /\ Schema!Stage(a, stage).invalid = a.invalid
         /\ Ready(W, Schema!Stage(a, stage))
<1>1. PICK f \in SchemaArrays(W) : f = Top(a)
  BY SchemaTop, ContainersByKind
<1>2. PICK g : g = [f EXCEPT !.stage = stage]
  OBVIOUS
<1>3. g \in SchemaArrays(W)
  BY <1>2 DEF SchemaArrays
<1>4. g \in SchemaContainers(W) /\ g \in SchemaFrames(W)
  BY <1>3 DEF SchemaContainers, SchemaFrames
<1>5. Schema!Stage(a, stage) = SetTop(a, g)
  BY <1>1, <1>2, SchemaShares DEF Schema!Stage
<1>6. /\ GoesOn(W, SetTop(a, g)) /\ SetTop(a, g).invalid = a.invalid
      /\ Top(SetTop(a, g)) = g
  BY <1>4, SchemaSetTop
<1> QED BY <1>4, <1>5, <1>6 DEF Ready, GoesOn

LEMMA SchemaFeedArray ==
  ASSUME NEW W, Schemas(W), NEW a, SchemaSound(W, a), a.stack # <<>>, Top(a).kind = "array",
         NEW b
  PROVE  /\ GoesOn(W, Schema!FeedArray(a, b))
         /\ ~ a.invalid => \E c \in Bytes \ Whitespace : ~ Schema!FeedArray(a, c).invalid
<1>1. PICK f \in SchemaArrays(W) : f = Top(a)
  BY SchemaTop, ContainersByKind
<1>2. f.items \in W /\ f.stage \in {"value_or_close", "value", "comma_or_close"}
  BY DEF SchemaArrays
<1>3. PICK s : s = Schema!Stage(a, "comma_or_close")
  OBVIOUS
<1>4. Ready(W, s) /\ s.invalid = a.invalid
  BY <1>3, SchemaArrayStage
<1>5. ASSUME NEW c PROVE Schema!FeedArray(a, c) =
        IF c = "]" /\ f.stage \in {"value_or_close", "comma_or_close"} THEN Schema!CloseValue(a)
        ELSE IF f.stage \in {"value_or_close", "value"} THEN Schema!StartValue(s, c, f.items)
        ELSE IF c = "," THEN Schema!Stage(a, "value")
        ELSE Refuse(a)
  BY <1>1, <1>3, SchemaShares DEF Schema!FeedArray
<1>6. GoesOn(W, Schema!StartValue(s, b, f.items)) /\ GoesOn(W, Schema!Stage(a, "value"))
  BY <1>2, <1>4, SchemaStartValue, SchemaArrayStage
<1>7. GoesOn(W, Refuse(a)) /\ GoesOn(W, Schema!CloseValue(a))
  BY SchemaRefuse, SchemaClose
<1>8. GoesOn(W, Schema!FeedArray(a, b))
  BY <1>5, <1>6, <1>7
<1>9. ASSUME ~ a.invalid PROVE \E c \in Bytes \ Whitespace : ~ Schema!FeedArray(a, c).invalid
  <2>1. CASE f.stage = "value"
    <3>1. PICK c \in Bytes \ Whitespace : ~ Schema!StartValue(s, c, f.items).invalid
      BY <1>2, <1>4, <1>9, SchemaStarts
    <3>2. Schema!FeedArray(a, c) = Schema!StartValue(s, c, f.items)
      BY <1>5, <2>1
    <3> QED BY <3>1, <3>2
  <2>2. CASE f.stage # "value"
    <3>1. Schema!FeedArray(a, "]") = Schema!CloseValue(a)
      BY <1>2, <1>5, <2>2
    <3>2. Schema!CloseValue(a).invalid = a.invalid
      BY SchemaClose
    <3>3. "]" \in Bytes \ Whitespace
      BY DEF Bytes, Whitespace
    <3> QED BY <1>9, <3>1, <3>2, <3>3
  <2> QED BY <2>1, <2>2
<1> QED BY <1>8, <1>9

-----------------------------------------------------------------------------
(* One byte, whatever is innermost.                                          *)
LEMMA SchemaKindAtTop ==
  ASSUME NEW W, NEW a, Ready(W, a), a.stack # <<>>
  PROVE  Top(a).kind \in {"object", "array"}
BY DEF Ready, SchemaContainers, SchemaArrays, SchemaObjects

LEMMA SchemaFeedGap ==
  ASSUME NEW W, Schemas(W), NEW root \in W, NEW a, Ready(W, a), NEW b \in Bytes
  PROVE  LET r == Schema!FeedGap(a, b, root)
         IN  /\ SchemaSound(W, r)
             /\ r.invalid \/ HasStarted(r)
             /\ a.stack = <<>> /\ a.finished => r.invalid
             /\ ~ a.invalid /\ (IF a.stack = <<>> THEN ~ a.finished ELSE Readable(W)) =>
                  \E c \in Bytes \ Whitespace : ~ Schema!FeedGap(a, c, root).invalid
<1>1. SchemaSound(W, a)
  BY DEF Ready
<1>2. ASSUME NEW c PROVE Schema!FeedGap(a, c, root) =
        IF Inside(a, "object") THEN Schema!FeedObject(a, c)
        ELSE IF Inside(a, "array") THEN Schema!FeedArray(a, c)
        ELSE IF a.finished THEN Refuse(a)
        ELSE Schema!StartValue(a, c, root)
  BY SchemaShares DEF Schema!FeedGap
<1>3. CASE Inside(a, "object")
  <2>1. a.stack # <<>> /\ Top(a).kind = "object"
    BY <1>3 DEF Inside
  <2>2. GoesOn(W, Schema!FeedObject(a, b))
    BY <1>1, <2>1, SchemaFeedObject
  <2>3. Readable(W) /\ ~ a.invalid =>
           \E c \in Bytes \ Whitespace : ~ Schema!FeedObject(a, c).invalid
    BY <1>1, <2>1, SchemaObjectGoesOn
  <2> QED BY <1>2, <1>3, <2>1, <2>2, <2>3 DEF GoesOn
<1>4. CASE ~ Inside(a, "object") /\ Inside(a, "array")
  <2>1. a.stack # <<>> /\ Top(a).kind = "array"
    BY <1>4 DEF Inside
  <2>2. /\ GoesOn(W, Schema!FeedArray(a, b))
        /\ ~ a.invalid => \E c \in Bytes \ Whitespace : ~ Schema!FeedArray(a, c).invalid
    BY <1>1, <2>1, SchemaFeedArray
  <2> QED BY <1>2, <1>4, <2>1, <2>2 DEF GoesOn
<1>5. CASE ~ Inside(a, "object") /\ ~ Inside(a, "array")
  <2>1. a.stack = <<>>
    BY <1>5, SchemaKindAtTop DEF Inside
  <2>2. CASE a.finished
    <3>1. Schema!FeedGap(a, b, root) = Refuse(a)
      BY <1>2, <1>5, <2>2
    <3> QED BY <1>1, <2>1, <2>2, <3>1, SchemaRefuse DEF GoesOn
  <2>3. CASE ~ a.finished
    <3>1. ASSUME NEW c PROVE Schema!FeedGap(a, c, root) = Schema!StartValue(a, c, root)
      BY <1>2, <1>5, <2>3
    <3>2. GoesOn(W, Schema!StartValue(a, b, root))
      BY SchemaStartValue
    <3>3. ~ a.invalid => \E c \in Bytes \ Whitespace : ~ Schema!StartValue(a, c, root).invalid
      BY SchemaStarts
    <3> QED BY <2>3, <3>1, <3>2, <3>3 DEF GoesOn
  <2> QED BY <2>2, <2>3
<1> QED BY <1>3, <1>4, <1>5

LEMMA SchemaFeedNumber ==
  ASSUME NEW W, Schemas(W), NEW root \in W, NEW a, SchemaSound(W, a), a.stack # <<>>,
         Top(a).kind = "number", NEW b \in Bytes
  PROVE  /\ GoesOn(W, Schema!FeedNumber(a, b, root))
         /\ ~ a.invalid => \E c \in Bytes \ Whitespace : ~ Schema!FeedNumber(a, c, root).invalid
<1>1. PICK f \in SchemaNumbers : f = Top(a)
  BY SchemaTop, ContainersByKind
<1> DEFINE g(c) == [f EXCEPT !.n = NumberAfter(f.n, c)]
<1>2. ASSUME NEW c PROVE GoesOn(W, SetTop(a, g(c))) /\ SetTop(a, g(c)).invalid = a.invalid
  <2>1. PICK n \in Flags : n = NumberAfter(f.n, c)
    BY NumberAfterIsFlags
  <2>2. PICK h : h = [f EXCEPT !.n = n]
    OBVIOUS
  <2>3. h \in SchemaNumbers
    BY <2>2 DEF SchemaNumbers
  <2>4. h \in SchemaFrames(W)
    BY <2>3 DEF SchemaFrames, SchemaScalars
  <2> QED BY <2>1, <2>2, <2>4, SchemaSetTop
<1>3. ASSUME NEW c PROVE Schema!FeedNumber(a, c, root) =
        IF c \in Digits \/ (~ f.integer /\ NumberTakes(f.n, c)) THEN SetTop(a, g(c))
        ELSE IF NumberMayEnd(f.n) THEN Schema!FeedGap(Schema!CloseValue(a), c, root)
        ELSE Refuse(a)
  BY <1>1, SchemaShares DEF Schema!FeedNumber
<1> HIDE DEF g
<1>4. GoesOn(W, Schema!FeedGap(Schema!CloseValue(a), b, root))
  BY SchemaClose, SchemaFeedGap DEF GoesOn
<1>5. GoesOn(W, Schema!FeedNumber(a, b, root))
  BY <1>2, <1>3, <1>4, SchemaRefuse
<1>6. "0" \in Digits /\ "0" \in Bytes \ Whitespace
  BY DEF Digits, Hex, Bytes, Whitespace
<1>7. Schema!FeedNumber(a, "0", root) = SetTop(a, g("0"))
  BY <1>3, <1>6
<1>8. Schema!FeedNumber(a, "0", root).invalid = a.invalid
  BY <1>2, <1>7
<1> QED BY <1>5, <1>6, <1>8

(* A byte keeps the automaton sound, and after a value has started it is either *)
(* refused or the value is still started; behind a complete value only white *)
(* space is not refused, and that changes nothing.                           *)
LEMMA SchemaFeed ==
  ASSUME NEW W, Schemas(W), NEW root \in W, NEW a, SchemaSound(W, a), NEW b \in Bytes
  PROVE  LET r == Schema!Feed(a, b, root)
         IN  /\ SchemaSound(W, r)
             /\ a.invalid => r.invalid
             /\ HasStarted(a) => r.invalid \/ HasStarted(r)
             /\ IsComplete(a) => r.invalid \/ r = a
<1> DEFINE r == Schema!Feed(a, b, root)
<1>1. r = IF a.invalid THEN a
          ELSE IF Inside(a, "string") THEN Schema!FeedString(a, b)
          ELSE IF Inside(a, "literal") THEN Schema!FeedLiteral(a, b)
          ELSE IF Inside(a, "enum") THEN Schema!FeedEnum(a, b)
          ELSE IF b \in Whitespace THEN Schema!FeedSpace(a)
          ELSE IF Inside(a, "number") THEN Schema!FeedNumber(a, b, root)
          ELSE Schema!FeedGap(a, b, root)
  BY SchemaShares DEF Schema!Feed
<1> HIDE DEF r
<1>2. CASE a.invalid
  BY <1>1, <1>2 DEF r
<1>3. CASE ~ a.invalid /\ \E kind \in {"string", "literal", "enum"} : Inside(a, kind)
  <2>1. a.stack # <<>> /\ Top(a).kind \in {"string", "literal", "enum"}
    BY <1>3 DEF Inside
  <2>2. /\ Inside(a, "string") <=> Top(a).kind = "string"
        /\ Inside(a, "literal") <=> Top(a).kind = "literal"
        /\ Inside(a, "enum") <=> Top(a).kind = "enum"
    BY <2>1 DEF Inside
  <2>3. GoesOn(W, r)
    <3>1. CASE Top(a).kind = "string"
      BY <1>1, <1>3, <2>1, <2>2, <3>1, SchemaFeedString
    <3>2. CASE Top(a).kind = "literal"
      BY <1>1, <1>3, <2>1, <2>2, <3>2, SchemaFeedLiteral
    <3>3. CASE Top(a).kind = "enum"
      BY <1>1, <1>3, <2>1, <2>2, <3>3, SchemaFeedEnum
    <3> QED BY <2>1, <3>1, <3>2, <3>3
  <2> QED BY <1>3, <2>1, <2>3 DEF GoesOn, IsComplete, r
<1>4. CASE /\ ~ a.invalid /\ ~ \E kind \in {"string", "literal", "enum"} : Inside(a, kind)
           /\ b \in Whitespace
  <2>1. r = Schema!FeedSpace(a)
    BY <1>1, <1>4
  <2>2. /\ HasStarted(a) => GoesOn(W, r)
        /\ SchemaSound(W, r) /\ (a.stack = <<>> => r = a)
    BY <2>1, SchemaFeedSpace
  <2> QED BY <1>4, <2>2 DEF GoesOn, IsComplete, r
<1>5. CASE /\ ~ a.invalid /\ ~ \E kind \in {"string", "literal", "enum"} : Inside(a, kind)
           /\ b \notin Whitespace
  <2>1. CASE Inside(a, "number")
    <3>1. r = Schema!FeedNumber(a, b, root)
      BY <1>1, <1>5, <2>1
    <3>2. a.stack # <<>> /\ Top(a).kind = "number"
      BY <2>1 DEF Inside
    <3>3. GoesOn(W, r)
      BY <3>1, <3>2, SchemaFeedNumber
    <3> QED BY <1>5, <3>2, <3>3 DEF GoesOn, IsComplete, r
  <2>2. CASE ~ Inside(a, "number")
    <3>1. r = Schema!FeedGap(a, b, root)
      BY <1>1, <1>5, <2>2
    <3>2. Ready(W, a)
      <4>1. a.stack # <<>> => Top(a).kind \in {"object", "array"}
        BY <1>5, <2>2, SchemaTop, ContainersByKind DEF Inside
      <4> QED BY <4>1, SchemaTop, ContainersByKind DEF Ready
    <3>3. /\ SchemaSound(W, r) /\ (r.invalid \/ HasStarted(r))
          /\ a.stack = <<>> /\ a.finished => r.invalid
      BY <3>1, <3>2, SchemaFeedGap
    <3> QED BY <1>5, <3>3 DEF IsComplete, r
  <2> QED BY <2>1, <2>2
<1> QED BY <1>2, <1>3, <1>4, <1>5

(* There is always a byte to go on with; the first of a value starts it.  Only *)
(* what an enumeration has left may be white space, where keys are readable. *)
LEMMA SchemaGoesOn ==
  ASSUME NEW W, Schemas(W), NEW root \in W, NEW a, SchemaSound(W, a), ~ a.invalid,
         ~ IsComplete(a)
  PROVE  /\ \E b \in Bytes : /\ ~ Schema!Feed(a, b, root).invalid
                              /\ HasStarted(Schema!Feed(a, b, root))
         /\ Readable(W) =>
              \E b \in Bytes : /\ ~ Schema!Feed(a, b, root).invalid
                               /\ b \in Whitespace => Inside(a, "enum")
<1>1. ASSUME NEW b PROVE Schema!Feed(a, b, root) =
          IF Inside(a, "string") THEN Schema!FeedString(a, b)
          ELSE IF Inside(a, "literal") THEN Schema!FeedLiteral(a, b)
          ELSE IF Inside(a, "enum") THEN Schema!FeedEnum(a, b)
          ELSE IF b \in Whitespace THEN Schema!FeedSpace(a)
          ELSE IF Inside(a, "number") THEN Schema!FeedNumber(a, b, root)
          ELSE Schema!FeedGap(a, b, root)
  BY SchemaShares DEF Schema!Feed
<1>2. CASE \E kind \in {"string", "literal", "enum", "number"} : Inside(a, kind)
  <2>1. a.stack # <<>> /\ Top(a).kind \in {"string", "literal", "enum", "number"}
    BY <1>2 DEF Inside
  <2>2. /\ Inside(a, "string") <=> Top(a).kind = "string"
        /\ Inside(a, "literal") <=> Top(a).kind = "literal"
        /\ Inside(a, "enum") <=> Top(a).kind = "enum"
        /\ Inside(a, "number") <=> Top(a).kind = "number"
    BY <2>1 DEF Inside
  <2>3. \E b \in Bytes : /\ ~ Schema!Feed(a, b, root).invalid
                         /\ b \in Whitespace => Inside(a, "enum")
    <3>1. CASE Top(a).kind = "string"
      BY <1>1, <2>1, <2>2, <3>1, SchemaFeedString
    <3>2. CASE Top(a).kind = "literal"
      BY <1>1, <2>1, <2>2, <3>2, SchemaFeedLiteral
    <3>3. CASE Top(a).kind = "enum"
      BY <1>1, <2>1, <2>2, <3>3, SchemaFeedEnum
    <3>4. CASE Top(a).kind = "number"
      <4>1. "x" \in Bytes
        BY DEF Bytes
      <4>2. PICK b \in Bytes \ Whitespace : ~ Schema!FeedNumber(a, b, root).invalid
        BY <2>1, <3>4, <4>1, SchemaFeedNumber
      <4>3. Schema!Feed(a, b, root) = Schema!FeedNumber(a, b, root)
        BY <1>1, <2>2, <3>4, <4>2
      <4> QED BY <4>2, <4>3
    <3> QED BY <2>1, <3>1, <3>2, <3>3, <3>4
  <2>4. HasStarted(a)
    BY <2>1 DEF HasStarted
  <2> QED BY <2>3, <2>4, SchemaFeed
<1>3. CASE ~ \E kind \in {"string", "literal", "enum", "number"} : Inside(a, kind)
  <2>1. Ready(W, a)
    <3>1. a.stack # <<>> => Top(a).kind \in {"object", "array"}
      BY <1>3, SchemaTop, ContainersByKind DEF Inside
    <3> QED BY <3>1, SchemaTop, ContainersByKind DEF Ready
  <2>2. ~ (a.stack = <<>> /\ a.finished)
    BY DEF IsComplete
  <2>3. "x" \in Bytes
    BY DEF Bytes
  <2>4. ASSUME a.stack = <<>> \/ Readable(W)
        PROVE  \E b \in Bytes \ Whitespace : /\ ~ Schema!Feed(a, b, root).invalid
                                             /\ HasStarted(Schema!Feed(a, b, root))
    <3>1. PICK b \in Bytes \ Whitespace : ~ Schema!FeedGap(a, b, root).invalid
      BY <2>1, <2>2, <2>3, <2>4, SchemaFeedGap
    <3>2. Schema!Feed(a, b, root) = Schema!FeedGap(a, b, root)
      BY <1>1, <1>3, <3>1
    <3>3. HasStarted(Schema!FeedGap(a, b, root))
      BY <2>1, <3>1, SchemaFeedGap
    <3> QED BY <3>1, <3>2, <3>3
  <2>5. a.stack # <<>> => /\ ~ Schema!Feed(a, " ", root).invalid
                          /\ HasStarted(Schema!Feed(a, " ", root))
    <3>1. " " \in Whitespace
      BY DEF Whitespace
    <3>2. Schema!Feed(a, " ", root) = Schema!FeedSpace(a)
      BY <1>1, <1>3, <3>1
    <3>3. Schema!FeedSpace(a) = a
      BY <1>3, SchemaShares DEF Schema!FeedSpace
    <3> QED BY <3>2, <3>3 DEF HasStarted
  <2>6. " " \in Bytes
    BY DEF Bytes, Whitespace
  <2> QED BY <2>4, <2>5, <2>6
<1> QED BY <1>2, <1>3

-----------------------------------------------------------------------------
(* The automaton of json_object, once a value has started: the innermost frame *)
(* of all is no key, so the end of a key leaves its object.                  *)
Rooted(a) == a.stack = <<>> \/ ~ IsKeyString(a.stack[1])
Started(r) == r.invalid \/ (Rooted(r) /\ HasStarted(r))

LEMMA PushStarts ==
  ASSUME NEW a \in Automata, Rooted(a), NEW f \in Frames, a.stack = <<>> => ~ IsKeyString(f)
  PROVE  Started(Push(a, f))
<1>1. PICK s \in Seq(Frames) : s = a.stack
  BY DEF Automata
<1>2. PICK t \in Seq(Frames) : t = Append(s, f)
  <2>1. Append(s, f) \in Seq(Frames)
    OBVIOUS
  <2> QED BY <2>1
<1>3. /\ Len(t) = Len(s) + 1 /\ t[Len(s) + 1] = f
      /\ \A i \in 1 .. Len(s) : t[i] = s[i]
  BY <1>2, AppendProperties
<1>4. Push(a, f).stack = t
  BY <1>1, <1>2 DEF Push, Automata
<1>5. t # <<>>
  BY <1>2, AppendProperties
<1>6. ~ IsKeyString(t[1])
  <2>1. CASE s = <<>>
    <3>1. Len(s) = 0
      BY <2>1
    <3> QED BY <1>1, <1>3, <2>1, <3>1
  <2>2. CASE s # <<>>
    <3>1. 1 \in 1 .. Len(s)
      BY <2>2
    <3> QED BY <1>1, <1>3, <2>2, <3>1 DEF Rooted
  <2> QED BY <2>1, <2>2
<1> QED BY <1>4, <1>5, <1>6 DEF Started, Rooted, HasStarted

LEMMA SetTopStarts ==
  ASSUME NEW a \in Automata, Rooted(a), a.stack # <<>>, NEW f \in Frames,
         IsKeyString(f) => IsKeyString(Top(a))
  PROVE  Started(SetTop(a, f)) /\ Rooted(SetTop(a, f)) /\ SetTop(a, f).stack # <<>>
<1>1. PICK s \in Seq(Frames) : s = a.stack
  BY DEF Automata
<1>2. PICK n \in Nat \ {0} : n = Len(s)
  BY <1>1
<1>3. PICK t : t = [s EXCEPT ![n] = f]
  OBVIOUS
<1>4. /\ t \in Seq(Frames) /\ Len(t) = n /\ t[n] = f
      /\ \A i \in 1 .. n - 1 : t[i] = s[i]
  BY <1>2, <1>3
<1>5. SetTop(a, f).stack = t
  BY <1>1, <1>2, <1>3 DEF SetTop, Automata
<1>6. t # <<>>
  BY <1>4
<1>7. ~ IsKeyString(t[1])
  <2>1. CASE n = 1
    <3>1. s[1] = Top(a)
      BY <1>1, <1>2, <2>1 DEF Top, Last
    <3> QED BY <1>1, <1>4, <2>1, <3>1 DEF Rooted
  <2>2. CASE n # 1
    <3>1. 1 \in 1 .. n - 1
      BY <2>2
    <3> QED BY <1>1, <1>4, <3>1 DEF Rooted
  <2> QED BY <2>1, <2>2
<1> QED BY <1>5, <1>6, <1>7 DEF Started, Rooted, HasStarted

LEMMA PopIsRooted ==
  ASSUME NEW a \in Automata, Rooted(a), a.stack # <<>>
  PROVE  /\ Pop(a) \in Automata /\ Rooted(Pop(a))
         /\ IsKeyString(Top(a)) => Pop(a).stack # <<>>
<1>1. PICK s \in Seq(Frames) : s = a.stack
  BY DEF Automata
<1>2. PICK n \in Nat \ {0} : n = Len(s)
  BY <1>1
<1>3. PICK t : t = Front(s)
  OBVIOUS
<1>4. t \in Seq(Frames) /\ Len(t) = n - 1 /\ \A i \in 1 .. n - 1 : t[i] = s[i]
  <2>1. 1 \in 1 .. n + 1 /\ n - 1 \in 1 - 1 .. n
    BY <1>2
  <2>2. n - 1 - 1 + 1 = n - 1 /\ \A i \in 1 .. n - 1 : 1 + i - 1 = i
    BY <1>2
  <2> QED BY <1>2, <1>3, <2>1, <2>2, SubSeqProperties DEF Front
<1>5. Pop(a) = [stack |-> t, finished |-> a.finished, invalid |-> a.invalid]
  BY <1>1, <1>3 DEF Pop, Automata
<1>6. a.finished \in BOOLEAN /\ a.invalid \in BOOLEAN
  BY DEF Automata
<1>7. CASE n = 1
  <2>1. t = <<>>
    BY <1>4, <1>7
  <2>2. s[1] = Top(a)
    BY <1>1, <1>2, <1>7 DEF Top, Last
  <2> QED BY <1>1, <1>4, <1>5, <1>6, <2>1, <2>2 DEF Rooted, Automata
<1>8. CASE n # 1
  <2>1. 1 \in 1 .. n - 1
    BY <1>8
  <2>2. t # <<>> /\ t[1] = s[1]
    BY <1>4, <2>1
  <2> QED BY <1>1, <1>4, <1>5, <1>6, <2>2 DEF Rooted, Automata
<1> QED BY <1>7, <1>8

LEMMA ExpectStarts ==
  ASSUME NEW a \in Automata, Rooted(a), a.stack # <<>>, Top(a).kind \in {"object", "array"},
         NEW what \in {"none", "colon", "value", "comma", "key"},
         Top(a).kind = "array" => what \in {"value", "comma"}
  PROVE  Started(Expect(a, what)) /\ Rooted(Expect(a, what)) /\ Expect(a, what).stack # <<>>
<1>1. PICK f : f = Top(a)
  OBVIOUS
<1>2. f \in Frames
  <2>1. a.stack \in Seq(Frames)
    BY DEF Automata
  <2> QED BY <1>1, <2>1 DEF Top, Last
<1>3. PICK g : g = [f EXCEPT !.expecting = what]
  OBVIOUS
<1>4. g \in ObjectFrames \cup ArrayFrames
  BY <1>1, <1>2, <1>3, FramesByKind DEF ObjectFrames, ArrayFrames
<1>5. g \in Frames /\ ~ IsKeyString(g)
  BY <1>4 DEF Frames, IsKeyString, ObjectFrames, ArrayFrames
<1> QED BY <1>1, <1>3, <1>5, SetTopStarts DEF Expect

LEMMA CloseStarts ==
  ASSUME NEW a \in Automata, Rooted(a), a.stack # <<>>
  PROVE  Started(CloseValue(a)) /\ Rooted(CloseValue(a))
<1>1. PICK p \in Automata : p = Pop(a)
  BY PopIsRooted
<1>2. Rooted(p)
  BY <1>1, PopIsRooted
<1>3. CloseValue(a) = FoldAfterValue(p)
  BY <1>1 DEF CloseValue
<1>4. CASE p.stack = <<>>
  <2>1. FoldAfterValue(p) = [p EXCEPT !.finished = TRUE]
    BY <1>4 DEF FoldAfterValue
  <2>2. FoldAfterValue(p).stack = <<>> /\ FoldAfterValue(p).finished
    BY <1>4, <2>1 DEF Automata
  <2> QED BY <1>3, <2>2 DEF Started, Rooted, HasStarted
<1>5. CASE p.stack # <<>> /\ Top(p).kind \in {"object", "array"} /\ Top(p).expecting = "value"
  <2>1. FoldAfterValue(p) = Expect(p, "comma")
    BY <1>5 DEF FoldAfterValue
  <2> QED BY <1>2, <1>3, <1>5, <2>1, ExpectStarts
<1>6. CASE p.stack # <<>> /\ ~ (Top(p).kind \in {"object", "array"} /\ Top(p).expecting = "value")
  <2>1. FoldAfterValue(p) = p
    BY <1>6 DEF FoldAfterValue
  <2> QED BY <1>2, <1>3, <1>6, <2>1 DEF Started, HasStarted
<1> QED BY <1>4, <1>5, <1>6

LEMMA RefuseStarts == ASSUME NEW a \in Automata PROVE Started(Refuse(a))
BY RefuseIsSound DEF Started

LEMMA StartValueStarts ==
  ASSUME NEW a \in Automata, Rooted(a), NEW b
  PROVE  Started(StartValue(a, b))
<1>1. ASSUME NEW f \in Frames, ~ IsKeyString(f) PROVE Started(Push(a, f))
  BY <1>1, PushStarts
<1>2. /\ ObjectFrame \in Frames /\ ~ IsKeyString(ObjectFrame)
      /\ ArrayFrame \in Frames /\ ~ IsKeyString(ArrayFrame)
      /\ StringFrame(FALSE) \in Frames /\ ~ IsKeyString(StringFrame(FALSE))
      /\ NumberFrame(b) \in Frames /\ ~ IsKeyString(NumberFrame(b))
  BY NewFrames DEF Frames, IsKeyString, ObjectFrame, ArrayFrame, StringFrame, NumberFrame
<1>3. b \in DOMAIN Rest => Literal(b) \in Frames /\ ~ IsKeyString(Literal(b))
  BY NewFrames DEF Frames, IsKeyString, Literal
<1>4. Started(Refuse(a))
  BY RefuseStarts
<1> QED BY <1>1, <1>2, <1>3, <1>4 DEF StartValue

LEMMA FeedGapStarts ==
  ASSUME NEW a, Live(a), Rooted(a), NEW b, a.stack = <<>> \/ Top(a).kind \in {"object", "array"}
  PROVE  /\ Started(FeedGap(a, b))
         /\ a.stack = <<>> /\ a.finished => FeedGap(a, b).invalid
<1>1. a \in Automata
  BY DEF Live
<1>2. Started(Refuse(a)) /\ Refuse(a).invalid
  BY <1>1, RefuseStarts, RefuseIsSound
<1>3. CASE a.stack = <<>>
  <2>1. Started(StartValue(a, b))
    BY <1>1, StartValueStarts
  <2> QED BY <1>2, <1>3, <2>1 DEF FeedGap, FeedTop
<1>4. CASE a.stack # <<>> /\ Top(a).kind = "array"
  <2>1. Started(CloseValue(a)) /\ Started(Expect(a, "value"))
    BY <1>1, <1>4, CloseStarts, ExpectStarts
  <2>2. Started(StartValue(Expect(a, "comma"), b))
    <3>1. Expect(a, "comma") \in Automata /\ Rooted(Expect(a, "comma"))
      BY <1>1, <1>4, ExpectIsLive, ExpectStarts DEF Live
    <3> QED BY <3>1, StartValueStarts
  <2>3. FeedGap(a, b) = FeedArray(a, b)
    BY <1>4 DEF FeedGap
  <2>4. Started(FeedArray(a, b))
    BY <1>2, <2>1, <2>2 DEF FeedArray
  <2> QED BY <1>4, <2>3, <2>4
<1>5. CASE a.stack # <<>> /\ Top(a).kind = "object"
  <2>1. /\ Started(CloseValue(a)) /\ Started(Expect(a, "value")) /\ Started(Expect(a, "key"))
    BY <1>1, <1>5, CloseStarts, ExpectStarts
  <2>2. Started(StartValue(Expect(a, "comma"), b))
    <3>1. Expect(a, "comma") \in Automata /\ Rooted(Expect(a, "comma"))
      BY <1>1, <1>5, ExpectIsLive, ExpectStarts DEF Live
    <3> QED BY <3>1, StartValueStarts
  <2>3. Started(Push(Expect(a, "none"), StringFrame(TRUE)))
    <3>1. /\ Expect(a, "none") \in Automata /\ Rooted(Expect(a, "none"))
          /\ Expect(a, "none").stack # <<>>
      BY <1>1, <1>5, ExpectIsLive, ExpectStarts DEF Live
    <3>2. StringFrame(TRUE) \in Frames
      BY NewFrames DEF Frames
    <3> QED BY <3>1, <3>2, PushStarts
  <2>4. FeedGap(a, b) = FeedObject(a, b)
    BY <1>5 DEF FeedGap
  <2>5. Started(FeedObject(a, b))
    BY <1>2, <2>1, <2>2, <2>3 DEF FeedObject
  <2> QED BY <1>5, <2>4, <2>5
<1> QED BY <1>3, <1>4, <1>5

LEMMA FeedScalarStarts ==
  ASSUME NEW a, Live(a), Rooted(a), a.stack # <<>>, NEW b
  PROVE  /\ Top(a).kind = "string" => Started(FeedString(a, b))
         /\ Top(a).kind = "literal" => Started(FeedLiteral(a, b))
         /\ Top(a).kind = "number" => Started(FeedNumber(a, b)) /\ Started(FeedSpace(a))
<1>1. PICK f : f = Top(a)
  OBVIOUS
<1>2. a \in Automata /\ f \in Frames
  <2>1. a.stack \in Seq(Frames) /\ a \in Automata
    BY DEF Live, Stacks
  <2> QED BY <1>1, <2>1 DEF Top, Last
<1>3. Started(Refuse(a)) /\ Started(CloseValue(a)) /\ Rooted(CloseValue(a))
  BY <1>2, RefuseStarts, CloseStarts
<1>4. ASSUME f.kind = "string" PROVE Started(FeedString(a, b))
  <2>1. f \in StringFrames
    BY <1>2, <1>4, FramesByKind
  <2>2. Started(SetTop(a, StringAfter(f, b)))
    <3>1. PICK g : g = StringAfter(f, b)
      OBVIOUS
    <3>2. \A e \in BOOLEAN, u \in 0 .. 4 :
            /\ [f EXCEPT !.escape = e, !.unicode = u] \in StringFrames
            /\ [f EXCEPT !.unicode = u] \in StringFrames
            /\ [f EXCEPT !.escape = e] \in StringFrames
      BY <2>1 DEF StringFrames
    <3>3. f.unicode > 0 => f.unicode - 1 \in 0 .. 4
      BY <2>1 DEF StringFrames
    <3>4. (b = "\\") \in BOOLEAN /\ FALSE \in BOOLEAN /\ (IF b = "u" THEN 4 ELSE 0) \in 0 .. 4
      OBVIOUS
    <3>5. StringAfter(f, b) \in StringFrames
      BY <3>2, <3>3, <3>4 DEF StringAfter
    <3>6. StringAfter(f, b).is_key = f.is_key
      BY <2>1 DEF StringAfter, StringFrames
    <3>7. g \in Frames /\ (IsKeyString(g) => IsKeyString(f))
      BY <1>4, <3>1, <3>5, <3>6 DEF Frames, IsKeyString
    <3> QED BY <1>1, <1>2, <3>1, <3>7, SetTopStarts
  <2>3. ASSUME f.is_key PROVE Started(IF Inside(Pop(a), "object") THEN Expect(Pop(a), "colon") ELSE Pop(a))
    <3>1. PICK p : p = Pop(a)
      OBVIOUS
    <3>2. p \in Automata /\ Rooted(p) /\ p.stack # <<>>
      BY <1>1, <1>2, <1>4, <2>3, <3>1, PopIsRooted DEF IsKeyString
    <3>3. Inside(p, "object") => Started(Expect(p, "colon"))
      BY <3>2, ExpectStarts DEF Inside
    <3>4. Started(p)
      BY <3>2 DEF Started, HasStarted
    <3> QED BY <3>1, <3>3, <3>4
  <2> QED BY <1>1, <1>3, <2>2, <2>3 DEF FeedString
<1>5. ASSUME f.kind = "literal" PROVE Started(FeedLiteral(a, b))
  <2>1. f \in LiteralFrames
    BY <1>2, <1>5, FramesByKind
  <2> DEFINE left == f.expected
             g == [f EXCEPT !.expected = Tail(left)]
  <2>2. ASSUME Len(left) # 1 PROVE Started(SetTop(a, g))
    <3>1. left \in Remainders
      BY <2>1 DEF LiteralFrames
    <3>2. Tail(left) \in Remainders
      BY <2>2, <3>1, TailOfRemainder
    <3>3. g \in LiteralFrames
      BY <2>1, <3>2 DEF LiteralFrames
    <3>4. g \in Frames /\ ~ IsKeyString(g)
      BY <3>3 DEF Frames, LiteralFrames, IsKeyString
    <3> HIDE DEF g
    <3> QED BY <1>1, <1>2, <3>4, SetTopStarts
  <2>3. FeedLiteral(a, b) = IF left = <<>> \/ Head(left) # b THEN Refuse(a)
                            ELSE IF Len(left) = 1 THEN CloseValue(a) ELSE SetTop(a, g)
    BY <1>1 DEF FeedLiteral
  <2> HIDE DEF g, left
  <2> QED BY <1>3, <2>2, <2>3
<1>6. ASSUME f.kind = "number" PROVE Started(FeedNumber(a, b)) /\ Started(FeedSpace(a))
  <2>1. f \in NumberFrames /\ ~ IsKeyString(f)
    BY <1>2, <1>6, FramesByKind DEF IsKeyString
  <2>2. PICK g : g = [f EXCEPT !.n = NumberAfter(f.n, b)]
    OBVIOUS
  <2>3. g \in NumberFrames
    BY <2>1, <2>2, NumberAfterIsFlags DEF NumberFrames
  <2>4. g \in Frames /\ ~ IsKeyString(g)
    BY <2>3 DEF Frames, IsKeyString, NumberFrames
  <2>5. Started(SetTop(a, g))
    BY <1>1, <1>2, <2>4, SetTopStarts
  <2>6. Started(FeedGap(CloseValue(a), b))
    <3>1. /\ Live(CloseValue(a))
          /\ CloseValue(a).stack = <<>> \/ Top(CloseValue(a)).kind \in {"object", "array"}
      BY <1>1, <2>1, CloseIsLive DEF Settled
    <3> QED BY <1>3, <3>1, FeedGapStarts
  <2>7. Started(FeedNumber(a, b))
    BY <1>1, <1>3, <2>2, <2>5, <2>6 DEF FeedNumber
  <2>8. Started(FeedSpace(a))
    BY <1>1, <1>3, <1>6 DEF FeedSpace, Inside
  <2> QED BY <2>7, <2>8
<1> QED BY <1>1, <1>4, <1>5, <1>6

(* What a byte makes of a sound automaton, as with a schema.                 *)
ObjectSound(a) == Sound(a) /\ (a.invalid \/ Rooted(a))

LEMMA ObjectFeed ==
  ASSUME NEW a, ObjectSound(a), NEW b
  PROVE  LET r == Feed(a, b)
         IN  /\ ObjectSound(r)
             /\ a.invalid => r.invalid
             /\ HasStarted(a) => r.invalid \/ HasStarted(r)
             /\ IsComplete(a) => r.invalid \/ r = a
<1>1. PICK r : r = Feed(a, b)
  OBVIOUS
<1>2. Sound(a) /\ Sound(r)
  BY <1>1, FeedIsSound DEF ObjectSound
<1>3. CASE a.invalid
  <2>1. r = a
    BY <1>1, <1>3 DEF Feed
  <2> QED BY <1>1, <1>3, <2>1 DEF IsComplete
<1>4. CASE ~ a.invalid
  <2>1. Live(a) /\ Rooted(a)
    BY <1>2, <1>4 DEF Sound, Live, ObjectSound
  <2>2. a.stack # <<>> => Top(a).kind \in {"object", "array", "string", "number", "literal"}
    <3>1. a.stack \in Seq(Frames)
      BY <2>1 DEF Live, Stacks
    <3>2. a.stack # <<>> => Top(a) \in Frames
      BY <3>1 DEF Top, Last
    <3> QED BY <3>2, FramesByKind
  <2>3. CASE b \in Whitespace
    <3>1. r = FeedSpace(a)
      BY <1>1, <1>4, <2>3 DEF Feed
    <3>2. CASE Inside(a, "number")
      <4>1. Started(r) /\ a.stack # <<>>
        BY <2>1, <3>1, <3>2, FeedScalarStarts DEF Inside
      <4> QED BY <1>1, <1>2, <1>4, <4>1 DEF Started, ObjectSound, IsComplete
    <3>3. CASE ~ Inside(a, "number")
      <4>1. r = a
        BY <3>1, <3>3 DEF FeedSpace
      <4> QED BY <1>1, <1>4, <4>1
    <3> QED BY <3>2, <3>3
  <2>4. CASE b \notin Whitespace
    <3>1. CASE a.stack # <<>> /\ Top(a).kind \in {"string", "number", "literal"}
      <4>1. Started(r)
        BY <1>1, <1>4, <2>1, <2>4, <3>1, FeedScalarStarts DEF Feed, Inside
      <4> QED BY <1>1, <1>2, <1>4, <3>1, <4>1 DEF Started, ObjectSound, IsComplete
    <3>2. CASE ~ (a.stack # <<>> /\ Top(a).kind \in {"string", "number", "literal"})
      <4>1. r = FeedGap(a, b)
        BY <1>1, <1>4, <2>4, <3>2 DEF Feed, Inside
      <4>2. a.stack = <<>> \/ Top(a).kind \in {"object", "array"}
        BY <2>2, <3>2
      <4>3. Started(r) /\ (a.stack = <<>> /\ a.finished => r.invalid)
        BY <2>1, <4>1, <4>2, FeedGapStarts
      <4> QED BY <1>1, <1>2, <1>4, <4>3 DEF Started, ObjectSound, IsComplete
    <3> QED BY <3>1, <3>2
  <2> QED BY <2>3, <2>4
<1> QED BY <1>3, <1>4

LEMMA ObjectGoesOnByte ==
  ASSUME NEW a, ObjectSound(a), ~ a.invalid, ~ IsComplete(a)
  PROVE  \E b \in Bytes \ Whitespace : /\ ~ Feed(a, b).invalid /\ HasStarted(Feed(a, b))
                                       /\ ~ HasStarted(a) => b = "{"
<1>1. Live(a) /\ (a.stack # <<>> => ~ ReadsKey(Top(a))) /\ a \in Automata
  BY DEF ObjectSound, Sound, Live
<1>2. CASE HasStarted(a)
  <2>1. a.stack # <<>> => Top(a).kind \in {"object", "array", "string", "number", "literal"}
    <3>1. a.stack # <<>> => Top(a) \in Frames
      BY <1>1 DEF Live, Stacks, Top, Last
    <3> QED BY <3>1, FramesByKind
  <2>2. PICK b \in Bytes \ Whitespace : ~ Feed(a, b).invalid
    BY <1>1, <2>1, ScalarGoesOn, GapGoesOn
  <2>3. HasStarted(Feed(a, b))
    BY <1>2, <2>2, ObjectFeed
  <2> QED BY <1>2, <2>2, <2>3
<1>3. CASE ~ HasStarted(a)
  <2>1. a.stack = <<>> /\ ~ a.finished
    BY <1>3 DEF HasStarted
  <2>2. "{" \in Bytes \ Whitespace
    BY DEF Bytes, Whitespace
  <2>3. Feed(a, "{") = Push(a, ObjectFrame)
    BY <2>1, <2>2 DEF Feed, Inside, FeedGap, FeedTop, StartValue
  <2>4. ObjectFrame \in Frames
    BY NewFrames DEF Frames
  <2>5. HasStarted(Push(a, ObjectFrame)) /\ ~ Push(a, ObjectFrame).invalid
    BY <1>1, <2>1, <2>4, PushIsLive DEF HasStarted, Live
  <2> QED BY <2>2, <2>3, <2>5
<1> QED BY <1>2, <1>3

-----------------------------------------------------------------------------
(* A token's bytes, one after another.                                       *)
ObjectAutomata == {a \in Automata : ObjectSound(a)}

LEMMA ObjectFeeds == \A a \in ObjectAutomata, b \in Bytes : Feed(a, b) \in ObjectAutomata
BY ObjectFeed DEF ObjectAutomata, ObjectSound, Sound

LEMMA ObjectFedSlice ==
  ASSUME NEW a \in ObjectAutomata, NEW bytes \in Seq(Bytes)
  PROVE  \E F \in [0 .. Len(bytes) -> ObjectAutomata] :
            /\ F[0] = a
            /\ \A i \in 1 .. Len(bytes) : F[i] = Feed(F[i - 1], bytes[i])
            /\ FeedSlice(a, bytes) = F[Len(bytes)]
<1> DEFINE n == Len(bytes)
           S == 1 .. n
           D == ObjectAutomata
           c == Lasts(n)
           G == [i \in S |-> [x \in D |-> Feed(x, bytes[i])]]
           Rhs(h) == [s \in SUBSET S |->
                        IF s = {} THEN a ELSE Feed(h[s \ {Max(s)}], bytes[Max(s)])]
           g == CHOOSE h : h = Rhs(h)
<1>1. n \in Nat /\ DOMAIN bytes = S /\ \A i \in S : bytes[i] \in Bytes
  BY LenProperties, ElementOfSeq
<1>2. FeedSlice(a, bytes) = g[S]
  BY <1>1, Zenon DEF FeedSlice, FoldLeft, MapThenFoldSet
<1>3. G \in [1 .. n -> [D -> D]] /\ a \in D
  BY <1>1, ObjectFeeds
<1>4. PICK h \in [SUBSET (1 .. n) -> D] : IsLeftFold(h, n, a, G)
  <2> HIDE DEF G, D, n
  <2> QED BY <1>1, <1>3, LeftFold
<1>5. /\ FoldsOn(h, 1 .. n, a, c, G)
      /\ h[{}] = a
      /\ \A i \in 1 .. n : h[1 .. i] = G[i][h[1 .. (i - 1)]]
  BY <1>4 DEF IsLeftFold
<1>6. \A i \in S, x \in D : G[i][x] = Feed(x, bytes[i])
  OBVIOUS
<1>7. ChoosesFrom(c, S) /\ \A T \in SUBSET S : c[T] = Max(T)
  BY <1>1, LastsChoose DEF Lasts
<1> HIDE DEF G, c
<1>8. \A T \in SUBSET S : T # {} => h[T] = Feed(h[T \ {Max(T)}], bytes[Max(T)])
  <2>1. SUFFICES ASSUME NEW T \in SUBSET S, T # {}
                 PROVE  h[T] = Feed(h[T \ {Max(T)}], bytes[Max(T)])
    OBVIOUS
  <2>2. h[T] = G[c[T]][h[T \ {c[T]}]]
    BY <1>5, <2>1 DEF FoldsOn
  <2>3. c[T] \in S /\ h[T \ {c[T]}] \in D /\ c[T] = Max(T)
    BY <1>5, <1>7, <2>1 DEF ChoosesFrom
  <2> QED BY <1>6, <2>2, <2>3
<1>9. h = Rhs(h)
  BY <1>5, <1>8
<1>10. g = Rhs(g)
  BY <1>9
<1> HIDE DEF g
<1>11. /\ g[{}] = a
       /\ \A T \in SUBSET S : T # {} => g[T] = Feed(g[T \ {Max(T)}], bytes[Max(T)])
  <2> DEFINE rhs == Rhs(g)
  <2>1. /\ rhs[{}] = a
        /\ \A T \in SUBSET S : T # {} => rhs[T] = Feed(g[T \ {Max(T)}], bytes[Max(T)])
    OBVIOUS
  <2>2. g = rhs
    BY <1>10
  <2> HIDE DEF rhs
  <2> QED BY <2>1, <2>2
<1>12. \A T \in SUBSET S : g[T] = h[T]
  <2>1. SameStep(g, h, c, S)
    BY <1>5, <1>7, <1>8, <1>11 DEF SameStep
  <2>2. IsFiniteSet(S)
    BY <1>1, FS_Interval
  <2> HIDE DEF S
  <2> QED BY <1>7, <2>1, <2>2, FoldsAgree
<1> DEFINE F == [i \in 0 .. n |-> h[1 .. i]]
<1>13. F \in [0 .. n -> D]
  BY <1>1, <1>5
<1>14. F[0] = a /\ F[n] = h[S]
  <2>1. 1 .. 0 = {}
    OBVIOUS
  <2> QED BY <1>1, <1>5, <2>1
<1>15. \A i \in 1 .. n : F[i] = Feed(F[i - 1], bytes[i])
  <2>1. SUFFICES ASSUME NEW i \in 1 .. n PROVE F[i] = Feed(F[i - 1], bytes[i])
    OBVIOUS
  <2>2. i - 1 \in 0 .. n /\ i \in 0 .. n /\ i \in S
    BY <1>1
  <2>3. F[i] = h[1 .. i] /\ F[i - 1] = h[1 .. (i - 1)] /\ F[i - 1] \in D
    BY <2>2, <1>13
  <2>4. h[1 .. i] = G[i][h[1 .. (i - 1)]]
    BY <1>5
  <2> HIDE DEF F
  <2> QED BY <1>6, <2>2, <2>3, <2>4
<1> HIDE DEF F
<1> QED BY <1>2, <1>12, <1>13, <1>14, <1>15

LEMMA SchemaMax == \A T : Schema!Max(T) = Max(T)
BY DEF Schema!Max, Max

LEMMA SchemaFeeds ==
  ASSUME NEW W, Schemas(W), NEW root \in W
  PROVE  \A a \in SchemaAutomata(W), b \in Bytes : Schema!Feed(a, b, root) \in SchemaAutomata(W)
BY SchemaFeed DEF SchemaSound

LEMMA SchemaFedSlice ==
  ASSUME NEW W, Schemas(W), NEW root \in W, NEW a \in SchemaAutomata(W), NEW bytes \in Seq(Bytes)
  PROVE  \E F \in [0 .. Len(bytes) -> SchemaAutomata(W)] :
            /\ F[0] = a
            /\ \A i \in 1 .. Len(bytes) : F[i] = Schema!Feed(F[i - 1], bytes[i], root)
            /\ Schema!FeedSlice(a, bytes, root) = F[Len(bytes)]
<1> DEFINE n == Len(bytes)
           S == 1 .. n
           D == SchemaAutomata(W)
           c == Lasts(n)
           G == [i \in S |-> [x \in D |-> Schema!Feed(x, bytes[i], root)]]
           Rhs(h) == [s \in SUBSET S |->
                        IF s = {} THEN a ELSE Schema!Feed(h[s \ {Schema!Max(s)}], bytes[Schema!Max(s)], root)]
           g == CHOOSE h : h = Rhs(h)
<1>1. n \in Nat /\ DOMAIN bytes = S /\ \A i \in S : bytes[i] \in Bytes
  BY LenProperties, ElementOfSeq
<1>2. Schema!FeedSlice(a, bytes, root) = g[S]
  BY <1>1, Zenon DEF Schema!FeedSlice, Schema!FoldLeft, Schema!MapThenFoldSet
<1>3. G \in [1 .. n -> [D -> D]] /\ a \in D
  BY <1>1, SchemaFeeds
<1>4. PICK h \in [SUBSET (1 .. n) -> D] : IsLeftFold(h, n, a, G)
  <2> HIDE DEF G, D, n
  <2> QED BY <1>1, <1>3, LeftFold
<1>5. /\ FoldsOn(h, 1 .. n, a, c, G)
      /\ h[{}] = a
      /\ \A i \in 1 .. n : h[1 .. i] = G[i][h[1 .. (i - 1)]]
  BY <1>4 DEF IsLeftFold
<1>6. \A i \in S, x \in D : G[i][x] = Schema!Feed(x, bytes[i], root)
  OBVIOUS
<1>7. ChoosesFrom(c, S) /\ \A T \in SUBSET S : c[T] = Schema!Max(T)
  BY <1>1, LastsChoose, SchemaMax DEF Lasts
<1> HIDE DEF G, c
<1>8. \A T \in SUBSET S : T # {} => h[T] = Schema!Feed(h[T \ {Schema!Max(T)}], bytes[Schema!Max(T)], root)
  <2>1. SUFFICES ASSUME NEW T \in SUBSET S, T # {}
                 PROVE  h[T] = Schema!Feed(h[T \ {Schema!Max(T)}], bytes[Schema!Max(T)], root)
    OBVIOUS
  <2>2. h[T] = G[c[T]][h[T \ {c[T]}]]
    BY <1>5, <2>1 DEF FoldsOn
  <2>3. c[T] \in S /\ h[T \ {c[T]}] \in D /\ c[T] = Schema!Max(T)
    BY <1>5, <1>7, <2>1 DEF ChoosesFrom
  <2> QED BY <1>6, <2>2, <2>3
<1>9. h = Rhs(h)
  BY <1>5, <1>8
<1>10. g = Rhs(g)
  BY <1>9
<1> HIDE DEF g
<1>11. /\ g[{}] = a
       /\ \A T \in SUBSET S : T # {} => g[T] = Schema!Feed(g[T \ {Schema!Max(T)}], bytes[Schema!Max(T)], root)
  <2> DEFINE rhs == Rhs(g)
  <2>1. /\ rhs[{}] = a
        /\ \A T \in SUBSET S : T # {} => rhs[T] = Schema!Feed(g[T \ {Schema!Max(T)}], bytes[Schema!Max(T)], root)
    OBVIOUS
  <2>2. g = rhs
    BY <1>10
  <2> HIDE DEF rhs
  <2> QED BY <2>1, <2>2
<1>12. \A T \in SUBSET S : g[T] = h[T]
  <2>1. SameStep(g, h, c, S)
    BY <1>5, <1>7, <1>8, <1>11 DEF SameStep
  <2>2. IsFiniteSet(S)
    BY <1>1, FS_Interval
  <2> HIDE DEF S
  <2> QED BY <1>7, <2>1, <2>2, FoldsAgree
<1> DEFINE F == [i \in 0 .. n |-> h[1 .. i]]
<1>13. F \in [0 .. n -> D]
  BY <1>1, <1>5
<1>14. F[0] = a /\ F[n] = h[S]
  <2>1. 1 .. 0 = {}
    OBVIOUS
  <2> QED BY <1>1, <1>5, <2>1
<1>15. \A i \in 1 .. n : F[i] = Schema!Feed(F[i - 1], bytes[i], root)
  <2>1. SUFFICES ASSUME NEW i \in 1 .. n PROVE F[i] = Schema!Feed(F[i - 1], bytes[i], root)
    OBVIOUS
  <2>2. i - 1 \in 0 .. n /\ i \in 0 .. n /\ i \in S
    BY <1>1
  <2>3. F[i] = h[1 .. i] /\ F[i - 1] = h[1 .. (i - 1)] /\ F[i - 1] \in D
    BY <2>2, <1>13
  <2>4. h[1 .. i] = G[i][h[1 .. (i - 1)]]
    BY <1>5
  <2> HIDE DEF F
  <2> QED BY <1>6, <2>2, <2>3, <2>4
<1> HIDE DEF F
<1> QED BY <1>2, <1>12, <1>13, <1>14, <1>15

(* What a byte, and so what a token never takes back.                        *)
Carries(a, r) ==
  /\ a.invalid => r.invalid
  /\ HasStarted(a) => r.invalid \/ HasStarted(r)
  /\ IsComplete(a) => r.invalid \/ r = a

LEMMA StepsCarry ==
  ASSUME NEW n \in Nat, NEW F, \A i \in 1 .. n : Carries(F[i - 1], F[i])
  PROVE  Carries(F[0], F[n])
<1> DEFINE T == {m \in Nat : m <= n => Carries(F[0], F[m])}
<1>1. 0 \in T
  BY DEF Carries
<1>2. ASSUME NEW m \in Nat, m \in T PROVE m + 1 \in T
  <2>1. SUFFICES ASSUME m + 1 <= n PROVE Carries(F[0], F[m + 1])
    OBVIOUS
  <2>2. m <= n /\ m + 1 \in 1 .. n /\ (m + 1) - 1 = m
    BY <2>1
  <2>3. Carries(F[0], F[m])
    BY <1>2, <2>2
  <2>4. Carries(F[m], F[m + 1])
    BY <2>2
  <2> QED BY <2>3, <2>4 DEF Carries
<1> HIDE DEF T
<1>3. n \in T
  BY <1>1, <1>2, CountingUp
<1> QED BY <1>3 DEF T

LEMMA ObjectSlice ==
  ASSUME NEW a \in ObjectAutomata, NEW bytes \in Seq(Bytes)
  PROVE  /\ FeedSlice(a, bytes) \in ObjectAutomata /\ Carries(a, FeedSlice(a, bytes))
         /\ bytes = <<>> => FeedSlice(a, bytes) = a
         /\ Len(bytes) = 1 => FeedSlice(a, bytes) = Feed(a, bytes[1])
<1>1. PICK n \in Nat : n = Len(bytes)
  BY LenProperties
<1>2. PICK F \in [0 .. n -> ObjectAutomata] :
         /\ F[0] = a
         /\ \A i \in 1 .. n : F[i] = Feed(F[i - 1], bytes[i])
         /\ FeedSlice(a, bytes) = F[n]
  BY <1>1, ObjectFedSlice, Zenon
<1>3. ASSUME NEW i \in 1 .. n PROVE Carries(F[i - 1], F[i])
  <2>1. i - 1 \in 0 .. n
    OBVIOUS
  <2>2. F[i - 1] \in ObjectAutomata
    BY <2>1
  <2>3. ObjectSound(F[i - 1])
    BY <2>2 DEF ObjectAutomata
  <2>4. Carries(F[i - 1], Feed(F[i - 1], bytes[i]))
    BY <2>3, ObjectFeed DEF Carries
  <2> QED BY <1>2, <2>4
<1>4. Carries(F[0], F[n])
  BY <1>3, StepsCarry
<1>5. F[n] \in ObjectAutomata
  BY <1>2
<1>6. bytes = <<>> => n = 0
  BY <1>1
<1>7. n = 1 => F[n] = Feed(F[0], bytes[1])
  BY <1>2
<1> QED BY <1>1, <1>2, <1>4, <1>5, <1>6, <1>7

LEMMA SchemaSlice ==
  ASSUME NEW W, Schemas(W), NEW root \in W, NEW a \in SchemaAutomata(W), NEW bytes \in Seq(Bytes)
  PROVE  /\ Schema!FeedSlice(a, bytes, root) \in SchemaAutomata(W)
         /\ Carries(a, Schema!FeedSlice(a, bytes, root))
         /\ bytes = <<>> => Schema!FeedSlice(a, bytes, root) = a
         /\ Len(bytes) = 1 => Schema!FeedSlice(a, bytes, root) = Schema!Feed(a, bytes[1], root)
<1>1. PICK n \in Nat : n = Len(bytes)
  BY LenProperties
<1>2. PICK F \in [0 .. n -> SchemaAutomata(W)] :
         /\ F[0] = a
         /\ \A i \in 1 .. n : F[i] = Schema!Feed(F[i - 1], bytes[i], root)
         /\ Schema!FeedSlice(a, bytes, root) = F[n]
  <2>1. \E F \in [0 .. Len(bytes) -> SchemaAutomata(W)] :
           /\ F[0] = a
           /\ \A i \in 1 .. Len(bytes) : F[i] = Schema!Feed(F[i - 1], bytes[i], root)
           /\ Schema!FeedSlice(a, bytes, root) = F[Len(bytes)]
    BY SchemaFedSlice, SMT
  <2> QED BY <1>1, <2>1
<1>3. ASSUME NEW i \in 1 .. n PROVE Carries(F[i - 1], F[i])
  <2>1. i - 1 \in 0 .. n
    OBVIOUS
  <2>2. F[i - 1] \in SchemaAutomata(W)
    BY <2>1
  <2>3. SchemaSound(W, F[i - 1]) /\ bytes[i] \in Bytes
    BY <1>1, <2>2, ElementOfSeq DEF SchemaSound
  <2>4. Carries(F[i - 1], Schema!Feed(F[i - 1], bytes[i], root))
    BY <2>3, SchemaFeed DEF Carries
  <2> QED BY <1>2, <2>4
<1>4. Carries(F[0], F[n])
  BY <1>3, StepsCarry
<1>5. F[n] \in SchemaAutomata(W)
  BY <1>2
<1>6. bytes = <<>> => n = 0
  BY <1>1
<1>7. n = 1 => F[n] = Schema!Feed(F[0], bytes[1], root)
  BY <1>2
<1> QED BY <1>1, <1>2, <1>4, <1>5, <1>6, <1>7

-----------------------------------------------------------------------------
(* A completion in JSON mode, whichever automaton it has.                    *)
AutomataFor(W) == IF asked = ObjectMode THEN ObjectAutomata ELSE SchemaAutomata(W)
GuidedInv(W) == asked \in {ObjectMode} \cup Nodes /\ json_state \in AutomataFor(W)

(* Every byte is a token of the vocabulary, other than the stop tokens, as it *)
(* is in a byte-level vocabulary.                                            *)
ByteLevel == \A b \in Bytes : \E t \in Tokens \ StopIds : Text[t] = <<b>>

LEMMA FreshIsAutomaton == ASSUME NEW W PROVE Fresh \in AutomataFor(W)
<1>1. <<>> \in Seq(Frames) /\ <<>> \in SchemaStacks(W)
  <2>1. \A F : <<>> \in Seq(F)
    OBVIOUS
  <2>2. \A i \in 1 .. Len(<<>>) - 1 : <<>>[i] \in SchemaContainers(W)
    OBVIOUS
  <2> QED BY <2>1, <2>2 DEF SchemaStacks
<1>2. Fresh \in Automata /\ Fresh \in SchemaAutomata(W) /\ Fresh.stack = <<>> /\ ~ Fresh.invalid
  BY <1>1 DEF Fresh, Automata, SchemaAutomata
<1>3. ObjectSound(Fresh)
  BY <1>2, EmptyIsStack DEF ObjectSound, Sound, Rooted
<1> QED BY <1>2, <1>3 DEF AutomataFor, ObjectAutomata

LEMMA AfterCarries ==
  ASSUME NEW W, Schemas(W), Nodes \subseteq W, asked \in {ObjectMode} \cup Nodes,
         NEW a \in AutomataFor(W), NEW bytes \in Seq(Bytes)
  PROVE  /\ After(a, bytes) \in AutomataFor(W) /\ Carries(a, After(a, bytes))
         /\ bytes = <<>> => After(a, bytes) = a
<1>1. CASE asked = ObjectMode
  BY <1>1, ObjectSlice DEF AutomataFor, After
<1>2. CASE asked # ObjectMode
  BY <1>2, SchemaSlice DEF AutomataFor, After
<1> QED BY <1>1, <1>2

LEMMA AfterByte ==
  ASSUME NEW W, Schemas(W), Nodes \subseteq W, asked \in {ObjectMode} \cup Nodes,
         NEW a \in AutomataFor(W), NEW b \in Bytes
  PROVE  After(a, <<b>>) = IF asked = ObjectMode THEN Feed(a, b) ELSE Schema!Feed(a, b, asked)
<1>0. <<b>> \in Seq(Bytes)
  OBVIOUS
<1>1. PICK w \in Seq(Bytes) : w = <<b>>
  BY <1>0
<1>2. Len(w) = 1 /\ w[1] = b
  BY <1>1
<1>3. CASE asked = ObjectMode
  <2>1. a \in ObjectAutomata
    BY <1>3 DEF AutomataFor
  <2>2. FeedSlice(a, w) = Feed(a, w[1])
    BY <1>2, <2>1, ObjectSlice
  <2>3. FeedSlice(a, <<b>>) = Feed(a, b)
    BY <1>1, <1>2, <2>2
  <2> QED BY <1>3, <2>3 DEF After
<1>4. CASE asked # ObjectMode
  <2>1. a \in SchemaAutomata(W) /\ asked \in W
    BY <1>4 DEF AutomataFor
  <2>2. Schema!FeedSlice(a, w, asked) = Schema!Feed(a, w[1], asked)
    BY <1>2, <2>1, SchemaSlice
  <2>3. Schema!FeedSlice(a, <<b>>, asked) = Schema!Feed(a, b, asked)
    BY <1>1, <1>2, <2>2
  <2> QED BY <1>4, <2>3 DEF After
<1> QED BY <1>3, <1>4

LEMMA SomeByteGoesOn ==
  ASSUME NEW W, Schemas(W), Nodes \subseteq W, asked \in {ObjectMode} \cup Nodes,
         NEW a \in AutomataFor(W), ~ a.invalid
  PROVE  \E b \in Bytes :
            /\ ~ After(a, <<b>>).invalid /\ HasStarted(After(a, <<b>>))
            /\ asked = ObjectMode /\ ~ HasStarted(a) => b = "{"
<1>1. " " \in Bytes /\ " " \in Whitespace
  BY DEF Bytes, Whitespace
<1>2. IsComplete(a) => HasStarted(a) /\ a.stack = <<>>
  BY DEF IsComplete, HasStarted
<1>3. CASE asked = ObjectMode
  <2>1. ObjectSound(a)
    BY <1>3 DEF AutomataFor, ObjectAutomata
  <2>2. ASSUME NEW b \in Bytes PROVE After(a, <<b>>) = Feed(a, b)
    BY <1>3, AfterByte
  <2>3. CASE IsComplete(a)
    <3>1. Feed(a, " ") = a
      BY <1>1, <1>2, <2>3 DEF Feed, FeedSpace, Inside
    <3> QED BY <1>1, <1>2, <2>2, <2>3, <3>1
  <2>4. CASE ~ IsComplete(a)
    BY <2>1, <2>2, <2>4, ObjectGoesOnByte
  <2> QED BY <2>3, <2>4
<1>4. CASE asked # ObjectMode
  <2>1. SchemaSound(W, a) /\ asked \in W
    BY <1>4 DEF AutomataFor, SchemaSound
  <2>2. ASSUME NEW b \in Bytes PROVE After(a, <<b>>) = Schema!Feed(a, b, asked)
    BY <1>4, AfterByte
  <2>3. CASE IsComplete(a)
    <3>1. ~ \E kind \in {"string", "literal", "enum"} : Inside(a, kind)
      BY <1>2, <2>3 DEF Inside
    <3>2. Schema!Feed(a, " ", asked) = Schema!FeedSpace(a)
      BY <1>1, <3>1, SchemaShares DEF Schema!Feed
    <3>3. Schema!FeedSpace(a) = a
      BY <1>2, <2>1, <2>3, SchemaFeedSpace
    <3> QED BY <1>1, <1>2, <1>4, <2>2, <2>3, <3>2, <3>3
  <2>4. CASE ~ IsComplete(a)
    BY <1>4, <2>1, <2>2, <2>4, SchemaGoesOn
  <2> QED BY <2>3, <2>4
<1> QED BY <1>3, <1>4

(* The candidates that the mask leaves their logit.                          *)
LEMMA SomeTokenIsAdmitted ==
  ASSUME NEW W, Schemas(W), Nodes \subseteq W, ByteLevel, GuidedInv(W), ~ json_state.invalid
  PROVE  \E t \in Tokens \ Banned : Admitted(t)
<1>1. asked \in {ObjectMode} \cup Nodes /\ json_state \in AutomataFor(W)
  BY DEF GuidedInv
<1>2. PICK b \in Bytes :
         /\ ~ After(json_state, <<b>>).invalid /\ HasStarted(After(json_state, <<b>>))
         /\ asked = ObjectMode /\ ~ HasStarted(json_state) => b = "{"
  BY <1>1, SomeByteGoesOn
<1>3. PICK t \in Tokens \ StopIds : Text[t] = <<b>>
  BY DEF ByteLevel
<1>4. Banned \subseteq StopIds
  BY GuidedAssumption DEF Banned
<1>5. <<b>> # <<>> /\ DOMAIN <<b>> = {1} /\ <<b>>[1] = b
  OBVIOUS
<1>6. b = "{" => OpensObject(<<b>>)
  BY <1>5 DEF OpensObject
<1>7. Admitted(t)
  BY <1>2, <1>3, <1>5, <1>6, Zenon DEF Admitted
<1> QED BY <1>3, <1>4, <1>7

LEMMA AdmittedCarries ==
  ASSUME NEW W, Schemas(W), Nodes \subseteq W, GuidedInv(W), ~ json_state.invalid,
         NEW t \in Tokens, Admitted(t)
  PROVE  LET r == After(json_state, Text[t])
         IN  ~ r.invalid /\ HasStarted(r) /\ (IsComplete(json_state) => IsComplete(r))
<1>1. asked \in {ObjectMode} \cup Nodes /\ json_state \in AutomataFor(W)
  BY DEF GuidedInv
<1>2. Text[t] \in Seq(Bytes)
  BY GuidedAssumption
<1>3. PICK r : r = After(json_state, Text[t])
  OBVIOUS
<1>4. Carries(json_state, r) /\ (Text[t] = <<>> => r = json_state)
  BY <1>1, <1>2, <1>3, AfterCarries
<1>5. IsComplete(json_state) => HasStarted(json_state)
  BY DEF IsComplete, HasStarted
<1>6. ~ r.invalid /\ HasStarted(r) /\ (IsComplete(json_state) => IsComplete(r))
  <2>1. CASE Text[t] = <<>>
    <3>1. IsComplete(json_state) /\ r = json_state
      BY <1>4, <2>1, Zenon DEF Admitted
    <3> QED BY <1>5, <3>1
  <2>2. CASE Text[t] # <<>>
    <3>1. ~ r.invalid /\ (HasStarted(json_state) \/ HasStarted(r))
      BY <1>3, <2>2, Zenon DEF Admitted
    <3> QED BY <1>4, <3>1 DEF Carries
  <2> QED BY <2>1, <2>2
<1> QED BY <1>3, <1>6, Zenon

LEMMA GuidedInvHolds ==
  ASSUME NEW W, Schemas(W), Nodes \subseteq W
  PROVE  GuidedSpec => []GuidedInv(W)
<1>1. GuidedInit => GuidedInv(W)
  <2> SUFFICES ASSUME GuidedInit PROVE GuidedInv(W)
    OBVIOUS
  <2>1. asked \in {ObjectMode} \cup Nodes
    BY DEF GuidedInit
  <2>2. PICK prime \in Primes : json_state = After(Fresh, prime)
    BY DEF GuidedInit
  <2>3. prime \in Seq(Bytes) /\ Fresh \in AutomataFor(W)
    BY GuidedAssumption, FreshIsAutomaton
  <2> QED BY <2>1, <2>2, <2>3, AfterCarries DEF GuidedInv
<1>2. GuidedInv(W) /\ [GuidedNext]_guidedVars => GuidedInv(W)'
  <2> SUFFICES ASSUME GuidedInv(W), [GuidedNext]_guidedVars PROVE GuidedInv(W)'
    OBVIOUS
  <2>1. ASSUME asked' = asked, json_state' \in AutomataFor(W) PROVE GuidedInv(W)'
    BY <2>1 DEF GuidedInv, AutomataFor
  <2>2. ASSUME NEW t \in Tokens, NEW cut \in BOOLEAN, NEW stray \in BOOLEAN,
                Generate(t, cut, stray)
         PROVE  GuidedInv(W)'
    <3>1. asked' = asked /\ json_state' = After(json_state, Text[t])
      BY <2>2 DEF Generate
    <3>2. Text[t] \in Seq(Bytes)
      BY GuidedAssumption
    <3>3. After(json_state, Text[t]) \in AutomataFor(W)
      BY <3>2, AfterCarries DEF GuidedInv
    <3> QED BY <2>1, <3>1, <3>3
  <2>3. CASE UNCHANGED guidedVars
    BY <2>1, <2>3 DEF guidedVars, GuidedInv
  <2> QED BY <2>2, <2>3 DEF GuidedNext
<1> QED BY <1>1, <1>2, PTL DEF GuidedSpec

(* As long as the mask has kept every token, the automaton accepts them.     *)
UnstrayedIsValid == ~strayed => ~json_state.invalid

\* What a token does that the mask keeps, while the automaton accepts.
LEMMA KeptToken ==
  ASSUME NEW W, Schemas(W), Nodes \subseteq W, GuidedInv(W), UnstrayedIsValid,
         NEW t \in Tokens, NEW cut \in BOOLEAN, NEW stray \in BOOLEAN,
         Generate(t, cut, stray), ~strayed'
  PROVE  /\ ~json_state'.invalid
         /\ HasStarted(json_state')
         /\ IsComplete(json_state) => IsComplete(json_state')
<1>1. ~strayed /\ ~stray
  BY Zenon DEF Generate
<1>2. Admitted(t) /\ json_state' = After(json_state, Text[t])
  BY <1>1, Zenon DEF Generate, Sampled, Kept
<1>3. ~json_state.invalid
  BY <1>1 DEF UnstrayedIsValid
<1>4. PICK r : r = After(json_state, Text[t])
  OBVIOUS
<1>5. ~r.invalid /\ HasStarted(r) /\ (IsComplete(json_state) => IsComplete(r))
  BY <1>2, <1>3, <1>4, AdmittedCarries, Zenon
<1>6. json_state' = r
  BY <1>2, <1>4
<1> QED BY <1>5, <1>6

(* "This should always succeed when the mask was active": whatever the       *)
(* vocabulary, the schemas and the width of the mask, as long as it has kept *)
(* every token and the automaton took the prefill, none breaks the automaton, *)
(* the first one starts the value, and none adds to a complete one.          *)
THEOREM MaskAlwaysHolds ==
  ASSUME NEW W, Schemas(W), Nodes \subseteq W
  PROVE  GuidedSpec => MaskHolds
<1> DEFINE Goal == ~strayed' =>
                      /\ ~json_state'.invalid
                      /\ HasStarted(json_state')
                      /\ IsComplete(json_state) => IsComplete(json_state')
<1>1. GuidedInit => UnstrayedIsValid
  BY Zenon DEF GuidedInit, UnstrayedIsValid
<1>2. GuidedInv(W) /\ UnstrayedIsValid /\ [GuidedNext]_guidedVars => UnstrayedIsValid'
  <2> SUFFICES ASSUME GuidedInv(W), UnstrayedIsValid, [GuidedNext]_guidedVars, ~strayed'
               PROVE  ~json_state'.invalid
    BY DEF UnstrayedIsValid
  <2>1. CASE GuidedNext
    BY <2>1, KeptToken, Zenon DEF GuidedNext
  <2>2. CASE UNCHANGED guidedVars
    BY <2>2 DEF guidedVars, UnstrayedIsValid
  <2> QED BY <2>1, <2>2
<1>3. GuidedInv(W) /\ UnstrayedIsValid /\ [GuidedNext]_guidedVars => [Goal]_guidedVars
  BY KeptToken, Zenon DEF GuidedNext
<1>4. GuidedSpec => []GuidedInv(W)
  BY GuidedInvHolds
<1> QED BY <1>1, <1>2, <1>3, <1>4, PTL DEF GuidedSpec, MaskHolds

(* What the sampler finds after the mask: a candidate.                       *)
SomeTokenIsLeft == ~ json_state.invalid => \E t \in Tokens \ Banned : Admitted(t)

(* As long as the automaton accepts what came, the mask and the bans on stop *)
(* tokens together leave some token of a byte-level vocabulary its logit, in *)
(* both modes and whatever the schema.                                       *)
THEOREM SomeTokenIsAlwaysLeft ==
  ASSUME NEW W, Schemas(W), Nodes \subseteq W, ByteLevel
  PROVE  GuidedSpec => []SomeTokenIsLeft
<1>1. GuidedInv(W) => SomeTokenIsLeft
  BY SomeTokenIsAdmitted DEF SomeTokenIsLeft
<1> QED BY <1>1, GuidedInvHolds, PTL

(* The value can grow by more than white space between its tokens.           *)
GoesOnUnpadded ==
  ~ json_state.invalid /\ ~ IsComplete(json_state) =>
    \E b \in Bytes :
       /\ ~ After(json_state, <<b>>).invalid
       /\ b \in Whitespace => asked # ObjectMode /\ Inside(json_state, "enum")

(* A masked answer is never left with white space only, as NothingStrands says *)
(* of object mode, where closed objects have their required keys among theirs, *)
(* at least one, and no key has white space or an escape.                    *)
THEOREM SchemasNeverStrand ==
  ASSUME NEW W, Schemas(W), Nodes \subseteq W, Readable(W)
  PROVE  GuidedSpec => []GoesOnUnpadded
<1>1. GuidedInv(W) => GoesOnUnpadded
  <2> SUFFICES ASSUME GuidedInv(W), ~ json_state.invalid, ~ IsComplete(json_state)
               PROVE  \E b \in Bytes :
                         /\ ~ After(json_state, <<b>>).invalid
                         /\ b \in Whitespace => asked # ObjectMode /\ Inside(json_state, "enum")
    BY DEF GoesOnUnpadded
  <2>1. asked \in {ObjectMode} \cup Nodes /\ json_state \in AutomataFor(W)
    BY DEF GuidedInv
  <2>2. CASE asked = ObjectMode
    <3>1. ObjectSound(json_state)
      BY <2>1, <2>2 DEF AutomataFor, ObjectAutomata
    <3>2. PICK b \in Bytes \ Whitespace : ~ Feed(json_state, b).invalid
      BY <3>1, ObjectGoesOnByte
    <3>3. After(json_state, <<b>>) = Feed(json_state, b)
      BY <2>1, <2>2, <3>2, AfterByte
    <3> QED BY <3>2, <3>3
  <2>3. CASE asked # ObjectMode
    <3>1. SchemaSound(W, json_state) /\ asked \in W
      BY <2>1, <2>3 DEF AutomataFor, SchemaSound
    <3>2. PICK b \in Bytes : /\ ~ Schema!Feed(json_state, b, asked).invalid
                             /\ b \in Whitespace => Inside(json_state, "enum")
      BY <3>1, SchemaGoesOn
    <3>3. After(json_state, <<b>>) = Schema!Feed(json_state, b, asked)
      BY <2>1, <2>3, <3>2, AfterByte
    <3> QED BY <2>3, <3>2, <3>3
  <2> QED BY <2>2, <2>3
<1> QED BY <1>1, GuidedInvHolds, PTL
=============================================================================
