---------------------------- MODULE JsonGrammar ------------------------------
(***************************************************************************)
(* JsonState of runtime/src/json_grammar.rs: the automaton that tells the  *)
(* sampler, byte by byte, whether a completion can still become JSON.      *)
(* Objects and arrays carry what they expect next; of the four flags of an *)
(* object at most one is set, none while its key is read ("none").         *)
(***************************************************************************)
EXTENDS JsonBytes

ObjectFrame == [kind |-> "object", expecting |-> "key"]
ArrayFrame == [kind |-> "array", expecting |-> "value"]
StringFrame(isKey) == [kind |-> "string", escape |-> FALSE, unicode |-> 0, is_key |-> isKey]
NumberFrame(b) == [kind |-> "number", n |-> [NoFlags EXCEPT !.digit = b \in Digits]]

Expect(js, what) == SetTop(js, [Top(js) EXCEPT !.expecting = what])

HasStarted(js) == js.stack # <<>> \/ js.finished

\* A value closed: its parent wants a comma or its end, the top is finished.
FoldAfterValue(js) ==
    IF js.stack = <<>> THEN [js EXCEPT !.finished = TRUE]
    ELSE IF Top(js).kind \in {"object", "array"} /\ Top(js).expecting = "value"
         THEN Expect(js, "comma")
         ELSE js
CloseValue(js) == FoldAfterValue(Pop(js))

StartValue(js, b) ==
    IF b = "{" THEN Push(js, ObjectFrame)
    ELSE IF b = "[" THEN Push(js, ArrayFrame)
    ELSE IF b = "\"" THEN Push(js, StringFrame(FALSE))
    ELSE IF b \in DOMAIN Rest THEN Push(js, Literal(b))
    ELSE IF b \in Digits \cup {"-"} THEN Push(js, NumberFrame(b))
    ELSE Refuse(js)

FeedTop(js, b) == IF js.finished THEN Refuse(js) ELSE StartValue(js, b)

FeedObject(js, b) ==
    LET expecting == Top(js).expecting
    IN  IF expecting = "key" /\ b = "\"" THEN Push(Expect(js, "none"), StringFrame(TRUE))
        ELSE IF expecting \in {"key", "comma"} /\ b = "}" THEN CloseValue(js)
        ELSE IF expecting = "colon" /\ b = ":" THEN Expect(js, "value")
        ELSE IF expecting = "value" THEN StartValue(Expect(js, "comma"), b)
        ELSE IF expecting = "comma" /\ b = "," THEN Expect(js, "key")
        ELSE Refuse(js)

FeedArray(js, b) ==
    LET expecting == Top(js).expecting
    IN  IF b = "]" THEN CloseValue(js)
        ELSE IF expecting = "value" THEN StartValue(Expect(js, "comma"), b)
        ELSE IF expecting = "comma" /\ b = "," THEN Expect(js, "value")
        ELSE Refuse(js)

\* Mutant: the end of a key does not ask for a colon.
FeedStringNoColon(js, b) ==
    LET f == Top(js)
    IN  IF StringTakes(f, b) THEN SetTop(js, StringAfter(f, b))
        ELSE IF ~StringCloses(f, b) THEN Refuse(js)
        ELSE IF ~f.is_key THEN CloseValue(js)
        ELSE Pop(js)

FeedString(js, b) ==
    LET f == Top(js)
    IN  IF StringTakes(f, b) THEN SetTop(js, StringAfter(f, b))
        ELSE IF ~StringCloses(f, b) THEN Refuse(js)
        ELSE IF ~f.is_key THEN CloseValue(js)
        ELSE IF Inside(Pop(js), "object") THEN Expect(Pop(js), "colon")
        ELSE Pop(js)

FeedLiteral(js, b) ==
    LET left == Top(js).expected
    IN  IF left = <<>> \/ Head(left) # b THEN Refuse(js)
        ELSE IF Len(left) = 1 THEN CloseValue(js)
        ELSE SetTop(js, [Top(js) EXCEPT !.expected = Tail(@)])

\* Outside the scalars.
FeedGap(js, b) ==
    IF js.stack = <<>> THEN FeedTop(js, b)
    ELSE IF Top(js).kind = "object" THEN FeedObject(js, b)
    ELSE FeedArray(js, b)

\* A number ends at the first byte that it does not take; that byte is then
\* its parent's.
FeedNumber(js, b) ==
    LET n == Top(js).n
    IN  IF NumberTakes(n, b) THEN SetTop(js, [Top(js) EXCEPT !.n = NumberAfter(n, b)])
        ELSE IF NumberMayEnd(n) THEN FeedGap(CloseValue(js), b)
        ELSE Refuse(js)

\* White space ends a number and is dropped everywhere else.
FeedSpace(js) ==
    IF ~Inside(js, "number") THEN js
    ELSE IF Top(js).n.digit THEN CloseValue(js)
    ELSE Refuse(js)

Feed(js, b) ==
    IF js.invalid THEN js
    ELSE IF b \in Whitespace THEN FeedSpace(js)
    ELSE IF Inside(js, "string") THEN FeedString(js, b)
    ELSE IF Inside(js, "number") THEN FeedNumber(js, b)
    ELSE IF Inside(js, "literal") THEN FeedLiteral(js, b)
    ELSE FeedGap(js, b)

FeedSlice(js, bytes) == FoldLeft(Feed, js, bytes)
=============================================================================
