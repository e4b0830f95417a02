----------------------------- MODULE JsonSchema ------------------------------
(***************************************************************************)
(* SchemaState of runtime/src/json_schema.rs: the automaton for a compiled *)
(* schema.  A node of a schema is one of                                   *)
(*   [kind |-> "any"], "bool", "null", "int", "num", "str",                *)
(*   [kind |-> "enum", members], the compact texts of its members,         *)
(*   [kind |-> "object", properties, required, additional],                *)
(*   [kind |-> "array", items].                                            *)
(* A key is the sequence of its bytes.                                     *)
(***************************************************************************)
EXTENDS JsonBytes

AnyNode == [kind |-> "any"]
AnyObject == [kind |-> "object", properties |-> <<>>, required |-> {}, additional |-> TRUE]

ObjectFrame(node) == [kind |-> "object", node |-> node, seen |-> <<>>,
                      stage |-> "key_or_close", pending |-> <<>>]
ArrayFrame(items) == [kind |-> "array", items |-> items, stage |-> "value_or_close"]
StringFrame == [kind |-> "string", escape |-> FALSE, unicode |-> 0]
NumberFrame(b, integer) ==
    [kind |-> "number", integer |-> integer, n |-> [NoFlags EXCEPT !.digit = b \in Digits]]
EnumFrame(candidates, pos) == [kind |-> "enum", candidates |-> candidates, pos |-> pos]

Stage(ss, stage) == SetTop(ss, [Top(ss) EXCEPT !.stage = stage])
HasStarted(ss) == ss.stack # <<>> \/ ss.finished

FoldAfterValue(ss) ==
    IF ss.stack = <<>> THEN [ss EXCEPT !.finished = TRUE]
    ELSE IF Inside(ss, "array") /\ Top(ss).stage = "value_or_close"
         THEN Stage(ss, "comma_or_close")
         ELSE ss
CloseValue(ss) == FoldAfterValue(Pop(ss))

\* The members that go on with b; a value of the enumeration is closed once
\* all that are left have been matched to their end.
StartEnum(ss, b, members) ==
    LET candidates == {m \in members : m # <<>> /\ m[1] = b}
    IN  IF candidates = {} THEN Refuse(ss)
        ELSE IF \A m \in candidates : Len(m) = 1 THEN FoldAfterValue(ss)
        ELSE Push(ss, EnumFrame(candidates, 1))

FeedEnum(ss, b) ==
    LET pos == Top(ss).pos
        left == {m \in Top(ss).candidates : Len(m) > pos /\ m[pos + 1] = b}
    IN  IF left = {} THEN Refuse(ss)
        ELSE IF \A m \in left : Len(m) = pos + 1 THEN CloseValue(ss)
        ELSE SetTop(ss, EnumFrame(left, pos + 1))

\* The bytes that a value of a node without members may start with.
Opens(node, b) ==
    CASE node.kind = "object" -> b = "{"
      [] node.kind = "array" -> b = "["
      [] node.kind = "str" -> b = "\""
      [] node.kind = "bool" -> b \in {"t", "f"}
      [] node.kind = "null" -> b = "n"
      [] node.kind \in {"int", "num"} -> b \in Digits \cup {"-"}
      [] node.kind = "any" -> b \in {"{", "[", "\"", "-"} \cup Digits \cup DOMAIN Rest

StartValue(ss, b, node) ==
    IF node.kind = "enum" THEN StartEnum(ss, b, node.members)
    ELSE IF ~Opens(node, b) THEN Refuse(ss)
    ELSE Push(ss,
         CASE b = "{" -> ObjectFrame(IF node = AnyNode THEN AnyObject ELSE node)
           [] b = "[" -> ArrayFrame(IF node = AnyNode THEN AnyNode ELSE node.items)
           [] b = "\"" -> StringFrame
           [] b \in DOMAIN Rest -> Literal(b)
           [] OTHER -> NumberFrame(b, node.kind = "int"))

FeedString(ss, b) ==
    IF StringTakes(Top(ss), b) THEN SetTop(ss, StringAfter(Top(ss), b))
    ELSE IF StringCloses(Top(ss), b) THEN CloseValue(ss)
    ELSE Refuse(ss)

FeedLiteral(ss, b) ==
    LET left == Top(ss).expected
    IN  IF Head(left) # b THEN Refuse(ss)
        ELSE IF Len(left) = 1 THEN CloseValue(ss)
        ELSE SetTop(ss, [Top(ss) EXCEPT !.expected = Tail(@)])

-----------------------------------------------------------------------------
\* Keys of the schema that the object does not have yet.
Unseen(o) == DOMAIN o.node.properties \ ToSet(o.seen)

\* Mutant: additional properties are not looked at when a key ends.
KeyIsInSchema(o) == o.pending \in DOMAIN o.node.properties \ ToSet(o.seen)
\* The key that was read may be a key of the object.
KeyIsNew(o) ==
    /\ o.node.additional \/ o.pending \in DOMAIN o.node.properties
    /\ o.pending \notin ToSet(o.seen)

\* A byte of a key is white space and dropped, or keeps the key a prefix of
\* one that may still come.
FeedKey(ss, b) ==
    LET o == Top(ss)
        longer == Append(o.pending, b)
    IN  IF b = "\""
        THEN IF KeyIsNew(o)
             THEN SetTop(ss, [o EXCEPT !.seen = Append(@, o.pending), !.stage = "colon"])
             ELSE Refuse(ss)
        ELSE IF b \in {"\\", "ctl"} THEN Refuse(ss)
        ELSE IF o.node.additional \/ \E k \in Unseen(o) : IsPrefix(longer, k)
        THEN SetTop(ss, [o EXCEPT !.pending = longer])
        ELSE Refuse(ss)

ValueNode(o) ==
    LET key == Last(o.seen)
    IN  IF key \in DOMAIN o.node.properties THEN o.node.properties[key] ELSE AnyNode

\* Mutant: an object closes whatever is missing.
ClosesAlways(o) == TRUE
\* Everything that is required is there.
MayClose(o) == o.node.required \subseteq ToSet(o.seen)

\* Mutant: a comma is taken though no key is left.
GoesOnAlways(o) == TRUE
\* Another key may come.
MayGoOn(o) == o.node.additional \/ Unseen(o) # {}

FeedObject(ss, b) ==
    LET o == Top(ss)
        opening == b = "\"" /\ o.stage \in {"key_or_close", "key"}
        closing == b = "}" /\ o.stage \in {"key_or_close", "comma_or_close"}
        next == b = "," /\ o.stage = "comma_or_close"
    IN  IF o.stage = "in_key" THEN FeedKey(ss, b)
        ELSE IF opening THEN SetTop(ss, [o EXCEPT !.stage = "in_key", !.pending = <<>>])
        ELSE IF closing /\ MayClose(o) THEN CloseValue(ss)
        ELSE IF next /\ MayGoOn(o) THEN Stage(ss, "key")
        ELSE IF o.stage = "colon" /\ b = ":" THEN Stage(ss, "value")
        ELSE IF o.stage = "value" THEN StartValue(Stage(ss, "comma_or_close"), b, ValueNode(o))
        ELSE Refuse(ss)

FeedArray(ss, b) ==
    LET a == Top(ss)
    IN  IF b = "]" /\ a.stage \in {"value_or_close", "comma_or_close"} THEN CloseValue(ss)
        ELSE IF a.stage \in {"value_or_close", "value"}
        THEN StartValue(Stage(ss, "comma_or_close"), b, a.items)
        ELSE IF b = "," THEN Stage(ss, "value")
        ELSE Refuse(ss)

FeedGap(ss, b, root) ==
    IF Inside(ss, "object") THEN FeedObject(ss, b)
    ELSE IF Inside(ss, "array") THEN FeedArray(ss, b)
    ELSE IF ss.finished THEN Refuse(ss)
    ELSE StartValue(ss, b, root)

\* An integer takes neither a point nor an exponent.
FeedNumber(ss, b, root) ==
    LET f == Top(ss)
    IN  IF b \in Digits \/ (~f.integer /\ NumberTakes(f.n, b))
        THEN SetTop(ss, [f EXCEPT !.n = NumberAfter(f.n, b)])
        ELSE IF NumberMayEnd(f.n) THEN FeedGap(CloseValue(ss), b, root)
        ELSE Refuse(ss)

\* White space outside strings, literals and members of an enumeration.
FeedSpace(ss) ==
    IF ~Inside(ss, "number") THEN ss
    ELSE IF Top(ss).n.digit THEN CloseValue(ss)
    ELSE Refuse(ss)

Feed(ss, b, root) ==
    IF ss.invalid THEN ss
    ELSE IF Inside(ss, "string") THEN FeedString(ss, b)
    ELSE IF Inside(ss, "literal") THEN FeedLiteral(ss, b)
    ELSE IF Inside(ss, "enum") THEN FeedEnum(ss, b)
    ELSE IF b \in Whitespace THEN FeedSpace(ss)
    ELSE IF Inside(ss, "number") THEN FeedNumber(ss, b, root)
    ELSE FeedGap(ss, b, root)

FeedSlice(ss, bytes, root) ==
    LET feed(s, b) == Feed(s, b, root) IN FoldLeft(feed, ss, bytes)
=============================================================================
