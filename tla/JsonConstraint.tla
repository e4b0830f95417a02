--------------------------- MODULE JsonConstraint ----------------------------
(***************************************************************************)
(* What a decode is constrained by (JsonConstraint of                      *)
(* runtime/src/json_schema.rs): the automaton of json_object, which        *)
(* JsonStream feeds any text, or that of a schema, which is fed here.      *)
(*                                                                         *)
(* A case is a schema, the bytes that are fed and how many, and how long   *)
(* the members are that the text is held against.  grammar reads the text  *)
(* as JSON with the two extras that the automaton of a schema takes: its   *)
(* numbers, and white space in keys.  out is the text without the white    *)
(* space that JSON says has no meaning.                                    *)
(***************************************************************************)
EXTENDS JsonStream, SchemaText

CONSTANT Cases

ObjectMode == [kind |-> "json_object"]

ASSUME LettersAssumption == Letters \subseteq Bytes \ (Whitespace \cup {"\"", "\\", "ctl"})

VARIABLES
    case,     \* ObjectMode, or a schema and its bounds
    ss,       \* the automaton of the schema
    grammar,  \* the reference grammar
    out       \* the bytes that mean something

schemaVars == <<case, ss, grammar, out>>
allVars == <<vars, schemaVars>>

Schema == INSTANCE JsonSchema
Loose == INSTANCE JsonText WITH Lenient <- {"number", "key"}

Members == [c \in Cases |-> Texts(c.node, c.alphabet, c.whole)]
Unspaced(w) == SelectSeq(w, LAMBDA b : b \notin Whitespace)
Beginnings == [c \in Cases |-> UNION {Prefixes(w) : w \in Members[c]}]
UnspacedBeginnings == [c \in Cases |-> {Unspaced(w) : w \in Beginnings[c]}]
UnspacedMembers == [c \in Cases |-> {Unspaced(w) : w \in Members[c]}]

Begin ==
    /\ Init
    /\ case \in {ObjectMode} \cup Cases
    /\ ss = Fresh
    /\ grammar = Loose!Start
    /\ out = <<>>

InText == Loose!Is(grammar, Loose!Strings)
\* White space counts inside strings only.
Counts(b) == b \notin Whitespace \/ InText

FeedObjectMode ==
    /\ case = ObjectMode
    /\ Next
    /\ UNCHANGED schemaVars

FeedSchema(b) ==
    /\ case # ObjectMode
    /\ b \in case.alphabet
    /\ ~ss.invalid
    /\ InText => b \in Letters \cup Whitespace \cup {"\""}
    /\ Counts(b) => Len(out) < case.fed
    /\ ss' = Schema!Feed(ss, b, case.node)
    /\ grammar' = Loose!Read(grammar, b)
    /\ out' = IF Counts(b) THEN Append(out, b) ELSE out
    /\ UNCHANGED <<case, vars>>

FeedEither == FeedObjectMode \/ \E b \in Bytes : FeedSchema(b)

ConstraintSpec == Begin /\ [][FeedEither]_allVars

-----------------------------------------------------------------------------
OfSchema == case # ObjectMode

(* What is complete is JSON but for the two extras, and a value of the       *)
(* schema, white space in keys aside: required keys are there, none is there *)
(* twice, every value has its type ("a schema-valid, structurally-complete   *)
(* value").                                                                  *)
CompleteIsMember ==
    OfSchema /\ IsComplete(ss) =>
        Loose!Ended(grammar) /\ Unspaced(out) \in UnspacedMembers[case]

(* No value of the schema is refused, however it is spaced.                  *)
MembersAreAccepted ==
    OfSchema /\ ~Loose!Broken(grammar) /\ ss.invalid => out \notin Beginnings[case]

(* What is accepted can still become a value of the schema: the automaton    *)
(* never leads the sampler into a corner.                                    *)
AcceptedCanComplete ==
    OfSchema /\ ~ss.invalid =>
        ~Loose!Broken(grammar) /\ Unspaced(out) \in UnspacedBeginnings[case]
=============================================================================
