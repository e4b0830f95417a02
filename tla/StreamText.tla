----------------------------- MODULE StreamText ------------------------------
(***************************************************************************)
(* Text as the tool-call parsers see it, and what they share: the events   *)
(* they produce (server/src/tool_call_parser/mod.rs), the search for tags  *)
(* and the "buffer before emit" discipline.                                *)
(*                                                                         *)
(* Text is a sequence of pieces: a mark such as "<", a word such as        *)
(* "tool_call", or "A" for any other text.  A tag is a sequence of pieces, *)
(* so tags share prefixes and a cut may fall inside one.  Pieces are       *)
(* ASCII, or the parser must step over character boundaries: the hermes    *)
(* and gemma4 parsers slice between the bytes of a longer character and    *)
(* panic there, which no text of these models makes them do.               *)
(*                                                                         *)
(* A parser is a record: its fields, the events of the call it is in (out) *)
(* and whether the last step made progress (more).                         *)
(***************************************************************************)
EXTENDS Integers, Sequences, FiniteSets, FiniteSetsExt, SequencesExt

Word(w) == <<"<", w, ">">>
EndWord(w) == <<"<", "/", w, ">">>

From(s, i) == SubSeq(s, i, Len(s))
Until(s, i) == SubSeq(s, 1, i)

\* The first and the last of some positions, 0 when there is none.
First(S) == IF S = {} THEN 0 ELSE Min(S)
Latest(S) == IF S = {} THEN 0 ELSE Max(S)

\* Position of the first t in s (str::find).
Find(s, t) ==
    First({i \in 1 .. Len(s) - Len(t) + 1 :
              s[i] = t[1] /\ SubSeq(s, i, i + Len(t) - 1) = t})

\* The first of several tags: no tag is a prefix of another one.
NoTag == [at |-> 0, tag |-> <<>>]
FirstTag(found) ==
    IF found = {} THEN NoTag ELSE CHOOSE f \in found : \A g \in found : f.at <= g.at
Earliest(s, tags) ==
    FirstTag({f \in {[at |-> Find(s, t), tag |-> t] : t \in tags} : f.at > 0})

\* A safe length that emits everything there is.
SafeLenAll(s, tags) == Len(s)

\* How much of s can be emitted: all but a tail that is the beginning of a tag
\* (ambiguous_tail_start).
SafeLen(s, tags) ==
    LET held == {i \in 1 .. Len(s) :
                    \E t \in tags : /\ s[i] = t[1]
                                   /\ Len(s) - i + 1 < Len(t)
                                   /\ From(s, i) = Until(t, Len(s) - i + 1)}
    IN  IF held = {} THEN Len(s) ELSE Min(held) - 1

IsSpace(c) == c = "\n"
Solid(s) == {i \in 1 .. Len(s) : ~ IsSpace(s[i])}
TrimStart(s) == From(s, IF Solid(s) = {} THEN Len(s) + 1 ELSE Min(Solid(s)))
TrimEnd(s) == Until(s, Latest(Solid(s)))

-----------------------------------------------------------------------------
(* Events.                                                                 *)

Event(kind, index, body) == [kind |-> kind, index |-> index, body |-> body]

\* ParserEvent::coalesce: neighbours of one kind and call become one.
Coalesce(events) ==
    FoldLeft(LAMBDA acc, e :
                IF /\ acc # <<>>
                   /\ e.kind \in {"text", "think", "args"}
                   /\ Last(acc).kind = e.kind
                   /\ Last(acc).index = e.index
                  THEN [acc EXCEPT ![Len(acc)].body = @ \o e.body]
                  ELSE Append(acc, e),
             <<>>, events)

Emit(p, kind, body) ==
    IF body = <<>> THEN p ELSE [p EXCEPT !.out = Append(@, Event(kind, 0, body))]
Opened(p, name) == [p EXCEPT !.out = Append(@, Event("open", p.next, name))]
Argued(p, args) == [p EXCEPT !.out = Append(@, Event("args", p.next, args))]
\* The close under the index of the call to come.
ClosedNext(p) == [p EXCEPT !.out = Append(@, Event("close", p.next + 1, <<>>)), !.next = @ + 1]

Closed(p) == [p EXCEPT !.out = Append(@, Event("close", p.next, <<>>)), !.next = @ + 1]

Stays(p) == [p EXCEPT !.more = FALSE]
Goes(p, state, buf) == [p EXCEPT !.state = state, !.buf = buf, !.more = TRUE]

\* The step of a state whose text is emitted: up to the first of the tags, which
\* leads to the state entered gives for it, or else up to what may become one.
\* At the end all of it.
EmitsUntil(p, kind, n) ==
    [Emit(p, kind, Until(p.buf, n)) EXCEPT !.buf = From(p.buf, n + 1), !.more = n > 0]
Enters(p, kind, t, state) ==
    Goes(Emit(p, kind, Until(p.buf, t.at - 1)), state, From(p.buf, t.at + Len(t.tag)))
Scan(p, fin, kind, entered) ==
    LET tags == DOMAIN entered
        t == Earliest(p.buf, tags)
    IN  IF t # NoTag THEN Enters(p, kind, t, entered[t.tag])
        ELSE EmitsUntil(p, kind, IF fin THEN Len(p.buf) ELSE SafeLen(p.buf, tags))
=============================================================================
