---------------------------- MODULE HermesParser -----------------------------
(***************************************************************************)
(* The parser of <tool_call> JSON </tool_call>                             *)
(* (server/src/tool_call_parser/hermes.rs).                                *)
(***************************************************************************)
EXTENDS StreamText

OpenTags == {Word("tool_call"), Word("think")}

Start(state) == [state |-> state, buf |-> <<>>, next |-> 0, out |-> <<>>, more |-> FALSE]

\* json_object_span: the first object whose braces balance; those in strings do
\* not count.
JsonSpan(s) ==
    LET scan ==
            FoldLeft(LAMBDA a, c :
                        LET b == [a EXCEPT !.i = @ + 1]
                        IN  IF a.last > 0 THEN a
                            ELSE IF a.first = 0 THEN IF c = "{" THEN [b EXCEPT !.first = b.i,
                                                                              !.depth = 1] ELSE b
                            ELSE IF c = "\"" THEN [b EXCEPT !.quoted = ~ @]
                            ELSE IF a.quoted THEN b
                            ELSE IF c = "{" THEN [b EXCEPT !.depth = @ + 1]
                            ELSE IF c = "}" THEN [b EXCEPT !.depth = @ - 1,
                                                          !.last = IF a.depth = 1 THEN b.i ELSE 0]
                            ELSE b,
                     [i |-> 0, first |-> 0, last |-> 0, depth |-> 0, quoted |-> FALSE], s)
    IN  [first |-> scan.first, last |-> scan.last]

\* Of the object, the name and the value of its arguments (a quoted string).
NameIn(json) == IF json[2] \in {"\"", "}"} THEN <<>> ELSE <<json[2]>>
ArgsIn(json) ==
    LET q == {i \in 1 .. Len(json) : json[i] = "\""}
    IN  IF Cardinality(q) < 2 THEN <<>>
        ELSE SubSeq(json, (CHOOSE i \in q : \A j \in q : i <= j) + 1,
                          (CHOOSE i \in q : \A j \in q : i >= j) - 1)

StepText(p, fin) ==
    Scan(p, fin, "text", [t \in OpenTags |-> IF t = Word("think") THEN "think" ELSE "tool"])

StepInThink(p, fin) == Scan(p, fin, "think", [t \in {EndWord("think")} |-> "text"])

\* The call is known and closed with its object; at the end an opening without
\* one is given back as text.
StepInTool(p, fin) ==
    LET s    == JsonSpan(p.buf)
        json == SubSeq(p.buf, s.first, s.last)
    IN  IF s.last > 0
          THEN Goes(Closed(Argued(Opened(p, NameIn(json)), ArgsIn(json))), "awaiting",
                    From(p.buf, s.last + 1))
        ELSE IF fin /\ TrimStart(p.buf) # <<>>
          THEN Goes(Emit(p, "text", Word("tool_call") \o p.buf), "text", <<>>)
        ELSE Stays(p)

StepAwaitingClose(p, fin) ==
    LET close == EndWord("tool_call")
        rest  == TrimStart(p.buf)
        at    == Find(rest, close)
    IN  IF at > 0
          THEN Goes(p, "text", From(rest, at + Len(close)))
        ELSE IF ~ fin /\ IsPrefix(rest, close) THEN Stays(p)
        ELSE IF rest = <<>> THEN Stays([p EXCEPT !.buf = <<>>, !.state = "text"])
        ELSE Goes(p, "text", p.buf)

Step(p, fin) ==
    CASE p.state = "text"     -> StepText(p, fin)
      [] p.state = "think"    -> StepInThink(p, fin)
      [] p.state = "tool"     -> StepInTool(p, fin)
      [] p.state = "awaiting" -> StepAwaitingClose(p, fin)

\* Steps until one makes no progress.
RECURSIVE Drain(_, _)
Drain(p, fin) == IF p.more THEN Drain(Step(p, fin), fin) ELSE p

Push(p, chunk) == Drain([p EXCEPT !.buf = @ \o chunk, !.out = <<>>, !.more = TRUE], FALSE)

\* What is left behind the last step.
Ended(q) ==
    IF q.buf = <<>> THEN q
    ELSE [Emit(q, IF q.state = "think" THEN "think" ELSE "text", q.buf)
            EXCEPT !.buf = <<>>, !.state = "text"]
Finish(p) == Ended(Drain([p EXCEPT !.out = <<>>, !.more = TRUE], TRUE))
=============================================================================
