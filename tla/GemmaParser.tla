----------------------------- MODULE GemmaParser -----------------------------
(***************************************************************************)
(* The parser of Gemma's calls (server/src/tool_call_parser/gemma4.rs):    *)
(* five openings, bodies in braces or parentheses, tool_code blocks,       *)
(* reasoning channels, echoes of the prompt's scaffolding that are dropped.*)
(***************************************************************************)
EXTENDS StreamText

OpenMark(w) == <<"<", "|", w, ">">>
CloseMark(w) == <<"<", w, "|", ">">>
BothMark(w) == <<"<", "|", w, "|", ">">>
Quote == BothMark("\"")

CallOpens == {OpenMark("tool_call"), BothMark("tool_call"), OpenMark("tool"),
              <<"<", "|", "call:">>, Word("tool_call")}
ChannelOpens == {OpenMark("channel"), Word("think")}
ChannelCloses == {CloseMark("channel"), EndWord("think")}
DropTokens == {CloseMark("turn"), OpenMark("end_of_turn"), Word("end_of_turn"),
               BothMark("file_separator"), BothMark("endoftext")}
OpenTags == CallOpens \cup ChannelOpens \cup ChannelCloses \cup DropTokens
              \cup {BothMark("tool_code"), OpenMark("tool_response"), OpenMark("turn")}

\* A parser drops the echo of the prompt's end before anything else.
Start(state) == [state |-> state, buf |-> <<>>, next |-> 0, out |-> <<>>, more |-> FALSE,
                 args |-> <<>>, depth |-> 0, quoted |-> FALSE, echo |-> TRUE]

-----------------------------------------------------------------------------
(* The echo: lines of markers and lower-case words.                        *)

Markers == {"<", ">", "|", "*", "/"}
ScaffoldWords == {"turn", "channel", "thought", "model"}
Scaffold == Markers \cup ScaffoldWords \cup {"tool", "think", "f", "k", "\n"}

CouldExtend(s) ==
    LET t == TrimStart(s)
    IN  \/ t = <<>>
        \/ /\ Range(t) \subseteq Scaffold
           /\ Range(t) \cap {"<", ">", "|"} # {} \/ t[1] = "thought"

\* A line without a marker is never one.
IsScaffoldingLineMarked(s) ==
    LET t == TrimEnd(TrimStart(s))
    IN  /\ Range(t) \subseteq Scaffold
        /\ Range(t) \cap {"<", ">", "|"} # {} /\ Range(t) \cap ScaffoldWords # {}

IsScaffoldingLine(s) ==
    LET t == TrimEnd(TrimStart(s))
    IN  /\ t # <<>>
        /\ Range(t) \subseteq Scaffold
        /\ \/ Range(t) \cap {"<", ">", "|"} # {} /\ Range(t) \cap ScaffoldWords # {}
           \/ t[1] = "thought" /\ Range(Tail(t)) \subseteq Markers \cup {"\n"}

RECURSIVE ConsumeEcho(_, _)
ConsumeEcho(p, fin) ==
    LET nl == Find(p.buf, <<"\n">>)
    IN  IF ~ p.echo THEN p
        ELSE IF nl > 0
          THEN IF IsScaffoldingLine(Until(p.buf, nl - 1))
                 THEN ConsumeEcho([p EXCEPT !.buf = From(p.buf, nl + 1)], fin)
                 ELSE [p EXCEPT !.echo = FALSE]
        ELSE IF ~ fin /\ CouldExtend(p.buf) THEN Stays(p)
        ELSE [p EXCEPT !.echo = FALSE,
                       !.buf = IF fin /\ IsScaffoldingLine(@) THEN <<>> ELSE @]

-----------------------------------------------------------------------------
(* Arguments.                                                              *)

\* Of a body, the value it sets: what two quotes enclose.
Between(s, q) ==
    LET a == Find(s, q)
        b == Find(From(s, a + Len(q)), q)
    IN  IF a = 0 \/ b = 0 THEN <<>> ELSE SubSeq(s, a + Len(q), a + Len(q) + b - 2)
NativeArgs(body) == Between(body, Quote)
PythonArgs(body) == Between(body, <<"\"">>)

\* matching_paren: the bracket that matches the one at the start of s, brackets
\* in strings not counted.
Matching(s, open, shut) ==
    FoldLeft(LAMBDA a, c :
                LET b == [a EXCEPT !.i = @ + 1]
                IN  IF a.last > 0 THEN a
                    ELSE IF c = "\"" THEN [b EXCEPT !.quoted = ~ @]
                    ELSE IF a.quoted THEN b
                    ELSE IF c = open THEN [b EXCEPT !.depth = @ + 1]
                    ELSE IF c = shut THEN [b EXCEPT !.depth = @ - 1,
                                                   !.last = IF a.depth = 1 THEN b.i ELSE 0]
                    ELSE b,
             [i |-> 0, last |-> 0, depth |-> 0, quoted |-> FALSE], s).last

NoCode == [name |-> <<>>, args |-> <<>>]

\* parse_tool_code_block: a name and an object, or a call with named arguments.
ToolCode(block) ==
    LET body(open, shut) ==
            LET i == Find(block, <<open>>)
            IN  SubSeq(block, i, i - 1 + Matching(From(block, i), open, shut))
        name(open) == SelectSeq(Until(block, Find(block, <<open>>) - 1),
                                LAMBDA c : c \in {"f", "g"})
        reads(open, shut) ==
            /\ Find(block, <<open>>) > 0 /\ name(open) # <<>>
            /\ body(open, shut) # <<>>
    IN  IF reads("{", "}")
          THEN [name |-> <<name("{")[1]>>, args |-> PythonArgs(body("{", "}"))]
        ELSE IF reads("(", ")") /\ ("k" \in Range(body("(", ")")) \/ Len(body("(", ")")) = 2)
          THEN [name |-> <<name("(")[1]>>, args |-> PythonArgs(body("(", ")"))]
        ELSE NoCode

-----------------------------------------------------------------------------
(* Steps.                                                                  *)

Enter(t) ==
    CASE t \in CallOpens                 -> "header"
      [] t \in ChannelOpens              -> "channel"
      [] t = BothMark("tool_code")       -> "code"
      [] t = OpenMark("tool_response")   -> "response"
      [] t = OpenMark("turn")            -> "turn"
      [] t \in ChannelCloses \cup DropTokens -> "text"

StepText(p, fin) == Scan(p, fin, "text", [t \in OpenTags |-> Enter(t)])

StepInChannel(p, fin) == Scan(p, fin, "think", [t \in ChannelCloses |-> "text"])

\* Dropped through its end, or all of it when the text ends first.
Dropped(p, fin, tag) ==
    LET at == Find(p.buf, tag)
    IN  IF at > 0 THEN Goes(p, "text", From(p.buf, at + Len(tag)))
        ELSE IF fin THEN Stays([p EXCEPT !.buf = <<>>, !.state = "text"])
        ELSE Stays(p)
StepInToolResponse(p, fin) == Dropped(p, fin, CloseMark("tool_response"))
StepInTurnHeader(p, fin) == Dropped(p, fin, <<"\n">>)

\* NAME{, NAME(...) or NAME alone before the close, after an optional "call:".
StepInCallHeader(p) ==
    LET rest  == IF p.buf # <<>> /\ p.buf[1] = "call:" THEN Tail(p.buf) ELSE p.buf
        open  == Earliest(rest, {<<"{">>, <<"(">>})
        close == Find(rest, CloseMark("tool_call"))
        name(i) == TrimEnd(TrimStart(Until(rest, i - 1)))
        body  == From(rest, open.at)
        shut  == Matching(body, "(", ")")
    IN  IF p.buf = <<>> THEN Stays(p)
        ELSE IF close > 0 /\ (open = NoTag \/ close < open.at)
          THEN Goes(Argued(Opened(p, name(close)), <<>>), "awaiting", From(rest, close))
        ELSE IF open = NoTag THEN Stays(p)
        ELSE IF open.tag = <<"{">>
          THEN Goes(Opened([p EXCEPT !.args = <<>>, !.depth = 1, !.quoted = FALSE],
                           name(open.at)), "args", Tail(body))
        ELSE IF shut = 0 THEN Stays(p)
        ELSE Goes(Argued(Opened(p, name(open.at)), PythonArgs(Until(body, shut))), "awaiting",
                  From(body, shut + 1))

\* The walk over an argument body from position i: where it stops, the closing
\* brace if it found it, and the nesting and quoting there.
RECURSIVE Walk(_, _, _, _)
Walk(s, i, depth, quoted) ==
    LET tail == From(s, i)
        stop(closed) == [at |-> i, closed |-> closed, depth |-> depth, quoted |-> quoted]
    IN  IF i > Len(s) THEN stop(FALSE)
        ELSE IF IsPrefix(Quote, tail) THEN Walk(s, i + Len(Quote), depth, ~ quoted)
        ELSE IF IsPrefix(tail, Quote) THEN stop(FALSE)
        ELSE IF quoted THEN Walk(s, i + 1, depth, quoted)
        ELSE IF s[i] \in {"{", "["} THEN Walk(s, i + 1, depth + 1, quoted)
        ELSE IF s[i] = "]" THEN Walk(s, i + 1, IF depth = 0 THEN 0 ELSE depth - 1, quoted)
        ELSE IF s[i] = "}" /\ depth = 1 THEN stop(TRUE)
        ELSE IF s[i] = "}" THEN Walk(s, i + 1, IF depth = 0 THEN 0 ELSE depth - 1, quoted)
        ELSE Walk(s, i + 1, depth, quoted)

StepInArgs(p) ==
    LET w    == Walk(p.buf, 1, p.depth, p.quoted)
        args == p.args \o Until(p.buf, w.at - 1)
    IN  IF w.closed
          THEN Goes(Argued([p EXCEPT !.args = <<>>, !.depth = 0, !.quoted = FALSE],
                           NativeArgs(args)), "awaiting", From(p.buf, w.at + 1))
          ELSE [p EXCEPT !.args = args, !.depth = w.depth, !.quoted = w.quoted,
                         !.buf = From(p.buf, w.at), !.more = w.at > 1]

StepAwaitingClose(p) ==
    LET t == Earliest(p.buf, {CloseMark("tool_call"), EndWord("tool_call"), EndWord("tool_code")})
    IN  IF t = NoTag THEN Stays(p)
        ELSE Goes(Closed(p), "text", From(p.buf, t.at + Len(t.tag)))

\* A block is a call if it can be read as one and text, with its opening, if not.
CodeBlock(p, block) ==
    LET c == ToolCode(block)
    IN  IF c = NoCode THEN Emit(p, "text", BothMark("tool_code") \o block)
        ELSE Closed(Argued(Opened(p, c.name), c.args))
StepInToolCode(p, fin) ==
    LET t == Earliest(p.buf, {EndWord("tool_code"), CloseMark("tool_call")})
    IN  IF t # NoTag
          THEN Goes(CodeBlock(p, Until(p.buf, t.at - 1)), "text", From(p.buf, t.at + Len(t.tag)))
        ELSE IF fin THEN Goes(CodeBlock(p, p.buf), "text", <<>>)
        ELSE Stays(p)

Step(p, fin) ==
    CASE p.state = "text"     -> StepText(p, fin)
      [] p.state = "channel"  -> StepInChannel(p, fin)
      [] p.state = "header"   -> StepInCallHeader(p)
      [] p.state = "args"     -> StepInArgs(p)
      [] p.state = "awaiting" -> StepAwaitingClose(p)
      [] p.state = "code"     -> StepInToolCode(p, fin)
      [] p.state = "response" -> StepInToolResponse(p, fin)
      [] p.state = "turn"     -> StepInTurnHeader(p, fin)

\* Steps until one makes no progress.
RECURSIVE Drain(_, _)
Drain(p, fin) == IF p.more THEN Drain(Step(p, fin), fin) ELSE p

Push(p, chunk) ==
    Drain(ConsumeEcho([p EXCEPT !.buf = @ \o chunk, !.out = <<>>, !.more = TRUE], FALSE), FALSE)

\* A call that is still open is closed, one that has not begun is text.
Ended(q) ==
    CASE q.state = "header" ->
            [Emit(q, "text", OpenMark("tool_call") \o q.buf) EXCEPT !.buf = <<>>, !.state = "text"]
      [] q.state = "args" ->
            [Closed(Argued(q, <<>>)) EXCEPT !.args = <<>>, !.state = "text"]
      [] q.state = "awaiting" -> [Closed(q) EXCEPT !.state = "text"]
      [] OTHER -> q
Finish(p) ==
    Ended(Drain(ConsumeEcho([p EXCEPT !.out = <<>>, !.more = TRUE], TRUE), TRUE))
=============================================================================
