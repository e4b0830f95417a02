----------------------------- MODULE QwenParser ------------------------------
(***************************************************************************)
(* The parser of Qwen's calls in XML, with its forgiveness for calls that  *)
(* lack their wrapper, their close or both                                 *)
(* (server/src/tool_call_parser/qwen3_coder.rs).                           *)
(***************************************************************************)
EXTENDS StreamText

OpenTags == {Word("tool_call"), Word("think")}
FunctionTag == <<"<", "function=">>
ParameterTag == <<"<", "parameter=">>

Start(state) == [state |-> state, buf |-> <<>>, next |-> 0, out |-> <<>>, more |-> FALSE,
                 name |-> <<>>, key |-> <<>>, params |-> <<>>]

\* Words of letters, digits, "_", "-" and ".".
IsNameChar(c) == c \in {"A", "f", "g", "k", "tool_call", "think", "function", "parameter"}
IsFunctionName(s) ==
    /\ s # <<>>
    /\ \A i \in 1 .. Len(s) : IsNameChar(s[i])
    /\ s \notin {<<"tool_call">>, <<"think">>}

\* A bare <NAME>, which what follows it shows to be a function; from position i
\* on, one pair of brackets after the other.
RECURSIVE BareOpen(_, _)
IsFunctionOpen(inner, after) ==
    /\ IsFunctionName(inner)
    /\ IsPrefix(ParameterTag, after) \/ IsPrefix(EndWord("function"), after)
BareOpen(s, i) ==
    LET lt == Find(From(s, i), <<"<">>) + i - 1
        gt == Find(From(s, lt), <<">">>) + lt - 1
    IN  IF lt < i \/ gt < lt THEN NoTag
        ELSE IF IsFunctionOpen(SubSeq(s, lt + 1, gt - 1), TrimStart(From(s, gt + 1)))
          THEN [at |-> lt, tag |-> SubSeq(s, lt, gt)]
        ELSE BareOpen(s, gt + 1)

\* find_function_open: <function=NAME>, or a bare <NAME> if that is earlier.
WrappedOpen(s, at) ==
    LET gt == Find(From(s, at + 2), <<">">>)
    IN  IF at = 0 \/ gt = 0 THEN NoTag ELSE [at |-> at, tag |-> SubSeq(s, at, at + 1 + gt)]
EarlierOpen(wrapped, bare) ==
    IF wrapped # NoTag /\ (bare = NoTag \/ wrapped.at <= bare.at) THEN wrapped ELSE bare
FunctionOpen(s) == EarlierOpen(WrappedOpen(s, Find(s, FunctionTag)), BareOpen(s, 1))
NameOf(tag) == SubSeq(tag, IF IsPrefix(FunctionTag, tag) THEN 3 ELSE 2, Len(tag) - 1)

LastLt(s) == Latest({i \in 1 .. Len(s) : s[i] = "<"})

\* bare_open_holdback, as a safe length: a bare <NAME> at the end, complete or
\* not, and with the beginning of what would show it to be a function.
Complete(s, otherwise) ==
    LET lt == LastLt(s)
    IN  IF s # <<>> /\ Last(s) = ">" /\ lt > 0 /\ IsFunctionName(SubSeq(s, lt + 1, Len(s) - 1))
          THEN lt - 1 ELSE otherwise
BareSafeLen(s) ==
    LET t    == TrimEnd(s)
        lt   == LastLt(t)
        part == From(t, lt)
    IN  IF t = <<>> THEN Len(s)
        ELSE IF Last(t) = ">" THEN Complete(t, Len(s))
        ELSE IF lt = 0 THEN Len(s)
        ELSE IF IsPrefix(part, ParameterTag) \/ IsPrefix(part, EndWord("function"))
          THEN LET u == TrimEnd(Until(t, lt - 1))
               IN  IF u = <<>> THEN lt - 1 ELSE Complete(u, Len(s))
        ELSE IF \A i \in 2 .. Len(part) : IsNameChar(part[i]) THEN lt - 1
        ELSE Len(s)

OpensFunction(p, f) ==
    Goes(Opened([p EXCEPT !.name = NameOf(f.tag), !.params = <<>>], NameOf(f.tag)),
         "function", From(p.buf, f.at + Len(f.tag)))

\* Text with its first tag t and its first function f.
TextWith(p, fin, t, f) ==
    IF f # NoTag /\ (t = NoTag \/ f.at < t.at)
      THEN OpensFunction(Emit(p, "text", Until(p.buf, f.at - 1)), f)
    ELSE IF t # NoTag
      THEN Enters(p, "text", t, IF t.tag = Word("think") THEN "think" ELSE "call")
    ELSE EmitsUntil(p, "text", IF fin THEN Len(p.buf)
                               ELSE Min({SafeLen(p.buf, OpenTags \cup {FunctionTag}),
                                         BareSafeLen(p.buf)}))
StepText(p, fin) == TextWith(p, fin, Earliest(p.buf, OpenTags), FunctionOpen(p.buf))

StepInThink(p, fin) == Scan(p, fin, "think", [t \in {EndWord("think")} |-> "text"])

CallWith(p, f) == IF f = NoTag THEN Stays(p) ELSE OpensFunction(p, f)
StepInToolCall(p) == CallWith(p, FunctionOpen(p.buf))

\* A parameter set twice keeps its last value.
WithParam(params, key, value) ==
    Append(SelectSeq(params, LAMBDA kv : kv[1] # key), <<key, value>>)
Values(params) == FlattenSeq([i \in 1 .. Len(params) |-> params[i][2]])

StepInFunctionBody(p) ==
    LET t   == Earliest(p.buf, {ParameterTag, EndWord("function")})
        buf == From(p.buf, t.at)
        gt  == Find(buf, <<">">>)
    IN  IF t = NoTag THEN Stays(p)
        ELSE IF t.tag = ParameterTag
          THEN IF gt = 0 THEN Stays([p EXCEPT !.buf = buf])
               ELSE Goes([p EXCEPT !.key = SubSeq(buf, 3, gt - 1)], "parameter",
                         From(buf, gt + 1))
        ELSE Goes(Argued([p EXCEPT !.params = <<>>], Values(p.params)), "awaiting",
                  From(buf, Len(t.tag) + 1))

\* The value without one newline at either end.
Stripped(s) ==
    LET a == IF s # <<>> /\ s[1] = "\n" THEN Tail(s) ELSE s
    IN  IF a # <<>> /\ Last(a) = "\n" THEN Front(a) ELSE a

StepInParameterBody(p) ==
    LET close == EndWord("parameter")
        at    == Find(p.buf, close)
    IN  IF at = 0 THEN Stays(p)
        ELSE Goes([p EXCEPT !.params = WithParam(@, p.key, Stripped(Until(p.buf, at - 1))),
                            !.key = <<>>],
                  "function", From(p.buf, at + Len(close)))

\* The close, or another call or parameter without it: the call is closed, and
\* a parameter opens one of the same name.
StepAwaitingClose(p) ==
    LET t   == Earliest(p.buf, {EndWord("tool_call"), FunctionTag, ParameterTag})
        buf == From(p.buf, t.at)
    IN  IF t = NoTag THEN Stays(p)
        ELSE IF t.tag = FunctionTag THEN Goes(Closed(p), "call", buf)
        ELSE IF t.tag # ParameterTag
          THEN Goes(Closed(p), "text", From(buf, Len(t.tag) + 1))
        ELSE IF p.name = <<>> THEN Stays([Closed(p) EXCEPT !.buf = buf])
        ELSE Goes(Opened(Closed(p), p.name), "function", buf)

Step(p, fin) ==
    CASE p.state = "text"      -> StepText(p, fin)
      [] p.state = "think"     -> StepInThink(p, fin)
      [] p.state = "call"      -> StepInToolCall(p)
      [] p.state = "function"  -> StepInFunctionBody(p)
      [] p.state = "parameter" -> StepInParameterBody(p)
      [] p.state = "awaiting"  -> StepAwaitingClose(p)

\* Steps until one makes no progress.
RECURSIVE Drain(_, _)
Drain(p, fin) == IF p.more THEN Drain(Step(p, fin), fin) ELSE p

Push(p, chunk) == Drain([p EXCEPT !.buf = @ \o chunk, !.out = <<>>, !.more = TRUE], FALSE)

\* What is left of an unfinished call is text.
Ended(q) ==
    LET b == q.buf
    IN  [Emit(q, "text", IF b # <<>> /\ b[1] = "\n" THEN Tail(b) ELSE b) EXCEPT !.buf = <<>>]
Finish(p) == Ended(Drain([p EXCEPT !.out = <<>>, !.more = TRUE], TRUE))
=============================================================================
