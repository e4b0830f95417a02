-------------------------- MODULE MCStreamPipeline ---------------------------
(***************************************************************************)
(* Instances of StreamPipeline for TLC: messages of up to MaxItems items,  *)
(* rendered as the chat template of each family of models renders them,    *)
(* with the variants the parsers know of.                                  *)
(***************************************************************************)
EXTENDS StreamPipeline

CONSTANT MaxItems

Item(bytes, kind, body) == [bytes |-> bytes, kind |-> kind, body |-> body]
TagText == <<"<", "/", "tool_call", ">">>
Value == <<"}", "A">>

HermesItems ==
    {Item(<<"A">>, "text", <<"A">>),
     Item(<<"<", "A">>, "text", <<"<", "A">>),
     Item(<<"<", "think", ">", "A", "<", "/", "think", ">">>, "think", <<"A">>)}
    \cup {Item(<<"<", "tool_call", ">", "\n", "{", "f", "{", "\"">> \o v
                  \o <<"\"", "}", "}", "\n", "<", "/", "tool_call", ">">>, "call", v) :
            v \in {Value, TagText}}

QwenCall(open, v, close) ==
    Item(open \o <<"\n", "<", "parameter=", "k", ">", "\n">> \o v
           \o <<"\n", "<", "/", "parameter", ">", "\n", "<", "/", "function", ">", "\n">>
           \o close, "call", v)
QwenFunction == <<"<", "function=", "f", ">">>
QwenOpenBracket == Item(<<"<", "/", "A">>, "text", <<"<", "/", "A">>)
QwenBareCall == QwenCall(<<"<", "f", ">">>, <<"A">>, TagText)
QwenItems ==
    {Item(<<"b1", "b2">>, "text", <<"glyph">>),
     Item(<<"b1", "A">>, "text", <<"fffd", "A">>),
     QwenOpenBracket,
     Item(<<"<", "think", ">", "A", "<", "/", "think", ">">>, "think", <<"A">>),
     QwenCall(<<"<", "tool_call", ">", "\n">> \o QwenFunction, Value, TagText),
     QwenCall(<<"<", "tool_call", ">", "<", "f", ">">>, <<"\n", "A">>, TagText),
     QwenBareCall}

GemmaOpen == <<"<", "|", "tool_call", ">">>
GemmaClose == <<"<", "tool_call", "|", ">">>
GemmaQuote == <<"<", "|", "\"", "|", ">">>
GemmaItems ==
    {Item(<<"b1", "b2">>, "text", <<"glyph">>),
     Item(<<"<", "|", "A">>, "text", <<"<", "|", "A">>),
     Item(<<"<", "|", "channel", ">", "A", "<", "channel", "|", ">">>, "think", <<"A">>),
     Item(<<"<", "turn", "|", ">">>, "none", <<>>),
     Item(<<"<", "|", "tool_response", ">", "A", "<", "tool_response", "|", ">">>, "none", <<>>),
     Item(GemmaOpen \o <<"call:", "f", "{", "k">> \o GemmaQuote \o Value \o GemmaQuote
            \o <<"}">> \o GemmaClose, "call", Value),
     Item(<<"<", "|", "call:", "f", "(", "k", "\"", ")", "\"", ")">> \o GemmaClose,
          "call", <<")">>),
     Item(<<"<", "|", "tool", ">", "f">> \o GemmaClose, "call", <<>>),
     Item(<<"<", "|", "tool_code", "|", ">", "f", "\n", "{", "\"", "A", "\"", "}",
            "<", "/", "tool_code", ">">>, "call", <<"A">>)}

\* What the items of a message mean, calls numbered.
RECURSIVE Meaning(_, _)
Meaning(items, n) ==
    IF items = <<>> THEN <<>>
    ELSE LET i == Head(items)
         IN  IF i.kind = "call"
               THEN <<Event("open", n, <<"f">>), Event("args", n, i.body),
                      Event("close", n, <<>>)>> \o Meaning(Tail(items), n + 1)
               ELSE IF i.kind = "none" THEN Meaning(Tail(items), n)
               ELSE <<Event(i.kind, 0, i.body)>> \o Meaning(Tail(items), n)

\* All sequences but those with a bare <f> somewhere behind a "<" of text: pushed
\* at once the bracket pairs off with the ">" of the <f>, which is not seen to be
\* a call (find_function_open), cut behind the bracket it is.
ItemSeqs(items) ==
    {s \in UNION {[1 .. n -> items] : n \in 1 .. MaxItems} :
        \A i, j \in DOMAIN s : i < j => s[i] # QwenOpenBracket \/ s[j] # QwenBareCall}
Bytes(s) == FlattenSeq([i \in 1 .. Len(s) |-> s[i].bytes])

\* Each message as it is, with its first k bytes fed to the parser as a forced
\* opening, or after a beginning of its own.
Plain(family, items) ==
    {[family |-> family, start |-> "text", forced |-> <<>>, bytes |-> Bytes(s),
      meant |-> Coalesce(Meaning(s, 0))] : s \in ItemSeqs(items)}
Forced(family, call, k) ==
    {[family |-> family, start |-> "text", forced |-> Until(call.bytes, k),
      bytes |-> From(call.bytes, k + 1), meant |-> Meaning(<<call>>, 0)]}
After(family, items, start, bytes, meant) ==
    {[family |-> family, start |-> start, forced |-> <<>>, bytes |-> bytes \o i.bytes,
      meant |-> Coalesce(meant \o Meaning(<<i>>, 0))] : i \in items}

Thinking == <<"A", "<", "/", "think", ">">>
Thought == <<Event("think", 0, <<"A">>)>>

\* A call without its close, and another one or just its parameters behind it.
Unclosed(open) ==
    LET a == QwenCall(<<"<", "tool_call", ">">> \o QwenFunction, <<"A">>, <<>>)
        b == QwenCall(open, <<"A">>, TagText)
    IN  [family |-> "qwen", start |-> "text", forced |-> <<>>, bytes |-> Bytes(<<a, b>>),
         meant |-> Meaning(<<a, b>>, 0)]

MCMessages ==
    {Unclosed(QwenFunction), Unclosed(<<>>)} \cup
    Plain("hermes", HermesItems) \cup Plain("qwen", QwenItems) \cup Plain("gemma", GemmaItems)
    \cup UNION {Forced("hermes", c, 5) : c \in {i \in HermesItems : i.kind = "call"}}
    \cup Forced("qwen", QwenCall(<<"<", "tool_call", ">", "\n">> \o QwenFunction, Value, TagText), 6)
    \cup After("hermes", HermesItems, "think", Thinking, Thought)
    \cup After("qwen", QwenItems, "think", Thinking, Thought)
    \cup After("gemma", GemmaItems, "text", <<"thought", "\n">>, <<>>)
    \cup After("gemma", GemmaItems, "text",
               <<"thought", "\n", "<", "|", "turn", ">", "model", "\n">>, <<>>)
=============================================================================
