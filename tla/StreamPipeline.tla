--------------------------- MODULE StreamPipeline ----------------------------
(***************************************************************************)
(* A streamed answer: tokens are turned into text as they come             *)
(* (push_and_emit of run_completion_blocking_streaming), the text is fed   *)
(* to a tool-call parser and its events are sent to the client, as they    *)
(* are by /v1/chat/completions (stream_completion_sse) and in content      *)
(* blocks by /v1/messages (stream_messages_anthropic_sse).                 *)
(*                                                                         *)
(* The model says what a message holds, a sequence of bytes of which each  *)
(* token is one or more: the tokenizer (external) concatenates the bytes   *)
(* of tokens.  "b1" and "b2" are the bytes of one character, every other   *)
(* piece stands for its own bytes.  Generation may end at any point.       *)
(***************************************************************************)
EXTENDS MessagesStream

Hermes == INSTANCE HermesParser
Qwen == INSTANCE QwenParser
Gemma == INSTANCE GemmaParser

CONSTANTS
    Messages,  \* [family, start, forced, bytes, meant]: what is said, and meant
    MaxBytes   \* bound: bytes of a token

VARIABLES
    message, parallel,  \* the request: its message, parallel_tool_calls
    api,                \* "chat" or "messages"
    connected,          \* the client still reads
    phase,              \* "prefix", "decode", "flush", "done"
    made,               \* bytes generated
    decode_cursor, pending_emitted_in_segment, emitted_text,
    parser,
    events,             \* sent, coalesced
    blocks,             \* those of /v1/messages
    has_tool_calls, abort_after_close,
    finish_reason

vars == <<message, parallel, api, connected, phase, made, decode_cursor,
          pending_emitted_in_segment, emitted_text, parser, events, blocks,
          has_tool_calls, abort_after_close, finish_reason>>

-----------------------------------------------------------------------------
(* The parser of the format.                                               *)

ParserStart(m) ==
    CASE m.family = "hermes" -> Hermes!Start(m.start)
      [] m.family = "qwen"   -> Qwen!Start(m.start)
      [] m.family = "gemma"  -> Gemma!Start(m.start)

Push(m, p, text) ==
    IF text = <<>> THEN [p EXCEPT !.out = <<>>]
    ELSE CASE m.family = "hermes" -> Hermes!Push(p, text)
           [] m.family = "qwen"   -> Qwen!Push(p, text)
           [] m.family = "gemma"  -> Gemma!Push(p, text)

Finish(m, p) ==
    CASE m.family = "hermes" -> Hermes!Finish(p)
      [] m.family = "qwen"   -> Qwen!Finish(p)
      [] m.family = "gemma"  -> Gemma!Finish(p)

-----------------------------------------------------------------------------
(* Text of bytes: what is no character decodes to U+FFFD.                  *)

RECURSIVE Decode(_)
Decode(bs) ==
    IF bs = <<>> THEN <<>>
    ELSE IF IsPrefix(<<"b1", "b2">>, bs) THEN <<"glyph">> \o Decode(From(bs, 3))
    ELSE IF Head(bs) \in {"b1", "b2"} THEN <<"fffd">> \o Decode(Tail(bs))
    ELSE <<Head(bs)>> \o Decode(Tail(bs))

\* All of the text.
SafeNone(text) == text

\* Without the replacement characters at its end.
Safe(text) == Until(text, Latest({i \in 1 .. Len(text) : text[i] # "fffd"}))

-----------------------------------------------------------------------------
Init ==
    /\ message \in Messages
    /\ parallel \in BOOLEAN
    /\ api \in {"chat", "messages"}
    /\ api = "messages" => parallel
    /\ connected = TRUE
    /\ phase = "prefix"
    /\ made = 0
    /\ decode_cursor = 0
    /\ pending_emitted_in_segment = 0
    /\ emitted_text = <<>>
    /\ parser = ParserStart(message)
    /\ events = <<>>
    /\ blocks = NoBlocks
    /\ has_tool_calls = FALSE
    /\ abort_after_close = FALSE
    /\ finish_reason = "none"

\* The blocks with some events, sent until the client has left: what the thread
\* remembers after that shows nowhere.
BlocksWith(q) ==
    IF api = "messages" /\ connected THEN DrainEvents(blocks, q.out) ELSE blocks

\* emit_events: the events go to the client until it has left; a close stops a
\* chat request that wants one call.
Sends(q) ==
    /\ parser' = [q EXCEPT !.out = <<>>]
    /\ events' = IF connected THEN Coalesce(events \o q.out) ELSE events
    /\ has_tool_calls' =
         (has_tool_calls \/ \E i \in DOMAIN q.out : q.out[i].kind \in {"open", "args"})
    /\ abort_after_close' =
         (abort_after_close \/ (~ parallel /\ \E i \in DOMAIN q.out : q.out[i].kind = "close"))

\* The opening of a call the request forces goes to the parser first.
ForcePrefix ==
    /\ phase = "prefix"
    /\ LET q == Push(message, parser, message.forced) IN Sends(q) /\ blocks' = BlocksWith(q)
    /\ phase' = "decode"
    /\ UNCHANGED <<message, parallel, api, connected, made, decode_cursor,
                   pending_emitted_in_segment, emitted_text, finish_reason>>

\* How much of the open segment is out, never reset.
PendingKept(safe, raw) == Max({pending_emitted_in_segment, Len(safe)})

\* How much of the open segment is out: nothing of a new one.
Pending(safe, raw) ==
    IF safe = raw THEN 0 ELSE Max({pending_emitted_in_segment, Len(safe)})

\* An event is sent: any to a messages client, all but the close to a chat client.
Speaks(q) == \E i \in DOMAIN q.out : api = "messages" \/ q.out[i].kind # "close"

\* What is new and safe of the open segment goes out, by way of the parser, and a
\* segment that is safe to its end is closed.
Emits(raw, safe, delta, q) ==
    LET alive == \/ delta = <<>>
                 \/ (connected \/ ~ Speaks(q)) /\ ~ abort_after_close'
    IN  /\ IF delta # <<>> THEN Sends(q) /\ blocks' = BlocksWith(q)
           ELSE UNCHANGED <<parser, events, blocks, has_tool_calls, abort_after_close>>
        /\ emitted_text' = IF alive THEN emitted_text \o delta ELSE emitted_text
        /\ decode_cursor' = IF alive /\ safe = raw THEN made' ELSE decode_cursor
        /\ pending_emitted_in_segment' =
              IF alive THEN Pending(safe, raw) ELSE pending_emitted_in_segment
        /\ phase' = IF alive THEN "decode" ELSE "flush"
        /\ finish_reason' = IF alive THEN finish_reason ELSE "stop"

\* push_and_emit: a token of n bytes; the open segment is decoded again.
Token(n) ==
    /\ phase = "decode"
    /\ made + n <= Len(message.bytes)
    /\ made' = made + n
    /\ LET raw   == Decode(SubSeq(message.bytes, decode_cursor + 1, made'))
           delta == From(Safe(raw), pending_emitted_in_segment + 1)
       IN  Emits(raw, Safe(raw), delta, Push(message, parser, delta))
    /\ UNCHANGED <<message, parallel, api, connected>>

\* A stop token, the text of which is left out, or a stop string; the limit of
\* tokens; a failed forward.
End ==
    /\ phase = "decode"
    /\ phase' = "flush"
    /\ finish_reason' \in {"stop", "length", "error"}
    /\ UNCHANGED <<message, parallel, api, connected, made, decode_cursor,
                   pending_emitted_in_segment, emitted_text, parser, events, blocks,
                   has_tool_calls, abort_after_close>>

\* The parser's rest and the reason.
Closing(q) ==
    /\ Sends(q)
    /\ finish_reason' = IF has_tool_calls' THEN "tool_calls" ELSE finish_reason
    /\ blocks' = IF api = "messages" /\ connected
                   THEN EndMessage(BlocksWith(q), finish_reason, finish_reason') ELSE blocks
Flush ==
    /\ phase = "flush"
    /\ Closing(Finish(message, parser))
    /\ phase' = "done"
    /\ UNCHANGED <<message, parallel, api, connected, made, decode_cursor,
                   pending_emitted_in_segment, emitted_text>>

\* The client closes the connection.
Leave ==
    /\ connected
    /\ phase # "done"
    /\ connected' = FALSE
    /\ UNCHANGED <<message, parallel, api, phase, made, decode_cursor,
                   pending_emitted_in_segment, emitted_text, parser, events, blocks,
                   has_tool_calls, abort_after_close, finish_reason>>

Next == ForcePrefix \/ (\E n \in 1 .. MaxBytes : Token(n)) \/ End \/ Flush \/ Leave

Spec == Init /\ [][Next]_vars

-----------------------------------------------------------------------------
\* The text that went out is what the generated bytes decode to as a whole, up
\* to a character that is not complete: no character is torn, doubled or lost
\* by decoding segment after segment (push_and_emit).
TextIsDecoded ==
    phase = "decode" => emitted_text = Safe(Decode(Until(message.bytes, made)))

\* The answer in one piece, as the routes that do not stream parse it.
Collected(p, q) == [q EXCEPT !.out = p.out \o @]
Finished(m, p) == Coalesce(Collected(p, Finish(m, p)).out)
Answer(text) ==
    Finished(message, FoldLeft(LAMBDA p, chunk : Collected(p, Push(message, p, chunk)),
                               ParserStart(message), <<message.forced, text>>))

\* Wherever the text is cut into pushes and wherever it ends, the client is sent
\* the events of the whole text pushed at once, and nothing that a later push
\* would take back (ToolCallParser: "the same total event stream").
SameHoweverCut ==
    connected /\ phase = "decode" =>
        Coalesce(events \o Finish(message, parser).out) = Answer(emitted_text)

\* A message that is generated to its end arrives as it was meant: its text, its
\* reasoning and its calls with their names and arguments, tags and the echo of
\* the prompt in none of them.
MessagesArrive ==
    connected /\ parallel /\ phase = "done" /\ made = Len(message.bytes) =>
        events = message.meant

\* What the client assembles calls from is in order: a call is opened when the
\* one before is closed, with the next index, has its arguments once and before
\* its close, and nothing else comes in between while it is generated; a request
\* for one call gets no second one to its end; and the reason says whether there was one.
CallsAreNested ==
    LET count(i, kind) == Cardinality({j \in 1 .. i : events[j].kind = kind})
        now(i) == [open  |-> count(i, "open"), args |-> count(i, "args"),
                   close |-> count(i, "close")]
    IN  /\ \A i \in DOMAIN events :
              LET e == events[i]
                  n == now(i)
              IN  /\ e.kind = "open"  => n.open = n.close + 1 /\ e.index = n.close
                  /\ e.kind = "args"  => n.open = n.close + 1 /\ e.index = n.close /\ n.args = n.open
                  /\ e.kind = "close" => n.open = n.close /\ e.index = n.close - 1 /\ n.args = n.close
                  /\ e.kind \in {"text", "think"} => n.open = n.close \/ phase = "done"
        /\ ~ parallel => count(Len(events), "close") <= 1
        /\ connected /\ phase = "done" =>
              (finish_reason = "tool_calls" <=> count(Len(events), "open") > 0)

\* What a messages client relies on to build the answer: blocks are numbered in
\* the order of their starts, a block is started before it is added to, added to
\* before it is stopped and stopped once, by the end of the message; calls do not
\* overlap; and nothing but an error comes behind the end.  Reasoning that is resumed
\* after an answer has begun is excepted: its block is stopped already, as the
\* thread takes it that reasoning precedes everything else.
BlocksAreWellFormed ==
    LET f == blocks.frames
        starts(n) == {i \in 1 .. n : f[i].event = "start"}
        stops(n)  == {i \in 1 .. n : f[i].event = "stop"}
        startOf(x) == {i \in DOMAIN f : f[i].event = "start" /\ f[i].index = x}
        open(n) == {f[i].index : i \in starts(n)} \ {f[i].index : i \in stops(n)}
    IN  /\ \A i \in DOMAIN f :
              CASE f[i].event = "start" ->
                      /\ f[i].index = Cardinality(starts(i)) - 1
                      /\ f[i].kind = "tool_use" =>
                            \A x \in open(i - 1) : \E j \in startOf(x) : f[j].kind = "text"
                [] f[i].event = "delta" ->
                      \/ f[i].index \in open(i - 1)
                      \/ \E j \in startOf(f[i].index) : j < i /\ f[j].kind = "thinking"
                [] f[i].event = "stop" -> f[i].index \in open(i - 1)
                [] f[i].event \in {"message_delta", "message_stop"} -> open(i - 1) = {}
                [] f[i].event = "error" -> i = Len(f) /\ f[i - 1].event = "message_stop"
        /\ api = "messages" /\ connected /\ phase = "done" =>
              Len(SelectSeq(f, LAMBDA x : x.event = "message_stop")) = 1

\* The blocks of an answer hold what the parser found in it: all of its text in one
\* block, all of its reasoning in one, and a block for each call with its name and
\* the whole of its arguments; the reason given is a call if there is one.
BlocksCarryTheAnswer ==
    LET f == blocks.frames
        started(kind) == SelectSeq(f, LAMBDA x : x.event = "start" /\ x.kind = kind)
        body(x) == FlattenSeq([i \in DOMAIN f |->
                      IF f[i].event = "delta" /\ f[i].index = x THEN f[i].body ELSE <<>>])
        said(kind, n) == FlattenSeq([i \in DOMAIN events |->
                      IF events[i].kind = kind /\ events[i].index = n
                        THEN events[i].body ELSE <<>>])
        opened == SelectSeq(events, LAMBDA e : e.kind = "open")
        carries(kind, text) ==
            IF text = <<>> THEN \A i \in DOMAIN started(kind) : body(started(kind)[i].index) = <<>>
            ELSE Len(started(kind)) = 1 /\ body(started(kind)[1].index) = text
    IN  api = "messages" =>
            /\ carries("text", said("text", 0))
            /\ carries("thinking", said("think", 0))
            /\ Len(started("tool_use")) = Len(opened)
            /\ \A i \in DOMAIN opened :
                  /\ started("tool_use")[i].body = opened[i].body
                  /\ body(started("tool_use")[i].index) = said("args", opened[i].index)
            /\ connected /\ phase = "done" =>
                  \E i \in DOMAIN f :
                      /\ f[i].event = "message_delta"
                      /\ f[i].body = <<"tool_calls">> <=> opened # <<>>
=============================================================================
