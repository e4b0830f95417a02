--------------------------- MODULE MessagesStream ----------------------------
(***************************************************************************)
(* The stream of /v1/messages: the parser's events become content blocks   *)
(* that are started, added to and stopped under indices given out in the   *)
(* order of their starts (stream_messages_anthropic_sse).                  *)
(*                                                                         *)
(* A record holds the locals of the generation thread and the frames sent, *)
(* after message_start.  Neighbouring deltas of a block are one frame, and *)
(* the empty signature sent before the stop of a thinking block is left    *)
(* out.                                                                    *)
(***************************************************************************)
EXTENDS StreamText

Unset == -1

Frame(event, index, kind, body) ==
    [event |-> event, index |-> index, kind |-> kind, body |-> body]
Delta(index, body) == Frame("delta", index, "none", body)
Stop(index) == Frame("stop", index, "none", <<>>)

NoBlocks == [next_block_index |-> 0, thinking_idx |-> Unset, thinking_closed |-> FALSE,
             text_idx |-> Unset, tool_open |-> {}, emitted_any |-> FALSE,
             frames |-> <<>>]

Send(b, f) ==
    IF /\ b.frames # <<>> /\ f.event = "delta"
       /\ Last(b.frames).event = "delta" /\ Last(b.frames).index = f.index
      THEN [b EXCEPT !.frames[Len(b.frames)].body = @ \o f.body]
      ELSE [b EXCEPT !.frames = Append(@, f)]

\* A new block under the next index.
Starts(b, kind, name) ==
    [Send(b, Frame("start", b.next_block_index, kind, name))
       EXCEPT !.next_block_index = @ + 1]

\* The first event that is no thinking stops the thinking block.
CloseThinking(b) ==
    IF b.thinking_idx = Unset \/ b.thinking_closed THEN b
    ELSE [Send(b, Stop(b.thinking_idx)) EXCEPT !.thinking_closed = TRUE]

ThinkDelta(b, text) ==
    LET o == IF b.thinking_idx # Unset THEN b
             ELSE [Starts(b, "thinking", <<>>) EXCEPT !.thinking_idx = b.next_block_index]
    IN  [Send(o, Delta(o.thinking_idx, text)) EXCEPT !.emitted_any = TRUE]

TextDelta(b, text) ==
    LET c == CloseThinking(b)
        o == IF c.text_idx # Unset THEN c
             ELSE [Starts(c, "text", <<>>) EXCEPT !.text_idx = c.next_block_index]
    IN  [Send(o, Delta(o.text_idx, text)) EXCEPT !.emitted_any = TRUE]

\* A call looked up by the index of its block.
OpensUnderBlock(b, e) ==
    LET c == CloseThinking(b)
    IN  [Starts(c, "tool_use", e.body)
           EXCEPT !.tool_open = @ \cup {[call |-> c.next_block_index, block |-> c.next_block_index]}]
\* Calls are told apart by the parser's index until they are closed.
Opens(b, e) ==
    LET c == CloseThinking(b)
    IN  [Starts(c, "tool_use", e.body)
           EXCEPT !.tool_open = {t \in @ : t.call # e.index}
                                  \cup {[call |-> e.index, block |-> c.next_block_index]}]
OpenBlocks(b, e) == {t \in b.tool_open : t.call = e.index}
Argues(b, e) ==
    IF OpenBlocks(b, e) = {} THEN b
    ELSE Send(b, Delta((CHOOSE t \in OpenBlocks(b, e) : TRUE).block, e.body))
\* The close of a call that is still taken for open.
StaysOpen(b, e) ==
    IF OpenBlocks(b, e) = {} THEN b
    ELSE Send(b, Stop((CHOOSE t \in OpenBlocks(b, e) : TRUE).block))
Closes(b, e) ==
    IF OpenBlocks(b, e) = {} THEN b
    ELSE [Send(b, Stop((CHOOSE t \in OpenBlocks(b, e) : TRUE).block))
            EXCEPT !.tool_open = @ \ OpenBlocks(b, e)]

Drain(b, e) ==
    CASE e.kind = "think" -> IF e.body = <<>> THEN b ELSE ThinkDelta(b, e.body)
      [] e.kind = "text"  -> IF e.body = <<>> THEN b ELSE TextDelta(b, e.body)
      [] e.kind = "open"  -> Opens(b, e)
      [] e.kind = "args"  -> Argues(b, e)
      [] e.kind = "close" -> Closes(b, e)

DrainEvents(b, events) == FoldLeft(Drain, b, events)

\* Behind the last event: what is open is stopped (calls in the order of a hash
\* map, of which at most one is left), an answer of nothing but calls or of
\* nothing gets an empty text, and the reason ends the message; after a failed
\* forward an error comes behind that.
EndMessage(b, finish, reason) ==
    LET tools == FoldLeft(LAMBDA acc, t : Send(acc, Stop(t.block)), b, SetToSeq(b.tool_open))
        c == CloseThinking(tools)
        o == IF c.text_idx = Unset /\ ~ c.emitted_any
               THEN [Send(c, Frame("start", c.next_block_index, "text", <<>>))
                       EXCEPT !.text_idx = c.next_block_index]
               ELSE c
        s == IF o.text_idx = Unset THEN o ELSE Send(o, Stop(o.text_idx))
    IN  [s EXCEPT !.tool_open = {},
                  !.frames = @ \o <<Frame("message_delta", Unset, "none", <<reason>>),
                                    Frame("message_stop", Unset, "none", <<>>)>>
                               \o IF finish = "error"
                                    THEN <<Frame("error", Unset, "none", <<>>)>> ELSE <<>>]
=============================================================================
