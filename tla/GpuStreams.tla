----------------------------- MODULE GpuStreams ------------------------------
(***************************************************************************)
(* One GPU stream per rank (external: the HIP runtime as the forward crate *)
(* uses it).  The host appends operations to a stream and goes on; the     *)
(* device executes each stream in order and the streams concurrently.  An  *)
(* event is a counter of the records asked for and a counter of those      *)
(* executed: a wait holds its stream until the record that was the latest  *)
(* when the wait was asked for has executed, and holds nothing when none   *)
(* was.                                                                    *)
(*                                                                         *)
(* A buffer is abstracted to what its content stands for: forward f, after *)
(* round j, the sum of the partials of a set of ranks.                     *)
(***************************************************************************)
EXTENDS Topology, SequencesExt

VARIABLES
    queue,    \* operations a rank's stream has yet to execute
    buf,      \* the rank's activation buffer, as its own stream sees it
    dram,     \* the same buffer as a peer's copy engine is sure to see it
    staging,  \* staging[r][q]: r's copy of q's partial
    dst,      \* the hand-off buffer on a consumer's device
    asked,    \* event -> records asked for
    fired     \* event -> records executed

streamVars == <<queue, buf, dram, staging, dst, asked, fired>>

Content(f, j, who) == [forward |-> f, round |-> j, of |-> who]
Bad == Content(0, 0, {})

\* Each rank's events: its partial is written, its pulls are done, its output
\* is in the consumer's buffer.
Events == {"written", "pulled", "sent"} \X Ranks

StreamsInit ==
    /\ queue = [r \in Ranks |-> <<>>]
    /\ buf = [r \in Ranks |-> Bad]
    /\ dram = [r \in Ranks |-> Bad]
    /\ staging = [r \in Ranks |-> [q \in Ranks |-> Bad]]
    /\ dst = [r \in Ranks |-> Bad]
    /\ asked = [e \in Events |-> 0]
    /\ fired = [e \in Events |-> 0]

-----------------------------------------------------------------------------
(* Operations, as the host builds them.                                    *)

Embed(f) == [op |-> "embed", f |-> f]
Load(f) == [op |-> "load", f |-> f]
Layer(f, j) == [op |-> "layer", f |-> f, j |-> j]
Flush == [op |-> "flush"]
Pull(q) == [op |-> "pull", q |-> q]
SumUp == [op |-> "sum"]
SendOut == [op |-> "send"]
Record(e) == [op |-> "record", e |-> e]
Wait(e) == [op |-> "wait", e |-> e, n |-> asked[e]]

\* Append operations to a stream; a record among them is asked for now.
Enqueue(r, ops) ==
    /\ queue' = [queue EXCEPT ![r] = @ \o ops]
    /\ asked' = [e \in Events |->
                    IF \E i \in DOMAIN ops : ops[i] = Record(e) THEN asked[e] + 1 ELSE asked[e]]
    /\ UNCHANGED <<buf, dram, staging, dst, fired>>

\* The host's view of a drained stream: Stream::synchronize and hipFree wait
\* for it.  What the stream wrote is then in DRAM.
Drained(r) == queue[r] = <<>>

-----------------------------------------------------------------------------
(* Execution.                                                              *)

\* Copies of the peers' partials add up to a partial when they are of the same
\* round of the same forward and nobody is in twice.
Total(c, copies, peers) ==
    IF \A q \in peers : q \notin c.of /\ copies[q] = Content(c.forward, c.round, {q})
    THEN Content(c.forward, c.round, c.of \cup peers)
    ELSE Bad

\* The layers before round j's all-reduce take the whole of round j - 1 and
\* leave this rank's partial of round j.
LayerOn(c, r, f, j) ==
    IF c = Content(f, j - 1, Group(Stage(r))) THEN Content(f, j, {r}) ELSE Bad

\* A stage that loads the hand-off buffer starts from the whole output of the
\* stage before.
LoadFrom(c, r, f) ==
    IF c = Content(f, NAr, Group(Stage(r) - 1)) THEN Content(f, 0, Group(Stage(r))) ELSE Bad

Writes(r, c) == buf' = [buf EXCEPT ![r] = c]

Execute(r) ==
    /\ queue[r] # <<>>
    /\ LET o == Head(queue[r])
       IN \/ /\ o.op = "embed"
             /\ Writes(r, Content(o.f, 0, Group(Stage(r))))
             /\ UNCHANGED <<dram, staging, dst, fired>>
          \/ /\ o.op = "load"
             /\ Writes(r, LoadFrom(dst[r], r, o.f))
             /\ UNCHANGED <<dram, staging, dst, fired>>
          \/ /\ o.op = "layer"
             /\ Writes(r, LayerOn(buf[r], r, o.f, o.j))
             /\ UNCHANGED <<dram, staging, dst, fired>>
          \/ /\ o.op = "flush"
             /\ dram' = [dram EXCEPT ![r] = buf[r]]
             /\ UNCHANGED <<buf, staging, dst, fired>>
          \/ \* A copy engine reads DRAM, or what the owner's cache has written
             \* back of it by then.
             /\ o.op = "pull"
             /\ \E c \in {dram[o.q], buf[o.q]} :
                   staging' = [staging EXCEPT ![r][o.q] = c]
             /\ UNCHANGED <<buf, dram, dst, fired>>
          \/ /\ o.op = "sum"
             /\ Writes(r, Total(buf[r], staging[r], Peers(r)))
             /\ UNCHANGED <<dram, staging, dst, fired>>
          \/ /\ o.op = "send"
             /\ dst' = [dst EXCEPT ![Consumer(r)] = buf[r]]
             /\ UNCHANGED <<buf, dram, staging, fired>>
          \/ /\ o.op = "record"
             /\ fired' = [fired EXCEPT ![o.e] = @ + 1]
             /\ UNCHANGED <<buf, dram, staging, dst>>
          \/ /\ o.op = "wait"
             /\ fired[o.e] >= o.n
             /\ UNCHANGED <<buf, dram, staging, dst, fired>>
    /\ queue' = [queue EXCEPT ![r] = Tail(@)]
    /\ UNCHANGED <<topologyVars, asked>>
=============================================================================
