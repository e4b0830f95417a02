------------------------------- MODULE HandOff -------------------------------
(***************************************************************************)
(* The hand-off of a stage's output to the next (forward/src/engine.rs,    *)
(* PpStage and HybStage): a buffer on the consumer's device, a peer copy   *)
(* on the producer's stream and an event that the producer leaves in the   *)
(* edge and the consumer takes.  An edge is named by its consumer.  In a   *)
(* pure pipeline the consumer starts when the producer has answered; in a  *)
(* hybrid one both run at once and the consumer spins for the event, for   *)
(* ten seconds at most.                                                    *)
(***************************************************************************)
EXTENDS AllReduce

CONSTANT Prealloc  \* bytes launch_hybrid allocates for each edge

VARIABLES
    send_done,  \* the edge's event: None, or the forward and record it is of
    dst_bytes,  \* size of the edge's buffer, 0 before the first allocation
    took        \* the forward whose event the consumer took, 0: took none

handOffVars == <<send_done, dst_bytes, took>>

NoEvent == [forward |-> 0, record |-> 0]

HandOffInit ==
    /\ send_done = [r \in Ranks |-> NoEvent]
    /\ dst_bytes = [r \in Ranks |-> IF layout.kind = "HYB" THEN Prealloc ELSE 0]
    /\ took = [r \in Ranks |-> 0]

-----------------------------------------------------------------------------
\* A hybrid consumer that does not spin.
PeerRecvNoSpin(r) ==
    /\ pc[r] = "recv"
    /\ dst_bytes[r] >= cur[r].size
    /\ LET e    == send_done[r]
           wait == [Wait(<<"sent", Producer(r)>>) EXCEPT !.n = e.record]
       IN  /\ Enqueue(r, (IF e = NoEvent THEN <<>> ELSE <<wait>>) \o <<Load(cur[r].id)>>)
           /\ took' = [took EXCEPT ![r] = e.forward]
    /\ send_done' = [send_done EXCEPT ![r] = NoEvent]
    /\ GoesTo(r, "layers")
    /\ UNCHANGED <<layout, cur, round, arVars, dst_bytes>>

\* peer_recv: take the event and have the stream wait for it.  PpStage goes on
\* without one, HybStage spins until there is one.  The stage's layers then
\* read the buffer in place.
PeerRecv(r) ==
    /\ pc[r] = "recv"
    /\ layout.kind = "HYB" => send_done[r] # NoEvent
    /\ dst_bytes[r] >= cur[r].size
    /\ LET e    == send_done[r]
           wait == [Wait(<<"sent", Producer(r)>>) EXCEPT !.n = e.record]
       IN  /\ Enqueue(r, (IF e = NoEvent THEN <<>> ELSE <<wait>>) \o <<Load(cur[r].id)>>)
           /\ took' = [took EXCEPT ![r] = e.forward]
    /\ send_done' = [send_done EXCEPT ![r] = NoEvent]
    /\ GoesTo(r, "layers")
    /\ UNCHANGED <<layout, cur, round, arVars, dst_bytes>>

\* peer_send, the buffer: allocated or grown when it is too small.  Freeing the
\* old one waits for the consumer's device; the new one holds nothing.
GrowDst(r) ==
    /\ pc[r] = "out"
    /\ ~ IsLast(r)
    /\ LET c == Consumer(r)
       IN  /\ dst_bytes[c] < cur[r].size
           /\ dst_bytes[c] > 0 => Drained(c)
           /\ dst_bytes' = [dst_bytes EXCEPT ![c] = cur[r].size]
           /\ dst' = [dst EXCEPT ![c] = Bad]
    /\ UNCHANGED <<topologyVars, arVars, queue, buf, dram, staging, asked, fired,
                   send_done, took>>

\* peer_send, the copy: on the producer's stream, then a new event recorded
\* behind it and left in the edge over whatever is there.
PeerSend(r) ==
    /\ pc[r] = "out"
    /\ ~ IsLast(r)
    /\ LET c == Consumer(r)
           e == <<"sent", r>>
       IN  /\ dst_bytes[c] >= cur[r].size
           /\ Enqueue(r, <<SendOut, Record(e)>>)
           /\ send_done' = [send_done EXCEPT
                              ![c] = [forward |-> cur[r].id, record |-> asked[e] + 1]]
    /\ GoesTo(r, "sent")
    /\ UNCHANGED <<layout, cur, round, arVars, dst_bytes, took>>

HandOffStep(r) == PeerRecv(r) \/ GrowDst(r) \/ PeerSend(r)
=============================================================================
