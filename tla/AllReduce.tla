------------------------------ MODULE AllReduce ------------------------------
(***************************************************************************)
(* The all-reduce of a stage's ranks (forward/src/runtime/ar.rs), once per *)
(* round.  Two backends: BAR1 peer copies, where a rank publishes a        *)
(* pointer, pulls its peers' partials and adds them in place, ordered      *)
(* either by events (small payloads) or by draining its stream (large      *)
(* ones); and a bounce through host memory.  The host threads of a stage   *)
(* meet at one reusable barrier; the streams run behind them.              *)
(***************************************************************************)
EXTENDS GpuStreams

CONSTANTS
    Backends,  \* "bar", "bounce": those a run may have
    Small      \* largest payload of the event path, EVENT_PATH_MAX_ELEMS

ASSUME ArAssumption == Backends \subseteq {"bar", "bounce"}

VARIABLES
    backend,   \* the one this run has
    slab,      \* the stage's partials: None or what a rank published
    arrived,   \* stage -> threads waiting at its barrier
    passes,    \* stage -> times its barrier has opened
    ticket     \* the opening a rank at a barrier waits for

arVars == <<backend, slab, arrived, passes, ticket>>

None == [kind |-> "none", sum |-> Bad]
Pointer == [kind |-> "pointer", sum |-> Bad]
HostCopy(c) == [kind |-> "copy", sum |-> c]

ArInit ==
    /\ backend \in IF layout.width = 1 THEN {"none"} ELSE Backends
    /\ slab = [r \in Ranks |-> None]
    /\ arrived = [s \in Stages |-> 0]
    /\ passes = [s \in Stages |-> 0]
    /\ ticket = [r \in Ranks |-> 0]

EventPath(r) == cur[r].size <= Small

\* A barrier that opens without starting to count afresh.
ArriveNoReset(r) ==
    LET s == Stage(r)
    IN  /\ ticket' = [ticket EXCEPT ![r] = passes[s] + 1]
        /\ arrived' = [arrived EXCEPT ![s] = @ + 1]
        /\ passes' = [passes EXCEPT ![s] = @ + IF arrived[s] + 1 >= layout.width THEN 1 ELSE 0]

\* Barrier::wait, the arrival: the last one to arrive opens the barrier.
Arrive(r) ==
    LET s == Stage(r)
    IN  /\ ticket' = [ticket EXCEPT ![r] = passes[s] + 1]
        /\ IF arrived[s] + 1 = layout.width
             THEN /\ arrived' = [arrived EXCEPT ![s] = 0]
                  /\ passes' = [passes EXCEPT ![s] = @ + 1]
             ELSE /\ arrived' = [arrived EXCEPT ![s] = @ + 1]
                  /\ UNCHANGED passes

\* ... and the return.
Open(r) == passes[Stage(r)] >= ticket[r]

Publishes(r, p) == slab' = [slab EXCEPT ![r] = p]
ArSame == UNCHANGED <<layout, cur, backend>>

-----------------------------------------------------------------------------
\* The layers before a round, enqueued; with the event path the flush of the
\* partial out of L2 and the record of the producer event too.  A stage of one
\* rank has no all-reduce.
ArLayers(r) ==
    /\ pc[r] = "layers"
    /\ LET j == round[r] + 1
           f == cur[r].id
       IN  /\ round' = [round EXCEPT ![r] = j]
           /\ IF layout.width = 1
                THEN /\ Enqueue(r, <<Layer(f, j)>>)
                     /\ GoesTo(r, IF j = NAr THEN "out" ELSE "layers")
                ELSE IF backend = "bar" /\ EventPath(r)
                THEN /\ Enqueue(r, <<Layer(f, j), Flush, Record(<<"written", r>>)>>)
                     /\ GoesTo(r, "publish")
                ELSE /\ Enqueue(r, <<Layer(f, j)>>)
                     /\ GoesTo(r, "publish")
    /\ UNCHANGED <<layout, cur, arVars>>

\* ar_publish_with_events, ar_publish_with_host_sync and the first part of
\* ar_sum_f32, up to the first barrier.  Without the event path the rank's
\* stream is drained first.
ArPublish(r) ==
    /\ pc[r] = "publish"
    /\ \/ /\ backend = "bar" /\ EventPath(r)
          /\ Publishes(r, Pointer)
          /\ UNCHANGED streamVars
       \/ /\ backend = "bar" /\ ~ EventPath(r)
          /\ Drained(r)
          /\ Publishes(r, Pointer)
          /\ dram' = [dram EXCEPT ![r] = buf[r]]
          /\ UNCHANGED <<queue, buf, staging, dst, asked, fired>>
       \/ /\ backend = "bounce"
          /\ Drained(r)
          /\ Publishes(r, HostCopy(buf[r]))
          /\ UNCHANGED streamVars
    /\ Arrive(r)
    /\ GoesTo(r, "snap")
    /\ UNCHANGED round /\ ArSame

\* Past the first barrier: wait for the peers' producers (event path), pull
\* their partials, record the pulls and go to the second barrier; or add up
\* the host copies and write the sum back after the barriers.
ArPull(r) ==
    /\ pc[r] = "snap"
    /\ Open(r)
    /\ LET waits == {Wait(<<"written", q>>) : q \in Peers(r)}
           pulls == {Pull(q) : q \in Peers(r)}
       IN  IF backend = "bar"
             THEN /\ Enqueue(r, SetToSeq(IF EventPath(r) THEN waits ELSE {})
                                \o SetToSeq(pulls) \o <<Record(<<"pulled", r>>)>>)
                  /\ UNCHANGED slab
             ELSE /\ staging' = [staging EXCEPT ![r] = [q \in Ranks |-> slab[q].sum]]
                  /\ UNCHANGED <<queue, buf, dram, dst, asked, fired, slab>>
    /\ Arrive(r)
    /\ GoesTo(r, "add")
    /\ UNCHANGED round /\ ArSame

\* Adding in place without waiting for the peers that still pull.
ArAddEarly(r) ==
    /\ pc[r] = "add"
    /\ Open(r)
    /\ Enqueue(r, <<SumUp>>)
    /\ Arrive(r)
    /\ GoesTo(r, "clear")
    /\ UNCHANGED <<slab, round>> /\ ArSame

\* Past the second barrier: wait for the peers' pulls and add in place, then
\* the epilogue's first barrier.  The bounce has nothing to do here.
ArAdd(r) ==
    /\ pc[r] = "add"
    /\ Open(r)
    /\ IF backend = "bar"
         THEN /\ Enqueue(r, SetToSeq({Wait(<<"pulled", q>>) : q \in Peers(r)}) \o <<SumUp>>)
              /\ Arrive(r)
              /\ GoesTo(r, "clear")
              /\ UNCHANGED slab
         ELSE /\ UNCHANGED streamVars
              /\ slab' = [q \in Ranks |-> IF Place(r) = 0 /\ Stage(q) = Stage(r) THEN None
                                          ELSE slab[q]]
              /\ Arrive(r)
              /\ GoesTo(r, "done")
    /\ UNCHANGED round /\ ArSame

\* The clear without the barrier before it.
ArClearEarly(r) ==
    /\ pc[r] = "clear"
    /\ slab' = [q \in Ranks |-> IF Place(r) = 0 /\ Stage(q) = Stage(r) THEN None
                                ELSE slab[q]]
    /\ Arrive(r)
    /\ GoesTo(r, "done")
    /\ UNCHANGED <<round, streamVars>> /\ ArSame

\* ar_epilogue between its barriers: the stage's first rank clears the slab.
ArClear(r) ==
    /\ pc[r] = "clear"
    /\ Open(r)
    /\ slab' = [q \in Ranks |-> IF Place(r) = 0 /\ Stage(q) = Stage(r) THEN None
                                ELSE slab[q]]
    /\ Arrive(r)
    /\ GoesTo(r, "done")
    /\ UNCHANGED <<round, streamVars>> /\ ArSame

\* Past the last barrier: the next round or the end of the stage's layers.  The
\* bounce copies the sum to the device and drains the stream.
ArDone(r) ==
    /\ pc[r] = "done"
    /\ Open(r)
    /\ IF backend = "bounce"
         THEN /\ Writes(r, Total(buf[r], staging[r], Peers(r)))
              /\ UNCHANGED <<queue, dram, staging, dst, asked, fired>>
         ELSE UNCHANGED streamVars
    /\ GoesTo(r, IF round[r] = NAr THEN "out" ELSE "layers")
    /\ UNCHANGED <<round, slab, arrived, passes, ticket>> /\ ArSame

ArStep(r) ==
    ArLayers(r) \/ ArPublish(r) \/ ArPull(r) \/ ArAdd(r) \/ ArClear(r) \/ ArDone(r)

-----------------------------------------------------------------------------
\* No buffer of a tensor-parallel stage ever holds anything but the partial of
\* one rank or the sum of all, of one round of one forward: the pulls read
\* committed partials and no rank adds in place before its peers have pulled
\* (ar_publish_pull: "a peer's in-place sum can clobber its partial mid-pull").
SumsAreWhole ==
    layout.kind = "TP" =>
        \A r \in Ranks : cur[r].op = "forward" /\ round[r] > 0 =>
            /\ \/ buf[r] # Bad
               \/ \E i \in DOMAIN queue[r] : queue[r][i].op = "embed"
            /\ pc[r] = "out" /\ Drained(r) =>
                  buf[r] = Content(cur[r].id, NAr, Group(Stage(r)))

\* The slab is in step with the barriers: a rank publishes into an empty place
\* ("so the next AR call sees None slots", ar_epilogue) and every peer it reads
\* has published (the expect "peer pointer unpublished").
SlabIsInStep ==
    layout.kind = "TP" =>
        \A r \in Ranks :
            /\ pc[r] = "publish" => slab[r] = None
            /\ pc[r] = "snap" /\ Open(r) => \A q \in Group(Stage(r)) : slab[q] # None
=============================================================================
