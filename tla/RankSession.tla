----------------------------- MODULE RankSession -----------------------------
(***************************************************************************)
(* The forward runtime: a session that sends commands to one worker thread *)
(* per rank and collects their replies (forward/src/runtime/mod.rs and     *)
(* orchestrate.rs), the workers' command loop (workers.rs), and, composed  *)
(* from AllReduce and HandOff, what a forward does on each rank.  The      *)
(* caller holds the session's mutex, so calls come one after another; a    *)
(* pipeline runs its ranks in turn, the other topologies all at once.      *)
(*                                                                         *)
(* A call gives up on the first rank that fails and leaves the replies of  *)
(* the others behind: they finish its forward while the next call runs.    *)
(***************************************************************************)
EXTENDS HandOff

CONSTANTS
    Sizes,        \* payloads of a forward
    MaxCalls,     \* bound: calls in all
    MaxFailures,  \* bound: failures and slow ranks in all
    MayFail       \* where a rank may fail: pairs of a kind of layout and a step

ASSUME SessionAssumption ==
    /\ Sizes \subseteq Nat \ {0} /\ Small \in Nat /\ Prealloc \in Nat
    /\ MaxCalls \in Nat /\ MaxFailures \in Nat

VARIABLES
    inbox,     \* rank -> commands its worker has yet to take
    reply,     \* rank -> its reply to the current call
    call,      \* the session's current call, and the rank it waits for
    answer,    \* what the last call returned
    kv,        \* rank -> forwards its recurrent state went through since a reset
    hist,      \* history: the forwards that returned since a reset
    torn,      \* history: a call has failed since the reset
    snaps,     \* the snapshot the server keeps: of these forwards, each rank's state
    failures   \* so far

sessionVars == <<inbox, reply, call, answer, kv, hist, torn, snaps, failures>>
vars == <<topologyVars, streamVars, arVars, handOffVars, sessionVars>>

NoReply == [ok |-> FALSE, id |-> 0, logits |-> Bad, kv |-> <<>>]
NoCall == [op |-> "none", id |-> 0, size |-> 0, at |-> 0]
Failed == [op |-> "failed", logits |-> Bad]
NoAnswer == [op |-> "none", logits |-> Bad]

Init ==
    /\ TopologyInit
    /\ StreamsInit
    /\ ArInit
    /\ HandOffInit
    /\ inbox = [r \in Ranks |-> <<>>]
    /\ reply = [r \in Ranks |-> NoReply]
    /\ call = NoCall
    /\ answer = NoAnswer
    /\ kv = [r \in Ranks |-> <<>>]
    /\ hist = <<>>
    /\ torn = FALSE
    /\ snaps = [of |-> <<0>>, kv |-> [r \in Ranks |-> <<0>>]]  \* an earlier request's
    /\ failures = 0

-----------------------------------------------------------------------------
(* The session.                                                            *)

InTurn == layout.kind = "PP"
Command(c) == [op |-> c.op, id |-> c.id, size |-> c.size]
Sends(c, rs) == inbox' = [r \in Ranks |-> IF r \in rs THEN Append(inbox[r], Command(c))
                                          ELSE inbox[r]]

\* The calls made so far are numbered.
NextId == call.id + 1
Idle == call.op = "none"

Calls(op, n, rs) ==
    /\ Idle
    /\ call.id < MaxCalls
    /\ LET c == [op |-> op, id |-> NextId, size |-> n, at |-> 0]
       IN  call' = c /\ Sends(c, rs)
    /\ reply' = [r \in Ranks |-> NoReply]
    /\ answer' = NoAnswer
    /\ UNCHANGED <<topologyVars, streamVars, arVars, handOffVars, kv, hist, torn, snaps,
                   failures>>

\* Session::forward: to the first rank of a pipeline, to all ranks otherwise.
\* A failed slot's next request resets it, but other slots' forwards may come
\* before that.
Forward == \E n \in Sizes : Calls("forward", n, IF InTurn THEN {0} ELSE Ranks)

\* Session::reset_kv_slot: to all ranks, whatever the topology.
ResetKvSlot == Calls("reset", 0, Ranks)

\* Session::restore_kv_slot, which the server calls for a slot it has just reset.
RestoreKvSlot == answer.op = "reset" /\ Calls("restore", 0, Ranks)

\* Session::snapshot_kv_slot, which it calls behind a forward that returned.
SnapshotKvSlot == answer.op = "forward" /\ ~ torn /\ Calls("snapshot", 0, Ranks)

Returns(a) ==
    /\ answer' = a
    /\ call' = [NoCall EXCEPT !.id = call.id]

\* What a call that returned has done to the slot, as far as the session knows.
Done ==
    /\ hist' = CASE call.op = "forward"  -> Append(hist, call.id)
                 [] call.op = "reset"    -> <<>>
                 [] call.op = "restore"  -> snaps.of
                 [] call.op = "snapshot" -> hist
    /\ torn' = (torn /\ call.op \notin {"reset", "restore"})
    /\ snaps' = IF call.op = "snapshot"
                  THEN [of |-> hist, kv |-> [q \in Ranks |-> reply[q].kv]] ELSE snaps

\* The first rank that fails ends the call.
GivesUp ==
    /\ Returns(Failed)
    /\ torn' = (torn \/ call.op # "snapshot")
    /\ UNCHANGED <<hist, snaps>>

\* A call that returns with the first rank's reply.
ReceiveFirst ==
    /\ ~ Idle
    /\ LET x == reply[call.at]
       IN  /\ x.id = call.id
           /\ IF x.ok THEN Returns([op |-> call.op, logits |-> x.logits]) /\ Done
              ELSE GivesUp
    /\ UNCHANGED <<topologyVars, streamVars, arVars, handOffVars, inbox, reply, kv, failures>>

\* A reply arrives: the next rank in order, or the end of the call with the
\* last logits there were.
Receive ==
    /\ ~ Idle
    /\ LET r == call.at
           x == reply[r]
       IN  /\ x.id = call.id
           /\ IF ~ x.ok THEN GivesUp /\ UNCHANGED inbox
              ELSE IF r + 1 \in Ranks
                THEN /\ call' = [call EXCEPT !.at = r + 1]
                     /\ Sends(call, IF InTurn /\ call.op = "forward" THEN {r + 1} ELSE {})
                     /\ UNCHANGED <<answer, hist, torn, snaps>>
                ELSE Returns([op |-> call.op, logits |-> x.logits]) /\ Done /\ UNCHANGED inbox
    /\ UNCHANGED <<topologyVars, streamVars, arVars, handOffVars, reply, kv, failures>>

-----------------------------------------------------------------------------
(* A rank's worker.                                                        *)

\* The worker answers the command it runs, on the channel of that call: the
\* reply is lost when the caller has given up.
AnswersWith(r, ok, logits, state) ==
    /\ reply' = IF call.id = cur[r].id /\ ~ Idle
                  THEN [reply EXCEPT ![r] = [ok |-> ok, id |-> cur[r].id, logits |-> logits,
                                             kv |-> state]]
                  ELSE reply
    /\ GoesTo(r, "idle")
    /\ cur' = [cur EXCEPT ![r] = NoCommand]
Answers(r, ok, logits) == AnswersWith(r, ok, logits, <<>>)

SlotOps == {"reset", "snapshot", "restore"}

\* The command loop takes the next command; a forward starts with the embedding
\* or the hand-off.
Take(r) ==
    /\ pc[r] = "idle"
    /\ inbox[r] # <<>>
    /\ LET c == Head(inbox[r])
       IN  /\ cur' = [cur EXCEPT ![r] = c]
           /\ \/ c.op = "forward" /\ IsFirst(r) /\ GoesTo(r, "layers") /\ Enqueue(r, <<Embed(c.id)>>)
              \/ c.op = "forward" /\ ~ IsFirst(r) /\ GoesTo(r, "recv") /\ UNCHANGED streamVars
              \/ c.op \in SlotOps /\ GoesTo(r, c.op) /\ UNCHANGED streamVars
    /\ inbox' = [inbox EXCEPT ![r] = Tail(@)]
    /\ round' = [round EXCEPT ![r] = 0]
    /\ took' = [took EXCEPT ![r] = 0]
    /\ UNCHANGED <<layout, arVars, send_done, dst_bytes, reply, call, answer, kv, hist,
                   torn, snaps, failures>>

\* ResetKvSlot: drain the stream and zero the slot's recurrent state.
Reset(r) ==
    /\ pc[r] = "reset"
    /\ Drained(r)
    /\ kv' = [kv EXCEPT ![r] = <<>>]
    /\ Answers(r, TRUE, Bad)
    /\ UNCHANGED <<layout, round, streamVars, arVars, handOffVars, inbox, call, answer, hist,
                   torn, snaps, failures>>

\* SnapshotKvSlot and RestoreKvSlot: copies to and from the host, behind what the
\* stream still has.
Snapshot(r) ==
    /\ pc[r] = "snapshot"
    /\ Drained(r)
    /\ AnswersWith(r, TRUE, Bad, kv[r])
    /\ UNCHANGED <<layout, round, streamVars, arVars, handOffVars, inbox, call, answer, kv, hist,
                   torn, snaps, failures>>
Restore(r) ==
    /\ pc[r] = "restore"
    /\ Drained(r)
    /\ kv' = [kv EXCEPT ![r] = snaps.kv[r]]
    /\ Answers(r, TRUE, Bad)
    /\ UNCHANGED <<layout, round, streamVars, arVars, handOffVars, inbox, call, answer, hist,
                   torn, snaps, failures>>

\* The layers' steps also advance the recurrent state, once in a forward.
AllReduceStep(r) ==
    /\ ArStep(r)
    /\ kv' = IF pc[r] = "layers" /\ round[r] = 0
               THEN [kv EXCEPT ![r] = Append(@, cur[r].id)] ELSE kv
    /\ UNCHANGED <<handOffVars, inbox, reply, call, answer, hist, torn, snaps, failures>>

PeerStep(r) == HandOffStep(r) /\ UNCHANGED sessionVars

\* An output head that does not wait for the stream.
FinishEarly(r) ==
    /\ \/ pc[r] = "sent" /\ Answers(r, TRUE, Bad)
       \/ pc[r] = "out" /\ IsLast(r) /\ Answers(r, TRUE, buf[r])
    /\ UNCHANGED <<layout, round, streamVars, arVars, handOffVars, inbox, call, answer, kv,
                   hist, torn, snaps, failures>>

\* The end of a forward: a stage that is not the last answers without logits
\* and without waiting for its stream, the output head of the last one drains
\* the stream and downloads the logits.
Finish(r) ==
    /\ \/ pc[r] = "sent" /\ Answers(r, TRUE, Bad)
       \/ pc[r] = "out" /\ IsLast(r) /\ Drained(r) /\ Answers(r, TRUE, buf[r])
    /\ UNCHANGED <<layout, round, streamVars, arVars, handOffVars, inbox, call, answer, kv,
                   hist, torn, snaps, failures>>

\* A step returns an error: pages, launches, copies, events.  A restore leaves a
\* part of the snapshot.
Fail(r) ==
    /\ pc[r] \in {"recv", "layers", "out"} \cup SlotOps
    /\ <<layout.kind, pc[r]>> \in MayFail
    /\ failures < MaxFailures
    /\ failures' = failures + 1
    /\ kv' = IF pc[r] \in {"reset", "restore"} THEN [kv EXCEPT ![r] = <<0, 0>>] ELSE kv
    /\ Answers(r, FALSE, Bad)
    /\ UNCHANGED <<layout, round, streamVars, arVars, handOffVars, inbox, call, answer,
                   hist, torn, snaps>>

\* The producer of a rank's edge will not send for the forward the rank is at:
\* it is past it, having failed.
Abandoned(r) ==
    LET p == Producer(r)
    IN  /\ cur[p].id # cur[r].id
        /\ \A i \in DOMAIN inbox[p] : inbox[p][i].id # cur[r].id

\* A consumer that spins without a limit.
TimeOutNever(r) == FALSE /\ UNCHANGED vars

\* Ten seconds without an event.
TimeOut(r) ==
    /\ layout.kind = "HYB"
    /\ pc[r] = "recv"
    /\ send_done[r] = NoEvent
    /\ Abandoned(r)
    /\ Answers(r, FALSE, Bad)
    /\ UNCHANGED <<layout, round, streamVars, arVars, handOffVars, inbox, call, answer, kv,
                   hist, torn, snaps, failures>>

\* ... because the producer is slow.
TimeOutEarly(r) ==
    /\ layout.kind = "HYB"
    /\ pc[r] = "recv"
    /\ <<layout.kind, pc[r]>> \in MayFail
    /\ send_done[r] = NoEvent
    /\ ~ Abandoned(r)
    /\ failures < MaxFailures
    /\ failures' = failures + 1
    /\ Answers(r, FALSE, Bad)
    /\ UNCHANGED <<layout, round, streamVars, arVars, handOffVars, inbox, call, answer, kv,
                   hist, torn, snaps>>

Device(r) == Execute(r) /\ UNCHANGED <<arVars, handOffVars, sessionVars>>

Works(r) ==
    \/ Take(r) \/ Reset(r) \/ Snapshot(r) \/ Restore(r)
    \/ AllReduceStep(r) \/ PeerStep(r) \/ Finish(r) \/ TimeOut(r)

Next ==
    \/ Forward \/ ResetKvSlot \/ SnapshotKvSlot \/ RestoreKvSlot \/ Receive
    \/ \E r \in Ranks : Works(r) \/ Device(r) \/ Fail(r) \/ TimeOutEarly(r)

AllRanks == UNION {0 .. l.stages * l.width - 1 : l \in Layouts}

\* Worker threads and streams run, and a caller receives what it waits for;
\* nobody has to call, and nothing has to fail.
Fairness ==
    /\ WF_vars(Receive)
    /\ \A r \in AllRanks : /\ WF_vars(r \in Ranks /\ Works(r))
                           /\ WF_vars(r \in Ranks /\ Device(r))

Spec == Init /\ [][Next]_vars
FairSpec == Spec /\ Fairness

-----------------------------------------------------------------------------
\* Where the hand-off is known to hold: in a pipeline, and in a hybrid layout
\* as long as nothing has failed.
Sound == layout.kind = "HYB" => failures = 0

\* The logits a forward returns are those of this forward, computed through all
\* stages from all ranks' partials, with nothing of an earlier or abandoned
\* forward in them (run_forward).
LogitsAreOwn ==
    Sound /\ answer.op = "forward" =>
        answer.logits = Content(call.id, NAr, Group(layout.stages - 1))

\* When a call has returned without an error all ranks are through with it and
\* their recurrent states went through the same forwards, those that returned
\* since the reset or are in the snapshot that was restored; and what a snapshot
\* has of each rank is of the same forwards (Session::forward, reset_kv_slot,
\* snapshot_kv_slot, restore_kv_slot).
RanksStayInStep ==
    /\ Idle /\ answer.op \in {"forward", "reset", "snapshot", "restore"} =>
          \A r \in Ranks : /\ inbox[r] = <<>> /\ pc[r] = "idle"
                           /\ ~ torn => kv[r] = hist
    /\ \A r \in Ranks : snaps.kv[r] = snaps.of

\* Every call returns, with logits or an error: no rank waits for ever at a
\* barrier, for a peer's event or for a producer (run_forward).
EveryCallReturns == [](~ Idle => <>Idle)
=============================================================================
