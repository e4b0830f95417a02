# A TLA+ verification of the flambeau inference server

Flambeau serves large language models on AMD GPUs behind an OpenAI-style HTTP
interface. This directory holds TLA+ modules for the parts of it whose
correctness is a matter of order, ownership and fitting together rather than of
floating-point arithmetic, the TLC configurations that check them on small
instances, and TLAPS proofs of the properties that matter most. Paths below are
relative to `src/crates/`.

## The system

| Component | Code | State | Operations | Here |
|---|---|---|---|---|
| Admission | `server/src/routes.rs`, `routes/chat.rs` | the `in_flight` counter | admit, refuse, guard drop | `Admission` |
| Request scheduler | `server/src/routes.rs`, `routes/decode_loop.rs` | slot claims, a mutex per slot, the `batched_pending` queue, `batched_dispatcher` | claim and release a slot, chunked prefill, push a decode, lead a batch, mixed batches | `Scheduler` |
| Prefix cache | `server/src/prefix_cache.rs` | entries by terminal chunk key, LRU order, bytes used | longest match, logits and snapshot lookup, touch, insert with eviction | `PrefixCache`, `RequestPath` |
| Slot state and KV page pool | `forward/src/core/scratch.rs` | KV rows, free pages, page tables | acquire, grow, release | `PagedKv` |
| Rank workers and session | `forward/src/runtime/{mod,orchestrate,workers}.rs` | a thread and a command channel per rank, reply channels | forward, reset, snapshot, restore on every rank | `RankSession` |
| All-reduce | `forward/src/runtime/ar.rs` | slab of partials, barrier, staging buffers, events | publish, pull, sum, clear | `AllReduce` |
| Pipeline hand-off | `forward/src/engine.rs` | a buffer and an event per stage edge | `peer_recv`, `peer_send` | `HandOff` |
| Weight sharding | `forward/src/loader/` | each rank's part of the checkpoint | cut a recurrent, an attention, a feed-forward layer | `Sharding` |
| Tool-call parsers | `server/src/tool_call_parser/` | parser state and held-back text | feed a delta, finish | `HermesParser`, `QwenParser`, `GemmaParser` |
| Streamed answers | `routes/decode_loop.rs`, `routes/messages.rs` | detokeniser cursor, open content blocks | push a token, flush, end | `StreamPipeline`, `MessagesStream` |
| Guided decoding | `runtime/src/json_{grammar,schema}.rs`, `server/src/gpu_sampler.rs`, `routes/decode_loop.rs` | a byte automaton with a stack of frames, the tokens so far | feed a byte, mask the logits, sample or force a token | `JsonGrammar`, `JsonSchema`, `GuidedDecoding` |

A request enters through a route, passes admission, and runs on a blocking
thread of its own. The thread claims a slot and holds it to its end. Every
forward goes through the one `Session` behind the model's mutex, which hands a
command to every rank worker; the ranks meet in all-reduces (tensor parallel) or
hand activations on (pipeline parallel), each with the part of the weights it
cut from the file at boot. The prefix cache is consulted once at the start of a
request and filled at chunk boundaries and at the end of the prompt. The tokens
of a streamed answer are decoded as they come, parsed, and sent as events.

What is hard:

- who may touch a slot when. A request holds the mutex of its slot only while it
  prefills or decodes alone; in between another request's thread, the leader,
  locks it and advances it. The queue, the dispatcher mutex, the slot mutexes and
  the response channels must together make sure that every decode is run once, in
  the right slot, and answered, while prefilling threads join the dispatching,
  forwards fail, and slots are reused with the rows of their last request in them;
- cache lookups that take the lock several times, so that entries are evicted and
  replaced between a match and its use;
- host threads that run ahead of GPU streams: a buffer is reused when the host is
  done with it, unless an event, a barrier or a drained stream says otherwise;
- a call that gives up on its first failing rank while the others go on;
- text that arrives cut anywhere, inside a character or inside a tag;
- an automaton that must refuse exactly what no continuation can mend, over tokens that
  span the boundaries of its grammar;
- parts of a tensor that no rank ever compares with those of its peers.

What makes each component correct:

- admission: the number of admitted requests is bounded and the count comes back;
- scheduler: one owner per slot, one dispatcher, no pending lost, doubled or run
  in the wrong slot, conversations that never mix, every request served;
- prefix cache: a hit is the state of exactly the tokens it stands for, and the
  bytes held stay within the budget;
- page pool: a page belongs to one slot or to the free list, releasing a slot
  returns all of its pages, and the block tables follow the host's lists;
- session: every rank runs the same operations in the same order, a reply answers
  the call it was made for, and every call returns;
- all-reduce: a rank adds exactly its peers' partials of this round;
- hand-off: a stage reads an activation once it is written, and its own;
- sharding: the ranks' parts fit together to the layer of the checkpoint;
- parsers: the client is sent what was meant, however the text was cut;
- guided decoding: the automaton accepts the beginnings of what was asked for and
  nothing else, never leaves the sampler without a byte to choose, and is where the
  model is.

## Modules

| Module | What it is |
|---|---|
| `Scheduler` | the request scheduler, one action per atomic step of a request thread |
| `CompletionService` | what it promises: private conversations, advanced one step at a time |
| `PagedKv` | the page pools, block tables and rows of the paged KV cache |
| `Admission`, `PrefixCache` | the admission counter; the cache's operations, one lock each |
| `RequestPath` | a request from its handler to its first tokens; composes the two |
| `Topology` | ranks, stages and layouts |
| `GpuStreams` | streams, events, buffers and the L2 cache of the GPUs (external) |
| `AllReduce`, `HandOff` | what ranks do together inside a forward, over `GpuStreams` |
| `RankSession` | the session and the workers; composes the four modules above |
| `StreamText` | text, tags and events, shared by the parsers |
| `HermesParser`, `QwenParser`, `GemmaParser` | the three parsers |
| `MessagesStream` | the content blocks of `/v1/messages` |
| `StreamPipeline` | a streamed answer from tokens to the client; composes the five above |
| `Sharding` | which part of the checkpoint each rank loads |
| `JsonBytes` | bytes by class, frames of strings and numbers, shared by the two automata |
| `JsonGrammar`, `JsonSchema` | the automaton of `json_object`; that of a schema |
| `JsonText`, `SchemaText` | references: the grammar of RFC 8259; the values of a schema |
| `JsonStream` | any text fed to the first automaton and to its reference, side by side |
| `JsonConstraint` | the same with either automaton; extends `JsonStream` |
| `GuidedDecoding` | an answer in JSON mode, token by token |
| `MC...` | instances for TLC |
| `...Proofs` | theorems about `Scheduler`, `PagedKv`, `RequestPath`, `RankSession`, `Sharding`, `JsonStream` and `GuidedDecoding`, and about folds |

### Scheduler

`pc[r]` is where the thread of request `r` is; its values name the lock regions
of the code. Steps that run under one lock are one action, and two lock regions
are never merged.

| Variable | Code |
|---|---|
| `slot`, `slot_in_use` | `slot_idx` of the request, `ServerState.slot_in_use` |
| `inflight[s]` | who holds `inflight_pool[s]` |
| `dispatcher` | who holds `batched_dispatcher` |
| `batched_pending` | the queue of `PendingDecode`s |
| `drained[r]`, `locked[r]` | the batch a dispatching thread took, and how many of its slots it has locked |
| `reply[r]` | the response channel: `empty`, `ok`, `err`, or `closed` when its sender was dropped |
| `prefill_start`, `restored_at` | the locals of `chunked_prefill_pp` |
| `produced[r]` | tokens sampled; the decode loops' `step` |
| `rows[s][i]` | for which request KV row `i` of slot `s` was written, `None` if its contents are unknown |
| `seen[s]` | how many tokens the recurrent state of slot `s` has consumed since its reset |
| `snaps` | the snapshots in the prefix cache: how many tokens each stands for, whether it has logits, and whether it was exactly that state when it was taken |

A request goes through `Claim`, one of the `Start...` actions (reset and prefix
cache lookup), the chunk loop (`LockChunk`, with `MixedOn` `TakeDispatcher` and
`DrainMixed`, then `PureChunk` or a mixed dispatch), `FirstToken`, its decode
steps, `ReleasePages` and `ClearClaim`. A request of `Direct` (streaming, JSON,
logprobs) keeps its mutex and decodes in `DecodeDirect`. Any other takes the fast
path (`CheckOthers`, `DecodeFast`) when nobody else is active, or `Push`es,
tries to lead (`TryLead`), drains and dispatches (`DrainOrStepDown`, `LockNext`,
`DispatchBatch`, `UnlockBatch`) and waits (`Receive`).

Every forward may fail, for any reason; a failure leaves the rows it was writing
unknown and ends the requests the code ends. The check against the context cap
is a guard of the successful forward, so at the cap only the failure is left.

Abstractions: token values, sampling and stop conditions are left out, except
that a request may end after any token and must at `max_tokens`. The waiting
windows (`decode_batch_window_us`) are left out: they change which interleavings
are likely, not which are possible. A cache lookup finds any usable entry or
none, which covers evictions. All prompts are taken to be prefixes of one
conversation, so any entry may match any prompt. `PP`, `TP` and hybrid topologies
differ below this module. Forwards are single steps since they run under the
model's own mutex. A slot's rows are one array whether the cache is contiguous
or paged; with `Paged` the pages may run out at any forward. Whose rows a paged
slot really has is what `PagedKv` is for: they are its own only as long as batches
stand in the order of their slots, see `paged_order`.

### CompletionService

Three variables: the stage of each completion, the number of tokens its
conversation has been advanced by, and the tokens it has produced. `Scheduler`
implements it under the mapping at its end: the conversation of a request is the
recurrent state of the slot it owns. A step that advanced a conversation twice,
or a token sampled from a conversation that is behind, or a slot whose state was
not its owner's, would be no step of the service.

### PagedKv

`PagedKv` looks inside a forward where `Scheduler` does not: a forward visits the
attention layers one by one, each with a pool of its own.

| Variable | Code |
|---|---|
| `stage`, `slot`, `slot_in_use` | how far a request is, its `slot_idx`, the claim flags |
| `prefilled`, `produced` | tokens of the prompt forwarded; tokens generated |
| `batch`, `layer`, `row` | the requests in the forward that runs, the layer it is at, the row whose page is arranged next |
| `free[l]`, `per_slot_held[l][s]` | the fields of `PagePool` |
| `block_tables[l][s]` | the slot's row of the layer's device block table |
| `pool[l][p][i]` | row `i` of page `p`: `<<request, position>>` of what is in it |
| `misplaced` | history: some batch was appended through rows of other slots than its own |

`StartPrefill` and `StartDecode` begin a forward. In each layer a forward of one
request grows its slot with `EnsurePages` (or ends in `EnsureExhausted`, which
keeps the pages it got), a batch of several goes row by row through
`AcquirePage`, and `AppendRows` writes the rows through the block table and moves
to the next layer or finishes the forward. Whose row of the table that is, is
`TableRow`: a forward of one request takes the single-slot path, which hands the
kernels the row of its slot (`standard_attn.rs:480`); a batch of several hands them
the table from its start and no slots, and both kernels, the one that appends and
the one that attends, take `blockIdx`, the place in the batch
(`kv_append_f16_paged_slots.cu:43`, `attention_decode_f16_paged.cu:65`). The host
patches the row of the slot in either case. `ForwardFails` may end it anywhere.
`ReleasePages` returns the slot's pages in every layer and `ClearClaim` clears
the claim.

Abstractions: keys and values are whose row they are; two writers of one row in
one kernel race, which leaves it unknown. Any decoding requests may be batched, in
any order: who is batched with whom is `Scheduler`'s business, and the queue gives
no order. Attention reads through the table row the append went through; it is not
an action, since `AppendsInHeldPages` says of that row where it leads. A
chunk is always of `ChunkTokens`; other forwards may run between two chunks of a
prompt. One rank is modelled: the ranks run the same host code on pools of their
own. Layers that share another layer's cache, sliding windows and mixed batches
are left out: the paged path returns an error for them before it touches a page.
Warm starts are left out too, as snapshots are refused for paged pools.

### Admission, PrefixCache and RequestPath

| Variable | Code |
|---|---|
| `in_flight`, `guard[h]` | `ServerState.in_flight`; the handler's `AdmissionGuard`, or `refused` between the raise of the count and its roll-back |
| `by_terminal`, `lru_order`, `used_bytes` | the fields of the cache behind its lock; a key is the prefix of tokens its chained hash stands for |
| `sent` | completions sent so far (a bound) |
| `job[h]` | the generation thread of a handler's request: where it is, its prompt and mode, the tokens its slot was fed (`fed`), the match, the row of logits in its buffer and the copy the streaming path takes |

`Asks`, `Refused`, `Dispatch` and `Returns` are the handler's. The thread goes
through `Claim` (reset and `longest_match`), `TakeLogits`, `Restore`, `TouchHit`
(one lock of the cache each), `PrefillChunk` with the capture of the boundary it
starts at, `FirstToken` or, streamed, `EmitFirstToken` and `CaptureCopy`, and
`Decode`. Resets, restores, snapshots and forwards may fail. A handler may be
dropped at any time; its thread never looks at the guard, so that a drop before
the thread's first step stands for one at any later step. Keys do not collide.
The stop mask is always applied (the `relax_stop_mask` switch only leaves rows
unmasked). `prefix_cache_try_restore` with a whole match goes through the same
steps on every path.

### Topology, GpuStreams, AllReduce, HandOff and RankSession

A rank's worker is a host thread (`pc`, `cur`, `round`) that appends operations
to its stream (`queue`) and goes on; `Execute` runs the head of a stream. A buffer
is abstracted to what its content stands for: the forward, the round, and the
ranks whose partials are summed in it. `buf` is what the rank's own stream sees,
`dram` what a peer's copy engine is sure to see: a kernel's write gets there with
a flush, or when the stream is drained. An event is a pair of counters, records
asked for and records executed.

| Variable | Code |
|---|---|
| `slab`, `arrived`, `passes`, `ticket` | the coordinators' shared vector of partials, and the reusable `Barrier` |
| `staging`, `backend` | the staging buffers of `BarArCoordinator`; BAR1 peer copies or the bounce through the host |
| `send_done`, `dst`, `dst_bytes` | an edge's event, buffer and size |
| `took` | history: the forward whose event a consumer took |
| `inbox`, `reply`, `call`, `answer` | command channels, reply channels of the current call, the call, and what it returned |
| `kv`, `snaps` | each rank's recurrent state as the forwards it went through; the snapshot the server keeps |
| `hist`, `torn`, `failures` | histories: the forwards that returned, whether a call failed since the reset; failures so far (a bound) |

A pipeline (`PP`) runs its ranks in turn; tensor-parallel (`TP`) and hybrid
(`HYB`) ranks run at once. An all-reduce goes layers, publish, snapshot of the
slab, pull and sum, clear, each separated by the barrier, with events on small
payloads and a drained stream on large ones. In a hybrid a consumer spins for its
producer's event for ten seconds: `TimeOut` when the producer will not send any
more, `TimeOutEarly` (counted as a failure) when it is only slow. `Fail` is any
error a step returns, where `MayFail` allows it.

Left out: a rank of a tensor-parallel stage that fails inside a forward (see
Other disagreements); the growth of staging buffers (`hipFree` waits for the
device); the bails on an unallocated edge, which no caller reaches; page release
and `forward_mixed`, which send and collect like the operations here.

### StreamText, the parsers, MessagesStream and StreamPipeline

Text is a sequence of pieces (a mark such as `<`, a word such as `tool_call`, or
`A` for anything else), a tag a sequence of pieces, so that tags share prefixes
and a cut may fall inside one. A parser is a record of the fields of the code's
struct; `Push` and `Finish` run its steps until one makes no progress. The
message that is generated says which bytes come and what they mean; `Decode` takes
one or more bytes as a token, and generation may end at any point.

| Variable | Code |
|---|---|
| `message`, `parallel`, `api` | what the model says; `parallel_tool_calls`; which endpoint streams |
| `made`, `decode_cursor`, `pending_emitted_in_segment`, `emitted_text` | bytes generated, and the locals of `push_and_emit` |
| `parser`, `events` | the parser; the events sent, neighbours joined |
| `blocks` | the locals of `stream_messages_anthropic_sse` and the frames it sent |
| `connected`, `has_tool_calls`, `abort_after_close`, `finish_reason`, `phase` | the client, and the end of the stream |

Two bytes, `b1` and `b2`, make one character. JSON values are opaque. Left out are
length limits (the 40 bytes of a held-back name) and text of several bytes per
character inside a tag search, where the code panics. `/v1/messages` never stops
after one call. The empty signature that is sent before the stop of a thinking
block is left out.

### Sharding

`file` is a checkpoint's geometry (value and key heads of the recurrent layers,
query and key/value heads, experts, intermediate and hidden sizes, whether gate
and up are fused), `n` the number of ranks, `gdn`, `attn` and `ffn` what each rank
has loaded: for each row or element of its part, the one of the file it was cut
from. Ranks load one after the other (`launch_tp` waits for each), and a load that
finds a size indivisible ends the boot. `KeyHeadOuter`, `KeyHeadInner` and `KvHead`
are the head arithmetic of the kernels, on a rank's own head numbers.

A head is a row of whole blocks; the bytes of quantisation blocks and the
re-quantising fall-back, which cuts the same elements, are abstracted. The
`% n_ranks` guards of `load_gdn_layer` compare a multiple of `n_ranks` and never
fire; what does stop an indivisible number of value heads is the length of the
`ssm_a` and `ssm_dt` vectors, and that is the guard `GdnFits` has. Geometries have
a multiple of `k` value heads: with 24 over 16, which a test names, the kernels'
`n_rep` is 1 and they read past the key heads on one device too.

### JsonBytes, JsonGrammar, JsonSchema, JsonStream and JsonConstraint

A byte is one of the characters the automata tell apart, `x` for any byte that only a
string takes, or `ctl` for a control character. An
automaton is a record `[stack, invalid, finished]` as in the code, a frame a record
with the fields of the code's variant, a schema a record `node` as `compile` leaves
it. Both automata are functions from a state and a byte to a state (`Feed`), with
one definition for each `feed_...` method; `FeedSlice` folds them over a token. A
number may hand the byte that ended it to its parent, which is `FeedGap` here.

`JsonText` reads the same bytes by a different plan (a stack of brackets and a place
in the grammar), and is widened by what `Lenient` names. With `Lenient` empty it is
RFC 8259. `SchemaText` generates the values of a schema, in any spelling, up to a
length. `JsonConstraint` feeds a text to the automaton that is asked for and to the
reference: `js` and `text` for `json_object`, `ss`, `grammar` and `out` for a schema.

### GuidedDecoding

`run_completion_blocking_ids` in JSON mode: `generated` is
`generated.len()`, `fired` and `queue` are the fields of `ReasoningCloser`, `closing`
how much of its marker the generated tokens end with, `finish` is `finish_reason`;
`answer` is what the answer is as JSON. `Admitted` is what the mask leaves of a
candidate, `Banned` are the stop tokens at minus infinity, `Ends` are the four ways
out of the loop. Logits are left out: any `MaskWidth` tokens may be the best, and of
those not banned or masked any may be sampled; if all are, any token may come out. A
token that is sampled is one the mask looked at and kept (`Kept`) or one it did not look
at (`Unmasked`), and `strayed` remembers that some token of the answer, or a prefill the
automaton refuses, was not kept. Stop strings may match after any token. Tokens are whole
characters. The reference that reads `answer` takes the extras of the automaton that is
asked for, and nothing else.

## Runs

| Run | Question | Instance |
|---|---|---|
| `scheduler_batched` | batched decoding and direct requests over a paged cache; is every request served? | 4 requests, 2 slots, fair |
| `scheduler_mixed` | mixed batches, snapshots and warm starts | 3 requests, 3 slots, slots symmetric |
| `scheduler_rows` | violation: where the first decode writes | 2 requests, 2 slots |
| `scheduler_stranded` | violation: may a waiting request wait for ever? | 2 requests, 2 slots, fair |
| `paged_scarce` | pages, tables and rows when pages run out | 3 requests, 2 slots, 2 layers, 4 pages |
| `paged_order` | violation: do the kernels find a row's page? | 2 requests, 2 slots, 6 pages |
| `requests` | admission, and a cache that evicts and replaces between lookups | 4 handlers, 2 slots, 3 completions, handlers symmetric |
| `ranks` | forwards and slot operations on every topology, with failures | TP 1×2, PP 3×1, HYB 2×1; 3 calls; fair |
| `streams` | streamed answers in three formats on two endpoints | messages of 2 items, tokens of up to 4 bytes |
| `json` | what do the two automata accept, and can it always be continued? | any text up to depth 5; six schemas |
| `guided` | does the mask keep the answer in the grammar? | 24 tokens, a mask of 22, answers of 6 |
| `sharding_pairs` | violation: does a rank hold the key heads its value heads need? | three geometries on 1, 2 and 4 ranks |

### Scheduler

The bounds: chunks of two tokens, prompts of one, two and three tokens (a partial
chunk, a whole one, and one with a boundary inside), two or three tokens to
generate, a context cap of five rows, which the longest request reaches. Four
requests on two slots make every slot be reused, a leader collect a pending that
arrived while it was dispatching, and a request fall back to the fast path; a
third slot in the mixed runs lets two decodes meet one prefill, so that the
batch does not fit and is pushed back.

- `SlotsHaveOneOwner`, `OneDispatcher`: ownership of slots and of the dispatch.
- `PendingsAreCurrent`: a pending names the slot and position its request is at,
  there is at most one per request, and its slot is never locked by a thread
  that waits. This is why the leader's `blocking_lock`s cannot deadlock.
- `NoLostPending`: a request with an empty channel has its pending in the queue
  or in a batch that has not run.
- `QueueHasLeader`: the argument of the "#276" comment, a queued pending always
  has a thread that will look at the queue. It is checked without mixed batches;
  with them it fails, see below.
- `ContextIsOwn`: the rows a request attends to were written for it.
- `StepsRunOnce`: the recurrent state has consumed every step exactly once.
- `SnapshotsAreExact`: a snapshot is the state at the boundary it is filed under.
- `ImplementsService`: the scheduler implements `CompletionService`, which also
  says that every step runs once; it is what `scheduler_batched` checks of it.
- `EveryRequestEnds`: every request is served to its end, without mixed batches.

Deadlock is checked in `scheduler_batched` and in the paged and request runs; it
is off where mixed batches are on, because there the system really may stop.

Fairness: weak fairness of every request thread. The threads are operating
system threads that nothing starves; a thread that waits for a slot spins in
`claim_slot_blocking`, and the slot mutexes are tokio mutexes, which are fair.

### Pages

The instances have pages of two rows and contexts of at most six, so that a
slot needs up to three pages, chunks of four tokens, so that a prompt takes two
pages at once or two chunks, and prompts of one, three and five tokens. With four
pages in each of two layers the pool runs dry while several requests hold
pages, in either layer, within one call or between calls; and pages of ended
requests come back in an order that is not the first one, so that a stale block
table entry names a page somebody else has. The prompts of the passing runs end
inside a page, because a prompt that fills its last page is the case named under
`scheduler_rows` below: behind it nothing that is said of rows holds. The batches of
`paged_scarce` are in any order, and everything but `RowsAreOwn` is stated of all of
them.

- `NoPageTwice`, `NoPageLost`: the pages of a layer are partitioned between the
  free list and the slots.
- `FreeSlotsHoldNothing`: a slot that may be claimed holds no page.
- `TableNamesHeldPages`: the device's table of a serving slot is the host's list.
- `RowsAreOwn`: as long as every request of a batch stood at the place of its slot
  (`~misplaced`), every row a request wrote is found again where the table of its
  slot says. Without that it is false, and `paged_order` shows the step at which
  it goes wrong.
- `ExhaustedOnlyWhenNeeded`: a forward lacks a page only if the rows of the requests
  that have slots need more pages than there are, through failed growth, failed
  forwards and both ways to grow. So the floor, `max_slots * max_pages_per_slot`,
  is enough.

### Requests

Two prompts, the second one an extension of the first, chunks of two, and a budget
of nine bytes, with one byte per row and for the recurrent state and two per row
of logits, hold one or two of the three possible entries: inserts evict what
another thread has just matched, and the longer prompt's boundary replaces the
full entry of the shorter one. Three completions are enough for one to match, a
second to evict and a third to fill in between. One place in the queue and two
slots make a cap of three against four handlers.

- `CountIsExact`: the count is that of the handlers that are counted, in any order of
  raises, refusals and drops; that those admitted stay within the cap is proved from it.
- `EntriesAreExact`: an entry's state and logits are those of its key's tokens,
  without a stop mask.
- `AnswersStartFromOwnPrompt`: a first token is sampled from logits of the whole
  own prompt, and the decode goes on from exactly that prompt's state.
- `EveryEntryIsEvictable`: the LRU list and the index cover each other.
- `BudgetUpToLostRows`: the snapshots held outgrow the budget by at most one row
  of logits per request, which is all that holds, see below.

### Ranks

Two all-reduces per forward make staging buffers and the slab be reused; payloads
of one and two put a forward on either ordering of the all-reduce and make an
edge's buffer grow; three calls are a reset, a forward and a snapshot or a
restore, or three forwards, one of which was abandoned; three pipeline stages have
a stage that is neither first nor last. One failure or early timeout may happen,
in a forward of a pipeline or a hybrid and in operations on a slot.

- `SumsAreWhole`: no rank adds a peer's partial of another round, or one that
  already holds a sum.
- `SlabIsInStep`: a rank publishes into an empty place and finds all partials.
- `LogitsAreOwn`: a forward returns logits computed from all ranks and stages in
  that forward, each stage's input being that of its own forward.
- `RanksStayInStep`: behind a call that returned, every rank's state went through
  the same forwards; a snapshot's parts belong together.
- `EveryCallReturns`: with an answer or an error.

For hybrids `LogitsAreOwn` is stated up to the first failure (`Sound`), because of the
stale event described below. The session may stop after
`MaxCalls`, so deadlock is not checked; that nothing hangs before is
`EveryCallReturns`. Fairness: workers and streams run and a caller receives; no
call has to be made, and nothing has to fail. The early timeout is not fair
either; the late one is, since it is a loop over a clock.

### Streams

Messages of up to two items (text with a dangling `<`, a character of two bytes,
a torn character, reasoning, calls in every form a family's template or the
parser's forgiveness knows), some with a forced opening or inside reasoning from
the start, are cut into tokens of one to four bytes in every way. Four bytes reach
across every pair of tags, and two items put every kind of item behind every
other. The client may leave and generation may end anywhere; an answered stream
stops, so deadlock is not checked. This run does not state liveness.

- `TextIsDecoded`: what was emitted is the decoded prefix, no byte doubled or torn.
- `SameHoweverCut`: the events are those of the uncut text.
- `MessagesArrive`: the events of a whole message are what was meant.
- `CallsAreNested`: opened in order, closed before the next, and at most one is
  complete when parallel calls are off.
- `BlocksAreWellFormed`, `BlocksCarryTheAnswer`: the content blocks of
  `/v1/messages` start once, stop once, do not overlap except as described below,
  and hold what the events said.

Excluded are forms on which the code is known to depend on the cut: a bare
`<name>` call behind a dangling `<`, and a wrapperless `<function=name>` (Qwen);
garbage between an object and its close (Hermes); an all-lowercase line with
markers, which is taken for an echo (Gemma).

### Guided decoding

`json` feeds every text, byte by byte: `json_object` from every class of bytes and
nested up to five deep, where the states of automaton and reference together are
finite, so that texts of every length are covered; each schema from the bytes its
values need. The schemas have two keys one of which begins the other, a key that is
required, additional keys (among white space with a newline), an enumeration, an array of
numbers within an object, a bare number in every spelling, and any value. `fed` bounds the bytes that mean something and `whole` the values the text is held
against, which are longer, so that what is accepted can be seen to become one. The
letters inside strings of a schema's text are two.

- `AcceptsExactly`: the automaton refuses and completes exactly where the reference
  does, widened by trailing commas, white space inside strings, keys and literals, and
  numbers like `01` and `1.` (see Other disagreements).
- `NeverStranded`: what was accepted and is not complete can go on with a byte other
  than white space.
- `CompleteIsMember`: a text that is complete is JSON, but for two extras, and a value of
  its schema: required keys are there, none twice, every value of its type. The extras
  are the spelling of numbers and white space in keys; that there is no third is part of
  the property. A value is compared without regard to the white space in keys.
- `MembersAreAccepted`: no value is refused, however it is spaced.
- `AcceptedCanComplete`: what is accepted begins a value, and reads as the beginning of
  JSON with the same two extras.

The instance leaves out an enumeration one of whose members begins another, and a closed
object without properties; see Other disagreements.

`guided` has a vocabulary of every byte its texts need (a zero and a newline among them,
so that answers do spell the extras), tokens of two and three bytes across the boundaries
between values, special tokens, an id without text and a marker of two tokens. The mask
looks at 22 of the 24 tokens: next to two banned stop tokens that is all of the others,
and once fewer are banned a token that the mask did not look at may be sampled, as with
2048 of the tokens of a real vocabulary. Answers have six tokens, two of them below
`MIN_RESPONSE_TOKENS`, and requests come with and without a prefill, tools, and a
reasoning budget of two.

- `MaskHolds`: as long as the mask has kept every token (`~strayed`), none breaks the
  automaton, the first starts the value, and nothing is added behind a value that was
  complete with the first token (where the loop goes on). It says nothing of an answer
  behind a token that the mask did not look at or that a marker forced.
- `AnswerIsJson`: what the loop ends as complete is JSON, together with its prefill and
  with the automaton's extras; and what the automaton has taken, strayed or not, reads as
  the beginning of such a text, so that automaton and answer are at the same place.

The loop stops, so deadlock is not checked; neither is it for the automata, which are
fed nothing behind a refusal.

### Disagreements that a run shows

`scheduler_rows`: the decode loops number their steps from 1 and pass
`prompt_ids.len() + step` as position, while the driver's `position` is the
length of the cache before the token is appended. The first generated token is
therefore written one row too far, and the row right after the prompt is never
written, though attention covers it. `ContextIsOwn` leaves that one row out.
With pages it may be the row at which a page is due: the batched path acquires one
when the position it is given is the first of a page (`standard_attn.rs:964`), so that
a prompt that fills its last page makes the first decode start at the second row of a
page, and none is acquired. The block table still has there what it had before, zero
or a page of the slot's last owner, which another slot may hold. A decode that runs
alone grows up to its position and does not meet this. `EndInsidePages` excludes it
from the theorems about rows.

`scheduler_stranded`: the step-down of a leader checks the queue and drops the
dispatcher in one critical section, so that nobody who pushed can be missed. A
prefilling thread that holds the dispatcher drops it without that check. A thread
that pushed and failed `try_lock` in between waits for an answer that only comes
if some other request happens to dispatch later.

`paged_order`: a batch of several is in the order of the queue, and "the pending queue
can arrive in any order" (`v2_handle.rs:227`). The host acquires a row's page for its
slot and enters it in the slot's row of the block table, but the kernels look row `i`
of the batch up in row `i` of the table. Whenever row `i` is not of slot `i`, its token
is written to the page that the table names for another slot, over that slot's rows or
to a page that is free, and attention reads the other conversation. The run needs two
requests that decode together in the order of slot 1 and slot 0; slots 1 and 2 in order
would do as well. One request that decodes alone is not concerned, whatever its slot.

`sharding_pairs`: `gdn_tp_mode_for` cuts the key heads (`FullShard`) whenever a
rank's value heads are not whole rounds of the key heads, but the loaders that
call it always ask for the rep-outer pairing, where value heads cycle through the
key heads. With 32 value and 16 key heads on four ranks, the case of a unit test,
value head 8 belongs to key head 8, which is on rank 2; rank 1 pairs it with its
own first key head, 4. `FullShardBreaksCycles` proves that no checkpoint which has more
value than key heads and is cut in this way escapes: once rank 0 has loaded its slab,
heads do not pair.

### Other disagreements

Met while reading, and left out of the models or stated around:

- Hybrid hand-off (`engine.rs:510`): the event a failed or timed-out consumer
  never took stays in the edge, and the next forward's consumer takes it for its
  own. `Sound` ends where this begins.
- A failure of one rank between two barriers of a tensor-parallel forward
  (`ar.rs:83`) leaves its peers at the barrier; the arrivals of the next forward
  complete that barrier, partials of two forwards are mixed, and later a forward
  waits for ever. `ar_epilogue`'s "next AR call sees `None` slots" also fails after
  an error between publish and epilogue.
- Dense attention with more than one but fewer key/value heads than ranks
  replicates all of them, and the kernels' group arithmetic on local heads then
  pairs query heads with the wrong one (`SeveralReplicatedHeadsMispair`); when a
  rank has fewer query heads than there are key/value heads, the group size is
  zero. Under `FullShard`, key heads that the ranks do not divide load wrong rows
  without an error.
- A streamed response drops its admission guard when the response is returned, and
  a disconnected client's handler drops it while the generation goes on, so the cap
  does not bound generations (`routes/chat.rs:31`). A refused handler is counted
  for a moment, which can refuse another one.
- A full cache entry that ends at a chunk boundary loses its logits when a longer
  prompt's boundary capture replaces it. The comment "a partial final chunk is
  *not* keyed" (`prefix_cache.rs:51`) contradicts `from_prompt`.
- The claim of a slot is released by a call, not by a guard: a panic leaks the slot
  (`decode_loop.rs:695`), and the Hermes and Gemma parsers do panic on characters of
  several bytes at some cuts, against `tool_call_parser/mod.rs:157`.
- The Hermes and Qwen parsers treat the messages listed under Streams differently
  according to the cut, against `mod.rs:152`. A Qwen call whose text ends behind
  `</function>` is never closed, and is dropped.
- `/v1/messages`: reasoning that resumes after text is sent as deltas of the
  thinking block that was stopped, and overlaps the open text block ("Reasoning
  always precedes text/tools", `messages.rs:456`); an answer of calls only gets an
  empty text block when it is streamed; an error event comes behind `message_stop`.
- The byte count of the prefix cache (`prefix_cache.rs:474`): `insert_with_kv` adds an
  entry's snapshot bytes to `used_bytes` and subtracts snapshot and logits bytes when
  the entry is replaced or evicted. The count falls behind by a row of logits each time,
  and the snapshots held exceed the budget ("account the bytes against the budget, evict
  LRU until under cap"). `BudgetUpToLostRows` bounds by how much.
- The `json_object` automaton calls texts complete that are not JSON: white space passes
  in any frame but a number (`json_grammar.rs:126`), so inside strings, escapes and
  literals too; objects and arrays may close behind a comma; numbers may have leading
  zeros, an empty fraction and, before white space, an empty exponent. `Extras` names
  these, and `AcceptsExactly` shows that there is no other.
- The schema automaton drops white space "in any structural gap (not inside a string,
  ...)" (`json_schema.rs:321`), and a key is not a frame of its own: `"a b"` passes for
  the key `ab`, and so does a key with a raw newline, which is no JSON.
- Nor are its numbers those of JSON (`json_schema.rs:558`): it takes `01`, `1.` and,
  before white space (`:325`), `1e`, so that `{"a":01}` is complete under a schema. These
  two are the "number" and "key" of `Extras`; `CompleteIsMember` shows that within the
  bounds of its texts there is no other.
- An enumeration refuses the end of a member that begins another, `1` beside `10`
  (`json_schema.rs:500`), against "never over-rejects" (`:16`).
- A quote is accepted in a closed object that has no property to offer
  (`json_schema.rs:621`), and then no byte is; the comma has a check against this.
- `GgufTokenizer::decode` keeps special tokens (`quant/src/tokenizer.rs:125`, against the
  doc above it). So a stop token has text, the mask's rule for tokens without text
  (`gpu_sampler.rs:56`) does not meet it, and inside a string the automaton accepts it:
  an answer may stop there.
- In `json_object` mode a token such as `[{` opens an array, as the mask looks for a brace
  anywhere in the token (`gpu_sampler.rs:81`).
- Tokens outside the best 2048 are not masked (`gpu_sampler.rs:30`): where the automaton
  refuses all of the best, any other is sampled, and the result of `feed_slice` is
  dropped. In `GuidedDecoding` the answer has `strayed` then, and `MaskHolds` ends.
- `json_mode` is honoured by the path that does not stream only.

## Proofs

`SchedulerProofs` proves its theorems for any sets of requests and slots, any
prompts, chunk size and context cap, with and without mixed batches or paging,
from `SchedulerAssumption` alone.

- `TypeCorrect` (`TypeOK`). The types are not inductive by themselves: `seen`
  grows by the length of a chunk, which is a natural number only while prefill
  has not passed the prompt (`PrefillBound`), and a pending names a slot only
  because its request has one (`SlotHeld`). `TypeInv` adds both.
- `OneOwner` (`SlotsHaveOneOwner`), from `TypeInv`: only `Claim` and `ClearClaim`
  touch the claims.
- `SingleDispatcher` (`OneDispatcher`), from `DispatchInv`: who holds the
  dispatcher is read off the places of the threads (`DispatcherInv`), a batch
  exists only inside a dispatch and no more slots are locked than it names
  (`DrainedInv`), the chunk loop has tokens left (`ChunkingInv`), and a mutex is
  held by its owner, in the places where owners hold it, or for a pending of the
  dispatcher's batch (`HolderInv`). `DispatchMoves` establishes the four for the
  thread that moves, action by action, and `OthersKeep` carries them over for
  the rest.

`SchedulerServiceProofs` goes on from there, from the same assumption, to everything
else the scheduler's runs check. Each invariant needs the ones before it:

- `PlaceInv`: where a request is says whether its prompt is prefilled and how many
  tokens it has produced.
- `QueueInv`: a pending in the queue or in a batch not yet run is the one its request
  would push again, and its request has no answer yet (`QueuedInv`, `BatchedInv`); no
  request has two (`DistinctInv`); who awaits a token is answered or has a pending
  (`AwaitInv`); only who awaits has an answer (`ReplyInv`). One lemma for each way
  pendings move (`PushStep`, `DrainStep`, `RePushStep`, `AnswerStep`, `ReceiveStep`).
  From it follow `PendingsAlwaysCurrent` (`PendingsAreCurrent`) and
  `PendingsAreNeverLost` (`NoLostPending`).
- `QueueAlwaysHasLeader` (`QueueHasLeader`) assumes `~MixedOn`: with mixed batches it
  is false, see `scheduler_stranded`.
- `DeviceInv`: how many tokens the slot of a request has consumed, given its place and
  its answer (`SeenFor`), and which of its rows are its own (`RowsFor`). A batch moves
  the slots of several requests at once; since their slots differ (`OneOwner`,
  `DistinctInv`), each is moved by its own pending only (`BatchRows`,
  `DeviceAnswered`). From it follow `StepsAlwaysRunOnce`, `ContextIsAlwaysOwn` and
  `SnapshotsAreAlwaysExact`.
- `SchedulerImplementsService` (`ImplementsService`): every step maps to a step of
  `CompletionService` or to a stutter, with one lemma for each kind of step
  (`ToAdmit`, `ToCompute`, `ToSample`, `ToComputeAndSample`, `ToEnd`, `ToStutter`).

`PagedKvProofs` proves its theorems for any requests, slots, layers, pages, page
size and prompts, from `PagedKvAssumption` alone (there are finitely many slots, pages
and rows), but for the three that say so.

- `PagedTypes` (`TypeOK`), together with `BatchInv`: a failed forward sends its
  requests to their end, where they still need a slot, so the requests of a batch
  must be serving.
- `PagesAreNotShared` (`NoPageTwice`) and `PagesAreNotLost` (`NoPageLost`). Two
  facts about lists carry them: `MoveFront` (taking the first `k` elements of one
  list to the end of another keeps them apart and loses none, which is also what
  exhaustion does, with `k` the length of the free list) and `JoinApart` (release
  appends a slot's list to the free list). `PoolMoves` lifts them to the pool of a
  layer. `PagesInv`, the two properties together, is inductive.
- `FreeSlotsAreEmpty` (`FreeSlotsHoldNothing`) needs that a slot has one claimant
  (`ClaimInv`), so that no growth is for a slot that somebody is about to free,
  and that a request between release and clearing holds nothing (`ReleasedInv`).
- `TablesAlwaysNameHeldPages` (`TableNamesHeldPages`), `RowsAreAlwaysOwn`
  (`RowsAreOwn`) and `AppendsAreInHeldPagesInOrder` assume `EndInsidePages`, that no
  prompt fills its last page. The first speaks of batches in any order, as the host's
  patches do not depend on it; the second of runs in which every batch so far stood in
  the order of its slots; the third says that such a batch satisfies
  `AppendsInHeldPages`, which `paged_order` shows false of any other. `PagingInv` says that in every layer a
  serving slot holds exactly the pages of its rows, those of the running forward
  included once the layer has arranged them (`GrownFor`). The skipped row behind the
  prompt is why the assumption is needed: counted with it, the rows of a request grow
  by one page at a time. `Growing` shows that both ways to grow have one effect
  (`MakesRoom`), and `SoleWriter` that, as slots, pages and tables are apart, nothing
  else in a batch is appended where a row of a request is.
- `PoolRunsDryOnlyWhenNeeded` (`ExhaustedOnlyWhenNeeded`) needs no such assumption. Its
  invariant is `NeedInv`: pages are held only for a request that still has its slot
  (`OwnedInv`), in no layer more than the rows of that request need (`NeedFor`; the rows
  due in a layer are those of the running forward once the layer arranged them, and
  after a failed forward at most those it was about to have), and no request is twice in
  a batch. A growth that stops half way keeps it, since it grows towards what the rows
  need. When a page is lacking, `PagesAreCounted` counts the pool from below (every page
  is free or held for some request, and a union has no more elements than its parts
  together) and `LacksMeans` finds the request that has less than it needs with all free
  pages added; the sum of the needs is then more than the pool.

`RequestPathProofs` proves its theorems for any handlers, slots, cap, prompts,
chunk size, byte sizes and budget. `PathAssumption` says of the constants only that
the value that stands for "none" is no key, row of logits or cache entry.

- `CountIsAlwaysExact` (`CountIsExact`) and `NeverMoreThanCap` (`AtMostCap`), from
  `AdmissionInv`: the count is the cardinality of the handlers counted, so that a
  handler admitted at `prev < cap` found fewer than `cap` others.
- `EntriesAreAlwaysExact` (`EntriesAreExact`) and `AnswersAlwaysStartFromOwnPrompt`
  (`AnswersStartFromOwnPrompt`), from `PathInv`, which is `CacheInv` (every entry
  is that of its key) and `JobsInv` (a thread's slot, row and copy stand for the
  part of its prompt it is at; a match is a prefix of the prompt). Evictions only
  remove entries (`InsertWithKv` adds one that is right), so what was found is
  right or gone. That a longest match and a next chunk end exist is
  `GreatestOf` and `LeastOf`, from well-founded induction.
- `EveryEntryStaysEvictable` (`EveryEntryIsEvictable`), from `ListInv`: the recency list
  names no key twice and names every key that has an entry. What `retain` leaves of a
  list is the list without the key, by `LeftFold`; popping from the back of a list
  without repetition takes the popped keys off it, whatever their number.
- `BudgetHoldsUpToLostRows` (`BudgetUpToLostRows`), from `BudgetInv`: what the entries
  hold, rows of logits included, plus one row for each thread that has yet to capture
  its full entry (`Pending`), is at most `used_bytes` plus one row for each completion
  sent. Counting the rows as held is what makes it inductive: a full entry's row comes
  without being counted, which its completion pays for, and goes with being subtracted,
  which then is no loss. An insertion replaces, adds and evicts in one step, so that the
  sum is taken over three tables (`InsertBudget`); the saturating subtractions take off
  exactly what goes, or stop at zero.

`FoldProofs` holds what these proofs need of the folds that the models use for sums and
for lists: that a sum over a finite set satisfies its recursive equation (`SumIsFold`,
from `FoldExists` and `FoldsAgree`), what one element adds to it (`SumWith`,
`SumWithout`), that it is monotone (`SumsCompare`), and that a fold over a list goes
through the values of its prefixes (`LeftFold`). They are proved from well-founded
induction on sets written as first-order statements, as the induction theorems with an
operator parameter cannot be cited.

`RankSessionProofs` is about stages of any number of ranks, any number of all-reduces,
payloads and calls, and both backends (`ArAssumption` names the two).

- `SlabIsAlwaysInStep` (`SlabIsInStep`), from `StepInv`, which relates the places of the
  ranks of a stage to the phase of their barrier: `BarrierTypes`, `BarrierInStep` (who
  waits for which opening), `PhasesInStep` (no two ranks are more than one phase apart)
  and `SlabFull` (what is in the slab in each phase).
- `RanksAlwaysStayInStep` (`RanksStayInStep`), for every topology and with failures, from
  `SessionInv`: a rank's commands come in the order of their calls and are of calls made
  so far; a rank that replied to the current call has nothing left of it or of an earlier
  one; and what a call that failed left behind is older than the current call and has
  torn the slot, unless it was a snapshot. So a rank's state has gone through the
  forwards that returned, plus the one it is in.
- `SumsAreAlwaysWhole` (`SumsAreWhole`), from `SumInv`, which is the two invariants above
  and `StreamInv`. An enqueued operation runs at any later time, so that nothing can be
  said of the buffers from the host's place alone. `DeviceInv` says that each device is at
  some spot of the current forward (`Spots`: the round, a partial or the whole in its
  buffer, what it told its peers, pulled, copied and waited for) and that the operations
  left in its stream lead from there to the spot the host thread has brought the stream to
  (`Leads`, `HostSpot`). At a spot the memories hold what belongs there (`Shows`), its two
  events were recorded as often as the rounds behind it say (`Records`, for those that
  fired and for those asked for), and it is known how far a peer is at least: whoever was
  waited for told or pulled that round, and nobody is a sum ahead of a peer that still has
  to pull from it (`Knows`). `TicketInv` ties the barrier's tickets to the rounds, so that a
  rank which met its peers at a barrier has met them in its own round; `DrainedInv` says
  where a stream is known to be empty, which is what the orderings without events and
  the copies of the slab rest on. One lemma for each instruction moves a device one spot
  on, one for each host step adds operations behind the stream.
- `TpLogitsAreOwn`, from the same: what a tensor-parallel forward returns are logits of
  that forward, from the partials of all ranks through all rounds; this is `LogitsAreOwn`
  for the layouts of one stage.
- `ChainLogitsAreOwn`: `LogitsAreOwn` for every layout with one rank per stage, of any
  number of stages: pipelines wherever and however often ranks fail, and a
  hybrid layout up to its first failure or early timeout (`Sound`). It rests on
  `ChainInv`, which is proved together with `SessionInv`. Each rank's host is at some place of the current forward
  (`HostAt`: not in it, past the event of the stage before, past a number of layers, past
  the hand-off), and its device at a point of its own; the operations left in its stream
  lead from the one to the other (`Brings`), where an operation that an earlier forward
  left behind does nothing for this one. At a point the buffer, the host copy and the
  buffer sent to the next stage hold what belongs there (`Holds`). A device that is in
  the forward at all is so behind the record of the stage before it (`Behind`): its wait
  names that record's count, and a record that an abandoned forward left in a stream is
  of a smaller count, so that it cannot end the wait. The edge into a stage holds this
  forward's event from when the stage before has sent until it is taken (`EdgeInv`). In a
  pipeline the session sends a rank its command behind the reply of the stage before, so
  that an event which an abandoned forward left in the edge has been overwritten by then
  (`NoneBehind`: who is behind the rank that failed has not begun). In a hybrid layout
  all ranks have the command at once and a stage may look before its event is there; what
  the proof needs there is that the edge is empty until then, which holds only as long as
  nothing has failed, and that is where `Sound` is used.

`SumsAreAlwaysWhole` and `TpLogitsAreOwn` assume `TpForwardsRun`, that no rank fails
inside a tensor-parallel forward, as the run does: one that fails leaves its peers at a
barrier, and the partials of two forwards are then mixed (`ar.rs:83`, below). Failures in
operations on a slot, and the calls they end, are not excluded.

`ShardingProofs` needs of the checkpoints only that sizes are positive and that
value heads are a multiple of key heads, query heads of key/value heads
(`Geometry`), and `FullShardBreaksCycles` not even that. Its invariant is `Cut`: whatever
is loaded is what the loader computes for that rank (the lemma
`PartsAreCutFromTheFile`). The rest is division with remainder
(`DivMod`, `ExactQuotient`, `RunsPartition` and others) on what the cut and the
kernels compute:

- `RoundsOfValueHeadsPair` (`GdnHeadsPair` where key heads are replicated) and
  `FullShardFitsRuns`: which pairing of heads goes with which cut;
- `FullShardBreaksCycles`: `GdnHeadsPair` is false from when rank 0 has loaded on,
  wherever key heads are cut and value heads are more than key heads. By
  `SecondRoundMispairs` the slab of rank 0, which has fewer key heads than the model,
  already reuses its first one where the value heads of the model go on to the next;
- `CutOrSingleHeadsPair` and `SeveralReplicatedHeadsMispair`: the same for attention;
- `PartialsAlwaysSumToWhole`: every unit of a feed-forward layer is on one rank, the
  same in gate, up and down, so that the all-reduce of the partial outputs is the
  layer's output.

`JsonGrammarProofs` is about texts of any length. Of the automaton of `json_object`,
nested to any depth up to `MaxDepth`, any natural number:

- `Sound`, the inductive invariant of the first (`SoundIsInductive`), says of a valid
  automaton that its stack is in `Stacks`: frames of the five kinds, each container
  expecting what comes behind the frame above it. `TypeCorrect` and `ParentsAlwaysReady`
  follow, and so does `NothingStrands` (`NeverStranded`): a byte that goes on is named for
  every kind of topmost frame.
- `AcceptsExactlyLenientJson` (`AcceptsExactly`, for the reference with all extras)
  relates the two readers by `Agree`: the open brackets are those of the containers on
  the stack, and the topmost frame determines the place in the grammar (`StringPlace`,
  `NumberAgrees` and others). One lemma for each kind of frame shows that a byte keeps
  them in agreement or makes both refuse; a number that ends is the case where the byte
  goes to the parent, on the strength of `Stacks`.

Then it is about answers in `GuidedDecoding`, in `json_object` mode and for any schemas.
`GuidedInv` is inductive: `json_state` is in `ObjectAutomata` (`Sound`, and an object at
the bottom once a value has started) or in `SchemaAutomata`, where each frame has one of
the forms that `json_schema.rs` pushes and only the topmost may be a scalar. One lemma
for each kind of frame shows that a byte keeps it so, never takes back that a value has
started, and adds nothing to a complete value; another names a byte that goes on.
`Carries` takes that from bytes to tokens, whose bytes are fed by a fold
(`StepsCarry`, `ObjectSlice`, `SchemaSlice`).

- `MaskAlwaysHolds` (`MaskHolds`): for any vocabulary and any width of the mask, by
  `UnstrayedIsValid` (the automaton is valid while the answer has not strayed).
- `SomeTokenIsAlwaysLeft`: there always is a token that the mask would keep and that is
  not banned, so that a mask which covers the vocabulary never leaves logits that are all
  minus infinity.
- `SchemasNeverStrand`: some byte other than white space goes on, outside enumerations,
  whose members may have white space.

They assume a set `W` of schemas that has those asked for and those inside them, of the
forms that `json_schema.rs` compiles, where each enumeration has a member and members
have no white space in front (`Schemas(W)`; `canonical_bytes` writes them so). A schema
`{"enum": []}`, which has no value, is left out: nothing can start one. The second also
assumes that every byte is a token other than a stop token (`ByteLevel`), as in the GPT-2
vocabularies that `load_from_gguf` reads: with less, the mask may take all there is. The
third assumes that keys have no white space or escapes and
that closed objects have keys, the required ones among them (`Readable(W)`). Elsewhere the
automaton may come to where it only takes white space, waiting for a key that cannot be
read or that the object does not have; see Other disagreements.

Only model-checked: the parsers, whose steps are recursive; what the schema automaton
accepts and completes (`CompleteIsMember`, `MembersAreAccepted`, `AcceptedCanComplete`),
whose reference generates texts recursively; and `AnswerIsJson`, which needs that too.
Liveness (`WaitersAreAnswered`, `EveryRequestEnds`, `EveryCallReturns`) is
beyond the prover.

## Plan

What is left: `LogitsAreOwn` for hybrids with several ranks per stage, which neither the
run (its hybrid has stages of one rank) nor a theorem reaches. A rank's operations would
have to lead through the rounds of its stage's all-reduce, as `Leads` does, and then to
the edge, as `Brings` does, with one device state for both.

## Not modelled

- GPU kernels, tensor arithmetic, quantisation formats and sampling: floating-point
  computation, of which only the head and element arithmetic that has to agree
  between ranks is in `Sharding`.
- Of guided decoding: compiling a schema from its JSON text, logits and penalties, tokens
  that are part of a character, the clean-up of the text in `finalise`, and
  `finalize_at_eos`, which only tests call.
- Boot, configuration and HTTP rendering: they run once or keep no state.
- The ring of agent statistics: bounded, behind one mutex, and nothing reads it but a
  page for operators. The embeddings endpoint: one model behind one mutex.
- Panics: the code would leak a slot and poison the dispatcher mutex.
