# TinyServe in TLA+

A verification project for TinyServe, an asyncio server that batches LLM
requests onto llama.cpp.  Modules are translated from the source; `PROJECT.json`
maps every definition to the lines it models.

## 1. Inventory

| Part | State | Operations | Interacts with |
|---|---|---|---|
| `api/app.py: batch_loop` | active sequences, request states, free slots | expire waiters, select, admit, build, decode, sample, finish | everything below |
| `api/app.py: generate, _sse_events` | one handler per request | admit, enqueue, stream or collect | admission, queue, streams |
| `api/app.py: lifespan` | the task of `batch_loop` | start, cancel | batch loop, web server |
| `admission/controller.py` | none | `admit` | KV accounting, queue depth |
| `kv_cache/manager.py` | free blocks, block table | `reserve`, `release` | admission (reserve), batch loop (release) |
| `queue/request_queue.py` | waiting pool, arrival event | `push`, `remove`, `wait_until_nonempty` | handlers push, loop removes |
| `scheduler/*`, `queue/fairness.py` | virtual finish times (WFQ) | `select`, `charge` | batch loop |
| `batch/builder.py` | none | `build_batch` | batch loop |
| `runtime/llama_runtime.py` | llama.cpp batch, context and model; KV cells per sequence | `decode`, `reuse_prefix`, `free_sequence`, `close` | batch loop; decode runs in a thread |
| `prefix/cache.py`, `native/src/prefix_cache.cpp` | radix tree, owner lists, per-sequence node lists | `match_for_reuse`, `insert`, `evict` | batch loop |
| `prefix/cache.py`: loading | the process-wide library, one C handle per cache | `create_prefix_cache`, `load_library`, `close`, `__del__` | file system |
| `streaming/stream_manager.py` | per-request queue, decoder, cancelled flag | `create`, `push_token`, `close`, `cancel`, `subscribe` | loop produces, handlers consume |
| `api/static/demo.html`: reader | buffer, text shown | `streamOne`, `parseFrame` | event stream |
| `observability/metrics.py` | counters, histograms, gauges | `inc`, `observe`, `set` | loop and handlers write, `/metrics` reads |
| `observability/tracing.py` | open spans | start and end of spans | loop and handlers |
| `config.py`, `schemas.py` | settings | none | all |

What is hard about it: handlers, SSE consumers and disconnects run whenever the
loop is suspended; decoding may fail and must be cleaned up for all active
requests; prompts are published to the prefix cache before their cells exist;
slots, cells, claims, blocks, streams, spans and counters have to be kept in
step on five different exits (EOS/budget, client gone, generation timeout,
decode error, queue timeout); a queue wait must not lose its wake-up; a fully
reused prompt would stall for ever; nobody supervises the loop's task; native
objects are freed by hand, by destructors and under a thread that cannot be
cancelled; libraries are replaced while they are searched for.  `PROJECT.json`
lists these as hazards, each at its line, with the properties that would catch
it.

For each part, what makes it correct:

- *KV accounting*: free and held blocks add up to the pool; a request holds
  blocks exactly from acceptance to exit; an idle server has its whole pool.
- *Queue and admission*: the loop cannot sleep through an arrival; a waiter is
  removed once, by admission or by timeout.
- *Scheduling*: `select` returns as many distinct waiters as fit; no class
  overtakes itself; competing classes stay close in virtual time.
- *Batch builder and runtime*: every active sequence advances every tick; the
  cells of a slot are its request's own text; nothing outgrows `n_ctx`.
- *Runtime objects*: each is freed once, the context before its model, and
  never under a running decode.
- *Prefix cache*: a match is the longest shared aligned prefix and its donor
  really holds it; no node outlives its owners; no library of another ABI is
  called; every handle is destroyed once.
- *Streams and reader*: text arrives in order and completely, from
  `push_token()` to the page; every reader returns.
- *Metrics*: counters that are read in pairs stay paired on every exit.
- *Lifespan*: a server told to stop stops; whoever waited too long is told.
- *Composition*: each of the five exits gives everything back, exactly once.

## 2. Modules

| Module | Models | Built from |
|---|---|---|
| `Ids`, `Tables`, `Blocks` | request ids, dicts of counters and their sum, block arithmetic | |
| `KVCacheManager` | `kv_cache/manager.py` | `Blocks`, `Tables` |
| `PrefixIndex` | what a prefix cache promises: one claim per sequence id | `Blocks` |
| `PrefixCache` | abstract specification of the cache with its return values | `PrefixIndex` |
| `PrefixTree`, `MCPrefixTree` | the radix tree of both backends, its loops node by node, refined to `PrefixCache` | `Blocks`, `Tables` |
| `PrefixBackends` | finding and binding the library, the fallback, the life of a handle | |
| `BatchContract`, `BatchBuilder` | the contract of `build_batch`, and its loop | `Tables` |
| `StreamManager`, `StreamSession` | streams and consumers; the streams under a free producer | `Ids` |
| `SseClient`, `MCSseClient` | events on the wire and the demo page's reader | `StreamSession` |
| `RequestTracer` | `observability/tracing.py` | `Ids` |
| `Scheduler` | the three policies, WFQ virtual time, the runtime swap | `Tables` |
| `BatchLoop` | `batch_loop` and `generate` composed with the parts they call | `KVCacheManager`, `PrefixIndex`, `BatchContract`, `StreamManager`, `RequestTracer` |
| `MeteredLoop`, `MCMeteredLoop` | the batch loop with `observability/metrics.py` | `BatchLoop` |
| `ServerLifespan`, `MCServerLifespan` | the loop's task from start to cancellation or exception | `BatchLoop` |
| `RuntimeLifecycle` | native objects of `LlamaRuntime`: decode thread, `close()`, destructors | |
| `MCBatchLoop`, `MCCancellation` | instances of `BatchLoop` for TLC | `BatchLoop` |
| `TablesProofs` | lemmas about tables and their sums, ranks and extremes | `Tables` |
| `BatchLoopProofs` | theorems about the accounting and the batch loop: books, cells, types | `BatchLoop`, `TablesProofs` |
| `ServiceProofs` | theorems about readers, room, progress in a batch, the lifespan, the counters and gauges, and the streams | `ServerLifespan`, `MeteredLoop`, `SseClient`, `BatchLoopProofs` |
| `PrefixTreeProofs` | theorems about the radix tree, and that it implements `PrefixCache` | `PrefixTree`, `TablesProofs` |
| `BatchBuilderProofs`, `SchedulerProofs`, `PrefixBackendsProofs`, `RuntimeLifecycleProofs` | theorems about these components | the component |

**How a step of the model corresponds to the code.**  The server runs on one
asyncio event loop, so code between two awaits is atomic; only `llama_decode`
runs in a thread.  `BatchLoop` has a program counter `pc` for `batch_loop`.
Handlers, consumers, clients and time (`generate`, `Consume`, `Client`, `Age`)
act only while the loop is suspended: `idle` (`wait_until_nonempty`), `yield`
(`sleep(0)`), `decoding` (`runtime.decode`).  The loop's own steps between two
awaits are split (one expiry, one admission, one sampled token per step) but
nothing can come between them.  `generate` up to its first await is one step:
admission, reservation, stream creation, span and push, or rejection.
`finish()` is one definition used by every exit of the batch; expiry in the
queue is the fifth exit.

`MeteredLoop` conjoins each of these actions with the instruments the same code
updates, so a metered step is a step of `BatchLoop` (this is proved) and the
batch loop's properties are checked on it.  `ServerLifespan` adds the state of
the server and of the task: `FinishRaises` is `finish()` up to the division
that raises, `Shutdown` is what `lifespan()` does after its `yield`, and `Drain`
and `HandlersReturned`, which come before it, are uvicorn's (external).  `SseClient`
follows a text through `subscribe()`, `_sse_events`, a connection that delivers
any number of characters at a time, and the page's frame loop.
`PrefixTree` takes one step per node a loop of `insert()` or `evict()` visits;
the calls do not overlap, but the invariants hold in the middle of each, which
is where the C++ twin deletes nodes.
`PrefixBackends` takes one step per `exists()` and one per `CDLL()` with what
follows it, because files can be replaced in between.  `RuntimeLifecycle` knows
two kinds of owner: the server, which never calls `close()`, and a `with` block
or test fixture, which does.  Every free is counted, and `close()` is four steps
(the test of `_closed`, then one object after the other), so that decodes and
closes of other runtimes come in between.  The context and the model have
wrappers that forget a pointer they have freed; the batch has only `_closed`.

**What is abstracted.**  Text is the tokens it was decoded from; a token whose
bytes end inside a character is held back by the decoder and comes out with a
later one or at `close()`.  On the wire a token is a sequence of characters,
and text held back travels in an event per token.  Time is the set of waiters
past the queue timeout and a free choice of the generation timeout.  The
sampled token is any member of `Sampled`.  Of a histogram the number of
observations is kept, or their sum.  `BatchLoop` uses components only through
contracts that other runs check: any selection allowed by `SelectionSound`, any
batch allowed by `IsPrepared`, any match allowed by `MatchesForReuse`.  The
history variable `context` (a request's prompt and output) is no state of the
program, nor are `pushed`, `received` and `faulted`.  External: the HTTP client,
starlette's task cancellation on disconnect (in `queue.get()`, where `subscribe()`
cleans up at once, or in a send, where it is finalized later), uvicorn's
shutdown, the wrappers of llama_cpp and their destructors, and llama.cpp, whose KV memory is a set of
`<<position, token>>` cells per sequence.

## 3. Runs

| Run | What it shows | Bounds |
|---|---|---|
| `batch_loop` | all safety properties of the composition, the counters and gauges included; no capacity is lost | 3 requests, 2 slots, prompts of 1, 4, 2 tokens, up to 2 tokens emitted, pool of 6 blocks, queue of 2 |
| `liveness` | every accepted request gets through the queue and finishes, every handler returns | 3 requests competing for 1 slot, so without reuse |
| `lifespan` | a `finish()` that raises leaves the books right; the server stops; readers of expired waiters come to the end of their stream | 2 requests, 2 slots, reuse between them |
| `prefix_tree` | tree invariants; the tree implements `PrefixCache` | 3 sequences, 7 prompts: ragged tails, shared roots, one a prefix of another, one shorter than a block |
| `prefix_backends` | only the supported ABI is bound, every handle destroyed once, `create_prefix_cache()` returns | 3 paths of 5 kinds, 3 caches, 3 replacements |
| `runtime_lifecycle` | native objects freed once, no decode on a freed one | 3 runtimes, one a server's |
| `batch_builder` | the loop of `build_batch` satisfies the contract | 4 sequences, up to 3 pending, capacity 5: squeezing and cutting happen |
| `streams` | order, completeness, reclamation, termination, from producer to page | 2 requests (one SSE, 2 tokens; one collecting, 1 token) |
| `scheduler` | selection, order within a class, WFQ spread | 3 classes (weights 1, 2, 4), queue of 3, 6 arrivals, 2 slots |

The bounds of `batch_loop` make the interesting cases happen: two requests
admitted in one tick with a shared prefix (a donor without cells), a prefill in
more than one chunk (prompt of 4, chunks of 3), a prompt a match covers
completely, a queue that is full and a pool that is full, a request refused by
a full pool, a decode that fails with and without its rows written, slots that
are freed and taken again by a prompt with the same prefix.  Three requests and
two slots are enough for a donor, a taker and a third party that recycles a
slot.  A donor that has cells and is still prefilling needs longer prompts; that
it is refused or copied correctly is proved (`CellsAreCoherent`), not checked
here.  The slots are interchangeable and the run checks only formulas without
slot names, none of them liveness, so symmetry over them is sound; `free_slots`
starts as any permutation.  Four kinds of unusable file and three paths let a
bad library precede and hide a good one, and three replacements change the path
being probed, one before and one behind it.

`CHECK_DEADLOCK FALSE` is given where the system may rightly stop: the set of
requests (or arrivals, pushes, caches, runtimes) is finite and each is used once.

**Fairness.**  `FairSpec` assumes weak fairness of the loop's step and of each
consumer: the event loop runs every task that is ready, and `llama_decode`
returns or raises.  `FairLifespan` assumes the same while the task and the
server live, and that uvicorn goes on once no handler is left.  `PageSpec`
assumes it of consumers and of the page's reader: a delivered chunk is read.
`PrefixBackends` assumes that `create_prefix_cache()`, once called, runs on.
Nothing is assumed of clients, of time, of signals, of success of a decode, of
the sampled tokens, of other processes or of the garbage collector.  The
liveness properties of `lifespan` except a loop that has raised: nothing
restarts it, its requests are never served and uvicorn waits for their readers.

## 4. Findings

Three runs expect a violation; each states what a comment or document says.

- `cancellation_tick`: "dropped on the *next* batch tick".  Cancellation is
  looked at only when a token is sampled, so a cancelled request keeps its slot
  through the rest of a chunked prefill.
- `wfq_head_start`: "an idle class doesn't get an unfair head start", "bounds
  unfairness".  Only classes never seen before adopt the system virtual time;
  one that was idle comes back with its old time.  `BoundedUnfairness` allows
  two grants; the gap grows by a grant for every grant made in its absence, so
  no fixed bound holds.
- `sse_newline`: "close means complete".  A newline in a text ends the `data:`
  line it is written in, and what follows it is lost to the client.

Further differences between text and code that the models show and no run
states:

- `app.py:112` says a refused donor "was freed between the lookup and the copy".
  A freed donor is never offered (`ClaimsAreLive`); the donors refused are
  sequences published in the same tick, or still in prefill.
- `docs/architecture.md:154` says "clamped to leave at least one block to
  prefill"; `match_for_reuse` leaves at least one token.
- The queue and KV gauges are set only by a tick that gets to `app.py:189`: an
  idle server shows the values of its last tick; the demo page polls `/metrics`
  "until the queue drains" (`demo.html:543`).
- The queue timeout "protects clients from silently waiting forever"
  (`PRD.md:232`).  Expiry is the batch loop's own work, and nothing restarts or
  watches its task (`app.py:278`): after an exception outside the `try`, such as
  the division by an elapsed time of zero (`app.py:168`), `generate` goes on
  accepting requests whose readers wait for ever.  The books survive
  (`BooksSurviveRaise`), the service does not; without its exception for a loop
  that has raised, `StaleWaiterLeaves` is violated.
- The test of the budget comes before the token is pushed, so at most
  `max_tokens - 1` tokens are emitted.

## 5. Proofs

TLAPS checks these for every value of the constants that satisfies the named
assumptions (`BlockAssumption`, `KVAssumption`, `IndexAssumption`,
`TreeAssumption`, `BatchAssumption`, `BuilderAssumption`, `StreamAssumption`,
`SessionAssumption`, `LoopAssumption`, `SchedulerAssumption`,
`BackendAssumption`, `OwnerAssumption`: positive sizes, non-empty prompts,
positive budgets, finitely many slots and sequences, `NO_SEQ` is no slot, `_END`
is no token and no text, positive weights).

- `KVLedger`: the accounting is typed and balanced.  The sum of the block table
  is the cardinality of a set of units, so a reservation adds a row of units
  disjoint from the others and a release removes exactly that row.
- `SlotsNeverLost`, `BlocksNeverLost`, `DonorsAreLive`, `WakeupNeverLost`,
  `SpansEnded`: `Spec => []` of the property, from one inductive invariant
  `LoopInv`.  None of the properties is inductive alone.  Popping a slot needs
  `Cardinality(selected) <= Len(free_slots)`; that `finish()` is called on an
  active request needs every sampled token to belong to one active request, and
  to only one; that a rejection leaves the spans alone needs that a new id is
  neither queued nor active; that eviction is enough needs that every
  claim belongs to the request in the slot.  The initial free list is without
  repetition because a surjection between finite sets of equal size is an
  injection.
- `NoCapacityLost`: the action property `IdleServerAccepts`.  With nobody
  queued or active the block table is empty (`BlocksNeverLost`), so the ledger
  gives a full pool and only a request larger than it is refused.
- `CellsAreCoherent`: prefix reuse never mixes two requests' text.  The
  strengthening `CellInv` adds that a context still begins with its prompt, that
  a flagged sequence has nothing pending, that take is bounded by what is
  pending, and that nothing inactive is pending.  The core is `ReuseSound`: a
  match gives a claim, a claim is an active request's published prompt
  (`ClaimsAreLive`), that request's cells are its context cut at `n_past`, and
  the position check gives `n <= n_past`; so the cells copied are the new
  request's own prefix.
- `LoopTyped`: the type invariant, including that an active request always has
  budget left and that no expired waiter is admitted.
- `ReadersAreTold`: no reader waits for a stream nobody will close.
  `StreamInv` says of each request what its consumer's state implies about its
  stream: whoever has not finished reading has one, the stream of a served
  request holds no `_END`, and that of a departed one ends in `_END`.  It is
  preserved because text is pushed only to active requests, each of the five
  exits closes the stream in the step in which the request leaves, and a reader
  takes from the front and stops at `_END`.
- `RoomToComplete`: an accepted request can always run to its budget.  `RoomInv`
  says that the blocks of a served request are those of its worst case, that
  its context and its budget add up to that worst case through every emitted
  token, and that the cells and the pending tokens add up to the context.  The
  sum over all requests is an injection of their cells into the units of the
  block table times the block size.
- `NobodySqueezedOut`: every active sequence gets its whole slice.  By
  `RoomInv` the pending tokens of all requests fit the context, which is the
  capacity of a batch, so `IsPrepared` leaves nobody out; `AdvanceInv` adds that
  outside a failing decode an active request has something pending or a sampled
  token still to be handled.
- `RaiseKeepsBooks`: of the loop's end by an exception.  `LoopInv` does not
  survive a `finish()` that raises (the spans of a request that is half gone
  stay open, and cells written by a failed decode stay in the slots of the
  others), so `LifespanInv` splits it: `BooksInv`, `StreamInv` and the empty free
  slots, which handlers and consumers keep by themselves, and the rest, which
  only holds while the task runs.
- `NothingUncounted`, `ThroughputObservedOnce`: the counters add up.
  `MeteredSpec => Spec` carries `LoopInv` and `TypeOK` over; `CountInv` adds
  that a request that is not active has emitted nothing and that the emitting
  requests are finitely many, so each step moves a counter and a cardinality
  together.
- `OnlyLeaversBlamed`: `DisconnectsAreReal` bounds a counter by the readers that
  have left, and would be lost if one of them were counted twice.  `LeftInv`
  bounds it by those readers whose request has left as well: that set grows
  with the counter, and never shrinks because an id is not served twice.
- `GaugesNeverLie`: `GaugeInv` says that the node gauge is right at every step
  (each change of the tree sets it) and that the block gauge is exact from the
  tick's selection to the last admission; a later acceptance adds blocks to the
  table, not to the batch.
- `TokensDecodedOnce`: with `RoomInv` the backlog is finite, and each of
  admission, decode, sampling and exit moves the backlog's sum and the counters
  by the same number of tokens.
- `ContractKept`, `NoTokenSkipped`: `build_batch` does what the batch loop
  assumes of it, so `NobodySqueezedOut` and `TokensDecodedOnce`, which rest on
  `IsPrepared`, hold of the code's own batches.  `BlockInv` says that the rows
  of a sequence are one block, numbered and placed as its first pending tokens;
  `ServedInv` that the capacity left and the rows add up, that a sequence still
  to be visited has no row and no less pending than any visited one, and that
  somebody was cut short only if nothing is left.  That the sorted list visits
  every sequence is a counting argument: an injection between finite sets of
  equal size is a surjection.
- `EveryPolicySelectsSoundly`: `SelectionInv` says that what is chosen so far
  and what is left to choose add up to `min(capacity, waiting)`, that the chosen
  are distinct, and that with a request all older ones of its class are chosen.
  For strict priority and WFQ the pick is the oldest of a class; that a sorted
  order has a request of every rank is `EveryRank`.
- `GrantsStayClose`: the action property `PickKeepsSpread`.  The class picked
  has the least virtual time, so after its grant it is at most a grant ahead of
  the least of the others, and no other class has moved.
- `NodesAreOwned`, `NoPointerDangles`, `NodeCountIsExact`: the radix tree, at
  every step of its loops.  `TreeInv` is one invariant for the three.  `PathInv`
  says that a listed sequence has the whole path of one prompt; `HeldInv` that
  the nodes naming a sequence as an owner are exactly those it holds, and that
  these are closed under "parent of", where a running `evict()` holds what it
  has still to visit and a running `insert()` what it has already made;
  `OwnerInv` that every node has an owner, each once.  Deepest first is what
  keeps this: the node dropped has no child left that its sequence held, and a
  child held by another would have that other as an owner of the node too.
  `LastInv` says that a running `insert()` is the last owner wherever it is
  one; the counter follows a finite set that gains or loses one element.
- `TreeImplementsIndex`: `Spec => ImplementsIndex`, the step-by-step refinement.
  A call takes effect when it begins: entering `evict()` or `insert()` is the
  abstract `Evict` or `Insert`, and every later step of its loop must be a
  stutter.  So the mapping reads the claim of a running `insert()` off its
  argument, not off the tree, and who is newer than whom off the first block;
  the lemmas show that dropping and adding nodes leaves both alone.  For a match
  the length of the walk is the longest prefix any claim shares (the tree is the
  union of the claims' paths), and the last owner of the node reached is newer
  than every other sequence that shares it.
- `StreamsAreReclaimed`, `EndedReadersHaveAll`: the streams between
  `push_token()` and the reader, for any texts, any number of requests and
  whatever the decoder holds back.  `SessionPlace` says where stream, producer
  and reader stand, `SessionData` that what was pushed is what the reader has
  passed on, then the queue, then what is held, and after `close()` that the
  queue is the rest followed by one `_END`.  The steps are equations between
  concatenations; that a text is never mistaken for the end is
  `SessionAssumption`.  `ReadToTheEnd` is the first conjunct of
  `CloseMeansComplete`.
- `ABIRespected`, `HandlesDestroyedOnce`: the library that is bound, and the
  handles.  The strengthening says that only a native cache has a live handle,
  and then the library is the supported one, and that the cache being built has
  none yet.
- `NothingFreedTwice`, `DecodeNeverOnFreed`: the native objects.  The
  strengthening says that a thread's runtime is held open, by the await of its
  caller or by a server that never closes it; that each object of a closed
  runtime was freed once if `close()` is past it and never before; and that a
  wrapper has freed its object exactly when it has no pointer any more.  So a
  destructor that runs after `close()` finds nothing to free, and a free of the
  context finds the model alive.

Only model-checked:

- liveness under fairness (`liveness`, `lifespan`, `streams`,
  `prefix_backends`), which the prover does not do;
- the wire and the page (`ShowsPrefix` and the second half of
  `CloseMeansComplete`): both are about what flattening a sequence of texts and
  cutting it into frames compute, which needs induction over data.

## 6. Not modelled

Configuration and the read-only endpoints keep no state; benchmarks and scripts
generate load; of the demo page only the reader of the stream is control flow,
the rest is display.  Tokenizing and the perf counters of the runtime keep no
state.  uvicorn's forced exit on a second signal abandons everything at once.
Starvation of a low class under strict priority needs unboundedly many
arrivals, which a bounded instance does not have.

## 7. Plan

Every safety invariant that the prover can reach is proved.  What could be
modelled next: the composition of `Scheduler` with the queue of `BatchLoop`, and
the decoder at the level of bytes.
