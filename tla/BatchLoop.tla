----------------------------- MODULE BatchLoop -----------------------------
(***************************************************************************)
(* TinyServe's core: batch_loop and the generate() handler                 *)
(* (tinyserve/api/app.py) over the request queue, the KV accounting, the   *)
(* prefix cache, the runtime's KV cells and the output streams.            *)
(*                                                                         *)
(* Everything but llama_decode runs on one event loop, so handlers and     *)
(* consumers take steps only while batch_loop is suspended in an await:    *)
(* on the empty queue ("idle"), in sleep(0) ("yield") and while a decode   *)
(* runs in its thread ("decoding").  Between two awaits the loop's own     *)
(* steps below follow each other without interruption.                     *)
(***************************************************************************)
EXTENDS KVCacheManager, PrefixIndex, BatchContract, StreamManager, RequestTracer

CONSTANTS
    Prompt,              \* request -> prompt_tokens
    MaxTokens,           \* request -> max_tokens
    MaxQueueDepth,       \* Settings.max_queue_depth
    PrefixCacheEnabled,  \* Settings.prefix_cache_enabled
    EOS,                 \* runtime.eos_token
    Sampled              \* the tokens the model may come up with

worst_case_tokens(r) == Len(Prompt[r]) + MaxTokens[r]

(* The tokenizer adds BOS, so no prompt is empty; GenerateRequest wants    *)
(* max_tokens > 0; LlamaRuntime sets n_batch = n_ctx, and lifespan() gives *)
(* the same n_ctx to the accounting.  There are n_seq_max slots.  _END is  *)
(* an object of its own class, which no token's text is.                   *)
ASSUME LoopAssumption ==
    /\ Prompt \in [Requests -> Seq(Token)]
    /\ \A r \in Requests : Prompt[r] # <<>>
    /\ MaxTokens \in [Requests -> Nat \ {0}]
    /\ \A r \in Requests : worst_case_tokens(r) <= MaxRequest
    /\ MaxQueueDepth \in Nat
    /\ PrefixCacheEnabled \in BOOLEAN
    /\ EOS \in Token /\ Sampled \subseteq Token /\ END \notin Token
    /\ BatchCapacity = TotalTokens
    /\ IsFiniteSet(SeqIds)

VARIABLES
    \* RequestQueue
    waiting,      \* _waiting
    arrived,      \* the asyncio.Event _arrived
    stale,        \* waiters older than queue_timeout_seconds
    \* batch_loop
    pc,           \* where the loop stands
    free_slots,   \* the list of free sequence ids
    selected,     \* requests the policy selected and the loop has yet to admit
    slot,         \* active[r].seq_id, NoSeq for a request that is not active
    pending,      \* active[r].pending_tokens
    n_past,       \* active[r].n_past
    remaining,    \* requests[r].remaining_tokens
    take,         \* the prepared batch: rows per request
    sampled,      \* decode()'s result still to be handled, as <<request, token>>
    \* LlamaRuntime
    cells,        \* the <<position, token>> cells llama.cpp holds per sequence
    \* history
    context       \* an active request's prompt and the tokens generated since

queuevars == <<waiting, arrived, stale>>
seqvars == <<free_slots, slot, pending, n_past, remaining, context>>
batchvars == <<selected, take, sampled>>
vars == <<kvvars, indexvars, streamvars, tracevars, queuevars, pc, seqvars, batchvars, cells>>

active == {r \in Requests : slot[r] # NoSeq}

AtAwait == pc \in {"idle", "yield", "decoding"}

Init ==
    /\ KVInit /\ IndexInit /\ StreamInit /\ TraceInit
    /\ waiting = {} /\ arrived = FALSE /\ stale = {}
    /\ pc = "top"
    /\ free_slots \in {list \in [1..Cardinality(SeqIds) -> SeqIds] :
                          \A s \in SeqIds : \E i \in DOMAIN list : list[i] = s}
    /\ slot = [r \in Requests |-> NoSeq]
    /\ pending = [r \in Requests |-> <<>>]
    /\ n_past = [r \in Requests |-> 0]
    /\ remaining = [r \in Requests |-> 0]
    /\ context = [r \in Requests |-> <<>>]
    /\ selected = {} /\ take = [r \in Requests |-> 0] /\ sampled = {}
    /\ cells = [s \in SeqIds |-> {}]
-----------------------------------------------------------------------------
(* POST /generate, up to its first await.                                  *)

(* Mutant: a push that does not set the event.                             *)
PushWithoutSet(r) ==
    /\ waiting' = waiting \cup {r}
    /\ UNCHANGED arrived

(* RequestQueue.push                                                       *)
push(r) ==
    /\ waiting' = waiting \cup {r}
    /\ arrived' = TRUE

(* AdmissionController.admit says yes.                                     *)
Accept(r) ==
    /\ Cardinality(waiting) < MaxQueueDepth
    /\ Reserve(r, worst_case_tokens(r))
    /\ create(r)
    /\ push(r)
    /\ TraceAccepted(r)
    /\ consumer' = [consumer EXCEPT ![r] = IF r \in Streaming THEN "starting" ELSE "reading"]

(* AdmissionController.admit: queue_full before kv_cache_full.             *)
Reject(r) ==
    /\ \/ Cardinality(waiting) >= MaxQueueDepth /\ UNCHANGED kvvars
       \/ Cardinality(waiting) < MaxQueueDepth /\ ReserveRefused(r, worst_case_tokens(r))
    /\ consumer' = [consumer EXCEPT ![r] = "rejected"]
    /\ TraceRejected(r)
    /\ UNCHANGED <<streams, waiting, arrived>>

generate(r) ==
    /\ AtAwait
    /\ consumer[r] = "none"
    /\ Accept(r) \/ Reject(r)
    /\ UNCHANGED <<indexvars, disconnected, stale, pc, seqvars, batchvars, cells>>

(* The consumer of r's stream, its client, and the passing of time.        *)
Consume(r) ==
    /\ AtAwait
    /\ ConsumerStep(r)
    /\ UNCHANGED <<kvvars, indexvars, tracevars, queuevars, pc, seqvars, batchvars, cells>>

Client(r) ==
    /\ AtAwait
    /\ ClientStep(r)
    /\ UNCHANGED <<kvvars, indexvars, tracevars, queuevars, pc, seqvars, batchvars, cells>>

Age(r) ==
    /\ AtAwait
    /\ r \in waiting \ stale
    /\ stale' = stale \cup {r}
    /\ UNCHANGED <<kvvars, indexvars, streamvars, tracevars, waiting, arrived, pc, seqvars,
                   batchvars, cells>>
-----------------------------------------------------------------------------
(* finish(), which leaves nothing of the request behind.                   *)

(* Mutants: no evict() before the slot is recycled; a slot not returned.   *)
KeepClaim(r) == UNCHANGED indexvars
LeakSlot(r) == UNCHANGED free_slots

DropClaim(r) == IF PrefixCacheEnabled THEN Unclaim(slot[r]) ELSE UNCHANGED indexvars
free_sequence(s) == cells' = [cells EXCEPT ![s] = {}]
ReturnSlot(r) == free_slots' = Append(free_slots, slot[r])

(* The request's cells, slot and entry in `active`.                        *)
LeaveBatch(r) ==
    /\ DropClaim(r)
    /\ free_sequence(slot[r])
    /\ ReturnSlot(r)
    /\ slot' = [slot EXCEPT ![r] = NoSeq]
    /\ pending' = [pending EXCEPT ![r] = <<>>]
    /\ n_past' = [n_past EXCEPT ![r] = 0]
    /\ remaining' = [remaining EXCEPT ![r] = 0]
    /\ context' = [context EXCEPT ![r] = <<>>]

(* ... its blocks and its stream: all that finish() does before it divides *)
(* by the elapsed time.                                                    *)
GiveBack(r) == LeaveBatch(r) /\ Release(r) /\ close(r)

finish(r) == GiveBack(r) /\ TraceEnded(r, "generation")
-----------------------------------------------------------------------------
(* The loop: expiry and the wait for work.                                 *)

(* Mutants: an expired waiter keeps its blocks; its stream is not closed.  *)
LeaveWithBlocks(r) == close(r) /\ UNCHANGED kvvars
LeaveSilently(r) == Release(r) /\ UNCHANGED streams

LeaveQueue(r) == Release(r) /\ close(r)

(* expire_stale_waiters(), one waiter per step.                            *)
ExpireWaiter(r) ==
    /\ pc \in {"top", "woken"}
    /\ r \in waiting \cap stale
    /\ waiting' = waiting \ {r}
    /\ stale' = stale \ {r}
    /\ LeaveQueue(r)
    /\ TraceEnded(r, "queue_wait")
    /\ UNCHANGED <<indexvars, consumer, disconnected, arrived, pc, seqvars, batchvars, cells>>

(* Nothing to do: wait_until_nonempty() clears the event and awaits it.    *)
GoIdle ==
    /\ pc = "top"
    /\ waiting \cap stale = {}
    /\ active = {} /\ waiting = {}
    /\ arrived' = FALSE
    /\ pc' = "idle"
    /\ UNCHANGED <<kvvars, indexvars, streamvars, tracevars, waiting, stale, seqvars,
                   batchvars, cells>>

Wake ==
    /\ pc = "idle"
    /\ arrived
    /\ IF waiting = {}
       THEN arrived' = FALSE /\ UNCHANGED pc
       ELSE pc' = "woken" /\ UNCHANGED arrived
    /\ UNCHANGED <<kvvars, indexvars, streamvars, tracevars, waiting, stale, seqvars,
                   batchvars, cells>>

(* policy.select(): any choice of as many waiters as there are free slots  *)
(* or, if fewer, of all of them.  The order of admission is arbitrary too. *)
Select ==
    /\ \/ pc = "top" /\ ~(active = {} /\ waiting = {})
       \/ pc = "woken"
    /\ waiting \cap stale = {}
    /\ selected' \in {chosen \in SUBSET waiting :
                        \/ chosen = waiting /\ Cardinality(waiting) <= Len(free_slots)
                        \/ Cardinality(chosen) = Len(free_slots)
                              /\ Cardinality(waiting) > Len(free_slots)}
    /\ pc' = "admit"
    /\ UNCHANGED <<kvvars, indexvars, streamvars, tracevars, queuevars, seqvars, take,
                   sampled, cells>>
-----------------------------------------------------------------------------
(* admit() with _claim_prefix().                                           *)

(* Mutant: no check that the donor still, or already, covers the range.    *)
CoversUnchecked(src, dst, n_tokens) == n_tokens > 0 /\ src # dst

(* reuse_prefix(): the donor's highest position must cover the range.      *)
Covers(src, dst, n_tokens) ==
    /\ n_tokens > 0 /\ src # dst
    /\ \E c \in cells[src] : c[1] >= n_tokens - 1

(* The tokens taken over, given what match_for_reuse returned.             *)
Reused(hit, s) ==
    IF hit.n_tokens > 0 /\ Covers(hit.seq_id, s, hit.n_tokens) THEN hit.n_tokens ELSE 0

(* llama_memory_seq_cp(mem, src, dst, 0, n_tokens).                        *)
CopyCells(src, dst, n_tokens) ==
    cells' = [cells EXCEPT ![dst] = @ \cup {c \in cells[src] : c[1] < n_tokens}]

Admit(r) ==
    LET s == free_slots[Len(free_slots)] IN
    /\ pc = "admit"
    /\ r \in selected
    /\ selected' = selected \ {r}
    /\ waiting' = waiting \ {r}
    /\ free_slots' = SubSeq(free_slots, 1, Len(free_slots) - 1)
    /\ IF PrefixCacheEnabled
       THEN \E n \in 0..Len(Prompt[r]), donor \in SeqIds \cup {NoSeq} :
               LET reused == Reused(Hit(n, donor), s) IN
               /\ MatchesForReuse(Prompt[r], Hit(n, donor))
               /\ IF reused > 0 THEN CopyCells(donor, s, reused) ELSE UNCHANGED cells
               /\ n_past' = [n_past EXCEPT ![r] = reused]
               /\ pending' = [pending EXCEPT ![r] = SubSeq(Prompt[r], reused + 1, Len(Prompt[r]))]
               /\ Claim(Prompt[r], s)
       ELSE /\ n_past' = [n_past EXCEPT ![r] = 0]
            /\ pending' = [pending EXCEPT ![r] = Prompt[r]]
            /\ UNCHANGED <<cells, indexvars>>
    /\ slot' = [slot EXCEPT ![r] = s]
    /\ TraceAdmitted(r)
    /\ remaining' = [remaining EXCEPT ![r] = MaxTokens[r]]
    /\ context' = [context EXCEPT ![r] = Prompt[r]]
    /\ UNCHANGED <<kvvars, streamvars, arrived, stale, pc, take, sampled>>
-----------------------------------------------------------------------------
(* The tick: build_batch, decode, and one step per sampled token.          *)

Backlog == [r \in Requests |-> Len(pending[r])]

Build ==
    /\ pc = "admit"
    /\ selected = {}
    /\ \E rows \in [Requests -> 0..ChunkSize] :
          /\ IsPrepared(Backlog, rows)
          /\ take' = rows
          /\ pc' = IF \A r \in Requests : rows[r] = 0 THEN "yield" ELSE "decoding"
    /\ UNCHANGED <<kvvars, indexvars, streamvars, tracevars, queuevars, seqvars, selected,
                   sampled, cells>>

Yield ==
    /\ pc = "yield"
    /\ pc' = "top"
    /\ UNCHANGED <<kvvars, indexvars, streamvars, tracevars, queuevars, seqvars, batchvars, cells>>

(* The cells the rows of the batch write.                                  *)
Written(s) ==
    UNION {{<<n_past[r] + i - 1, pending[r][i]>> : i \in 1..take[r]} :
              r \in {q \in active : slot[q] = s}}

(* The sequences with a needs_logits row: their last pending token is in.  *)
Flagged == {r \in active : take[r] > 0 /\ take[r] = Len(pending[r])}

(* decode() returns; the loop advances n_past and trims pending_tokens.    *)
Decode ==
    /\ pc = "decoding"
    /\ cells' = [s \in SeqIds |-> cells[s] \cup Written(s)]
    /\ \E token \in [Flagged -> Sampled] : sampled' = {<<r, token[r]>> : r \in Flagged}
    /\ n_past' = [r \in Requests |-> n_past[r] + take[r]]
    /\ pending' = [r \in Requests |-> SubSeq(pending[r], take[r] + 1, Len(pending[r]))]
    /\ take' = [r \in Requests |-> 0]
    /\ pc' = "sample"
    /\ UNCHANGED <<kvvars, indexvars, streamvars, tracevars, queuevars, free_slots, slot, remaining,
                   context, selected>>

(* decode() raises: the batch's cells may or may not have been written.    *)
DecodeFails ==
    /\ pc = "decoding"
    /\ \/ UNCHANGED cells
       \/ cells' = [s \in SeqIds |-> cells[s] \cup Written(s)]
    /\ take' = [r \in Requests |-> 0]
    /\ pc' = "failed"
    /\ UNCHANGED <<kvvars, indexvars, streamvars, tracevars, queuevars, seqvars, selected, sampled>>

(* The except branch: finish() every active request, then start over.      *)
FailOne(r) ==
    /\ pc = "failed"
    /\ r \in active
    /\ finish(r)
    /\ UNCHANGED <<consumer, disconnected, queuevars, pc, batchvars>>

FailDone ==
    /\ pc = "failed"
    /\ active = {}
    /\ pc' = "top"
    /\ UNCHANGED <<kvvars, indexvars, streamvars, tracevars, queuevars, seqvars, batchvars, cells>>

(* Mutant: the budget test lets one more token through.                    *)
ContinuesPastBudget(r, token) ==
    token # EOS /\ remaining[r] - 1 >= 0 /\ ~is_cancelled(r)

(* No reason in the token, the budget or the client to stop.               *)
Continues(r, token) ==
    token # EOS /\ remaining[r] - 1 > 0 /\ ~is_cancelled(r)

(* A sampled token ends the request: EOS, budget spent, client gone, or    *)
(* the generation timeout, which depends on a clock and may strike any     *)
(* time a token has been sampled.                                          *)
SampleFinishes(r, token, timed_out) ==
    /\ pc = "sample"
    /\ <<r, token>> \in sampled
    /\ Continues(r, token) => timed_out
    /\ sampled' = sampled \ {<<r, token>>}
    /\ finish(r)
    /\ UNCHANGED <<consumer, disconnected, queuevars, pc, selected, take>>

(* ... or is emitted, and becomes the next tick's pending token.           *)
SampleEmits(r, token) ==
    /\ pc = "sample"
    /\ <<r, token>> \in sampled
    /\ Continues(r, token)
    /\ sampled' = sampled \ {<<r, token>>}
    /\ remaining' = [remaining EXCEPT ![r] = @ - 1]
    /\ push_token(r, token)
    /\ pending' = [pending EXCEPT ![r] = <<token>>]
    /\ context' = [context EXCEPT ![r] = Append(@, token)]
    /\ UNCHANGED <<kvvars, indexvars, consumer, disconnected, tracevars, queuevars, pc,
                   free_slots, slot, n_past, selected, take, cells>>

SampleDone ==
    /\ pc = "sample"
    /\ sampled = {}
    /\ pc' = "top"
    /\ UNCHANGED <<kvvars, indexvars, streamvars, tracevars, queuevars, seqvars, batchvars, cells>>
-----------------------------------------------------------------------------
LoopStep ==
    \/ GoIdle \/ Wake \/ Select \/ Build \/ Yield \/ FailDone \/ SampleDone
    \/ Decode \/ DecodeFails
    \/ \E r \in Requests :
          \/ ExpireWaiter(r) \/ Admit(r) \/ FailOne(r)
          \/ \E token \in Sampled, timed_out \in BOOLEAN : SampleFinishes(r, token, timed_out)
          \/ \E token \in Sampled : SampleEmits(r, token)

Next ==
    \/ LoopStep
    \/ \E r \in Requests : generate(r) \/ Consume(r) \/ Client(r) \/ Age(r)

Spec == Init /\ [][Next]_vars

(* The event loop runs every task that is ready, and llama_decode returns  *)
(* or raises.                                                              *)
FairSpec == Spec /\ WF_vars(LoopStep) /\ \A r \in Requests : WF_vars(Consume(r))
-----------------------------------------------------------------------------
(* The state's types.  `remaining` is positive while a request is active.  *)
TypeOK ==
    /\ KVTypeOK /\ IndexTypeOK
    /\ DOMAIN streams \subseteq Requests
    /\ consumer \in [Requests -> ConsumerStates]
    /\ waiting \subseteq Requests /\ arrived \in BOOLEAN /\ stale \subseteq waiting
    /\ pc \in {"top", "idle", "woken", "admit", "yield", "decoding", "sample", "failed"}
    /\ free_slots \in Seq(SeqIds)
    /\ slot \in [Requests -> SeqIds \cup {NoSeq}]
    /\ pending \in [Requests -> Seq(Token)] /\ context \in [Requests -> Seq(Token)]
    /\ n_past \in [Requests -> Nat] /\ remaining \in [Requests -> Nat]
    /\ \A r \in active : remaining[r] > 0
    /\ selected \subseteq waiting
    /\ take \in [Requests -> 0..ChunkSize]
    /\ sampled \subseteq active \X Sampled
    /\ \A s \in SeqIds : cells[s] \subseteq Nat \X Token

(* No slot is ever lost, shared by two requests or freed twice: the list   *)
(* of free slots has no duplicates, and the slots of the active requests   *)
(* are distinct and are exactly the others.                                *)
SlotPartition ==
    /\ \A i, j \in DOMAIN free_slots : free_slots[i] = free_slots[j] => i = j
    /\ \A r, q \in active : slot[r] = slot[q] => r = q
    /\ \A s \in SeqIds :
          (\E i \in DOMAIN free_slots : free_slots[i] = s) <=> ~(\E r \in active : slot[r] = s)

(* The runtime's cells are what the loop believes they are: the slot of an *)
(* active request holds exactly the first n_past tokens of its own prompt  *)
(* and output, each at its own position, whether they were decoded or      *)
(* copied from a donor; what is pending is the rest; a free slot holds     *)
(* nothing.  Otherwise a request would silently attend to another's text.  *)
KVCoherent ==
    /\ pc # "failed" =>
          \A r \in active :
              /\ cells[slot[r]] = {<<i - 1, context[r][i]>> : i \in 1..n_past[r]}
              /\ pending[r] = SubSeq(context[r], n_past[r] + 1, Len(context[r]))
    /\ \A i \in DOMAIN free_slots : cells[free_slots[i]] = {}

(* The prefix cache never advertises a prompt under a slot that does not   *)
(* belong to the request with that prompt, so a slot that was recycled can *)
(* not be a donor for what it held before ("silently wrong output", the    *)
(* comment in finish()).                                                   *)
ClaimsAreLive ==
    \A s \in SeqIds : claims[s] # <<>> =>
        \E r \in active : slot[r] = s /\ claims[s] = Published(Prompt[r])

(* A request holds KV blocks exactly from its acceptance until it leaves   *)
(* the queue by timeout or the batch by finish(), on every path, and is    *)
(* never both queued and active.                                           *)
ReservationsExact ==
    /\ DOMAIN block_table = waiting \cup active
    /\ waiting \cap active = {}

(* "Guaranteed the room to run to completion" (admission/controller.py):   *)
(* the tokens a request has and may still produce stay within the blocks   *)
(* reserved for it, and the cells of all requests within the context, so   *)
(* an accepted request never makes llama_decode run out of cells.          *)
RunsWithinReservation ==
    /\ \A r \in active :
          Len(context[r]) + remaining[r] <= block_table[r] * BlockSize
    /\ Total([r \in Requests |-> n_past[r] + take[r]]) <= TotalTokens

(* Every active sequence advances every tick (scheduler/base.py): a batch  *)
(* has a full slice of each of them.  No prompt is reused so completely    *)
(* that its sequence has no row to ask for logits, and the capacity of the *)
(* batch never squeezes anyone out.                                        *)
EveryActiveAdvances ==
    pc = "decoding" =>
        \A r \in active : take[r] > 0 /\ take[r] = Slice(Len(pending[r]))

(* A waiting request always has the sleeping loop's wake-up on its way: an *)
(* arrival between the queue test and the await is not lost.               *)
NoLostWakeup == pc = "idle" /\ waiting # {} => arrived

(* No reader waits for a stream that nobody will close: while a consumer   *)
(* reads, its request is queued or active, or _END is in its queue.        *)
NoOrphanReader ==
    \A r \in Requests : consumer[r] \in {"starting", "reading"} =>
        /\ r \in DOMAIN streams
        /\ r \notin waiting \cup active =>
              /\ streams[r].queue # <<>>
              /\ streams[r].queue[Len(streams[r].queue)] = END

(* Every exit ends the spans it has to: the open spans are the root and    *)
(* the queue_wait span of each waiter and the root and the generation span *)
(* of each active request, so the tracer's dicts do not grow for ever.     *)
SpansBalanced ==
    /\ roots = waiting \cup active
    /\ open_children = (waiting \X {"queue_wait"}) \cup (active \X {"generation"})

(* Every accepted request leaves the server: whatever is decoded, however  *)
(* often decoding fails and whoever disconnects, it stops waiting and, if  *)
(* it got a slot, gives it back.                                           *)
AcceptedFinishes ==
    \A r \in Requests : r \in waiting ~> r \notin waiting \cup active

(* Who is turned away by a server with nothing queued and nothing active.  *)
TurnsAwayUnservable ==
    \A r \in Requests :
        waiting \cup active = {} /\ consumer[r] = "none" /\ consumer'[r] = "rejected" =>
            MaxQueueDepth = 0 \/ blocks_needed(worst_case_tokens(r)) > total_blocks

(* No capacity is lost over any history of requests: a server with nothing *)
(* queued and nothing active turns away only what could never be served    *)
(* (503, whose Retry-After is then no help).                               *)
IdleServerAccepts == [][TurnsAwayUnservable]_vars

(* Every handler that was given a stream returns.                          *)
ReaderReturns ==
    \A r \in Requests : consumer[r] \in {"starting", "reading"} ~> consumer[r] \in {"done", "gone"}
=============================================================================
