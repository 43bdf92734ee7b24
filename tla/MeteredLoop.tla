---------------------------- MODULE MeteredLoop ----------------------------
(***************************************************************************)
(* The batch loop with its Prometheus instruments                          *)
(* (tinyserve/observability/metrics.py): every action of BatchLoop is      *)
(* taken together with the counters it increments and the gauges it sets.  *)
(* A histogram is modelled by its observations, and batch_size_tokens      *)
(* by its sum.  GET /metrics reads them on the event loop, at an await.    *)
(***************************************************************************)
EXTENDS BatchLoop

VARIABLES
    counters,       \* the counters and histograms, by name or by label
    gauges,         \* queue_depth, kv_blocks_free, kv_blocks_used, prefix_cache_nodes
    tokens_emitted  \* _RequestState.tokens_emitted of the active requests

metricvars == <<counters, gauges, tokens_emitted>>

(* cancellations_total, by reason; prefix_cache_lookups_total, by outcome. *)
Cancellations == {"queue_timeout", "client_disconnect", "generation_timeout", "decode_error"}
Lookups == {"hit", "stale_donor", "miss"}

Counters ==
    {"accepted", "queue_full", "kv_cache_full", "queue_wait", "prefill", "reused", "ttft",
     "inter_token", "tokens_per_second", "batch_tokens"} \cup Cancellations \cup Lookups

(* Instruments start at zero, before anything has been observed.           *)
MeteredInit ==
    /\ Init
    /\ counters = [c \in Counters |-> 0]
    /\ gauges = [queue_depth |-> 0, kv_blocks_free |-> 0, kv_blocks_used |-> 0,
                 prefix_cache_nodes |-> 0]
    /\ tokens_emitted = [r \in Requests |-> 0]

(* Counter.inc() and Histogram.observe(): by[c] is added to instrument c,  *)
(* for most actions one to each of a few.                                  *)
Inc(by) == counters' = [c \in Counters |-> counters[c] + by[c]]
Once(names) == [c \in Counters |-> IF c \in names THEN 1 ELSE 0]
-----------------------------------------------------------------------------
MeteredGenerate(r) ==
    /\ generate(r)
    /\ Inc(Once({IF consumer'[r] # "rejected" THEN "accepted"
                 ELSE IF Cardinality(waiting) >= MaxQueueDepth THEN "queue_full"
                 ELSE "kv_cache_full"}))
    /\ UNCHANGED <<gauges, tokens_emitted>>

(* Mutant: an expired waiter is dropped without being counted.             *)
ExpireUncounted(r) == ExpireWaiter(r) /\ UNCHANGED metricvars

MeteredExpire(r) ==
    /\ ExpireWaiter(r)
    /\ Inc(Once({"queue_timeout"}))
    /\ UNCHANGED <<gauges, tokens_emitted>>

(* The queue and KV gauges are set once per tick, before admission; a loop *)
(* that goes to sleep on an empty queue does not get there.                *)
MeteredSelect ==
    /\ Select
    /\ gauges' = [gauges EXCEPT !.queue_depth = Cardinality(waiting),
                                !.kv_blocks_free = free_blocks,
                                !.kv_blocks_used = total_blocks - free_blocks]
    /\ UNCHANGED <<counters, tokens_emitted>>

(* node_count(): a node of the radix tree per distinct published prefix.   *)
Nodes == UNION {{SubSeq(claims[s], 1, n) : n \in AlignedLengths(Len(claims[s]))} : s \in SeqIds}

SetNodes ==
    gauges' = IF PrefixCacheEnabled
              THEN [gauges EXCEPT !.prefix_cache_nodes = Cardinality(Nodes')]
              ELSE gauges

(* _claim_prefix: what the lookup for r came to.                           *)
Lookup(r) ==
    CASE ~PrefixCacheEnabled -> {}
      [] PrefixCacheEnabled /\ n_past'[r] > 0 -> {"hit"}
      [] PrefixCacheEnabled /\ n_past'[r] = 0 ->
            {IF MatchesForReuse(Prompt[r], Miss) THEN "miss" ELSE "stale_donor"}

(* Mutant: reused tokens are counted although the donor was refused.       *)
AdmitCountsOffered(r) ==
    /\ Admit(r)
    /\ Inc([Once({"queue_wait"} \cup Lookup(r)) EXCEPT
               !["prefill"] = Len(Prompt[r]),
               !["reused"] = IF Lookup(r) = {"miss"} THEN 0 ELSE usable(Len(Prompt[r]))])
    /\ SetNodes
    /\ UNCHANGED tokens_emitted

MeteredAdmit(r) ==
    /\ Admit(r)
    /\ Inc([Once({"queue_wait"} \cup Lookup(r)) EXCEPT
               !["prefill"] = Len(Prompt[r]), !["reused"] = n_past'[r]])
    /\ SetNodes
    /\ UNCHANGED tokens_emitted

MeteredDecode ==
    /\ Decode
    /\ Inc([Once({}) EXCEPT !["batch_tokens"] = Total(take)])
    /\ UNCHANGED <<gauges, tokens_emitted>>

(* Mutant: the throughput of a cancelled request is not observed.          *)
FinishObservesUncancelled(r, reason) ==
    /\ Inc(Once(reason \cup IF tokens_emitted[r] > 0 /\ reason = {} THEN {"tokens_per_second"}
                            ELSE {}))
    /\ tokens_emitted' = [tokens_emitted EXCEPT ![r] = 0]
    /\ SetNodes

(* Mutant: the gauge is set before the claim is evicted.                   *)
FinishSetsNodesFirst(r, reason) ==
    /\ Inc(Once(reason \cup IF tokens_emitted[r] > 0 THEN {"tokens_per_second"} ELSE {}))
    /\ tokens_emitted' = [tokens_emitted EXCEPT ![r] = 0]
    /\ gauges' = [gauges EXCEPT !.prefix_cache_nodes = Cardinality(Nodes)]

(* finish(request_id, cancel_reason): reason is the set of at most one.    *)
FinishObserves(r, reason) ==
    /\ Inc(Once(reason \cup IF tokens_emitted[r] > 0 THEN {"tokens_per_second"} ELSE {}))
    /\ tokens_emitted' = [tokens_emitted EXCEPT ![r] = 0]
    /\ SetNodes

MeteredFailOne(r) ==
    /\ FailOne(r)
    /\ FinishObserves(r, {"decode_error"})

(* Mutant: every early end is put down to the client.                      *)
BlameClient(r, token) ==
    IF token = EOS \/ remaining[r] - 1 <= 0 THEN {} ELSE {"client_disconnect"}

(* EOS and a spent budget are no cancellation; a disconnect is seen before *)
(* the timeout.                                                            *)
CancelReason(r, token) ==
    IF token = EOS \/ remaining[r] - 1 <= 0 THEN {}
    ELSE IF is_cancelled(r) THEN {"client_disconnect"} ELSE {"generation_timeout"}

MeteredSampleFinishes(r, token, timed_out) ==
    /\ SampleFinishes(r, token, timed_out)
    /\ FinishObserves(r, CancelReason(r, token))

MeteredSampleEmits(r, token) ==
    /\ SampleEmits(r, token)
    /\ Inc(Once({IF tokens_emitted[r] = 0 THEN "ttft" ELSE "inter_token"}))
    /\ tokens_emitted' = [tokens_emitted EXCEPT ![r] = @ + 1]
    /\ UNCHANGED gauges

(* The steps that record nothing.                                          *)
Unmetered ==
    /\ \/ GoIdle \/ Wake \/ Build \/ Yield \/ FailDone \/ SampleDone \/ DecodeFails
       \/ \E r \in Requests : Consume(r) \/ Client(r) \/ Age(r)
    /\ UNCHANGED metricvars

MeteredNext ==
    \/ Unmetered \/ MeteredSelect \/ MeteredDecode
    \/ \E r \in Requests :
          \/ MeteredGenerate(r) \/ MeteredExpire(r) \/ MeteredAdmit(r) \/ MeteredFailOne(r)
          \/ \E token \in Sampled, timed_out \in BOOLEAN :
                MeteredSampleFinishes(r, token, timed_out)
          \/ \E token \in Sampled : MeteredSampleEmits(r, token)

MeteredSpec == MeteredInit /\ [][MeteredNext]_<<vars, metricvars>>
-----------------------------------------------------------------------------
(* Every accepted request is accounted for, whatever becomes of it: it is  *)
(* still waiting, or its wait was observed by admit(), or it was counted   *)
(* as a queue timeout, and never two of these; and every admission counts  *)
(* exactly one prefix lookup.                                              *)
AcceptedAccounted ==
    /\ counters["accepted"] =
          Cardinality(waiting) + counters["queue_wait"] + counters["queue_timeout"]
    /\ PrefixCacheEnabled =>
          counters["queue_wait"] = counters["hit"] + counters["stale_donor"] + counters["miss"]

(* A request with a time to first token gets exactly one tokens_per_second *)
(* observation, on every exit: the first tokens not yet matched by one are *)
(* those of requests still generating.                                     *)
ThroughputPaired ==
    counters["ttft"] =
        counters["tokens_per_second"] + Cardinality({r \in active : tokens_emitted[r] > 0})

(* "Counts prompt tokens that never reached llama_decode()" (metrics.py:   *)
(* 71-75): as long as no decode has failed, the rows of all batches, the   *)
(* reused tokens and the tokens still pending add up to the prompt tokens  *)
(* admitted and the tokens emitted; no token is decoded twice or skipped.  *)
TokensBalance ==
    counters["decode_error"] = 0 =>
        counters["batch_tokens"] + counters["reused"] + Total(Backlog) =
            counters["prefill"] + counters["ttft"] + counters["inter_token"]

(* No more requests are counted as client_disconnect than have a reader    *)
(* that left early: the counter blames no client for a timeout, for the    *)
(* end of a text or for a failed decode, and none of them twice.           *)
DisconnectsAreReal ==
    counters["client_disconnect"] <=
        Cardinality({r \in Streaming : consumer[r] \in {"leaving", "gone"}})

(* Whenever /metrics can be read, prefix_cache_nodes is the size of the    *)
(* tree, through every admission, replacement and eviction; and while a    *)
(* batch is being decoded the KV gauges, set before the tick's admissions, *)
(* cover at least what the requests in the batch have reserved.            *)
GaugesHonest ==
    /\ AtAwait /\ PrefixCacheEnabled => gauges.prefix_cache_nodes = Cardinality(Nodes)
    /\ pc = "decoding" =>
          gauges.kv_blocks_used >=
              Total([r \in active \cap DOMAIN block_table |-> block_table[r]])
=============================================================================
