---------------------------- MODULE BatchBuilder ----------------------------
(***************************************************************************)
(* build_batch (tinyserve/batch/builder.py) step by step: one action per   *)
(* iteration of its for loop over the active sequences, sorted by the      *)
(* number of pending tokens.  Tokens are abstracted to their index in      *)
(* pending_tokens; what matters is which of them get a row, at which       *)
(* position, and which row asks for logits.                                *)
(***************************************************************************)
EXTENDS BatchContract, Sequences, SequencesExt

CONSTANTS
    Seqs,         \* the active sequences' ids
    MaxPending,   \* bound on len(pending_tokens)
    MaxPast       \* bound on n_past

ASSUME BuilderAssumption ==
    /\ IsFiniteSet(Seqs)
    /\ MaxPending \in Nat /\ MaxPast \in Nat

VARIABLES
    pending,    \* len(seq.pending_tokens)
    n_past,     \* seq.n_past
    ordered,    \* the sorted list, the sequences still to be visited
    remaining,  \* rows left
    rows        \* the rows built so far

vars == <<pending, n_past, ordered, remaining, rows>>

(* PreparedBatch.row_count                                                 *)
row_count(s) == Cardinality({i \in DOMAIN rows : rows[i].seq_id = s})

(* Mutant: the last row of every slice asks for logits, final or not.      *)
SliceRowsLogitsAlways(s, take) ==
    [i \in 1..take |->
        [seq_id |-> s, token |-> i, pos |-> n_past[s] + i - 1,
         needs_logits |-> i = take]]

(* The rows of one slice.                                                  *)
SliceRows(s, take) ==
    [i \in 1..take |->
        [seq_id |-> s, token |-> i, pos |-> n_past[s] + i - 1,
         needs_logits |-> take = pending[s] /\ i = take]]

(* Mutant: longest first.                                                  *)
SortedDescending(list) ==
    \A i, j \in DOMAIN list : i < j => pending[list[i]] >= pending[list[j]]

(* Python's sort is stable over the insertion order of `active`, which is  *)
(* arbitrary here: any permutation sorted by length is a possible list.    *)
Sorted(list) ==
    \A i, j \in DOMAIN list : i < j => pending[list[i]] <= pending[list[j]]

Init ==
    /\ pending \in [Seqs -> 0..MaxPending]
    /\ n_past \in [Seqs -> {0, MaxPast}]
    /\ ordered \in {list \in SetToSeqs(Seqs) : Sorted(list)}
    /\ remaining = BatchCapacity
    /\ rows = <<>>

Skip ==
    /\ ordered # <<>>
    /\ pending[Head(ordered)] = 0 \/ remaining <= 0
    /\ ordered' = Tail(ordered)
    /\ UNCHANGED <<pending, n_past, remaining, rows>>

Take ==
    /\ ordered # <<>>
    /\ pending[Head(ordered)] > 0 /\ remaining > 0
    /\ LET s == Head(ordered)
           take == Min({Slice(pending[s]), remaining})
       IN  /\ rows' = rows \o SliceRows(s, take)
           /\ remaining' = remaining - take
    /\ ordered' = Tail(ordered)
    /\ UNCHANGED <<pending, n_past>>

Next == Skip \/ Take

Spec == Init /\ [][Next]_vars
-----------------------------------------------------------------------------
(* When the loop is done, the batch honours the contract the batch loop    *)
(* relies on: it fits, and capacity is only ever taken from the sequences  *)
(* with the most tokens pending, so decode steps are served first.         *)
ShortestServedFirst ==
    ordered = <<>> => IsPrepared(pending, [s \in Seqs |-> row_count(s)])

(* Whatever is cut short, a sequence's rows are the first tokens it has    *)
(* pending, at consecutive positions from n_past on, without a gap or a    *)
(* repeat; logits are asked for exactly once, and only by a sequence whose *)
(* last pending token is in the batch.  This is what lets the batch loop   *)
(* advance n_past by row_count and treat a sampled token as the next one.  *)
RowsContiguous ==
    \A i \in DOMAIN rows :
        LET s == rows[i].seq_id
            k == Cardinality({j \in 1..i : rows[j].seq_id = s})   \* row i is the k-th of s
        IN  /\ rows[i].token = k /\ rows[i].pos = n_past[s] + k - 1
            /\ rows[i].needs_logits <=> (k = row_count(s) /\ k = pending[s])
=============================================================================
