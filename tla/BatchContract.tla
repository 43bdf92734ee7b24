--------------------------- MODULE BatchContract ---------------------------
(***************************************************************************)
(* What build_batch (tinyserve/batch/builder.py) promises its caller, as a *)
(* relation between the numbers of pending tokens and the numbers of rows: *)
(* the caller sees the sorting only through it, and the order of sequences *)
(* of equal length not at all.  BatchBuilder shows that the loop in        *)
(* build_batch satisfies it; BatchLoop decodes any batch allowed by it.    *)
(***************************************************************************)
EXTENDS Tables

CONSTANTS
    ChunkSize,       \* Settings.chunk_size
    BatchCapacity    \* runtime.batch_capacity (n_batch = n_ctx)

ASSUME BatchAssumption ==
    /\ ChunkSize \in Nat \ {0}
    /\ BatchCapacity \in Nat \ {0}

(* The most a sequence with n pending tokens may feed in one tick.         *)
Slice(n) == IF n < ChunkSize THEN n ELSE ChunkSize

(* take[s] rows for a sequence with pending[s] tokens: nobody gets more    *)
(* than a slice, the batch fits, and a sequence gets less than its slice   *)
(* only if the batch is full, at most one sequence was cut short and those *)
(* with more tokens pending got nothing.                                   *)
IsPrepared(pending, take) ==
    LET Squeezed == {s \in DOMAIN take : take[s] < Slice(pending[s])} IN
    /\ DOMAIN take = DOMAIN pending
    /\ \A s \in DOMAIN take : take[s] \in 0..Slice(pending[s])
    /\ Total(take) <= BatchCapacity
    /\ \A s \in Squeezed :
          /\ Total(take) = BatchCapacity
          /\ \A t \in DOMAIN take : pending[t] > pending[s] => take[t] = 0
    /\ \A s, t \in Squeezed : take[s] > 0 /\ take[t] > 0 => s = t
=============================================================================
