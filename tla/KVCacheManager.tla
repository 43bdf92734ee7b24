--------------------------- MODULE KVCacheManager ---------------------------
(***************************************************************************)
(* The block accounting of tinyserve/kv_cache/manager.py: a counter of     *)
(* free blocks and a table of the blocks each request holds.  A request    *)
(* reserves once, when it is admitted (admission/controller.py), and       *)
(* releases once, when it finishes or expires (api/app.py).                *)
(***************************************************************************)
EXTENDS Ids, Blocks, Tables

CONSTANTS
    TotalTokens,  \* total_tokens = Settings.n_ctx
    MaxRequest    \* the largest number of tokens one request may ask for

ASSUME KVAssumption ==
    /\ TotalTokens \in Nat
    /\ MaxRequest \in Nat

VARIABLES
    free_blocks,  \* _free_blocks
    block_table   \* _block_table: request id -> number of blocks held

kvvars == <<free_blocks, block_table>>
-----------------------------------------------------------------------------
total_blocks == TotalTokens \div BlockSize

KVInit ==
    /\ free_blocks = total_blocks
    /\ block_table = [r \in {} |-> 0]

(* reserve() returning True.  A second reservation under the same id       *)
(* raises before anything changes, so it is no step.                       *)
Reserve(r, n_tokens) ==
    /\ r \notin DOMAIN block_table
    /\ blocks_needed(n_tokens) <= free_blocks
    /\ free_blocks' = free_blocks - blocks_needed(n_tokens)
    /\ block_table' = With(block_table, r, blocks_needed(n_tokens))

(* reserve() returning False: nothing is taken, not even partially.        *)
ReserveRefused(r, n_tokens) ==
    /\ r \notin DOMAIN block_table
    /\ blocks_needed(n_tokens) > free_blocks
    /\ UNCHANGED kvvars

(* Mutant: a release that forgets to pop the table entry.                  *)
ReleaseKeepsEntry(r) ==
    /\ free_blocks' = free_blocks + IF r \in DOMAIN block_table THEN block_table[r] ELSE 0
    /\ UNCHANGED block_table

(* release() is idempotent: pop(seq_id, None) and an is-not-None test.     *)
Release(r) ==
    IF r \in DOMAIN block_table
    THEN /\ free_blocks' = free_blocks + block_table[r]
         /\ block_table' = Without(block_table, r)
    ELSE UNCHANGED kvvars

KVNext ==
    \E r \in Requests :
        \/ \E n \in 0..MaxRequest : Reserve(r, n) \/ ReserveRefused(r, n)
        \/ Release(r)

KVSpec == KVInit /\ [][KVNext]_kvvars
-----------------------------------------------------------------------------
(* The counters have their types, and free_blocks never leaves the pool:   *)
(* reserve() never drives it below zero, release() never above its start.  *)
KVTypeOK ==
    /\ free_blocks \in 0..total_blocks
    /\ DOMAIN block_table \subseteq Requests
    /\ block_table \in [DOMAIN block_table -> Nat]

(* No block is lost or invented by any sequence of reservations, refusals  *)
(* and (repeated) releases: the free blocks and the blocks in the table    *)
(* always add up to the pool kv_cache/manager.py was created with.         *)
Ledger ==
    /\ IsFiniteSet(Units(block_table))
    /\ free_blocks + Total(block_table) = total_blocks

=============================================================================
