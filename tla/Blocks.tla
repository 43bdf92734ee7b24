------------------------------- MODULE Blocks -------------------------------
(***************************************************************************)
(* The block size (Settings.kv_block_size) that lifespan() gives to both   *)
(* the KV accounting and the prefix cache, and the arithmetic each does    *)
(* with it: the accounting rounds up, the prefix cache rounds down.        *)
(***************************************************************************)
EXTENDS Integers, Sequences

CONSTANT BlockSize

ASSUME BlockAssumption == BlockSize \in Nat \ {0}

(* Mutant: rounding down.                                                  *)
FloorBlocks(n_tokens) == n_tokens \div BlockSize

(* KVCacheManager._blocks_needed: ceil(n_tokens / block_size).             *)
blocks_needed(n_tokens) == (n_tokens + BlockSize - 1) \div BlockSize

(* len(tokens) // block_size whole blocks, in tokens.                      *)
WholeBlocks(n_tokens) == (n_tokens \div BlockSize) * BlockSize

(* The aligned, non-empty prefix lengths a walk of the tree can stop at.   *)
AlignedLengths(n_tokens) == {n \in 1..n_tokens : n % BlockSize = 0}

(* Mutant: a clamp that lets the whole prompt be reused.                   *)
UsableWholePrompt(n_tokens) == WholeBlocks(n_tokens)

(* match_for_reuse: the longest aligned prefix that leaves a token over.   *)
usable(n_tokens) == WholeBlocks(n_tokens - 1)
=============================================================================
