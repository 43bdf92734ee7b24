---------------------------- MODULE MCBatchLoop ----------------------------
(* Three requests for two slots.  r1 and r2 share two blocks, r3 is a      *)
(* prefix of theirs that a match would cover completely.                   *)
EXTENDS BatchLoop, TLC

CONSTANTS r1, r2, r3, a, b, e

MCPrompt == [r \in Requests |->
                CASE r = r1 -> <<a, a, b, b, a>> [] r = r2 -> <<a, a, b, b>> [] r = r3 -> <<a, a>>]
MCMaxTokens == [r \in Requests |-> IF r = r3 THEN 3 ELSE 2]

SlotSymmetry == Permutations(SeqIds)
=============================================================================
