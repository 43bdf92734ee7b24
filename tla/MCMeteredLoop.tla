--------------------------- MODULE MCMeteredLoop ---------------------------
(* Three requests for two slots.  r3's prompt begins r2's.  The pool holds *)
(* either of r1 and r3 beside r2, not both; r1 and r3 ask for one token,   *)
(* r2 for three.                                                           *)
EXTENDS MeteredLoop, TLC

CONSTANTS r1, r2, r3, a, b, e

MCPrompt == [r \in Requests |->
                CASE r = r1 -> <<b>> [] r = r2 -> <<a, a, b, b>> [] r = r3 -> <<a, a>>]
MCMaxTokens == [r \in Requests |-> CASE r = r1 -> 1 [] r = r2 -> 3 [] r = r3 -> 1]

SlotSymmetry == Permutations(SeqIds)
=============================================================================
