-------------------------- MODULE MCServerLifespan --------------------------
(* Two requests that emit up to two tokens and one; r2's prompt begins     *)
(* with r1's.                                                              *)
EXTENDS ServerLifespan

CONSTANTS r1, r2, a, b, e

MCPrompt == [r \in Requests |-> IF r = r1 THEN <<a, a>> ELSE <<a, a, b>>]
MCMaxTokens == [r \in Requests |-> IF r = r1 THEN 3 ELSE 2]
=============================================================================
