---------------------------- MODULE MCSseClient ----------------------------
(* A streaming and a collecting client; words with and without a space     *)
(* before them and, for the run about them, line breaks.                   *)
EXTENDS SseClient

CONSTANTS r1, r2

MCTexts == {<<"x">>, <<"space", "y">>}
MCLines == {<<"x">>, <<"newline">>, <<"x", "newline", "y">>}

MCMaxPush == [r \in Requests |-> IF r = r1 THEN 2 ELSE 1]
=============================================================================
