--------------------------- MODULE MCCancellation ---------------------------
(* The batch loop with the memory of which active requests were already    *)
(* cancelled when the current tick's batch was built.                      *)
EXTENDS MCBatchLoop

VARIABLE doomed

CancelInit == Init /\ doomed = {}

CancelNext ==
    /\ Next
    /\ doomed' = IF pc = "admit" /\ pc' = "decoding"
                 THEN {r \in active : is_cancelled(r)}
                 ELSE doomed

CancelSpec == CancelInit /\ [][CancelNext]_<<vars, doomed>>

(* "Actually dropped on the *next* batch tick" (docs/architecture.md:217): *)
(* a request whose client was gone before a tick's batch was built is no   *)
(* longer active when that tick's samples have been handled.               *)
CancelledDroppedByNextTick ==
    pc = "sample" /\ sampled = {} => doomed \cap active = {}
=============================================================================
