--------------------------- MODULE StreamSession ---------------------------
(***************************************************************************)
(* StreamManager between a producer that behaves like the batch loop (push *)
(* only after is_cancelled() said no, close exactly once, at any moment)   *)
(* and its consumers, with the history of both ends.                       *)
(***************************************************************************)
EXTENDS StreamManager, SequencesExt

CONSTANTS
    Text,      \* what is pushed
    MaxPush    \* bound on the tokens pushed, per request

ASSUME SessionAssumption == END \notin Text

VARIABLES
    producer,  \* "none", "open" or "closed"
    pushed,    \* history: the tokens pushed
    received   \* history: the tokens the consumer passed on

sessionvars == <<streamvars, producer, pushed, received>>

SessionInit ==
    /\ StreamInit
    /\ producer = [r \in Requests |-> "none"]
    /\ pushed = [r \in Requests |-> <<>>]
    /\ received = [r \in Requests |-> <<>>]

(* generate(): create the stream and start, or hand over, its consumer.    *)
Open(r) ==
    /\ producer[r] = "none"
    /\ create(r)
    /\ consumer' = [consumer EXCEPT ![r] = IF r \in Streaming THEN "starting" ELSE "reading"]
    /\ producer' = [producer EXCEPT ![r] = "open"]
    /\ UNCHANGED <<disconnected, pushed, received>>

Push(r, token) ==
    /\ producer[r] = "open"
    /\ ~is_cancelled(r)
    /\ Len(pushed[r]) < MaxPush[r]
    /\ push_token(r, token)
    /\ pushed' = [pushed EXCEPT ![r] = Append(@, token)]
    /\ UNCHANGED <<consumer, disconnected, producer, received>>

Stop(r) ==
    /\ producer[r] = "open"
    /\ close(r)
    /\ producer' = [producer EXCEPT ![r] = "closed"]
    /\ UNCHANGED <<consumer, disconnected, pushed, received>>

Reader(r) ==
    /\ \/ /\ ReceiveText(r)
          /\ received' = [received EXCEPT ![r] = Append(@, Head(streams[r].queue))]
       \/ /\ Start(r) \/ SeeDisconnect(r) \/ ReceiveEnd(r) \/ Finalize(r)
          /\ UNCHANGED received
    /\ UNCHANGED <<producer, pushed>>

Leaver(r) == ClientStep(r) /\ UNCHANGED <<producer, pushed, received>>

SessionNext ==
    \E r \in Requests :
        \/ Open(r)
        \/ \E token \in Text : Push(r, token)
        \/ Stop(r)
        \/ Reader(r)
        \/ Leaver(r)

-----------------------------------------------------------------------------
(* A stream outlives its consumer only if the client left before the SSE   *)
(* generator was first resumed (consumer gone, nothing ever received): in  *)
(* every other case the finally clause of subscribe() has removed it.      *)
ReclaimedByConsumer ==
    \A r \in DOMAIN streams :
        \/ consumer[r] \in {"starting", "reading", "leaving"}
        \/ r \in Streaming /\ consumer[r] = "gone" /\ ~streams[r].cancelled
              /\ received[r] = <<>>

(* A consumer that has read its stream to the end has passed on all that   *)
(* was pushed, what the decoder held until close() included.               *)
ReadToTheEnd == \A r \in Requests : consumer[r] = "done" => received[r] = pushed[r]
=============================================================================
