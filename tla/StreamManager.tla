--------------------------- MODULE StreamManager ---------------------------
(***************************************************************************)
(* The output streams (tinyserve/streaming/stream_manager.py) and their    *)
(* consumers: the collecting handler of a plain /generate call and the SSE *)
(* generator _sse_events (tinyserve/api/app.py) of a streaming one, driven *)
(* by the web framework.  Everything here runs on the event loop.          *)
(*                                                                         *)
(* Text is abstracted to the tokens it was decoded from.  A token whose    *)
(* bytes end inside a character is held by the incremental decoder until   *)
(* a later token, or close(), completes the text.                          *)
(***************************************************************************)
EXTENDS Ids, Tables, Sequences

CONSTANTS
    Streaming,  \* the requests sent with stream = true
    END         \* the _EndOfStream sentinel

ASSUME StreamAssumption == Streaming \subseteq Requests

VARIABLES
    streams,       \* _streams: request id -> stream
    consumer,      \* where the handler that reads a request's stream stands
    disconnected   \* requests whose client has closed the connection

streamvars == <<streams, consumer, disconnected>>

(* "none": no request yet; "starting": StreamingResponse returned, its     *)
(* generator not yet run; "reading": inside subscribe(); "leaving": the    *)
(* SSE generator is finished, subscribe() is still to be finalized;        *)
(* "done": read to the end; "gone": left early; "rejected": never served.  *)
ConsumerStates ==
    {"none", "starting", "reading", "leaving", "done", "gone", "rejected"}

StreamInit ==
    /\ streams = [r \in {} |-> <<>>]
    /\ consumer = [r \in Requests |-> "none"]
    /\ disconnected = {}
-----------------------------------------------------------------------------
(* The manager's methods, called by generate() and by the batch loop.      *)
create(r) ==
    streams' = With(streams, r, [queue |-> <<>>, held |-> <<>>, cancelled |-> FALSE])

(* decoder.decode(token_bytes) yields text, held bytes included, or holds  *)
(* the bytes back; an unknown id is ignored.                               *)
push_token(r, token) ==
    IF r \notin DOMAIN streams
    THEN UNCHANGED streams
    ELSE \/ streams' = [streams EXCEPT ![r].queue = @ \o Append(streams[r].held, token),
                                       ![r].held = <<>>]
         \/ streams' = [streams EXCEPT ![r].held = Append(@, token)]

(* Mutant: the END sentinel is forgotten when there is a tail to flush.    *)
CloseTailOnly(r) ==
    IF r \notin DOMAIN streams
    THEN UNCHANGED streams
    ELSE streams' = [streams EXCEPT ![r].queue =
                        IF streams[r].held = <<>> THEN Append(@, END) ELSE @ \o streams[r].held,
                                    ![r].held = <<>>]

close(r) ==
    IF r \notin DOMAIN streams
    THEN UNCHANGED streams
    ELSE streams' = [streams EXCEPT ![r].queue = @ \o Append(streams[r].held, END),
                                    ![r].held = <<>>]

is_cancelled(r) == r \in DOMAIN streams => streams[r].cancelled
-----------------------------------------------------------------------------
(* The consumer of r's stream.                                             *)

(* The framework starts iterating _sse_events, which enters subscribe().   *)
Start(r) ==
    /\ consumer[r] = "starting"
    /\ consumer' = [consumer EXCEPT ![r] = "reading"]
    /\ UNCHANGED <<streams, disconnected>>

(* queue.get() returns text that is passed on to the client: always in the *)
(* collecting handler, in the SSE generator unless it sees a disconnect.   *)
ReceiveText(r) ==
    /\ consumer[r] = "reading"
    /\ streams[r].queue # <<>>
    /\ Head(streams[r].queue) # END
    /\ r \in Streaming => r \notin disconnected
    /\ streams' = [streams EXCEPT ![r].queue = Tail(@)]
    /\ UNCHANGED <<consumer, disconnected>>

(* queue.get() returns text, is_disconnected() is true: the SSE generator  *)
(* cancels the stream and returns; subscribe() is finalized later.         *)
SeeDisconnect(r) ==
    /\ consumer[r] = "reading"
    /\ streams[r].queue # <<>>
    /\ Head(streams[r].queue) # END
    /\ r \in Streaming /\ r \in disconnected
    /\ streams' = [streams EXCEPT ![r].queue = Tail(@), ![r].cancelled = TRUE]
    /\ consumer' = [consumer EXCEPT ![r] = "leaving"]
    /\ UNCHANGED disconnected

(* queue.get() returns _END: subscribe() ends and forgets the stream.      *)
ReceiveEnd(r) ==
    /\ consumer[r] = "reading"
    /\ streams[r].queue # <<>>
    /\ Head(streams[r].queue) = END
    /\ streams' = Without(streams, r)
    /\ consumer' = [consumer EXCEPT ![r] = "done"]
    /\ UNCHANGED disconnected

(* Mutant: a subscribe() without its finally clause.                       *)
FinalizeKeepsStream(r) ==
    /\ consumer[r] = "leaving"
    /\ consumer' = [consumer EXCEPT ![r] = "gone"]
    /\ UNCHANGED <<streams, disconnected>>

(* The event loop finalizes an abandoned subscribe(): its finally runs.    *)
Finalize(r) ==
    /\ consumer[r] = "leaving"
    /\ streams' = Without(streams, r)
    /\ consumer' = [consumer EXCEPT ![r] = "gone"]
    /\ UNCHANGED disconnected

(* External: the client closes the connection.                             *)
Disconnect(r) ==
    /\ consumer[r] \in {"starting", "reading"}
    /\ r \notin disconnected
    /\ disconnected' = disconnected \cup {r}
    /\ UNCHANGED <<streams, consumer>>

(* External: on a disconnect the framework cancels the task that iterates  *)
(* the SSE generator.  In queue.get() the cancellation runs the finally    *)
(* clause of subscribe(), without cancel() ever being called; a generator  *)
(* that was never started has no finally to run, and its stream stays.     *)
CancelTask(r) ==
    /\ consumer[r] \in {"starting", "reading"}
    /\ r \in Streaming /\ r \in disconnected
    /\ streams' = IF consumer[r] = "reading" THEN Without(streams, r) ELSE streams
    /\ consumer' = [consumer EXCEPT ![r] = "gone"]
    /\ UNCHANGED disconnected

(* External: the same while a text is being sent or is_disconnected() is   *)
(* awaited: subscribe() stands at its yield and is only finalized later.   *)
CancelSend(r) ==
    /\ consumer[r] = "reading"
    /\ r \in Streaming /\ r \in disconnected
    /\ consumer' = [consumer EXCEPT ![r] = "leaving"]
    /\ UNCHANGED <<streams, disconnected>>

ConsumerStep(r) ==
    Start(r) \/ ReceiveText(r) \/ SeeDisconnect(r) \/ ReceiveEnd(r) \/ Finalize(r)

ClientStep(r) == Disconnect(r) \/ CancelTask(r) \/ CancelSend(r)
=============================================================================
