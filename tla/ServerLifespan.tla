--------------------------- MODULE ServerLifespan ---------------------------
(***************************************************************************)
(* The life of the server around the batch loop: lifespan()                *)
(* (tinyserve/api/app.py) starts batch_loop as a task that nobody awaits   *)
(* or restarts, and cancels it when the web server shuts down.  The task   *)
(* may also end by itself: the division by the elapsed time in finish()    *)
(* raises if the clock has not advanced since the request was admitted.    *)
(***************************************************************************)
EXTENDS BatchLoop

VARIABLES
    server,  \* "up", "draining": no new connections, "drained", "stopped"
    task     \* batch_loop_task: "running", "raised" or "cancelled"

lifevars == <<server, task>>

LifespanInit == Init /\ server = "up" /\ task = "running"
-----------------------------------------------------------------------------
Loop == task = "running" /\ LoopStep /\ UNCHANGED lifevars

Handlers ==
    /\ \E r \in Requests :
          \/ server = "up" /\ generate(r)
          \/ server # "stopped" /\ (Consume(r) \/ Client(r) \/ Age(r))
    /\ UNCHANGED lifevars

(* Mutant: the throughput is observed before the request is released.      *)
ObserveFirst(r) == LeaveBatch(r) /\ UNCHANGED <<kvvars, streams>>

(* finish() up to the division: all but the spans.                         *)
FinishUntilDivision(r) == GiveBack(r)

(* ZeroDivisionError, where time.monotonic() is coarse: only a request     *)
(* that has emitted tokens is divided for, and one that took no time has   *)
(* not timed out.  The exception ends batch_loop; with no step of it under *)
(* way, the event loop goes on.                                            *)
FinishRaises(r) ==
    /\ task = "running"
    /\ r \in active /\ Len(context[r]) > Len(Prompt[r])
    /\ \/ pc = "failed"
       \/ pc = "sample" /\ \E token \in Sampled : <<r, token>> \in sampled /\ ~Continues(r, token)
    /\ FinishUntilDivision(r)
    /\ task' = "raised" /\ pc' = "idle"
    /\ sampled' = {}
    /\ UNCHANGED <<consumer, disconnected, tracevars, queuevars, selected, take, server>>

(* External: uvicorn is told to stop and closes its listening sockets.     *)
Drain ==
    /\ server = "up" /\ AtAwait
    /\ server' = "draining"
    /\ UNCHANGED <<vars, task>>

(* External: uvicorn resumes lifespan() once every handler has returned.   *)
HandlersReturned ==
    /\ server = "draining" /\ AtAwait
    /\ \A r \in Requests : consumer[r] \notin {"starting", "reading"}
    /\ server' = "drained"
    /\ UNCHANGED <<vars, task>>

(* lifespan() goes on after its yield: the pending await of the batch loop *)
(* raises CancelledError, which nothing catches.                           *)
Shutdown ==
    /\ server = "drained" /\ AtAwait
    /\ server' = "stopped"
    /\ task' = IF task = "running" THEN "cancelled" ELSE task
    /\ UNCHANGED vars

LifespanNext ==
    \/ Loop \/ Handlers \/ Drain \/ HandlersReturned \/ Shutdown
    \/ \E r \in Requests : FinishRaises(r)

LifespanSpec == LifespanInit /\ [][LifespanNext]_<<vars, lifevars>>

(* The event loop runs what is ready; uvicorn goes on when it can.         *)
FairLifespan ==
    /\ LifespanSpec
    /\ WF_<<vars, lifevars>>(Loop)
    /\ WF_<<vars, lifevars>>(HandlersReturned \/ Shutdown)
    /\ \A r \in Requests :
          WF_<<vars, lifevars>>(server # "stopped" /\ Consume(r) /\ UNCHANGED lifevars)
-----------------------------------------------------------------------------
(* A finish() that raises halfway costs the server its loop, but not the   *)
(* books: its slot, cells, claim and blocks are given back and its reader  *)
(* is told, and the requests cut off with it keep exactly what is theirs.  *)
BooksSurviveRaise ==
    task = "raised" =>
        /\ SlotPartition /\ ClaimsAreLive /\ ReservationsExact /\ Ledger /\ NoOrphanReader
        /\ \A i \in DOMAIN free_slots : cells[free_slots[i]] = {}

(* A server told to stop does stop, unless its loop has raised: no request *)
(* in flight, whatever is decoded and whoever disconnects, keeps uvicorn   *)
(* waiting for ever.                                                       *)
ShutdownCompletes ==
    server = "draining" ~> server = "stopped" \/ task = "raised"

Reads(r) == consumer[r] \in {"starting", "reading"}

(* "Protects clients from silently waiting forever" (PRD.md:232): a reader *)
(* whose request has waited past queue_timeout_seconds comes to the end of *)
(* its stream, or has left before, on a server that is up and on one that  *)
(* is draining, unless the loop raised: it is not enough that the request  *)
(* leaves the queue.                                                       *)
StaleWaiterLeaves ==
    \A r \in Requests : (r \in stale /\ Reads(r)) ~> (~Reads(r) \/ task = "raised")
=============================================================================
