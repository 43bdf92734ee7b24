-------------------------- MODULE RuntimeLifecycle --------------------------
(***************************************************************************)
(* The native objects behind LlamaRuntime                                  *)
(* (tinyserve/runtime/llama_runtime.py): a batch, a context and the model  *)
(* the context is built over.  close() frees them in that order; without   *)
(* it the garbage collector finalizes context and model in any order and   *)
(* nobody frees the batch.  llama_decode works on them in a thread that    *)
(* outlives the await when the awaiting task is cancelled.                 *)
(*                                                                         *)
(* A runtime has one of two owners: the server, which cancels its loop at  *)
(* shutdown and never closes, or a `with` block or fixture, which awaits   *)
(* its decodes and closes, once or more often.                             *)
(***************************************************************************)
EXTENDS Integers

CONSTANTS
    Runtimes,  \* the runtimes one process builds
    Server     \* those that belong to a server

ASSUME OwnerAssumption == Server \subseteq Runtimes

Objects == {"batch", "ctx", "llm"}

(* The objects with a wrapper of llama_cpp around them, which forgets its  *)
(* pointer once it has freed it.  The batch is a bare struct.              *)
Wrapped == {"ctx", "llm"}

VARIABLES
    owner,    \* "none", "using", "awaiting" a decode, "released", or, inside
              \* close(), the object it frees next
    thread,   \* runtimes with llama_decode running in its thread
    closed,   \* runtimes with _closed set
    pointer,  \* the wrappers that still hold their pointer
    freed,    \* how often each object was freed
    faulted   \* history: runtimes whose context outlived its model

vars == <<owner, thread, closed, pointer, freed, faulted>>

Init ==
    /\ owner = [r \in Runtimes |-> "none"]
    /\ thread = {} /\ closed = {} /\ faulted = {}
    /\ pointer = [r \in Runtimes |-> Wrapped]
    /\ freed = [r \in Runtimes |-> [o \in Objects |-> 0]]

Create(r) ==
    /\ owner[r] = "none"
    /\ owner' = [owner EXCEPT ![r] = "using"]
    /\ UNCHANGED <<thread, closed, pointer, freed, faulted>>

decode(r) ==
    /\ owner[r] = "using" /\ r \notin closed \cup thread
    /\ owner' = [owner EXCEPT ![r] = "awaiting"]
    /\ thread' = thread \cup {r}
    /\ UNCHANGED <<closed, pointer, freed, faulted>>

DecodeReturns(r) ==
    /\ r \in thread
    /\ thread' = thread \ {r}
    /\ owner' = [owner EXCEPT ![r] = IF @ = "awaiting" THEN "using" ELSE @]
    /\ UNCHANGED <<closed, pointer, freed, faulted>>

(* Mutant: a close() without the test of _closed.                          *)
CloseAgain(r) ==
    /\ r \notin Server /\ owner[r] = "using"
    /\ closed' = closed \cup {r}
    /\ owner' = [owner EXCEPT ![r] = "batch"]
    /\ UNCHANGED <<thread, pointer, freed, faulted>>

(* close(), called early or by __exit__: nothing when _closed is set.      *)
close(r) ==
    /\ r \notin Server /\ owner[r] = "using"
    /\ closed' = closed \cup {r}
    /\ owner' = [owner EXCEPT ![r] = IF r \in closed THEN @ ELSE "batch"]
    /\ UNCHANGED <<thread, pointer, freed, faulted>>

(* External: one more free of an object.  A context freed after its model  *)
(* faults.                                                                 *)
Free(r, object) ==
    /\ freed' = [freed EXCEPT ![r][object] = @ + 1]
    /\ faulted' = IF object = "ctx" /\ freed[r].llm > 0 THEN faulted \cup {r} ELSE faulted

(* External: LlamaContext.close() and Llama.close(), which their           *)
(* destructors call too, free only through a pointer they still hold.      *)
CloseWrapper(r, object) ==
    /\ pointer' = [pointer EXCEPT ![r] = @ \ {object}]
    /\ IF object \in pointer[r] THEN Free(r, object) ELSE UNCHANGED <<freed, faulted>>

FreeBatch(r) ==
    /\ owner[r] = "batch"
    /\ Free(r, "batch")
    /\ owner' = [owner EXCEPT ![r] = "ctx"]
    /\ UNCHANGED <<thread, closed, pointer>>

CloseContext(r) ==
    /\ owner[r] = "ctx"
    /\ CloseWrapper(r, "ctx")
    /\ owner' = [owner EXCEPT ![r] = "llm"]
    /\ UNCHANGED <<thread, closed>>

CloseModel(r) ==
    /\ owner[r] = "llm"
    /\ CloseWrapper(r, "llm")
    /\ owner' = [owner EXCEPT ![r] = "using"]
    /\ UNCHANGED <<thread, closed>>

(* Mutant: shutdown closes the runtime once it has cancelled the loop.     *)
CancelAndClose(r) ==
    /\ r \in Server /\ owner[r] = "awaiting"
    /\ closed' = closed \cup {r}
    /\ owner' = [owner EXCEPT ![r] = "batch"]
    /\ UNCHANGED <<thread, pointer, freed, faulted>>

(* The server's loop is cancelled in its await; the thread runs on.        *)
CancelAwait(r) ==
    /\ r \in Server /\ owner[r] = "awaiting"
    /\ owner' = [owner EXCEPT ![r] = "using"]
    /\ UNCHANGED <<thread, closed, pointer, freed, faulted>>

(* The last reference goes: a closed runtime's at the end of its block,    *)
(* the server's when the interpreter, having joined its threads, exits.    *)
ReleaseRuntime(r) ==
    /\ owner[r] = "using" /\ r \notin thread
    /\ r \in Server \cup closed
    /\ owner' = [owner EXCEPT ![r] = "released"]
    /\ UNCHANGED <<thread, closed, pointer, freed, faulted>>

(* External: the collector runs the destructors of LlamaContext and Llama, *)
(* in any order, on a closed runtime as on one nobody closed.              *)
Finalize(r, object) ==
    /\ owner[r] = "released"
    /\ CloseWrapper(r, object)
    /\ UNCHANGED <<owner, thread, closed>>

Next ==
    \E r \in Runtimes :
        \/ Create(r) \/ decode(r) \/ DecodeReturns(r) \/ CancelAwait(r)
        \/ close(r) \/ FreeBatch(r) \/ CloseContext(r) \/ CloseModel(r)
        \/ ReleaseRuntime(r)
        \/ \E object \in Wrapped : Finalize(r, object)

Spec == Init /\ [][Next]_vars
-----------------------------------------------------------------------------
(* A second close(), __exit__ after an early close() and the destructors   *)
(* that run after either free no object again: the batch, which no wrapper *)
(* guards, has only _closed between it and a second llama_batch_free.  And *)
(* once close() has returned, every object of the runtime is gone, the     *)
(* context before its model, whatever the collector does afterwards.  The  *)
(* server's own runtime, never closed, is promised only the first part.    *)
FreedExactlyOnce ==
    /\ \A r \in Runtimes, o \in Objects : freed[r][o] <= 1
    /\ faulted \subseteq Server
    /\ \A r \in closed : owner[r] \notin Objects => \A o \in Objects : freed[r][o] = 1

(* llama_decode never runs on a freed object: not when its awaiting task   *)
(* was cancelled, nor when other runtimes of the process are closed.       *)
DecodeOnLiveObjects == \A r \in thread, o \in Objects : freed[r][o] = 0
=============================================================================
