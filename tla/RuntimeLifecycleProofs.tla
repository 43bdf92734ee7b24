----------------------- MODULE RuntimeLifecycleProofs -----------------------
(***************************************************************************)
(* close(), the destructors and a decode thread that outlives its await    *)
(* never meet on a freed object, for any number of runtimes and owners.    *)
(*                                                                         *)
(* The inductive invariant counts the frees of a runtime against how far   *)
(* its close() has come and against the pointers its wrappers still hold.  *)
(***************************************************************************)
EXTENDS RuntimeLifecycle, TLAPS

TypeOK ==
    /\ owner \in [Runtimes -> {"none", "using", "awaiting", "released"} \cup Objects]
    /\ thread \subseteq Runtimes /\ closed \subseteq Runtimes /\ faulted \subseteq Runtimes
    /\ pointer \in [Runtimes -> SUBSET Wrapped]
    /\ freed \in [Runtimes -> [Objects -> Nat]]

(* A thread runs only while its runtime is held open: by the await of its  *)
(* own caller or, if that was cancelled, by the server that never closes.  *)
ThreadsAreHeld ==
    \A r \in thread :
        /\ owner[r] # "released" /\ r \notin closed
        /\ r \in Server \/ owner[r] = "awaiting"

(* What the frees of a runtime come to: one through every pointer that was *)
(* dropped; of a closed one those that close() has behind it; of an open   *)
(* one none, unless the server let it go, whose batch is never freed.      *)
FreedSoFar(r) ==
    /\ \A o \in Wrapped : freed[r][o] = IF o \in pointer[r] THEN 0 ELSE 1
    /\ r \in closed =>
          /\ r \notin Server /\ owner[r] \in Objects \cup {"using", "released"}
          /\ freed[r]["batch"] = IF owner[r] = "batch" THEN 0 ELSE 1
          /\ freed[r]["ctx"] = IF owner[r] \in {"batch", "ctx"} THEN 0 ELSE 1
          /\ freed[r]["llm"] = IF owner[r] \in Objects THEN 0 ELSE 1
    /\ r \notin closed =>
          /\ owner[r] \notin Objects
          /\ freed[r]["batch"] = 0
          /\ owner[r] # "released" => freed[r]["ctx"] = 0 /\ freed[r]["llm"] = 0
          /\ owner[r] = "released" => r \in Server

LifeInv ==
    /\ TypeOK
    /\ ThreadsAreHeld
    /\ \A r \in Runtimes : FreedSoFar(r)
    /\ faulted \subseteq Server
-----------------------------------------------------------------------------
LEMMA InitLife == Init => LifeInv
BY OwnerAssumption DEF Init, LifeInv, TypeOK, ThreadsAreHeld, FreedSoFar, Objects, Wrapped

(* Starting and ending a decode, and losing its await, free nothing.       *)
LEMMA DecodeLife ==
    ASSUME LifeInv, NEW r \in Runtimes,
           Create(r) \/ decode(r) \/ DecodeReturns(r) \/ CancelAwait(r)
    PROVE  LifeInv'
<1>1. UNCHANGED <<closed, pointer, freed, faulted>>
    BY DEF Create, decode, DecodeReturns, CancelAwait
<1>2. TypeOK'
    BY <1>1 DEF LifeInv, TypeOK, Create, decode, DecodeReturns, CancelAwait
<1>3. \A q \in Runtimes :
         \/ owner'[q] = owner[q]
         \/ /\ q \notin closed /\ owner[q] \in {"none", "using", "awaiting"}
            /\ owner'[q] \in {"using", "awaiting"}
    BY DEF LifeInv, TypeOK, ThreadsAreHeld, FreedSoFar, Objects, Create, decode, DecodeReturns,
           CancelAwait
<1>4. ThreadsAreHeld'
    <2>1. CASE Create(r)
        BY <2>1 DEF Create, LifeInv, TypeOK, ThreadsAreHeld
    <2>2. CASE decode(r)
        BY <2>2 DEF decode, LifeInv, TypeOK, ThreadsAreHeld
    <2>3. CASE DecodeReturns(r)
        BY <2>3 DEF DecodeReturns, LifeInv, TypeOK, ThreadsAreHeld
    <2>4. CASE CancelAwait(r)
        BY <2>4 DEF CancelAwait, LifeInv, TypeOK, ThreadsAreHeld
    <2> QED BY <2>1, <2>2, <2>3, <2>4
<1>5. \A q \in Runtimes : FreedSoFar(q)'
    BY <1>1, <1>3 DEF LifeInv, FreedSoFar, Objects
<1> QED BY <1>1, <1>2, <1>4, <1>5 DEF LifeInv

(* The call of close() by an owner that awaits nothing: it goes on to free *)
(* only the objects of a runtime nobody has closed, all of them alive.     *)
LEMMA CallCloseLife ==
    ASSUME LifeInv, NEW r \in Runtimes, close(r)
    PROVE  LifeInv'
<1>1. /\ r \notin Server /\ owner[r] = "using" /\ closed' = closed \cup {r}
      /\ owner' = [owner EXCEPT ![r] = IF r \in closed THEN @ ELSE "batch"]
      /\ UNCHANGED <<thread, pointer, freed, faulted>>
    BY DEF close
<1>2. r \notin thread
    BY <1>1 DEF LifeInv, ThreadsAreHeld
<1>3. TypeOK' /\ ThreadsAreHeld'
    BY <1>1, <1>2 DEF LifeInv, TypeOK, ThreadsAreHeld, Objects
<1>4. \A q \in Runtimes \ {r} : FreedSoFar(q)'
    BY <1>1 DEF LifeInv, TypeOK, FreedSoFar
<1>5. FreedSoFar(r)'
    BY <1>1 DEF LifeInv, TypeOK, FreedSoFar, Objects, Wrapped
<1> QED BY <1>1, <1>3, <1>4, <1>5 DEF LifeInv

(* Each of the three frees finds its object alive, and the context goes    *)
(* while its model is still there.                                         *)
LEMMA FreeLife ==
    ASSUME LifeInv, NEW r \in Runtimes, FreeBatch(r) \/ CloseContext(r) \/ CloseModel(r)
    PROVE  LifeInv'
<1>1. /\ owner[r] \in Objects /\ r \in closed /\ r \notin thread /\ r \notin Server
      /\ freed[r]["llm"] = 0
      /\ owner[r] = "ctx" => "ctx" \in pointer[r]
      /\ owner[r] = "llm" => "llm" \in pointer[r]
    BY DEF FreeBatch, CloseContext, CloseModel, LifeInv, TypeOK, ThreadsAreHeld, FreedSoFar,
           Objects, Wrapped
<1>2. /\ freed' = [freed EXCEPT ![r][owner[r]] = @ + 1]
      /\ pointer' = [pointer EXCEPT ![r] = @ \ {owner[r]}]
      /\ owner' = [owner EXCEPT ![r] = IF @ = "batch" THEN "ctx"
                                       ELSE IF @ = "ctx" THEN "llm" ELSE "using"]
      /\ UNCHANGED <<thread, closed, faulted>>
    <2>1. CASE FreeBatch(r)
        BY <1>1, <2>1 DEF FreeBatch, Free, LifeInv, TypeOK, Wrapped
    <2>2. CASE CloseContext(r)
        BY <1>1, <2>2 DEF CloseContext, CloseWrapper, Free, LifeInv, TypeOK
    <2>3. CASE CloseModel(r)
        BY <1>1, <2>3 DEF CloseModel, CloseWrapper, Free, LifeInv, TypeOK
    <2> QED BY <2>1, <2>2, <2>3
<1>3. TypeOK' /\ ThreadsAreHeld'
    BY <1>1, <1>2 DEF LifeInv, TypeOK, ThreadsAreHeld, Objects
<1>4. \A q \in Runtimes \ {r} : FreedSoFar(q)'
    BY <1>2 DEF LifeInv, TypeOK, FreedSoFar
<1>5. FreedSoFar(r)'
    BY <1>1, <1>2 DEF LifeInv, TypeOK, FreedSoFar, Objects, Wrapped
<1> QED BY <1>2, <1>3, <1>4, <1>5 DEF LifeInv

LEMMA ReleaseLife ==
    ASSUME LifeInv, NEW r \in Runtimes, ReleaseRuntime(r)
    PROVE  LifeInv'
<1>1. /\ owner[r] = "using" /\ r \notin thread /\ r \in Server \cup closed
      /\ owner' = [owner EXCEPT ![r] = "released"]
      /\ UNCHANGED <<thread, closed, pointer, freed, faulted>>
    BY DEF ReleaseRuntime
<1>2. TypeOK' /\ ThreadsAreHeld'
    BY <1>1 DEF LifeInv, TypeOK, ThreadsAreHeld
<1>3. \A q \in Runtimes : FreedSoFar(q)'
    BY <1>1 DEF LifeInv, TypeOK, FreedSoFar, Objects
<1> QED BY <1>1, <1>2, <1>3 DEF LifeInv

(* A destructor frees something only on a runtime that was never closed:   *)
(* close() has left no wrapper a pointer.                                  *)
LEMMA FinalizeLife ==
    ASSUME LifeInv, NEW r \in Runtimes, NEW object \in Wrapped, Finalize(r, object)
    PROVE  LifeInv'
<1>1. /\ owner[r] = "released" /\ r \notin thread
      /\ UNCHANGED <<owner, thread, closed>>
      /\ pointer' = [pointer EXCEPT ![r] = @ \ {object}]
    BY DEF Finalize, CloseWrapper, LifeInv, ThreadsAreHeld
<1>2. CASE object \notin pointer[r]
    BY <1>1, <1>2 DEF Finalize, CloseWrapper, LifeInv, TypeOK, ThreadsAreHeld, FreedSoFar
<1>3. CASE object \in pointer[r]
    <2>1. r \notin closed /\ r \in Server
        BY <1>1, <1>3 DEF LifeInv, TypeOK, FreedSoFar, Objects, Wrapped
    <2>2. /\ freed' = [freed EXCEPT ![r][object] = @ + 1]
          /\ faulted' \in {faulted, faulted \cup {r}}
        BY <1>3 DEF Finalize, CloseWrapper, Free
    <2>3. TypeOK' /\ ThreadsAreHeld'
        BY <1>1, <2>2 DEF LifeInv, TypeOK, ThreadsAreHeld, Objects, Wrapped
    <2>4. \A q \in Runtimes \ {r} : FreedSoFar(q)'
        BY <1>1, <2>2 DEF LifeInv, TypeOK, FreedSoFar
    <2>5. FreedSoFar(r)'
        BY <1>1, <1>3, <2>1, <2>2 DEF LifeInv, TypeOK, FreedSoFar, Objects, Wrapped
    <2> QED BY <2>1, <2>2, <2>3, <2>4, <2>5 DEF LifeInv
<1> QED BY <1>2, <1>3

LEMMA LifeInvariant == Spec => []LifeInv
<1>1. LifeInv /\ [Next]_vars => LifeInv'
    <2> SUFFICES ASSUME LifeInv, [Next]_vars PROVE LifeInv'
        OBVIOUS
    <2>1. CASE Next
        BY <2>1, DecodeLife, CallCloseLife, FreeLife, ReleaseLife, FinalizeLife DEF Next
    <2>2. CASE UNCHANGED vars
        BY <2>2 DEF vars, LifeInv, TypeOK, ThreadsAreHeld, FreedSoFar
    <2> QED BY <2>1, <2>2
<1> QED BY <1>1, InitLife, PTL DEF Spec
-----------------------------------------------------------------------------
(* However often close() and __exit__ are called and whenever llama_cpp's  *)
(* destructors run, batch, context and model are each freed at most once,  *)
(* and after a close() exactly once, the context before its model.         *)
THEOREM NothingFreedTwice == Spec => []FreedExactlyOnce
<1>1. LifeInv => FreedExactlyOnce
    BY DEF LifeInv, TypeOK, FreedSoFar, FreedExactlyOnce, Objects, Wrapped
<1> QED BY <1>1, LifeInvariant, PTL

(* Neither the cancellation of the batch loop in its await nor a close()   *)
(* anywhere in the process frees an object under a running llama_decode.   *)
THEOREM DecodeNeverOnFreed == Spec => []DecodeOnLiveObjects
<1>1. LifeInv => DecodeOnLiveObjects
    BY DEF LifeInv, TypeOK, ThreadsAreHeld, FreedSoFar, DecodeOnLiveObjects, Objects
<1> QED BY <1>1, LifeInvariant, PTL
=============================================================================
