------------------------ MODULE PrefixBackendsProofs ------------------------
(***************************************************************************)
(* create_prefix_cache() and the life of native handles, for any number of *)
(* candidate paths and caches and any replacement of the files.            *)
(*                                                                         *)
(* The inductive invariant ties a handle to its cache: only a native cache *)
(* ever has one, and a cache that is being built has none yet.             *)
(***************************************************************************)
EXTENDS PrefixBackends, TLAPS

TypeOK ==
    /\ backend \in [Caches -> {"none", "native", "python", "collected"}]
    /\ handle \in [Caches -> {"unset", "live", "null"}]
    /\ destroyed \in [Caches -> Nat]

(* load_library() runs for a cache that has neither backend nor handle.    *)
ProbingInv ==
    \/ probing = Nobody
    \/ /\ probing \in [cache : Caches, at : Nat, exists : BOOLEAN]
       /\ backend[probing.cache] = "none"

HandleInv ==
    \A c \in Caches :
        /\ handle[c] = "live" => backend[c] = "native" /\ shared_lib = "good"
        /\ backend[c] = "none" => handle[c] = "unset"
        /\ destroyed[c] = IF handle[c] = "null" THEN 1 ELSE 0

BackendInv ==
    /\ TypeOK
    /\ shared_lib \in {"none", "good"}
    /\ ProbingInv
    /\ HandleInv
-----------------------------------------------------------------------------
LEMMA InitBackend == Init => BackendInv
BY DEF Init, BackendInv, TypeOK, ProbingInv, HandleInv

(* A cache that has just been built, native only if there is a library.    *)
LEMMA BecomesInv ==
    ASSUME TypeOK, HandleInv, NEW c \in Caches, backend[c] = "none",
           NEW kind \in {"native", "python"}, Becomes(c, kind),
           kind = "native" => shared_lib' = "good",
           shared_lib = "good" => shared_lib' = "good"
    PROVE  TypeOK' /\ HandleInv'
<1>1. TypeOK'
    BY DEF TypeOK, Becomes
<1>2. /\ backend'[c] = kind /\ destroyed' = destroyed
      /\ handle'[c] = IF kind = "native" THEN "live" ELSE handle[c]
      /\ \A d \in Caches \ {c} : backend'[d] = backend[d] /\ handle'[d] = handle[d]
    BY DEF TypeOK, Becomes
<1>3. handle[c] = "unset" /\ destroyed[c] = 0
    BY DEF HandleInv
<1> QED BY <1>1, <1>2, <1>3 DEF HandleInv

LEMMA CreateInv ==
    ASSUME BackendInv, NEW c \in Caches, NEW prefer_native \in BOOLEAN,
           create_prefix_cache(c, prefer_native)
    PROVE  BackendInv'
<1>1. probing = Nobody /\ backend[c] = "none" /\ shared_lib' = shared_lib
    BY DEF create_prefix_cache
<1>2. CASE UNCHANGED cachevars /\ probing' = [cache |-> c, at |-> 1, exists |-> FALSE]
    BY <1>1, <1>2 DEF BackendInv, TypeOK, ProbingInv, HandleInv, cachevars
<1>3. CASE Becomes(c, "python") /\ UNCHANGED probing
    <2>1. TypeOK' /\ HandleInv'
        BY <1>1, <1>3, BecomesInv DEF BackendInv
    <2> QED BY <1>1, <1>3, <2>1 DEF BackendInv, ProbingInv
<1>4. CASE shared_lib # "none" /\ Becomes(c, "native") /\ UNCHANGED probing
    <2>1. shared_lib = "good"
        BY <1>4 DEF BackendInv
    <2>2. TypeOK' /\ HandleInv'
        BY <1>1, <1>4, <2>1, BecomesInv DEF BackendInv
    <2> QED BY <1>1, <1>4, <2>1, <2>2 DEF BackendInv, ProbingInv
<1> QED BY <1>2, <1>3, <1>4 DEF create_prefix_cache

(* A step of the search that builds nothing.                               *)
LEMMA SearchInv ==
    ASSUME BackendInv, UNCHANGED <<shared_lib, cachevars>>, backend[probing.cache] = "none",
           probing' \in [cache : Caches, at : Nat, exists : BOOLEAN],
           probing'.cache = probing.cache
    PROVE  BackendInv'
<1>1. UNCHANGED <<backend, handle, destroyed, shared_lib>>
    BY DEF cachevars
<1>2. TypeOK' /\ HandleInv' /\ shared_lib' \in {"none", "good"}
    BY <1>1 DEF BackendInv, TypeOK, HandleInv
<1>3. ProbingInv'
    BY <1>1, Zenon DEF ProbingInv
<1> QED BY <1>2, <1>3 DEF BackendInv

(* The search, whatever it finds at a path.                                *)
LEMMA LoadInv ==
    ASSUME BackendInv, Load
    PROVE  BackendInv'
<1>1. /\ probing \in [cache : Caches, at : Nat, exists : BOOLEAN]
      /\ backend[probing.cache] = "none"
    <2>1. CASE probing = Nobody
        <3>1. probing.at = 0 /\ probing.exists = FALSE
            BY <2>1 DEF Nobody
        <3>2. ~(TestPath \/ LoadPath \/ FallBack)
            BY <3>1, BackendAssumption DEF TestPath, LoadPath, FallBack, Paths
        <3> QED BY <3>2 DEF Load
    <2> QED BY <2>1 DEF BackendInv, ProbingInv
<1>2. CASE TestPath
    <2>1. probing' \in [cache : Caches, at : Nat, exists : BOOLEAN]
          /\ probing'.cache = probing.cache
        <3>1. probing.at \in Nat /\ probing.cache \in Caches
            BY <1>1
        <3>2. probing' \in {At(probing.at + 1, FALSE), At(probing.at, TRUE)}
            BY <1>2 DEF TestPath, NextPath
        <3>3. CASE probing' = At(probing.at + 1, FALSE)
            BY <3>1, <3>3 DEF At
        <3>4. CASE probing' = At(probing.at, TRUE)
            BY <3>1, <3>4 DEF At
        <3> QED BY <3>2, <3>3, <3>4
    <2>2. UNCHANGED <<shared_lib, cachevars>>
        BY <1>2 DEF TestPath
    <2> QED BY <1>1, <2>1, <2>2, SearchInv
<1>3. CASE LoadPath /\ Becomes(probing.cache, "native") /\ shared_lib' = "good"
             /\ probing' = Nobody
    <2>1. TypeOK' /\ HandleInv'
        BY <1>1, <1>3, BecomesInv DEF BackendInv
    <2> QED BY <1>3, <2>1 DEF BackendInv, ProbingInv
<1>4. CASE NextPath /\ UNCHANGED <<shared_lib, cachevars>>
    <2>1. probing' \in [cache : Caches, at : Nat, exists : BOOLEAN]
          /\ probing'.cache = probing.cache
        BY <1>1, <1>4 DEF NextPath, At
    <2> QED BY <1>1, <1>4, <2>1, SearchInv
<1>5. CASE FallBack
    <2>1. Becomes(probing.cache, "python") /\ probing' = Nobody /\ shared_lib' = shared_lib
        BY <1>5 DEF FallBack
    <2>2. TypeOK' /\ HandleInv'
        BY <1>1, <2>1, BecomesInv DEF BackendInv
    <2> QED BY <2>1, <2>2 DEF BackendInv, ProbingInv
<1> QED BY <1>2, <1>3, <1>4, <1>5 DEF Load, LoadPath

(* close() and __del__: the handle goes with its only destruction.         *)
LEMMA CloseInv ==
    ASSUME BackendInv, NEW c \in Caches, close(c) \/ del(c)
    PROVE  BackendInv'
<1>1. /\ probing = Nobody /\ DestroyHandle(c) /\ UNCHANGED <<shared_lib, probing>>
      /\ backend[c] \in {"native", "python"} /\ backend'[c] \in {backend[c], "collected"}
      /\ \A d \in Caches \ {c} : backend'[d] = backend[d]
      /\ backend' \in [Caches -> {"none", "native", "python", "collected"}]
    BY DEF close, del, InUse, BackendInv, TypeOK
<1>2. CASE handle[c] = "live"
    <2>1. /\ destroyed' = [destroyed EXCEPT ![c] = @ + 1]
          /\ handle' = [handle EXCEPT ![c] = "null"]
        BY <1>1, <1>2 DEF DestroyHandle, ts_prefix_cache_destroy, BackendInv, HandleInv
    <2>2. destroyed[c] = 0
        BY <1>2 DEF BackendInv, HandleInv
    <2>3. /\ handle'[c] = "null" /\ destroyed'[c] = 1
          /\ \A d \in Caches \ {c} : handle'[d] = handle[d] /\ destroyed'[d] = destroyed[d]
          /\ TypeOK'
        BY <1>1, <2>1, <2>2 DEF BackendInv, TypeOK
    <2> QED BY <1>1, <2>3 DEF BackendInv, HandleInv, ProbingInv
<1>3. CASE handle[c] # "live"
    BY <1>1, <1>3
    DEF DestroyHandle, ts_prefix_cache_destroy, BackendInv, TypeOK, HandleInv, ProbingInv
<1> QED BY <1>2, <1>3

LEMMA BackendInvariant == Spec => []BackendInv
<1>1. BackendInv /\ [Next]_vars => BackendInv'
    <2> SUFFICES ASSUME BackendInv, [Next]_vars PROVE BackendInv'
        OBVIOUS
    <2>1. ASSUME NEW i \in Paths, NEW kind \in Kinds, Replace(i, kind) PROVE BackendInv'
        BY <2>1 DEF Replace, cachevars, BackendInv, TypeOK, ProbingInv, HandleInv
    <2>2. CASE UNCHANGED vars
        BY <2>2 DEF vars, cachevars, BackendInv, TypeOK, ProbingInv, HandleInv
    <2> QED BY <2>1, <2>2, LoadInv, CloseInv, CreateInv DEF Next
<1> QED BY <1>1, InitBackend, PTL DEF Spec
-----------------------------------------------------------------------------
(* load_library() never binds, and no handle ever comes from, a library of *)
(* another ABI, whatever happens to the files while it searches.           *)
THEOREM ABIRespected == Spec => []OnlySupportedABI
<1>1. BackendInv => OnlySupportedABI
    BY DEF BackendInv, HandleInv, OnlySupportedABI
<1> QED BY <1>1, BackendInvariant, PTL

(* NativePrefixCache.close(), called by its owner and again by __del__,    *)
(* destroys each C handle once and leaves none behind.                     *)
THEOREM HandlesDestroyedOnce == Spec => []DestroyedOnce
<1>1. BackendInv => DestroyedOnce
    BY DEF BackendInv, HandleInv, DestroyedOnce
<1> QED BY <1>1, BackendInvariant, PTL
=============================================================================
