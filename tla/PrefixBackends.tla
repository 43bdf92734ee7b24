--------------------------- MODULE PrefixBackends ---------------------------
(***************************************************************************)
(* Choosing, building and giving up a prefix cache                         *)
(* (tinyserve/prefix/cache.py): create_prefix_cache() tries the shared     *)
(* libraries it can find and falls back to Python, a native cache owns a   *)
(* handle of the C library, close() and the garbage collector end it.      *)
(*                                                                         *)
(* The candidate paths belong to the file system: a build or a deployment  *)
(* may replace a library at any time, between exists() and CDLL() too.     *)
(* What a cache holds is PrefixTree's subject.                             *)
(***************************************************************************)
EXTENDS Integers

CONSTANTS
    Candidates,   \* number of candidate paths, 1 with TINYSERVE_PREFIX_LIB set
    Caches,       \* the caches created in the process
    MaxReplaced   \* bound on the replacements of libraries

ASSUME BackendAssumption == Candidates \in Nat /\ MaxReplaced \in Nat

(* What is found at a path: no file, no library (OSError), a library that  *)
(* lacks a function (AttributeError), one of another ABI, a usable one.    *)
Kinds == {"absent", "unloadable", "no_symbol", "other_abi", "good"}
Paths == 1..Candidates

VARIABLES
    files,       \* what each candidate path holds
    replaced,    \* number of replacements so far
    shared_lib,  \* NativePrefixCache._shared_lib: its kind, "none" if not loaded
    probing,     \* load_library: the cache it runs for, the path, exists() done
    backend,     \* "none", "native" or "python"; "collected" when garbage
    handle,      \* _handle: "unset", "live", "null" (None)
    destroyed    \* calls of ts_prefix_cache_destroy on a cache's handle

cachevars == <<backend, handle, destroyed>>
vars == <<files, replaced, shared_lib, probing, cachevars>>

Nobody == [cache |-> "nobody", at |-> 0, exists |-> FALSE]

Init ==
    /\ files \in [Paths -> Kinds] /\ replaced = 0
    /\ shared_lib = "none"
    /\ probing = Nobody
    /\ backend = [c \in Caches |-> "none"]
    /\ handle = [c \in Caches |-> "unset"]
    /\ destroyed = [c \in Caches |-> 0]
-----------------------------------------------------------------------------
(* External: another process installs or removes a library.                *)
Replace(i, kind) ==
    /\ replaced < MaxReplaced
    /\ files' = [files EXCEPT ![i] = kind]
    /\ replaced' = replaced + 1
    /\ UNCHANGED <<shared_lib, probing, cachevars>>

Becomes(c, kind) ==
    /\ backend' = [backend EXCEPT ![c] = kind]
    /\ handle' = IF kind = "native" THEN [handle EXCEPT ![c] = "live"] ELSE handle
    /\ UNCHANGED destroyed

create_prefix_cache(c, prefer_native) ==
    /\ probing = Nobody /\ backend[c] = "none"
    /\ \/ ~prefer_native /\ Becomes(c, "python") /\ UNCHANGED probing
       \/ prefer_native /\ shared_lib # "none" /\ Becomes(c, "native") /\ UNCHANGED probing
       \/ /\ prefer_native /\ shared_lib = "none"
          /\ probing' = [cache |-> c, at |-> 1, exists |-> FALSE]
          /\ UNCHANGED cachevars
    /\ UNCHANGED <<files, replaced, shared_lib>>

At(path, exists) == [cache |-> probing.cache, at |-> path, exists |-> exists]
NextPath == probing' = At(probing.at + 1, FALSE)

(* load_library's loop: path.exists() ...                                  *)
TestPath ==
    /\ probing.at \in Paths /\ ~probing.exists
    /\ \/ files[probing.at] = "absent" /\ NextPath
       \/ files[probing.at] # "absent" /\ probing' = At(probing.at, TRUE)
    /\ UNCHANGED <<files, replaced, shared_lib, cachevars>>

(* Mutants: no look at the version; an except clause for OSError only,     *)
(* from which a missing function escapes.                                  *)
LoadAnyVersion ==
    /\ probing.exists
    /\ \/ /\ files[probing.at] \in {"good", "other_abi"}
          /\ shared_lib' = files[probing.at]
          /\ Becomes(probing.cache, "native")
          /\ probing' = Nobody
       \/ /\ files[probing.at] \notin {"good", "other_abi"}
          /\ NextPath
          /\ UNCHANGED <<shared_lib, cachevars>>
    /\ UNCHANGED <<files, replaced>>
LoadCatchingOSError ==
    /\ probing.exists
    /\ \/ /\ files[probing.at] = "good"
          /\ shared_lib' = "good"
          /\ Becomes(probing.cache, "native")
          /\ probing' = Nobody
       \/ /\ files[probing.at] # "good"
          /\ IF files[probing.at] = "no_symbol" THEN probing' = Nobody ELSE NextPath
          /\ UNCHANGED <<shared_lib, cachevars>>
    /\ UNCHANGED <<files, replaced>>

(* ... then CDLL(), _bind_signatures() and the ABI version; whatever is    *)
(* wrong with the library, the next path is tried.                         *)
LoadPath ==
    /\ probing.exists
    /\ \/ /\ files[probing.at] = "good"
          /\ shared_lib' = "good"
          /\ Becomes(probing.cache, "native")
          /\ probing' = Nobody
       \/ /\ files[probing.at] # "good"
          /\ NextPath
          /\ UNCHANGED <<shared_lib, cachevars>>
    /\ UNCHANGED <<files, replaced>>

(* No library: NativePrefixCache() raises OSError.  The object it leaves   *)
(* behind has no _handle, so its __del__ does nothing.                     *)
FallBack ==
    /\ probing.at > Candidates
    /\ Becomes(probing.cache, "python")
    /\ probing' = Nobody
    /\ UNCHANGED <<files, replaced, shared_lib>>
-----------------------------------------------------------------------------
InUse(c) == probing = Nobody /\ backend[c] \in {"native", "python"}

(* The nodes are deleted and the handle itself: counted, not prevented.    *)
ts_prefix_cache_destroy(c) == destroyed' = [destroyed EXCEPT ![c] = @ + 1]

(* Mutant: the handle is destroyed and kept.                               *)
CloseKeepsHandle(c) ==
    /\ IF backend[c] = "native" /\ handle[c] = "live"
       THEN ts_prefix_cache_destroy(c) ELSE UNCHANGED destroyed
    /\ UNCHANGED handle

(* NativePrefixCache.close: destroy the handle, once, and forget it.       *)
DestroyHandle(c) ==
    IF backend[c] = "native" /\ handle[c] = "live"
    THEN /\ ts_prefix_cache_destroy(c)
         /\ handle' = [handle EXCEPT ![c] = "null"]
    ELSE UNCHANGED <<destroyed, handle>>

close(c) ==
    /\ InUse(c)
    /\ DestroyHandle(c)
    /\ UNCHANGED <<files, replaced, shared_lib, probing, backend>>

(* The last reference is gone: __del__ closes a native cache.              *)
del(c) ==
    /\ InUse(c)
    /\ DestroyHandle(c)
    /\ backend' = [backend EXCEPT ![c] = "collected"]
    /\ UNCHANGED <<files, replaced, shared_lib, probing>>

Load == TestPath \/ LoadPath \/ FallBack

Next ==
    \/ Load
    \/ \E i \in Paths, kind \in Kinds : Replace(i, kind)
    \/ \E c \in Caches :
          \/ close(c) \/ del(c)
          \/ \E prefer_native \in BOOLEAN : create_prefix_cache(c, prefer_native)

(* create_prefix_cache() runs on once it has been called.                  *)
Spec == Init /\ [][Next]_vars /\ WF_vars(Load)
-----------------------------------------------------------------------------
(* "The one thing that must not happen is calling into a library whose ABI *)
(* does not match this binding" (cache.py:229): whatever is installed,     *)
(* replaced or removed while it looks, the process-wide library, and with  *)
(* it every live handle, is of the supported ABI.                          *)
OnlySupportedABI ==
    /\ shared_lib \in {"none", "good"}
    /\ \A c \in Caches : handle[c] = "live" => shared_lib = "good"

(* Every call of create_prefix_cache() ends with a cache, native or        *)
(* Python, whatever the files look like while it searches.                 *)
CreateReturns ==
    \A c \in Caches : probing.cache = c ~> backend[c] \in {"native", "python"}

(* A C handle is destroyed exactly once, however often close() is called   *)
(* before the collector calls it again, and none is leaked.                *)
DestroyedOnce ==
    \A c \in Caches :
        /\ destroyed[c] = IF handle[c] = "null" THEN 1 ELSE 0
        /\ backend[c] = "collected" => handle[c] # "live"
=============================================================================
