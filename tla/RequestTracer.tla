--------------------------- MODULE RequestTracer ---------------------------
(***************************************************************************)
(* The span bookkeeping of tinyserve/observability/tracing.py: one root    *)
(* span per request and the child spans open under it, both dicts that     *)
(* only their end_ calls shrink.                                           *)
(***************************************************************************)
EXTENDS Ids

VARIABLES
    roots,          \* _roots: the requests with an open root span
    open_children   \* _open_children: the <<request, name>> spans still open

tracevars == <<roots, open_children>>

TraceInit == roots = {} /\ open_children = {}

(* start_request, the admission span (opened and closed on the spot), then *)
(* start_span "queue_wait" for a request that is accepted.                 *)
TraceAccepted(r) ==
    /\ roots' = roots \cup {r}
    /\ open_children' = (open_children \ {<<r, "admission">>}) \cup {<<r, "queue_wait">>}

(* ... or end_request for one that is rejected.                            *)
TraceRejected(r) ==
    /\ roots' = roots \ {r}
    /\ open_children' = open_children \ {<<r, "admission">>}

(* end_span "queue_wait", start_span "generation".                         *)
TraceAdmitted(r) ==
    /\ open_children' = (open_children \ {<<r, "queue_wait">>}) \cup {<<r, "generation">>}
    /\ UNCHANGED roots

(* Mutant: the request is ended, the child span under it is not.           *)
TraceEndedWithoutChild(r, name) ==
    /\ roots' = roots \ {r}
    /\ UNCHANGED open_children

(* end_span name, then end_request.                                        *)
TraceEnded(r, name) ==
    /\ open_children' = open_children \ {<<r, name>>}
    /\ roots' = roots \ {r}
=============================================================================
