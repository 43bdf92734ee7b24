---------------------------- MODULE PrefixCache ----------------------------
(***************************************************************************)
(* The calls of PrefixCacheBase as its callers see them: an index          *)
(* (PrefixIndex) and the value each call returns.  This is the abstract    *)
(* specification that PrefixTree implements.                               *)
(***************************************************************************)
EXTENDS PrefixIndex

CONSTANT Inputs  \* the token lists the callers pass

VARIABLE result  \* what the last call returned

Init ==
    /\ IndexInit
    /\ result = [call |-> "new"]

MatchForReuse(tokens) ==
    /\ \E n \in 0..Len(tokens), s \in SeqIds \cup {NoSeq} :
          /\ result' = [call |-> "match_for_reuse", hit |-> Hit(n, s)]
          /\ MatchesForReuse(tokens, Hit(n, s))
    /\ UNCHANGED indexvars

Insert(tokens, s) ==
    /\ result' = [call |-> "insert", published |-> Len(Published(tokens))]
    /\ Claim(tokens, s)

Evict(s) ==
    /\ result' = [call |-> "evict"]
    /\ Unclaim(s)

Close ==
    /\ result' = [call |-> "close"]
    /\ claims' = [s \in SeqIds |-> <<>>]
    /\ newer' = {}

Next ==
    \/ \E tokens \in Inputs : MatchForReuse(tokens)
    \/ \E tokens \in Inputs, s \in SeqIds : Insert(tokens, s)
    \/ \E s \in SeqIds : Evict(s)
    \/ Close

Spec == Init /\ [][Next]_<<indexvars, result>>
=============================================================================
