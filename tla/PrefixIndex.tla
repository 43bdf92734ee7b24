---------------------------- MODULE PrefixIndex ----------------------------
(***************************************************************************)
(* What the prefix cache promises (tinyserve/prefix/cache.py,              *)
(* native/include/tinyserve/prefix_cache.h), without the radix tree: every *)
(* sequence id claims at most one prompt, rounded down to whole blocks; a  *)
(* match is the longest block-aligned prefix some claim shares, and its    *)
(* donor is the most recent claimant of exactly that prefix.  PrefixTree   *)
(* is the data structure that implements this; BatchLoop builds on it.     *)
(***************************************************************************)
EXTENDS Blocks

CONSTANTS
    SeqIds,      \* the sequence slots 0 .. n_seq_max - 1
    Token,       \* vocabulary
    NoSeq        \* NO_SEQ

ASSUME IndexAssumption == NoSeq \notin SeqIds

VARIABLES
    claims,   \* claims[s]: the block-aligned prompt s has published, or <<>>
    newer     \* <<s, t>>: s and t share their first block, s published later

indexvars == <<claims, newer>>
-----------------------------------------------------------------------------
(* The part of a prompt the index can hold: whole blocks only.             *)
Published(tokens) == SubSeq(tokens, 1, WholeBlocks(Len(tokens)))

Shares(s, tokens, n) ==
    /\ n <= Len(claims[s])
    /\ n <= Len(tokens)
    /\ SubSeq(claims[s], 1, n) = SubSeq(tokens, 1, n)

Hit(n, s) == [n_tokens |-> n, seq_id |-> s]
Miss == Hit(0, NoSeq)

(* hit is what match(tokens) returns: the longest shared prefix, offered   *)
(* by the newest of those that share it.                                   *)
Matches(tokens, hit) ==
    \/ /\ hit = Miss
       /\ \A n \in AlignedLengths(Len(tokens)), s \in SeqIds : ~Shares(s, tokens, n)
    \/ \E n \in AlignedLengths(Len(tokens)), s \in SeqIds :
          /\ hit = Hit(n, s)
          /\ Shares(s, tokens, n)
          /\ \A m \in AlignedLengths(Len(tokens)), t \in SeqIds :
                Shares(t, tokens, m) => m <= n
          /\ \A t \in SeqIds \ {s} : Shares(t, tokens, n) => <<s, t>> \in newer

(* hit is what match_for_reuse(tokens) returns: the match, cut back to the *)
(* usable length but still naming the donor of the longer match.           *)
MatchesForReuse(tokens, hit) ==
    IF usable(Len(tokens)) <= 0
    THEN hit = Miss
    ELSE \/ /\ hit.n_tokens <= usable(Len(tokens))
            /\ Matches(tokens, hit)
         \/ /\ hit.n_tokens = usable(Len(tokens))
            /\ \E n \in AlignedLengths(Len(tokens)) :
                  /\ n > hit.n_tokens
                  /\ Matches(tokens, Hit(n, hit.seq_id))
-----------------------------------------------------------------------------
IndexInit ==
    /\ claims = [s \in SeqIds |-> <<>>]
    /\ newer = {}

(* evict(): drop s's claim; the others keep theirs and their order.        *)
Unclaim(s) ==
    /\ claims' = [claims EXCEPT ![s] = <<>>]
    /\ newer' = {p \in newer : p[1] # s /\ p[2] # s}

(* insert(): publish tokens under s, replacing any earlier claim of s.  A  *)
(* prompt shorter than one block publishes nothing and, since the length   *)
(* test comes before the eviction, leaves an old claim of s in place.      *)
Claim(tokens, s) ==
    IF Len(tokens) < BlockSize
    THEN UNCHANGED indexvars
    ELSE /\ claims' = [claims EXCEPT ![s] = Published(tokens)]
         /\ newer' = {p \in newer : p[1] # s /\ p[2] # s}
                       \cup {<<s, t>> : t \in {u \in SeqIds \ {s} : Shares(u, tokens, BlockSize)}}

IndexTypeOK ==
    /\ claims \in [SeqIds -> Seq(Token)]
    /\ newer \subseteq SeqIds \X SeqIds
=============================================================================
