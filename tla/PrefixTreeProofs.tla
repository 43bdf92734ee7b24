-------------------------- MODULE PrefixTreeProofs --------------------------
(***************************************************************************)
(* The radix tree keeps its structure at every step of its loops and       *)
(* implements the abstract prefix cache, for any number of sequences, any  *)
(* prompts and any block size.                                             *)
(*                                                                         *)
(* The inductive invariant TreeInv says which nodes every sequence holds,  *)
(* in the middle of insert() and evict() too (Held), that those are the    *)
(* nodes that list it as an owner, and that they are closed under "parent  *)
(* of".  The comment in evict() claims the last for owned paths; here it   *)
(* is what keeps an unlinked node from having children, and a matched one  *)
(* from being without an owner.                                            *)
(***************************************************************************)
EXTENDS PrefixTree, TablesProofs, SequenceTheorems

(* What a path of the tree looks like.                                     *)
Node(p) == p \in Seq(Token) /\ Len(p) > 0 /\ Len(p) % BlockSize = 0

Closed(paths) == \A p \in paths : \A n \in AlignedLengths(Len(p)) : Prefix(p, n) \in paths

Owns(s, p) == p \in DOMAIN tree /\ Contains(tree[p], s)

(* The nodes a sequence owns.  For the sequence of a running call these    *)
(* are the ones evict() has still to visit or insert() has visited.        *)
Held(s) ==
    IF s # seq THEN NodesOf(s)
    ELSE IF pc = "add" THEN Path(prompt) \ todo
    ELSE todo

TypeInv ==
    /\ tree \in [DOMAIN tree -> Seq(SeqIds)]
    /\ IsFiniteSet(DOMAIN tree)
    /\ \A p \in DOMAIN tree : Node(p)

CallInv ==
    /\ pc \in {"idle", "evict", "replace", "add"}
    /\ pc = "idle" => seq = NoSeq /\ todo = {}
    /\ pc # "idle" => seq \in SeqIds /\ seq \notin DOMAIN seq_nodes
    /\ pc \in {"replace", "add"} => prompt \in Inputs /\ Len(prompt) >= BlockSize
    /\ pc = "add" => todo \subseteq Path(prompt)

(* A sequence in _seq_nodes has the whole path of a prompt.                *)
PathInv ==
    \A s \in DOMAIN seq_nodes :
        s \in SeqIds /\ \E t \in Inputs : Len(t) >= BlockSize /\ seq_nodes[s] = Path(t)

HeldInv ==
    \A s \in SeqIds :
        /\ Closed(Held(s))
        /\ \A p \in Held(s) : Node(p)
        /\ \A p : Owns(s, p) <=> p \in Held(s)

OwnerInv ==
    \A p \in DOMAIN tree : tree[p] # <<>> /\ IsInjective(tree[p])

(* The sequence that is being inserted comes last where it is an owner.    *)
LastInv == pc = "add" => \A p \in Held(seq) : Last(tree[p]) = seq

CountInv == node_count = Cardinality(DOMAIN tree)

TreeInv ==
    TypeInv /\ CallInv /\ PathInv /\ HeldInv /\ OwnerInv /\ LastInv /\ CountInv
-----------------------------------------------------------------------------
(* Prefixes and blocks.                                                    *)
LEMMA PrefixIs ==
    ASSUME NEW S, NEW t \in Seq(S), NEW n \in 0..Len(t)
    PROVE  /\ Prefix(t, n) \in Seq(S)
           /\ Len(Prefix(t, n)) = n
           /\ \A i \in 1..n : Prefix(t, n)[i] = t[i]
BY SubSeqProperties, LenProperties DEF Prefix

LEMMA PrefixWhole ==
    ASSUME NEW S, NEW t \in Seq(S)
    PROVE  Prefix(t, Len(t)) = t
BY SubSeqFull DEF Prefix

LEMMA PrefixPrefix ==
    ASSUME NEW S, NEW t \in Seq(S), NEW n \in 0..Len(t), NEW m \in 0..n
    PROVE  Prefix(Prefix(t, n), m) = Prefix(t, m)
<1>1. Len(t) \in Nat /\ m \in 0..Len(t)
    BY LenProperties
<1>2. /\ Prefix(t, n) \in Seq(S) /\ Len(Prefix(t, n)) = n
      /\ \A i \in 1..n : Prefix(t, n)[i] = t[i]
    BY PrefixIs
<1>3. /\ Prefix(t, m) \in Seq(S) /\ Len(Prefix(t, m)) = m
      /\ \A i \in 1..m : Prefix(t, m)[i] = t[i]
    BY <1>1, PrefixIs
<1>4. /\ Prefix(Prefix(t, n), m) \in Seq(S) /\ Len(Prefix(Prefix(t, n), m)) = m
      /\ \A i \in 1..m : Prefix(Prefix(t, n), m)[i] = Prefix(t, n)[i]
    BY <1>2, PrefixIs
<1>5. \A i \in 1..m : Prefix(Prefix(t, n), m)[i] = Prefix(t, m)[i]
    BY <1>2, <1>3, <1>4
<1> QED BY <1>3, <1>4, <1>5, SeqEqual

(* WholeBlocks(n) is the longest aligned length up to n.                   *)
LEMMA WholeBlocksIs ==
    ASSUME NEW n \in Nat
    PROVE  /\ WholeBlocks(n) \in 0..n /\ WholeBlocks(n) % BlockSize = 0
           /\ n < BlockSize => WholeBlocks(n) = 0
           /\ n >= BlockSize => WholeBlocks(n) \in AlignedLengths(n)
           /\ \A m \in AlignedLengths(n) : m <= WholeBlocks(n)
<1> DEFINE k == n \div BlockSize
<1>1. k \in Nat /\ BlockSize \in Nat /\ BlockSize > 0
    BY BlockAssumption
<1>2. k * BlockSize <= n /\ n < (k + 1) * BlockSize
    BY <1>1, BlockAssumption
<1>3. k * BlockSize \in Nat /\ (k * BlockSize) % BlockSize = 0
    BY <1>1
<1>4. n < BlockSize => k = 0
    BY <1>1
<1>5. n >= BlockSize => k >= 1
    BY <1>1
<1>6. ASSUME NEW m \in AlignedLengths(n) PROVE m <= k * BlockSize
    <2> DEFINE j == m \div BlockSize
    <2>1. m \in Nat /\ m <= n /\ m % BlockSize = 0
        BY DEF AlignedLengths
    <2>2. j \in Nat /\ m = j * BlockSize
        BY <1>1, <2>1
    <2>3. j <= k
        BY <1>1, <2>1
    <2> HIDE DEF j, k
    <2>4. j * BlockSize <= k * BlockSize
        BY <1>1, <2>2, <2>3
    <2> QED BY <2>2, <2>4
<1>7. n >= BlockSize => k * BlockSize >= 1
    <2> HIDE DEF k
    <2> SUFFICES ASSUME n >= BlockSize PROVE k * BlockSize >= 1
        OBVIOUS
    <2>1. k \in Nat /\ k >= 1
        BY <1>1, <1>5
    <2> QED BY <1>1, <2>1
<1>8. WholeBlocks(n) = k * BlockSize
    BY DEF WholeBlocks
<1> HIDE DEF k
<1>9. n < BlockSize => k * BlockSize = 0
    BY <1>1, <1>4
<1> QED BY <1>2, <1>3, <1>6, <1>7, <1>8, <1>9 DEF AlignedLengths

(* The path of a prompt.                                                   *)
LEMMA PathIs ==
    ASSUME NEW t \in Seq(Token), NEW p
    PROVE  p \in Path(t) <=>
              /\ Node(p) /\ Len(p) <= Len(t)
              /\ Prefix(t, Len(p)) = p
<1>1. Len(t) \in Nat
    BY LenProperties
<1>2. ASSUME p \in Path(t)
      PROVE  Node(p) /\ Len(p) <= Len(t) /\ Prefix(t, Len(p)) = p
    <2>1. PICK n \in AlignedLengths(Len(t)) : p = Prefix(t, n)
        BY <1>2 DEF Path
    <2>2. n \in 0..Len(t) /\ n > 0 /\ n % BlockSize = 0
        BY <1>1 DEF AlignedLengths
    <2>3. p \in Seq(Token) /\ Len(p) = n
        BY <2>1, <2>2, PrefixIs
    <2> QED BY <2>1, <2>2, <2>3 DEF Node
<1>3. ASSUME Node(p), Len(p) <= Len(t), Prefix(t, Len(p)) = p
      PROVE  p \in Path(t)
    <2>1. Len(p) \in Nat
        BY <1>3, LenProperties DEF Node
    <2>2. Len(p) \in AlignedLengths(Len(t))
        BY <1>1, <1>3, <2>1 DEF Node, AlignedLengths
    <2> QED BY <1>3, <2>2 DEF Path
<1> QED BY <1>2, <1>3

LEMMA PathNode ==
    ASSUME NEW t \in Seq(Token), NEW n \in AlignedLengths(Len(t))
    PROVE  Prefix(t, n) \in Path(t) /\ Node(Prefix(t, n)) /\ Len(Prefix(t, n)) = n
<1>1. Len(t) \in Nat
    BY LenProperties
<1>2. n \in 0..Len(t)
    BY <1>1 DEF AlignedLengths
<1> QED BY <1>2, PrefixIs, PathIs DEF Path

LEMMA PathClosed ==
    ASSUME NEW t \in Seq(Token)
    PROVE  Closed(Path(t))
<1> SUFFICES ASSUME NEW p \in Path(t), NEW n \in AlignedLengths(Len(p))
             PROVE  Prefix(p, n) \in Path(t)
    BY DEF Closed
<1>1. Node(p) /\ Len(p) <= Len(t) /\ Prefix(t, Len(p)) = p
    BY PathIs
<1>2. Len(t) \in Nat /\ Len(p) \in Nat
    BY <1>1, LenProperties DEF Node
<1>3. n \in 0..Len(p) /\ n \in AlignedLengths(Len(t)) /\ Len(p) \in 0..Len(t)
    BY <1>1, <1>2 DEF AlignedLengths
<1>4. Prefix(p, n) = Prefix(t, n)
    BY <1>1, <1>3, PrefixPrefix
<1> QED BY <1>3, <1>4, PathNode

(* Its longest node is its whole blocks.                                   *)
LEMMA LongestOfPath ==
    ASSUME NEW t \in Seq(Token), Len(t) >= BlockSize
    PROVE  /\ Longest(Path(t)) = Prefix(t, WholeBlocks(Len(t)))
           /\ Path(t) # {}
<1> DEFINE w == WholeBlocks(Len(t))
<1>1. Len(t) \in Nat
    BY LenProperties
<1>2. w \in AlignedLengths(Len(t)) /\ \A m \in AlignedLengths(Len(t)) : m <= w
    BY <1>1, WholeBlocksIs
<1> HIDE DEF w
<1>3. Prefix(t, w) \in Path(t) /\ Len(Prefix(t, w)) = w /\ w \in Nat
    BY <1>2, PathNode DEF AlignedLengths
<1>4. ASSUME NEW q \in Path(t)
      PROVE  Len(q) \in AlignedLengths(Len(t)) /\ q = Prefix(t, Len(q))
    <2>1. Node(q) /\ Len(q) <= Len(t) /\ Prefix(t, Len(q)) = q
        BY PathIs
    <2>2. Len(q) \in Nat
        BY <2>1, LenProperties DEF Node
    <2> QED BY <1>1, <2>1, <2>2 DEF Node, AlignedLengths
<1> DEFINE long == CHOOSE p \in Path(t) : \A q \in Path(t) : Len(q) <= Len(p)
<1>5. long \in Path(t) /\ \A q \in Path(t) : Len(q) <= Len(long)
    BY <1>2, <1>3, <1>4
<1>6. Longest(Path(t)) = long
    BY <1>3 DEF Longest
<1> HIDE DEF long
<1>7. Len(long) \in Nat /\ w <= Len(long) /\ Len(long) <= w
    BY <1>2, <1>3, <1>4, <1>5 DEF AlignedLengths
<1>8. Len(long) = w
    BY <1>3, <1>7
<1> QED BY <1>3, <1>4, <1>5, <1>6, <1>8 DEF w
-----------------------------------------------------------------------------
(* Owner lists: taking one owner out, and adding one at the end.           *)
LEMMA OwnersWithout ==
    ASSUME NEW S, NEW o \in Seq(S), IsInjective(o), NEW e, Contains(o, e)
    PROVE  /\ RemoveFirst(o, e) \in Seq(S)
           /\ IsInjective(RemoveFirst(o, e))
           /\ \A x : Contains(RemoveFirst(o, e), x) <=> Contains(o, x) /\ x # e
           /\ \A x, y : InOrder(RemoveFirst(o, e), x, y)
                           <=> InOrder(o, x, y) /\ x # e /\ y # e
<1>1. Len(o) \in Nat /\ DOMAIN o = 1..Len(o)
    BY LenProperties
<1>2. PICK k \in 1..Len(o) : o[k] = e
    BY DEF Contains
<1>3. \A i \in 1..Len(o) : o[i] = e => i = k
    BY <1>1, <1>2 DEF IsInjective
<1> DEFINE here == {i \in 1..Len(o) : o[i] = e}
           left == SubSeq(o, 1, k - 1)
           right == SubSeq(o, k + 1, Len(o))
           rest == left \o right
<1>4. here = {k} /\ SelectInSeq(o, LAMBDA v : v = e) = k
    <2>1. here = {k}
        BY <1>2, <1>3
    <2>2. Min({k}) = k
        BY DEF Min
    <2>3. SelectInSeq(o, LAMBDA v : v = e) = IF here # {} THEN Min(here) ELSE 0
        BY DEF SelectInSeq
    <2> HIDE DEF here
    <2> QED BY <2>1, <2>2, <2>3
<1>5. RemoveFirst(o, e) = rest
    <2>1. RemoveFirst(o, e) = RemoveAt(o, SelectInSeq(o, LAMBDA v : v = e))
        BY <1>2 DEF RemoveFirst
    <2> QED BY <1>4, <2>1 DEF RemoveAt
<1>6. /\ left \in Seq(S) /\ Len(left) = k - 1
      /\ \A i \in 1..k - 1 : left[i] = o[i]
    BY <1>1, SubSeqProperties
<1>7. /\ right \in Seq(S) /\ Len(right) = Len(o) - k
      /\ \A i \in 1..Len(o) - k : right[i] = o[k + i]
    <2>1. k + 1 \in 1..Len(o) + 1 /\ Len(o) \in (k + 1) - 1 .. Len(o)
        BY <1>1
    <2>2. /\ right \in Seq(S) /\ Len(right) = Len(o) - (k + 1) + 1
          /\ \A i \in 1..Len(o) - (k + 1) + 1 : right[i] = o[(k + 1) + i - 1]
        BY <2>1, SubSeqProperties
    <2>3. Len(o) - (k + 1) + 1 = Len(o) - k /\ \A i \in Int : (k + 1) + i - 1 = k + i
        BY <1>1
    <2> HIDE DEF right
    <2>4. Len(right) = Len(o) - k
        BY <2>2, <2>3, Zenon
    <2>5. ASSUME NEW i \in 1..Len(o) - k PROVE right[i] = o[k + i]
        <3>1. right[i] = o[(k + 1) + i - 1] /\ i \in Int
            BY <1>1, <2>2
        <3> QED BY <2>3, <3>1, Zenon
    <2> QED BY <2>2, <2>4, <2>5
<1> HIDE DEF left, right
<1>8. /\ rest \in Seq(S) /\ Len(rest) = Len(o) - 1
      /\ \A i \in 1..Len(o) - 1 :
            rest[i] = IF i < k THEN o[i] ELSE o[i + 1]
    <2>1. /\ rest \in Seq(S) /\ Len(rest) = Len(left) + Len(right)
          /\ \A i \in 1..Len(left) + Len(right) :
                rest[i] = IF i <= Len(left) THEN left[i] ELSE right[i - Len(left)]
        BY <1>6, <1>7, ConcatProperties, Zenon
    <2> HIDE DEF rest
    <2>2. Len(rest) = Len(o) - 1
        BY <1>1, <1>6, <1>7, <2>1
    <2> SUFFICES ASSUME NEW i \in 1..Len(o) - 1
                 PROVE  rest[i] = IF i < k THEN o[i] ELSE o[i + 1]
        BY <2>1, <2>2
    <2>3. i \in 1..Len(left) + Len(right)
        BY <1>1, <1>6, <1>7
    <2>4. rest[i] = IF i <= Len(left) THEN left[i] ELSE right[i - Len(left)]
        BY <2>1, <2>3
    <2>5. CASE i < k
        BY <1>1, <1>6, <2>4, <2>5
    <2>6. CASE i >= k
        <3>1. i - (k - 1) \in 1..Len(o) - k /\ k + (i - (k - 1)) = i + 1
            BY <1>1, <2>6
        <3> QED BY <1>1, <1>6, <1>7, <2>4, <2>6, <3>1
    <2> QED BY <1>1, <2>5, <2>6
<1> HIDE DEF rest
<1>9. DOMAIN rest = 1..Len(rest)
    BY <1>8, LenProperties
<1>10. IsInjective(rest)
    <2> SUFFICES ASSUME NEW i \in 1..Len(rest), NEW j \in 1..Len(rest), rest[i] = rest[j]
                 PROVE  i = j
        BY <1>9 DEF IsInjective
    <2>1. i \in 1..Len(o) - 1 /\ j \in 1..Len(o) - 1
        BY <1>8
    <2>2. \A m, n \in 1..Len(o) : o[m] = o[n] => m = n
        BY <1>1 DEF IsInjective
    <2> DEFINE up(x) == IF x < k THEN x ELSE x + 1
    <2>3. ASSUME NEW x \in 1..Len(o) - 1 PROVE up(x) \in 1..Len(o) /\ rest[x] = o[up(x)]
        BY <1>1, <1>8
    <2>4. up(i) = up(j)
        <3> HIDE DEF up
        <3> QED BY <2>1, <2>2, <2>3
    <2> QED BY <1>1, <2>1, <2>4
<1> DEFINE back(i) == IF i < k THEN i ELSE i - 1
<1>11. ASSUME NEW i \in 1..Len(o), i # k
       PROVE  back(i) \in 1..Len(o) - 1 /\ rest[back(i)] = o[i]
    BY <1>1, <1>8, <1>11
<1>12. ASSUME NEW i \in 1..Len(o) - 1
       PROVE  \E j \in 1..Len(o) : j # k /\ back(j) = i /\ rest[i] = o[j]
    <2>1. CASE i < k
        <3>1. i \in 1..Len(o) /\ i # k /\ back(i) = i /\ rest[i] = o[i]
            BY <1>1, <1>8, <2>1
        <3> QED BY <3>1
    <2>2. CASE i >= k
        <3>1. i + 1 \in 1..Len(o) /\ i + 1 # k /\ back(i + 1) = i /\ rest[i] = o[i + 1]
            BY <1>1, <1>8, <2>2
        <3> QED BY <3>1
    <2> QED BY <2>1, <2>2
<1>13. \A i, j \in 1..Len(o) : i # k /\ j # k => (back(i) < back(j) <=> i < j)
    BY <1>1
<1> HIDE DEF back
<1>14. ASSUME NEW x
       PROVE  Contains(rest, x) <=> Contains(o, x) /\ x # e
    <2>1. ASSUME NEW i \in 1..Len(rest), rest[i] = x
          PROVE  Contains(o, x) /\ x # e
        BY <1>3, <1>8, <1>12, <2>1 DEF Contains
    <2>2. ASSUME NEW i \in 1..Len(o), o[i] = x, x # e
          PROVE  Contains(rest, x)
        BY <1>2, <1>8, <1>11, <2>2 DEF Contains
    <2> QED BY <2>1, <2>2 DEF Contains
<1>15. ASSUME NEW x, NEW y
       PROVE  InOrder(rest, x, y) <=> InOrder(o, x, y) /\ x # e /\ y # e
    <2>1. ASSUME NEW i \in 1..Len(rest), NEW j \in 1..Len(rest), i < j,
                 rest[i] = x, rest[j] = y
          PROVE  InOrder(o, x, y) /\ x # e /\ y # e
        <3>1. PICK m \in 1..Len(o) : m # k /\ back(m) = i /\ rest[i] = o[m]
            BY <1>8, <1>12
        <3>2. PICK n \in 1..Len(o) : n # k /\ back(n) = j /\ rest[j] = o[n]
            BY <1>8, <1>12
        <3>3. m < n
            BY <1>13, <2>1, <3>1, <3>2
        <3> QED BY <1>3, <2>1, <3>1, <3>2, <3>3 DEF InOrder
    <2>2. ASSUME NEW i \in 1..Len(o), NEW j \in 1..Len(o), i < j,
                 o[i] = x, o[j] = y, x # e, y # e
          PROVE  InOrder(rest, x, y)
        <3>1. i # k /\ j # k
            BY <1>2, <2>2
        <3>2. /\ back(i) \in 1..Len(rest) /\ rest[back(i)] = x
              /\ back(j) \in 1..Len(rest) /\ rest[back(j)] = y
            BY <1>8, <1>11, <2>2, <3>1
        <3>3. back(i) < back(j)
            BY <1>13, <2>2, <3>1
        <3> QED BY <3>2, <3>3 DEF InOrder
    <2> QED BY <2>1, <2>2 DEF InOrder
<1> QED BY <1>5, <1>8, <1>10, <1>14, <1>15

LEMMA OwnersWith ==
    ASSUME NEW S, NEW o \in Seq(S), IsInjective(o), NEW e \in S, ~Contains(o, e)
    PROVE  /\ Append(o, e) \in Seq(S) /\ Append(o, e) # <<>>
           /\ IsInjective(Append(o, e))
           /\ Last(Append(o, e)) = e
           /\ \A x : Contains(Append(o, e), x) <=> Contains(o, x) \/ x = e
           /\ \A x, y : x # e /\ y # e => (InOrder(Append(o, e), x, y) <=> InOrder(o, x, y))
<1> DEFINE n == Len(o)
           r == Append(o, e)
<1>1. n \in Nat /\ DOMAIN o = 1..n
    BY LenProperties
<1>2. /\ r \in Seq(S) /\ Len(r) = n + 1 /\ DOMAIN r = 1..n + 1
      /\ \A i \in 1..n : r[i] = o[i]
      /\ r[n + 1] = e
    BY AppendProperties, LenProperties
<1>3. \A i \in 1..n : o[i] # e
    BY DEF Contains
<1>4. \A i, j \in 1..n : o[i] = o[j] => i = j
    BY <1>1 DEF IsInjective
<1> HIDE DEF n, r
<1>5. \A i \in 1..n + 1 : i \in 1..n \/ i = n + 1
    BY <1>1
<1>6. IsInjective(r)
    BY <1>2, <1>3, <1>4, <1>5 DEF IsInjective
<1>7. Last(r) = e /\ r # <<>>
    <2>1. Len(r) # 0
        BY <1>1, <1>2
    <2> QED BY <1>2, <2>1, EmptySeq DEF Last
<1>8. \A x : Contains(r, x) <=> Contains(o, x) \/ x = e
    BY <1>1, <1>2, <1>5 DEF Contains, n
<1>9. \A x, y : x # e /\ y # e => (InOrder(r, x, y) <=> InOrder(o, x, y))
    BY <1>1, <1>2, <1>5 DEF InOrder, n
<1> QED BY <1>2, <1>6, <1>7, <1>8, <1>9 DEF r

LEMMA OwnersNew ==
    ASSUME NEW S, NEW e \in S
    PROVE  /\ <<e>> \in Seq(S) /\ <<e>> # <<>>
           /\ IsInjective(<<e>>)
           /\ Last(<<e>>) = e
           /\ \A x : Contains(<<e>>, x) <=> x = e
           /\ \A x, y : ~InOrder(<<e>>, x, y)
BY DEF IsInjective, Last, Contains, InOrder

(* A list without owners is empty.                                         *)
LEMMA NoOwner ==
    ASSUME NEW S, NEW o \in Seq(S)
    PROVE  /\ o = <<>> <=> \A x \in S : ~Contains(o, x)
           /\ \A x : Contains(o, x) => x \in S
<1>1. Len(o) \in Nat /\ \A i \in 1..Len(o) : o[i] \in S
    BY LenProperties, ElementOfSeq
<1>2. o = <<>> <=> Len(o) = 0
    BY EmptySeq
<1>3. Len(o) # 0 => 1 \in 1..Len(o)
    BY <1>1
<1> QED BY <1>1, <1>2, <1>3 DEF Contains
-----------------------------------------------------------------------------
(* The steps that leave the tree alone also leave what everyone holds.     *)
LEMMA SameTree ==
    ASSUME TreeInv, tree' = tree, node_count' = node_count,
           \A s \in SeqIds : Held(s)' = Held(s)
    PROVE  TypeInv' /\ HeldInv' /\ OwnerInv' /\ CountInv'
<1>1. TypeInv' /\ OwnerInv' /\ CountInv'
    BY Zenon DEF TreeInv, TypeInv, OwnerInv, CountInv, Node
<1>2. ASSUME NEW s \in SeqIds
      PROVE  /\ Closed(Held(s)')
             /\ \A p \in Held(s)' : Node(p)
             /\ \A p : Owns(s, p)' <=> p \in Held(s)'
    <2>1. /\ Closed(Held(s))
          /\ \A p \in Held(s) : Node(p)
          /\ \A p : Owns(s, p) <=> p \in Held(s)
        BY DEF TreeInv, HeldInv
    <2>2. \A p : Owns(s, p)' <=> Owns(s, p)
        BY DEF Owns
    <2>3. Held(s)' = Held(s)
        OBVIOUS
    <2> QED BY <2>1, <2>2, <2>3, Zenon
<1>3. HeldInv'
    BY <1>2, Zenon DEF HeldInv, Closed, Node
<1> QED BY <1>1, <1>3

LEMMA TreeInit ==
    Init => TreeInv
<1> SUFFICES ASSUME Init PROVE TreeInv
    OBVIOUS
<1>1. DOMAIN tree = {} /\ DOMAIN seq_nodes = {}
    BY DEF Init
<1>2. tree \in [DOMAIN tree -> Seq(SeqIds)]
    BY <1>1 DEF Init
<1>3. IsFiniteSet(DOMAIN tree) /\ node_count = Cardinality(DOMAIN tree)
    BY <1>1, FS_EmptySet DEF Init
<1>4. TypeInv /\ OwnerInv /\ CountInv
    BY <1>1, <1>2, <1>3 DEF TypeInv, OwnerInv, CountInv
<1>5. CallInv /\ PathInv /\ LastInv
    BY <1>1 DEF Init, CallInv, PathInv, LastInv
<1>6. \A s : Held(s) = {}
    BY <1>1 DEF Init, Held, NodesOf
<1>7. HeldInv
    BY <1>1, <1>6 DEF HeldInv, Closed, Owns
<1> QED BY <1>4, <1>5, <1>7 DEF TreeInv

(* A call begins: what the sequence holds is what evict() has to visit.    *)
LEMMA CallBegins ==
    ASSUME TreeInv, NEW s \in SeqIds, pc = "idle", pc' \in {"evict", "replace"},
           seq' = s, PopNodes(s), tree' = tree, node_count' = node_count
    PROVE  /\ TypeInv' /\ HeldInv' /\ OwnerInv' /\ CountInv' /\ PathInv' /\ LastInv'
           /\ s \notin DOMAIN seq_nodes'
           /\ \A u \in SeqIds : u # s => NodesOf(u)' = NodesOf(u)
<1>1. seq = NoSeq /\ NoSeq \notin SeqIds
    BY TreeAssumption DEF TreeInv, CallInv
<1>2. /\ DOMAIN seq_nodes' = DOMAIN seq_nodes \ {s}
      /\ \A u \in DOMAIN seq_nodes \ {s} : seq_nodes'[u] = seq_nodes[u]
    BY DEF PopNodes, Without
<1>3. \A u \in SeqIds : u # s => NodesOf(u)' = NodesOf(u)
    BY <1>2 DEF NodesOf
<1>4. ASSUME NEW u \in SeqIds PROVE Held(u)' = Held(u)
    <2>1. Held(u) = NodesOf(u)
        BY <1>1 DEF Held
    <2>2. CASE u = s
        BY <2>1, <2>2 DEF Held, PopNodes
    <2>3. CASE u # s
        <3>1. Held(u)' = NodesOf(u)'
            BY <2>3 DEF Held
        <3> QED BY <1>3, <2>1, <2>3, <3>1
    <2> QED BY <2>2, <2>3
<1>5. PathInv'
    BY <1>2, Zenon DEF TreeInv, PathInv, Path, Prefix
<1>6. LastInv'
    BY DEF LastInv
<1>7. TypeInv' /\ HeldInv' /\ OwnerInv' /\ CountInv'
    BY <1>4, SameTree
<1> QED BY <1>2, <1>3, <1>5, <1>6, <1>7

LEMMA EvictKeeps ==
    ASSUME TreeInv, NEW s \in SeqIds, Evict(s)
    PROVE  TreeInv'
<1>1. /\ TypeInv' /\ HeldInv' /\ OwnerInv' /\ CountInv' /\ PathInv' /\ LastInv'
      /\ s \notin DOMAIN seq_nodes'
    BY CallBegins DEF Evict, Enter
<1>2. CallInv'
    BY <1>1 DEF Evict, Enter, CallInv
<1> QED BY <1>1, <1>2 DEF TreeInv

LEMMA InsertKeeps ==
    ASSUME TreeInv, NEW s \in SeqIds, NEW tokens \in Inputs, Insert(tokens, s)
    PROVE  TreeInv'
<1>1. /\ TypeInv' /\ HeldInv' /\ OwnerInv' /\ CountInv' /\ PathInv' /\ LastInv'
      /\ s \notin DOMAIN seq_nodes'
    BY CallBegins DEF Insert, Enter
<1>2. CallInv'
    BY <1>1 DEF Insert, Enter, CallInv
<1> QED BY <1>1, <1>2 DEF TreeInv

LEMMA StartAddingKeeps ==
    ASSUME TreeInv, StartAdding
    PROVE  TreeInv'
<1>1. /\ pc = "replace" /\ pc' = "add" /\ todo = {} /\ todo' = Path(prompt)
      /\ UNCHANGED <<tree, seq_nodes, node_count, seq, prompt>>
    BY DEF StartAdding, treevars
<1>2. \A s \in SeqIds : Held(s)' = Held(s)
    BY <1>1 DEF Held, NodesOf, Path, Prefix
<1>3. Held(seq)' = {}
    BY <1>1 DEF Held, Path, Prefix
<1>4. CallInv'
    BY <1>1 DEF TreeInv, CallInv, Path, Prefix
<1>5. PathInv'
    BY <1>1, Zenon DEF TreeInv, PathInv, Path, Prefix
<1>6. LastInv'
    BY <1>1, <1>3 DEF LastInv
<1>7. TypeInv' /\ HeldInv' /\ OwnerInv' /\ CountInv'
    BY <1>1, <1>2, SameTree
<1> QED BY <1>4, <1>5, <1>6, <1>7 DEF TreeInv

LEMMA EvictReturnsKeeps ==
    ASSUME TreeInv, EvictReturns
    PROVE  TreeInv'
<1>1. /\ pc = "evict" /\ pc' = "idle" /\ todo = {} /\ todo' = {} /\ seq' = NoSeq
      /\ UNCHANGED <<tree, seq_nodes, node_count>>
    BY DEF EvictReturns, Return, treevars
<1>2. seq \in SeqIds /\ seq \notin DOMAIN seq_nodes /\ NoSeq \notin SeqIds
    BY <1>1, TreeAssumption DEF TreeInv, CallInv
<1>3. \A s \in SeqIds : Held(s)' = Held(s)
    BY <1>1, <1>2 DEF Held, NodesOf
<1>4. CallInv' /\ LastInv'
    BY <1>1 DEF CallInv, LastInv
<1>5. PathInv'
    BY <1>1, Zenon DEF TreeInv, PathInv, Path, Prefix
<1>6. TypeInv' /\ HeldInv' /\ OwnerInv' /\ CountInv'
    BY <1>1, <1>3, SameTree
<1> QED BY <1>4, <1>5, <1>6 DEF TreeInv

LEMMA InsertReturnsKeeps ==
    ASSUME TreeInv, InsertReturns
    PROVE  TreeInv'
<1>1. /\ pc = "add" /\ pc' = "idle" /\ todo = {} /\ todo' = {} /\ seq' = NoSeq
      /\ seq_nodes' = With(seq_nodes, seq, Path(prompt))
      /\ UNCHANGED <<tree, node_count>>
    BY DEF InsertReturns, Return
<1>2. /\ seq \in SeqIds /\ seq \notin DOMAIN seq_nodes /\ NoSeq \notin SeqIds
      /\ prompt \in Inputs /\ Len(prompt) >= BlockSize
    BY <1>1, TreeAssumption DEF TreeInv, CallInv
<1>3. /\ DOMAIN seq_nodes' = DOMAIN seq_nodes \cup {seq}
      /\ seq_nodes'[seq] = Path(prompt)
      /\ \A s \in DOMAIN seq_nodes : s # seq => seq_nodes'[s] = seq_nodes[s]
    BY <1>1 DEF With
<1>4. \A s \in SeqIds : Held(s)' = Held(s)
    BY <1>1, <1>2, <1>3 DEF Held, NodesOf
<1>5. CallInv' /\ LastInv'
    BY <1>1 DEF CallInv, LastInv
<1>6. PathInv'
    <2> SUFFICES ASSUME NEW s \in DOMAIN seq_nodes'
                 PROVE  s \in SeqIds /\ \E t \in Inputs : Len(t) >= BlockSize /\ seq_nodes'[s] = Path(t)
        BY Zenon DEF PathInv, Path, Prefix
    <2>1. CASE s = seq
        BY <1>2, <1>3, <2>1
    <2>2. CASE s # seq
        BY <1>3, <2>2 DEF TreeInv, PathInv
    <2> QED BY <2>1, <2>2
<1>7. TypeInv' /\ HeldInv' /\ OwnerInv' /\ CountInv'
    BY <1>1, <1>4, SameTree
<1> QED BY <1>5, <1>6, <1>7 DEF TreeInv

(* A node whose last owner leaves has no children: their owners would own  *)
(* it too, and the leaving one has left the deeper nodes already.          *)
LEMMA NoChildren ==
    ASSUME TreeInv, NEW path \in todo, pc \in {"evict", "replace"},
           \A q \in todo : Len(q) <= Len(path),
           \A x : Contains(tree[path], x) => x = seq
    PROVE  ~HasChildren(path)
<1> SUFFICES ASSUME NEW q \in DOMAIN tree, Len(q) = Len(path) + BlockSize,
                    Prefix(q, Len(path)) = path
             PROVE  FALSE
    BY DEF HasChildren
<1>1. seq \in SeqIds /\ Held(seq) = todo
    BY DEF TreeInv, CallInv, Held
<1>2. Node(path) /\ Node(q)
    BY <1>1 DEF TreeInv, HeldInv, TypeInv
<1>3. Len(path) \in Nat /\ Len(q) \in Nat /\ BlockSize \in Nat /\ BlockSize > 0
    BY <1>2, LenProperties, BlockAssumption DEF Node
<1>4. Len(path) \in AlignedLengths(Len(q))
    BY <1>2, <1>3 DEF Node, AlignedLengths
<1>5. PICK t \in SeqIds : Owns(t, q)
    <2>1. tree[q] \in Seq(SeqIds) /\ tree[q] # <<>>
        BY DEF TreeInv, TypeInv, OwnerInv
    <2> QED BY <2>1, NoOwner DEF Owns
<1>6. q \in Held(t) /\ Closed(Held(t))
    BY <1>5 DEF TreeInv, HeldInv
<1>7. path \in Held(t)
    BY <1>4, <1>6 DEF Closed
<1>8. Owns(t, path)
    BY <1>7 DEF TreeInv, HeldInv
<1>9. t = seq
    BY <1>8 DEF Owns
<1>10. q \in todo
    BY <1>1, <1>6, <1>9
<1> QED BY <1>3, <1>10

(* The loop of evict() takes one node from the sequence and leaves all     *)
(* other ownership, and the order of the other owners, as they are.        *)
LEMMA DropEffect ==
    ASSUME TreeInv, NEW path \in todo, DropNode(path)
    PROVE  /\ tree' \in [DOMAIN tree' -> Seq(SeqIds)]
           /\ IsFiniteSet(DOMAIN tree') /\ node_count' = Cardinality(DOMAIN tree')
           /\ \A p \in DOMAIN tree' : p \in DOMAIN tree /\ tree'[p] # <<>> /\ IsInjective(tree'[p])
           /\ \A s, p : Owns(s, p)' <=> Owns(s, p) /\ ~(s = seq /\ p = path)
           /\ \A s, t \in SeqIds \ {seq} : Later(s, t)' <=> Later(s, t)
<1> DEFINE o == tree[path]
           r == RemoveFirst(o, seq)
<1>1. /\ pc \in {"evict", "replace"} /\ \A q \in todo : Len(q) <= Len(path)
      /\ IF r # <<>> \/ HasChildren(path)
         THEN tree' = [tree EXCEPT ![path] = r] /\ node_count' = node_count
         ELSE tree' = Without(tree, path) /\ node_count' = node_count - 1
    BY DEF DropNode
<1>2. seq \in SeqIds /\ Held(seq) = todo
    BY <1>1 DEF TreeInv, CallInv, Held
<1>3. path \in DOMAIN tree /\ Contains(o, seq)
    <2>1. Owns(seq, path)
        BY <1>2 DEF TreeInv, HeldInv
    <2> QED BY <2>1 DEF Owns
<1>4. /\ tree \in [DOMAIN tree -> Seq(SeqIds)] /\ IsFiniteSet(DOMAIN tree)
      /\ node_count = Cardinality(DOMAIN tree)
      /\ \A p \in DOMAIN tree : tree[p] # <<>> /\ IsInjective(tree[p])
    BY DEF TreeInv, TypeInv, OwnerInv, CountInv
<1>5. o \in Seq(SeqIds) /\ IsInjective(o)
    BY <1>3, <1>4
<1>6. /\ r \in Seq(SeqIds) /\ IsInjective(r)
      /\ \A x : Contains(r, x) <=> Contains(o, x) /\ x # seq
      /\ \A x, y : InOrder(r, x, y) <=> InOrder(o, x, y) /\ x # seq /\ y # seq
    <2> HIDE DEF o
    <2> QED BY <1>3, <1>5, OwnersWithout
<1> HIDE DEF r
<1>7. r = <<>> => ~HasChildren(path)
    <2> SUFFICES ASSUME r = <<>> PROVE ~HasChildren(path)
        OBVIOUS
    <2>1. \A x : ~Contains(r, x)
        BY <1>6, NoOwner
    <2>2. \A x : Contains(o, x) => x = seq
        BY <1>6, <2>1
    <2> QED BY <1>1, <2>2, NoChildren
<1>8. CASE r # <<>>
    <2>1. tree' = [tree EXCEPT ![path] = r] /\ node_count' = node_count
        BY <1>1, <1>8
    <2>2. /\ DOMAIN tree' = DOMAIN tree /\ tree'[path] = r
          /\ \A p \in DOMAIN tree : p # path => tree'[p] = tree[p]
        BY <1>3, <2>1
    <2>3. tree' \in [DOMAIN tree' -> Seq(SeqIds)]
        BY <1>4, <1>6, <2>1
    <2>4. IsFiniteSet(DOMAIN tree') /\ node_count' = Cardinality(DOMAIN tree')
        BY <1>4, <2>1, <2>2
    <2>5. \A p \in DOMAIN tree' : p \in DOMAIN tree /\ tree'[p] # <<>> /\ IsInjective(tree'[p])
        BY <1>4, <1>6, <1>8, <2>2
    <2>6. ASSUME NEW s, NEW p
          PROVE  Owns(s, p)' <=> Owns(s, p) /\ ~(s = seq /\ p = path)
        <3>1. CASE p = path
            BY <1>3, <1>6, <2>2, <3>1 DEF Owns
        <3>2. CASE p # path
            BY <2>2, <3>2 DEF Owns
        <3> QED BY <3>1, <3>2
    <2>7. ASSUME NEW s \in SeqIds \ {seq}, NEW t \in SeqIds \ {seq}
          PROVE  Later(s, t)' <=> Later(s, t)
        <3>1. \A p \in DOMAIN tree : InOrder(tree'[p], t, s) <=> InOrder(tree[p], t, s)
            BY <1>3, <1>6, <2>2
        <3> QED BY <2>2, <3>1 DEF Later, InOrder
    <2> QED BY <2>3, <2>4, <2>5, <2>6, <2>7
<1>9. CASE r = <<>>
    <2>1. tree' = Without(tree, path) /\ node_count' = node_count - 1
        BY <1>1, <1>7, <1>9
    <2>2. /\ DOMAIN tree' = DOMAIN tree \ {path}
          /\ \A p \in DOMAIN tree \ {path} : tree'[p] = tree[p]
        BY <2>1 DEF Without
    <2>3. tree' \in [DOMAIN tree' -> Seq(SeqIds)]
        <3>1. tree' = [q \in DOMAIN tree \ {path} |-> tree[q]]
            BY <2>1 DEF Without
        <3> QED BY <1>4, <3>1
    <2>4. IsFiniteSet(DOMAIN tree') /\ node_count' = Cardinality(DOMAIN tree')
        <3>1. /\ IsFiniteSet(DOMAIN tree \ {path})
              /\ Cardinality(DOMAIN tree \ {path}) = Cardinality(DOMAIN tree) - 1
            BY <1>3, <1>4, FS_RemoveElement
        <3> QED BY <1>4, <2>1, <2>2, <3>1
    <2>5. \A p \in DOMAIN tree' : p \in DOMAIN tree /\ tree'[p] # <<>> /\ IsInjective(tree'[p])
        BY <1>4, <2>2
    <2>6. \A x : ~Contains(r, x)
        BY <1>6, <1>9, NoOwner
    <2>7. ASSUME NEW s, NEW p
          PROVE  Owns(s, p)' <=> Owns(s, p) /\ ~(s = seq /\ p = path)
        <3>1. CASE p = path
            BY <1>6, <2>2, <2>6, <3>1 DEF Owns
        <3>2. CASE p # path
            BY <2>2, <3>2 DEF Owns
        <3> QED BY <3>1, <3>2
    <2>8. ASSUME NEW s \in SeqIds \ {seq}, NEW t \in SeqIds \ {seq}
          PROVE  Later(s, t)' <=> Later(s, t)
        <3>1. \A p \in DOMAIN tree' : InOrder(tree'[p], t, s) <=> InOrder(tree[p], t, s)
            BY <2>2
        <3>2. ~InOrder(o, t, s)
            <4>1. ~InOrder(r, t, s)
                BY <1>9 DEF InOrder
            <4> QED BY <1>6, <4>1
        <3> QED BY <2>2, <3>1, <3>2 DEF Later, InOrder
    <2> QED BY <2>3, <2>4, <2>5, <2>7, <2>8
<1> QED BY <1>8, <1>9

(* The loop of insert() gives one node to the sequence, at the end of its  *)
(* owners, and leaves all other ownership and order as they are.           *)
LEMMA AddEffect ==
    ASSUME TreeInv, NEW path \in todo, AddNode(path)
    PROVE  /\ tree' \in [DOMAIN tree' -> Seq(SeqIds)]
           /\ IsFiniteSet(DOMAIN tree') /\ node_count' = Cardinality(DOMAIN tree')
           /\ DOMAIN tree' = DOMAIN tree \cup {path}
           /\ \A p \in DOMAIN tree' : tree'[p] # <<>> /\ IsInjective(tree'[p])
           /\ \A s, p : Owns(s, p)' <=> Owns(s, p) \/ (s = seq /\ p = path)
           /\ Last(tree'[path]) = seq
           /\ \A p \in DOMAIN tree \ {path} : tree'[p] = tree[p]
           /\ \A s, t \in SeqIds \ {seq} : Later(s, t)' <=> Later(s, t)
<1>1. /\ pc = "add"
      /\ IF path \in DOMAIN tree
         THEN tree' = [tree EXCEPT ![path] = Append(tree[path], seq)] /\ node_count' = node_count
         ELSE tree' = With(tree, path, <<seq>>) /\ node_count' = node_count + 1
    BY DEF AddNode
<1>2. seq \in SeqIds /\ Held(seq) = Path(prompt) \ todo
    BY <1>1 DEF TreeInv, CallInv, Held
<1>3. /\ tree \in [DOMAIN tree -> Seq(SeqIds)] /\ IsFiniteSet(DOMAIN tree)
      /\ node_count = Cardinality(DOMAIN tree)
      /\ \A p \in DOMAIN tree : tree[p] # <<>> /\ IsInjective(tree[p])
    BY DEF TreeInv, TypeInv, OwnerInv, CountInv
<1>4. ~Owns(seq, path)
    BY <1>2 DEF TreeInv, HeldInv
<1>5. CASE path \in DOMAIN tree
    <2> DEFINE o == tree[path]
               r == Append(o, seq)
    <2>1. tree' = [tree EXCEPT ![path] = r] /\ node_count' = node_count
        BY <1>1, <1>5
    <2>2. o \in Seq(SeqIds) /\ IsInjective(o) /\ ~Contains(o, seq)
        BY <1>3, <1>4, <1>5 DEF Owns
    <2> HIDE DEF o
    <2>3. /\ r \in Seq(SeqIds) /\ r # <<>> /\ IsInjective(r) /\ Last(r) = seq
          /\ \A x : Contains(r, x) <=> Contains(o, x) \/ x = seq
          /\ \A x, y : x # seq /\ y # seq => (InOrder(r, x, y) <=> InOrder(o, x, y))
        BY <1>2, <2>2, OwnersWith
    <2> HIDE DEF r
    <2> USE DEF o
    <2>4. /\ DOMAIN tree' = DOMAIN tree /\ tree'[path] = r
          /\ \A p \in DOMAIN tree : p # path => tree'[p] = tree[p]
          /\ DOMAIN tree = DOMAIN tree \cup {path}
        BY <1>5, <2>1
    <2>5. tree' \in [DOMAIN tree' -> Seq(SeqIds)]
        BY <1>3, <2>1, <2>3
    <2>6. IsFiniteSet(DOMAIN tree') /\ node_count' = Cardinality(DOMAIN tree')
        BY <1>3, <2>1, <2>4
    <2>7. \A p \in DOMAIN tree' : tree'[p] # <<>> /\ IsInjective(tree'[p])
        BY <1>3, <2>3, <2>4
    <2>8. ASSUME NEW s, NEW p
          PROVE  Owns(s, p)' <=> Owns(s, p) \/ (s = seq /\ p = path)
        <3>1. CASE p = path
            BY <1>5, <2>3, <2>4, <3>1 DEF Owns
        <3>2. CASE p # path
            BY <2>4, <3>2 DEF Owns
        <3> QED BY <3>1, <3>2
    <2>9. ASSUME NEW s \in SeqIds \ {seq}, NEW t \in SeqIds \ {seq}
          PROVE  Later(s, t)' <=> Later(s, t)
        <3>1. \A p \in DOMAIN tree : InOrder(tree'[p], t, s) <=> InOrder(tree[p], t, s)
            BY <1>5, <2>3, <2>4
        <3> QED BY <2>4, <3>1 DEF Later, InOrder
    <2> QED BY <2>3, <2>4, <2>5, <2>6, <2>7, <2>8, <2>9
<1>6. CASE path \notin DOMAIN tree
    <2> DEFINE r == <<seq>>
    <2>1. tree' = With(tree, path, r) /\ node_count' = node_count + 1
        BY <1>1, <1>6
    <2>2. /\ r \in Seq(SeqIds) /\ r # <<>> /\ IsInjective(r) /\ Last(r) = seq
          /\ \A x : Contains(r, x) <=> x = seq
          /\ \A x, y : ~InOrder(r, x, y)
        BY <1>2, OwnersNew
    <2> HIDE DEF r
    <2>3. /\ DOMAIN tree' = DOMAIN tree \cup {path} /\ tree'[path] = r
          /\ \A p \in DOMAIN tree : p # path => tree'[p] = tree[p]
        BY <2>1 DEF With
    <2>4. tree' \in [DOMAIN tree' -> Seq(SeqIds)]
        <3>1. tree' = [q \in DOMAIN tree \cup {path} |-> IF q = path THEN r ELSE tree[q]]
            BY <2>1 DEF With
        <3> QED BY <1>3, <2>2, <3>1
    <2>5. IsFiniteSet(DOMAIN tree') /\ node_count' = Cardinality(DOMAIN tree')
        <3>1. /\ IsFiniteSet(DOMAIN tree \cup {path})
              /\ Cardinality(DOMAIN tree \cup {path}) = Cardinality(DOMAIN tree) + 1
            BY <1>3, <1>6, FS_AddElement
        <3> QED BY <1>3, <2>1, <2>3, <3>1
    <2>6. \A p \in DOMAIN tree' : tree'[p] # <<>> /\ IsInjective(tree'[p])
        BY <1>3, <2>2, <2>3
    <2>7. ASSUME NEW s, NEW p
          PROVE  Owns(s, p)' <=> Owns(s, p) \/ (s = seq /\ p = path)
        <3>1. CASE p = path
            BY <1>6, <2>2, <2>3, <3>1 DEF Owns
        <3>2. CASE p # path
            BY <2>3, <3>2 DEF Owns
        <3> QED BY <3>1, <3>2
    <2>8. ASSUME NEW s \in SeqIds \ {seq}, NEW t \in SeqIds \ {seq}
          PROVE  Later(s, t)' <=> Later(s, t)
        <3>1. \A p \in DOMAIN tree : InOrder(tree'[p], t, s) <=> InOrder(tree[p], t, s)
            BY <1>6, <2>3
        <3>2. ~InOrder(tree'[path], t, s)
            BY <2>2, <2>3
        <3>3. Later(s, t)' <=> \E p \in DOMAIN tree' : InOrder(tree'[p], t, s)
            BY DEF Later, InOrder
        <3>4. Later(s, t) <=> \E p \in DOMAIN tree : InOrder(tree[p], t, s)
            BY DEF Later
        <3> QED BY <2>3, <3>1, <3>2, <3>3, <3>4
    <2> QED BY <2>2, <2>3, <2>4, <2>5, <2>6, <2>7, <2>8
<1> QED BY <1>5, <1>6

LEMMA DropNodeKeeps ==
    ASSUME TreeInv, NEW path \in todo, DropNode(path)
    PROVE  TreeInv'
<1>1. /\ pc \in {"evict", "replace"} /\ \A q \in todo : Len(q) <= Len(path)
      /\ todo' = todo \ {path}
      /\ UNCHANGED <<seq_nodes, pc, seq, prompt>>
    BY DEF DropNode
<1>2. /\ seq \in SeqIds
      /\ \A s \in SeqIds : s # seq => Held(s)' = Held(s)
      /\ \A s \in SeqIds : s = seq => Held(s)' = Held(s) \ {path} /\ Held(s) = todo
    BY <1>1 DEF TreeInv, CallInv, Held, NodesOf
<1>3. TypeInv' /\ OwnerInv' /\ CountInv'
    <2>1. \A p \in DOMAIN tree' : Node(p)
        BY DropEffect DEF TreeInv, TypeInv
    <2> QED BY <2>1, DropEffect DEF TypeInv, OwnerInv, CountInv, Node, IsInjective
<1>4. CallInv' /\ LastInv'
    BY <1>1 DEF TreeInv, CallInv, LastInv
<1>5. PathInv'
    BY <1>1, Zenon DEF TreeInv, PathInv, Path, Prefix
<1>6. ASSUME NEW s \in SeqIds
      PROVE  /\ Closed(Held(s)')
             /\ \A p \in Held(s)' : Node(p)
             /\ \A p : Owns(s, p)' <=> p \in Held(s)'
    <2>1. /\ Closed(Held(s))
          /\ \A p \in Held(s) : Node(p)
          /\ \A p : Owns(s, p) <=> p \in Held(s)
        BY DEF TreeInv, HeldInv
    <2>2. \A p : Owns(s, p)' <=> Owns(s, p) /\ ~(s = seq /\ p = path)
        BY DropEffect
    <2>3. CASE s # seq
        BY <1>2, <2>1, <2>2, <2>3
    <2>4. CASE s = seq
        <3>1. Held(s)' = Held(s) \ {path} /\ Held(s) = todo
            BY <1>2, <2>4
        <3>2. ASSUME NEW p \in Held(s)', NEW n \in AlignedLengths(Len(p))
              PROVE  Prefix(p, n) \in Held(s)'
            <4>1. p \in todo /\ p # path /\ Node(p) /\ Len(p) <= Len(path) /\ Prefix(p, n) \in todo
                BY <1>1, <2>1, <3>1 DEF Closed
            <4>2. ASSUME Prefix(p, n) = path PROVE FALSE
                <5>1. Len(p) \in Nat /\ p \in Seq(Token)
                    BY <4>1, LenProperties DEF Node
                <5>2. n \in 0..Len(p)
                    BY <5>1 DEF AlignedLengths
                <5>3. Len(path) = n
                    BY <4>2, <5>1, <5>2, PrefixIs
                <5>4. n = Len(p)
                    BY <4>1, <5>1, <5>2, <5>3
                <5> QED BY <4>1, <4>2, <5>1, <5>4, PrefixWhole
            <4> QED BY <3>1, <4>1, <4>2
        <3>3. Closed(Held(s)')
            BY <3>2, Zenon DEF Closed
        <3> QED BY <2>1, <2>2, <2>4, <3>1, <3>3
    <2> QED BY <2>3, <2>4
<1>7. HeldInv'
    BY <1>6, Zenon DEF HeldInv, Closed, Node
<1> QED BY <1>3, <1>4, <1>5, <1>7 DEF TreeInv

LEMMA AddNodeKeeps ==
    ASSUME TreeInv, NEW path \in todo, AddNode(path)
    PROVE  TreeInv'
<1>1. /\ pc = "add" /\ \A q \in todo : Len(path) <= Len(q)
      /\ todo' = todo \ {path}
      /\ UNCHANGED <<seq_nodes, pc, seq, prompt>>
    BY DEF AddNode
<1>2. /\ seq \in SeqIds /\ prompt \in Inputs /\ prompt \in Seq(Token)
      /\ todo \subseteq Path(prompt) /\ Held(seq) = Path(prompt) \ todo
    BY <1>1, TreeAssumption DEF TreeInv, CallInv, Held
<1>3. /\ \A s \in SeqIds : s # seq => Held(s)' = Held(s)
      /\ \A s \in SeqIds : s = seq => Held(s)' = Held(s) \cup {path}
    <2>1. \A s \in SeqIds : s = seq => Held(s)' = Path(prompt) \ (todo \ {path})
        BY <1>1 DEF Held, Path, Prefix
    <2>2. \A s \in SeqIds : s # seq => Held(s)' = Held(s)
        BY <1>1 DEF Held, NodesOf
    <2> QED BY <1>2, <2>1, <2>2
<1>4. Node(path)
    BY <1>2, PathIs
<1>5. TypeInv' /\ OwnerInv' /\ CountInv'
    <2>1. \A p \in DOMAIN tree' : Node(p)
        <3>1. DOMAIN tree' = DOMAIN tree \cup {path}
            BY AddEffect
        <3>2. \A p \in DOMAIN tree : Node(p)
            BY DEF TreeInv, TypeInv
        <3> QED BY <1>4, <3>1, <3>2
    <2>2. /\ tree' \in [DOMAIN tree' -> Seq(SeqIds)]
          /\ IsFiniteSet(DOMAIN tree') /\ node_count' = Cardinality(DOMAIN tree')
          /\ \A p \in DOMAIN tree' : tree'[p] # <<>> /\ IsInjective(tree'[p])
        BY AddEffect
    <2> QED BY <2>1, <2>2, Zenon DEF TypeInv, OwnerInv, CountInv, Node, IsInjective
<1>6. CallInv'
    BY <1>1 DEF TreeInv, CallInv, Path, Prefix
<1>7. PathInv'
    BY <1>1, Zenon DEF TreeInv, PathInv, Path, Prefix
<1>8. LastInv'
    <2>0. PICK s \in SeqIds : s = seq
        BY <1>2
    <2>1. ASSUME NEW p \in Held(s)' PROVE Last(tree'[p]) = s
        <3>1. CASE p = path
            BY <2>0, <3>1, AddEffect
        <3>2. CASE p # path
            <4>1. p \in Held(seq)
                BY <1>3, <2>0, <3>2
            <4>2. p \in DOMAIN tree /\ Last(tree[p]) = seq
                BY <1>1, <1>2, <4>1 DEF TreeInv, HeldInv, LastInv, Owns
            <4> QED BY <2>0, <3>2, <4>2, AddEffect
        <3> QED BY <3>1, <3>2
    <2>2. seq' = s
        BY <1>1, <2>0
    <2> QED BY <2>1, <2>2, Zenon DEF LastInv, Last
<1>9. ASSUME NEW s \in SeqIds
      PROVE  /\ Closed(Held(s)')
             /\ \A p \in Held(s)' : Node(p)
             /\ \A p : Owns(s, p)' <=> p \in Held(s)'
    <2>1. /\ Closed(Held(s))
          /\ \A p \in Held(s) : Node(p)
          /\ \A p : Owns(s, p) <=> p \in Held(s)
        BY DEF TreeInv, HeldInv
    <2>2. \A p : Owns(s, p)' <=> Owns(s, p) \/ (s = seq /\ p = path)
        BY AddEffect
    <2>3. CASE s # seq
        BY <1>3, <2>1, <2>2, <2>3
    <2>4. CASE s = seq
        <3>1. Held(s)' = Held(s) \cup {path} /\ Held(s) = Path(prompt) \ todo
            BY <1>2, <1>3, <2>4
        <3>2. ASSUME NEW n \in AlignedLengths(Len(path))
              PROVE  Prefix(path, n) \in Held(s)'
            <4>1. Len(path) \in Nat /\ path \in Seq(Token)
                BY <1>4, LenProperties DEF Node
            <4>2. n \in 0..Len(path)
                BY <4>1 DEF AlignedLengths
            <4>3. Len(Prefix(path, n)) = n
                BY <4>1, <4>2, PrefixIs
            <4>4. Prefix(path, n) \in Path(prompt)
                BY <1>2, PathClosed DEF Closed
            <4>5. CASE n = Len(path)
                BY <3>1, <4>1, <4>5, PrefixWhole
            <4>6. CASE n < Len(path)
                <5>1. Prefix(path, n) \notin todo
                    BY <1>1, <4>1, <4>2, <4>3, <4>6
                <5> QED BY <3>1, <4>4, <5>1
            <4> QED BY <4>1, <4>2, <4>5, <4>6
        <3>3. ASSUME NEW p \in Held(s)', NEW n \in AlignedLengths(Len(p))
              PROVE  Prefix(p, n) \in Held(s)'
            <4>1. CASE p = path
                BY <3>2, <4>1
            <4>2. CASE p \in Held(s)
                BY <2>1, <3>1, <4>2 DEF Closed
            <4> QED BY <3>1, <4>1, <4>2
        <3>4. Closed(Held(s)')
            BY <3>3, Zenon DEF Closed
        <3> QED BY <1>4, <2>1, <2>2, <2>4, <3>1, <3>4
    <2> QED BY <2>3, <2>4
<1>10. HeldInv'
    BY <1>9, Zenon DEF HeldInv, Closed, Node
<1> QED BY <1>5, <1>6, <1>7, <1>8, <1>10 DEF TreeInv

LEMMA CloseKeeps ==
    ASSUME TreeInv, Close
    PROVE  TreeInv'
<1>1. /\ DOMAIN tree' = {} /\ DOMAIN seq_nodes' = {} /\ node_count' = 0
      /\ tree' = [p \in {} |-> <<>>] /\ pc = "idle"
      /\ UNCHANGED <<pc, seq, prompt, todo>>
    BY DEF Close, callvars
<1>2. /\ tree' \in [DOMAIN tree' -> Seq(SeqIds)]
      /\ IsFiniteSet(DOMAIN tree') /\ node_count' = Cardinality(DOMAIN tree')
    BY <1>1, FS_EmptySet
<1>3. TypeInv' /\ OwnerInv' /\ CountInv'
    BY <1>1, <1>2 DEF TypeInv, OwnerInv, CountInv
<1>4. CallInv' /\ PathInv' /\ LastInv'
    BY <1>1 DEF TreeInv, CallInv, PathInv, LastInv
<1>5. \A s : Held(s)' = {}
    BY <1>1 DEF TreeInv, CallInv, Held, NodesOf
<1>6. HeldInv'
    BY <1>1, <1>5 DEF HeldInv, Closed, Owns
<1> QED BY <1>3, <1>4, <1>6 DEF TreeInv

LEMMA TreeUnchanged ==
    ASSUME TreeInv, UNCHANGED <<treevars, callvars>>
    PROVE  TreeInv'
<1>1. UNCHANGED <<tree, seq_nodes, node_count, pc, seq, prompt, todo>>
    BY DEF treevars, callvars
<1>2. \A s \in SeqIds : Held(s)' = Held(s)
    BY <1>1 DEF Held, NodesOf, Path, Prefix
<1>3. CallInv'
    BY <1>1 DEF TreeInv, CallInv, Path, Prefix
<1>4. PathInv'
    BY <1>1, Zenon DEF TreeInv, PathInv, Path, Prefix
<1>5. LastInv'
    <2>1. Held(seq)' = Held(seq)
        BY <1>1 DEF Held, NodesOf, Path, Prefix
    <2> QED BY <1>1, <2>1 DEF TreeInv, LastInv, Last
<1>6. TypeInv' /\ HeldInv' /\ OwnerInv' /\ CountInv'
    BY <1>1, <1>2, SameTree
<1> QED BY <1>3, <1>4, <1>5, <1>6 DEF TreeInv

LEMMA TreeStep ==
    TreeInv /\ [Next]_vars => TreeInv'
<1> SUFFICES ASSUME TreeInv, [Next]_vars PROVE TreeInv'
    OBVIOUS
<1>1. ASSUME NEW tokens \in Inputs, MatchForReuse(tokens) PROVE TreeInv'
    BY <1>1, TreeUnchanged DEF MatchForReuse
<1>2. ASSUME NEW tokens \in Inputs, NEW s \in SeqIds, Insert(tokens, s) PROVE TreeInv'
    BY <1>2, InsertKeeps
<1>3. ASSUME NEW tokens \in Inputs, NEW s \in SeqIds, InsertNothing(tokens, s) PROVE TreeInv'
    BY <1>3, TreeUnchanged DEF InsertNothing
<1>4. ASSUME NEW s \in SeqIds, Evict(s) PROVE TreeInv'
    BY <1>4, EvictKeeps
<1>5. ASSUME NEW path \in todo, DropNode(path) PROVE TreeInv'
    BY <1>5, DropNodeKeeps
<1>6. ASSUME NEW path \in todo, AddNode(path) PROVE TreeInv'
    BY <1>6, AddNodeKeeps
<1>7. ASSUME EvictReturns PROVE TreeInv'
    BY <1>7, EvictReturnsKeeps
<1>8. ASSUME StartAdding PROVE TreeInv'
    BY <1>8, StartAddingKeeps
<1>9. ASSUME InsertReturns PROVE TreeInv'
    BY <1>9, InsertReturnsKeeps
<1>10. ASSUME Close PROVE TreeInv'
    BY <1>10, CloseKeeps
<1>11. CASE UNCHANGED vars
    BY <1>11, TreeUnchanged DEF vars
<1> QED
    BY <1>1, <1>2, <1>3, <1>4, <1>5, <1>6, <1>7, <1>8, <1>9, <1>10, <1>11 DEF Next

(* The inductive invariant of the tree.                                    *)
LEMMA TreeInvariant ==
    Spec => []TreeInv
BY TreeInit, TreeStep, PTL DEF Spec
-----------------------------------------------------------------------------
(* What the invariant says at a state.                                     *)
LEMMA OwnedStructure ==
    TreeInv => EveryNodeOwned
<1> SUFFICES ASSUME TreeInv, NEW p \in DOMAIN tree, Len(p) > BlockSize
             PROVE  Prefix(p, Len(p) - BlockSize) \in DOMAIN tree
    BY DEF TreeInv, OwnerInv, EveryNodeOwned
<1>1. Node(p) /\ tree[p] \in Seq(SeqIds) /\ tree[p] # <<>>
    BY DEF TreeInv, TypeInv, OwnerInv
<1>2. PICK s \in SeqIds : Owns(s, p)
    BY <1>1, NoOwner DEF Owns
<1>3. Len(p) \in Nat /\ BlockSize \in Nat /\ BlockSize > 0 /\ Len(p) % BlockSize = 0
    BY <1>1, LenProperties, BlockAssumption DEF Node
<1>4. (Len(p) - BlockSize) % BlockSize = 0
    <2> DEFINE k == Len(p) \div BlockSize
    <2>1. k \in Int /\ Len(p) = k * BlockSize
        BY <1>3
    <2> HIDE DEF k
    <2>2. Len(p) - BlockSize = (k - 1) * BlockSize
        BY <1>3, <2>1
    <2>3. ((k - 1) * BlockSize) % BlockSize = 0
        BY <1>3, <2>1
    <2> QED BY <2>2, <2>3
<1>5. Len(p) - BlockSize \in AlignedLengths(Len(p))
    BY <1>3, <1>4 DEF AlignedLengths
<1>6. Prefix(p, Len(p) - BlockSize) \in Held(s)
    BY <1>2, <1>5 DEF TreeInv, HeldInv, Closed
<1> QED BY <1>6 DEF TreeInv, HeldInv, Owns

(* Every node of the tree is held, at most once, and hangs on its parent,  *)
(* at every step of the loops of insert() and evict().                     *)
THEOREM NodesAreOwned ==
    Spec => []EveryNodeOwned
BY TreeInvariant, OwnedStructure, PTL

(* _seq_nodes names exactly the nodes that name the sequence: no pointer   *)
(* of the C++ twin outlives its node, and no node keeps a former owner.    *)
THEOREM NoPointerDangles ==
    Spec => []NoDanglingNode
<1>1. TreeInv => NoDanglingNode
    <2> SUFFICES ASSUME TreeInv, NEW s \in SeqIds \ {seq}
                 PROVE  {p \in DOMAIN tree : Contains(tree[p], s)} = NodesOf(s)
        BY DEF NoDanglingNode
    <2>1. \A p : Owns(s, p) <=> p \in NodesOf(s)
        BY DEF TreeInv, HeldInv, Held
    <2> QED BY <2>1 DEF Owns
<1> QED BY <1>1, TreeInvariant, PTL

(* The hand-kept node counter is the number of nodes, at every step.       *)
THEOREM NodeCountIsExact ==
    Spec => []NodeCountExact
<1>1. TreeInv => NodeCountExact
    BY DEF TreeInv, CountInv, NodeCountExact
<1> QED BY <1>1, TreeInvariant, PTL
-----------------------------------------------------------------------------
(* The refinement.  What a sequence claims, for one with a path and for    *)
(* one without.                                                            *)
LEMMA ClaimIs ==
    ASSUME TreeInv, NEW s \in SeqIds, ~Inserting(s)
    PROVE  \/ NodesOf(s) = {} /\ ClaimOf(s) = <<>>
           \/ \E t \in Inputs : /\ Len(t) >= BlockSize /\ NodesOf(s) = Path(t)
                                /\ ClaimOf(s) = Prefix(t, WholeBlocks(Len(t)))
<1>1. ClaimOf(s) = Longest(NodesOf(s))
    BY DEF ClaimOf
<1>2. CASE s \in DOMAIN seq_nodes
    <2>1. PICK t \in Inputs : Len(t) >= BlockSize /\ seq_nodes[s] = Path(t)
        BY <1>2 DEF TreeInv, PathInv
    <2>2. NodesOf(s) = Path(t) /\ t \in Seq(Token)
        BY <1>2, <2>1, TreeAssumption DEF NodesOf
    <2>3. Longest(Path(t)) = Prefix(t, WholeBlocks(Len(t)))
        BY <2>1, <2>2, LongestOfPath
    <2> QED BY <1>1, <2>1, <2>2, <2>3
<1>3. CASE s \notin DOMAIN seq_nodes
    BY <1>1, <1>3 DEF NodesOf, Longest
<1> QED BY <1>2, <1>3

(* The abstract cache counts blocks the same way.                          *)
LEMMA SameBlocks ==
    /\ \A n : Index!WholeBlocks(n) = WholeBlocks(n)
    /\ \A n : Index!AlignedLengths(n) = AlignedLengths(n)
    /\ \A n : Index!usable(n) = usable(n)
    /\ \A t : Index!Published(t) = Prefix(t, WholeBlocks(Len(t)))
BY DEF Index!WholeBlocks, Index!AlignedLengths, Index!usable, Index!Published,
       WholeBlocks, AlignedLengths, usable, Prefix

(* Sharing a prefix with the claim of a sequence is having its node.       *)
LEMMA SharesIsNode ==
    ASSUME TreeInv, NEW s \in SeqIds, ~Inserting(s),
           NEW tokens \in Seq(Token), NEW n \in AlignedLengths(Len(tokens))
    PROVE  Index!Shares(s, tokens, n) <=> Prefix(tokens, n) \in NodesOf(s)
<1>0. Len(tokens) \in Nat
    BY LenProperties
<1>1. n \in Nat /\ n > 0 /\ n <= Len(tokens) /\ n % BlockSize = 0 /\ n \in 0..Len(tokens)
    BY <1>0 DEF AlignedLengths
<1>2. Index!Shares(s, tokens, n)
         <=> n <= Len(ClaimOf(s)) /\ Prefix(ClaimOf(s), n) = Prefix(tokens, n)
    BY <1>1 DEF Index!Shares, Claims, Prefix
<1>3. CASE NodesOf(s) = {} /\ ClaimOf(s) = <<>>
    <2>1. Len(ClaimOf(s)) = 0
        BY <1>3, EmptySeq
    <2> QED BY <1>1, <1>2, <1>3, <2>1
<1>4. ASSUME NEW t \in Inputs, Len(t) >= BlockSize, NodesOf(s) = Path(t),
             ClaimOf(s) = Prefix(t, WholeBlocks(Len(t)))
      PROVE  Index!Shares(s, tokens, n) <=> Prefix(tokens, n) \in NodesOf(s)
    <2> DEFINE w == WholeBlocks(Len(t))
    <2>1. t \in Seq(Token) /\ Len(t) \in Nat
        BY TreeAssumption, LenProperties
    <2>2. w \in 0..Len(t) /\ w \in Nat /\ \A m \in AlignedLengths(Len(t)) : m <= w
        BY <2>1, WholeBlocksIs
    <2> HIDE DEF w
    <2>3. Len(ClaimOf(s)) = w
        BY <1>4, <2>1, <2>2, PrefixIs DEF w
    <2>4. n <= w => Prefix(ClaimOf(s), n) = Prefix(t, n)
        <3> SUFFICES ASSUME n <= w PROVE Prefix(ClaimOf(s), n) = Prefix(t, n)
            OBVIOUS
        <3>1. n \in 0..w
            BY <1>1, <2>2
        <3>2. Prefix(Prefix(t, w), n) = Prefix(t, n)
            BY <2>1, <2>2, <3>1, PrefixPrefix
        <3> QED BY <1>4, <3>2 DEF w
    <2>5. Len(Prefix(tokens, n)) = n /\ Node(Prefix(tokens, n))
        BY PathNode
    <2>6. Prefix(tokens, n) \in Path(t) <=> n <= Len(t) /\ Prefix(t, n) = Prefix(tokens, n)
        BY <2>1, <2>5, PathIs
    <2>7. n <= Len(t) <=> n <= w
        BY <1>1, <2>1, <2>2 DEF AlignedLengths
    <2> QED BY <1>2, <1>4, <2>3, <2>4, <2>6, <2>7
<1> QED BY <1>3, <1>4, ClaimIs

LEMMA RefinesInit ==
    Init => Index!Init
<1> SUFFICES ASSUME Init PROVE Index!Init
    OBVIOUS
<1>1. pc = "idle" /\ DOMAIN tree = {} /\ DOMAIN seq_nodes = {} /\ result = [call |-> "new"]
    BY DEF Init
<1>2. \A s \in SeqIds : ClaimOf(s) = <<>>
    BY <1>1 DEF ClaimOf, Inserting, NodesOf, Longest
<1>3. Claims = [s \in SeqIds |-> <<>>]
    BY <1>2 DEF Claims
<1>4. Order = {}
    BY <1>1 DEF Order, Newer, Inserting, Later
<1>5. Returned = [call |-> "new"]
    BY <1>1 DEF Returned
<1> QED BY <1>3, <1>4, <1>5 DEF Index!Init, Index!IndexInit

(* Steps that the abstract cache does not see.                             *)
Silent == UNCHANGED <<Index!indexvars, Returned>>

LEMMA SilentIf ==
    ASSUME \A s \in SeqIds : ClaimOf(s)' = ClaimOf(s),
           \A s, t \in SeqIds : Newer(s, t)' <=> Newer(s, t),
           Returned' = Returned
    PROVE  Silent
<1>1. Claims' = Claims
    BY Zenon DEF Claims
<1>2. Order' = Order
    <2>1. \A pair \in SeqIds \X SeqIds : pair[1] \in SeqIds /\ pair[2] \in SeqIds
        OBVIOUS
    <2>2. ASSUME NEW pair \in SeqIds \X SeqIds
          PROVE  Newer(pair[1], pair[2])' <=> Newer(pair[1], pair[2])
        BY <2>1
    <2> QED BY <2>2, Zenon DEF Order
<1> QED BY <1>1, <1>2 DEF Silent, Index!indexvars

(* The loops are silent.                                                   *)
LEMMA LoopIsSilent ==
    ASSUME TreeInv, NEW path \in todo, DropNode(path) \/ AddNode(path)
    PROVE  Silent
<1>1. UNCHANGED <<seq_nodes, result, pc, seq, prompt>>
    BY DEF DropNode, AddNode
<1>2. \A s \in SeqIds : ClaimOf(s)' = ClaimOf(s)
    BY <1>1 DEF ClaimOf, Inserting, NodesOf, Prefix, Longest
<1>3. Returned' = Returned
    BY <1>1, Zenon DEF Returned
<1>4. \A s, t \in SeqIds \ {seq} : Later(s, t)' <=> Later(s, t)
    BY DropEffect, AddEffect
<1>5. \A s, t \in SeqIds : Newer(s, t)' <=> Newer(s, t)
    BY <1>1, <1>4 DEF Newer, Inserting, NodesOf, Prefix
<1> QED BY <1>2, <1>3, <1>5, SilentIf

LEMMA StartIsSilent ==
    ASSUME TreeInv, StartAdding
    PROVE  Silent
<1>1. /\ pc = "replace" /\ pc' = "add"
      /\ UNCHANGED <<tree, seq_nodes, result, seq, prompt>>
    BY DEF StartAdding, treevars
<1>2. \A s \in SeqIds : ClaimOf(s)' = ClaimOf(s)
    BY <1>1 DEF ClaimOf, Inserting, NodesOf, Prefix, Longest
<1>3. Returned' = Returned
    BY <1>1 DEF Returned
<1>4. \A s, t \in SeqIds : Newer(s, t)' <=> Newer(s, t)
    BY <1>1 DEF Newer, Inserting, NodesOf, Prefix, Later, InOrder
<1> QED BY <1>2, <1>3, <1>4, SilentIf

(* evict() returns: its sequence is in no owner list any more.             *)
LEMMA EvictReturnsIsSilent ==
    ASSUME TreeInv, EvictReturns
    PROVE  Silent
<1>1. /\ pc = "evict" /\ pc' = "idle" /\ todo = {} /\ seq' = NoSeq
      /\ result' = [call |-> "evict"]
      /\ UNCHANGED <<tree, seq_nodes>>
    BY DEF EvictReturns, Return, treevars
<1>2. seq \in SeqIds /\ NoSeq \notin SeqIds /\ Held(seq) = {}
    BY <1>1, TreeAssumption DEF TreeInv, CallInv, Held
<1>3. \A s \in SeqIds : ClaimOf(s)' = ClaimOf(s)
    BY <1>1 DEF ClaimOf, Inserting, NodesOf, Longest
<1>4. Returned' = Returned
    BY <1>1 DEF Returned
<1>5. \A t : ~Later(seq, t) /\ ~Later(t, seq)
    <2>1. \A p \in DOMAIN tree : ~Contains(tree[p], seq)
        BY <1>2 DEF TreeInv, HeldInv, Owns
    <2> QED BY <2>1 DEF Later, InOrder, Contains
<1>6. \A s, t : Later(s, t)' <=> Later(s, t)
    BY <1>1 DEF Later, InOrder
<1>7. ASSUME NEW s \in SeqIds, NEW t \in SeqIds
      PROVE  Newer(s, t)' <=> Newer(s, t)
    BY <1>1, <1>2, <1>5, <1>6 DEF Newer, Inserting
<1> QED BY <1>3, <1>4, <1>7, SilentIf

(* insert() returns: its sequence comes last on its path, after all those  *)
(* that share the first block with it.                                     *)
LEMMA InsertReturnsIsSilent ==
    ASSUME TreeInv, InsertReturns
    PROVE  Silent
<1>1. /\ pc = "add" /\ pc' = "idle" /\ todo = {} /\ seq' = NoSeq
      /\ result' = [call |-> "insert", published |-> WholeBlocks(Len(prompt))]
      /\ seq_nodes' = With(seq_nodes, seq, Path(prompt))
      /\ tree' = tree
    BY DEF InsertReturns, Return
<1>2. /\ seq \in SeqIds /\ NoSeq \notin SeqIds /\ Held(seq) = Path(prompt)
      /\ prompt \in Seq(Token) /\ Len(prompt) >= BlockSize /\ seq \notin DOMAIN seq_nodes
    BY <1>1, TreeAssumption DEF TreeInv, CallInv, Held
<1>3. Returned' = Returned
    BY <1>1 DEF Returned
<1>4. ASSUME NEW s \in SeqIds PROVE ClaimOf(s)' = ClaimOf(s)
    <2>1. CASE s = seq
        <3>1. ClaimOf(s) = Prefix(prompt, WholeBlocks(Len(prompt)))
            BY <1>1, <2>1 DEF ClaimOf, Inserting
        <3>2. NodesOf(s)' = Path(prompt)
            BY <1>1, <2>1 DEF NodesOf, With
        <3>3. ClaimOf(s)' = Longest(NodesOf(s)')
            BY <1>1 DEF ClaimOf, Inserting, Longest
        <3> QED BY <1>2, <3>1, <3>2, <3>3, LongestOfPath
    <2>2. CASE s # seq
        <3>1. NodesOf(s)' = NodesOf(s)
            BY <1>1, <2>2 DEF NodesOf, With
        <3>2. ClaimOf(s)' = Longest(NodesOf(s)')
            BY <1>1 DEF ClaimOf, Inserting, Longest
        <3>3. ClaimOf(s) = Longest(NodesOf(s))
            BY <2>2 DEF ClaimOf, Inserting
        <3> QED BY <3>1, <3>2, <3>3
    <2> QED BY <2>1, <2>2
<1>5. ASSUME NEW p \in DOMAIN tree, Contains(tree[p], seq)
      PROVE  /\ tree[p] \in Seq(SeqIds) /\ Len(tree[p]) \in Nat /\ Len(tree[p]) > 0
             /\ p \in Path(prompt)
             /\ \A i \in 1..Len(tree[p]) : tree[p][i] = seq <=> i = Len(tree[p])
    <2>1. tree[p] \in Seq(SeqIds) /\ IsInjective(tree[p]) /\ tree[p] # <<>>
        BY DEF TreeInv, TypeInv, OwnerInv
    <2>2. p \in Path(prompt) /\ tree[p][Len(tree[p])] = seq
        BY <1>1, <1>2, <1>5 DEF TreeInv, HeldInv, LastInv, Owns, Last
    <2>3. Len(tree[p]) \in Nat /\ DOMAIN tree[p] = 1..Len(tree[p]) /\ Len(tree[p]) # 0
        BY <2>1, LenProperties, EmptySeq
    <2>4. Len(tree[p]) \in 1..Len(tree[p])
        BY <2>3
    <2>5. \A i, j \in 1..Len(tree[p]) : tree[p][i] = tree[p][j] => i = j
        BY <2>1, <2>3 DEF IsInjective
    <2>6. \A i \in 1..Len(tree[p]) : tree[p][i] = seq <=> i = Len(tree[p])
        BY <2>2, <2>4, <2>5
    <2>7. Len(tree[p]) > 0
        BY <2>3
    <2> QED BY <2>1, <2>2, <2>3, <2>6, <2>7
<1>6. ASSUME NEW t \in SeqIds PROVE ~Later(t, seq)
    <2> SUFFICES ASSUME NEW p \in DOMAIN tree, NEW i \in 1..Len(tree[p]),
                        NEW j \in 1..Len(tree[p]), i < j, tree[p][i] = seq
                 PROVE  FALSE
        BY DEF Later, InOrder
    <2>1. Contains(tree[p], seq)
        BY DEF Contains
    <2> QED BY <1>5, <2>1
<1>7. BlockSize \in AlignedLengths(Len(prompt)) /\ BlockSize \in Nat /\ BlockSize > 0
    <2>1. Len(prompt) \in Nat
        BY <1>2, LenProperties
    <2> QED BY <1>2, <2>1, BlockAssumption DEF AlignedLengths
<1>8. ASSUME NEW t \in SeqIds
      PROVE  Later(seq, t) <=> t # seq /\ Prefix(prompt, BlockSize) \in NodesOf(t)
    <2>1. ASSUME NEW p \in DOMAIN tree, NEW i \in 1..Len(tree[p]),
                 NEW j \in 1..Len(tree[p]), i < j, tree[p][i] = t, tree[p][j] = seq
          PROVE  t # seq /\ Prefix(prompt, BlockSize) \in NodesOf(t)
        <3>1. Contains(tree[p], seq) /\ Contains(tree[p], t)
            BY <2>1 DEF Contains
        <3>2. t # seq
            BY <1>5, <2>1, <3>1
        <3>3. p \in NodesOf(t) /\ Closed(NodesOf(t))
            BY <3>1, <3>2 DEF TreeInv, HeldInv, Held, Owns
        <3>4. Node(p) /\ Len(p) <= Len(prompt) /\ Prefix(prompt, Len(p)) = p
            BY <1>2, <1>5, <3>1, PathIs
        <3>5. Len(p) \in Nat /\ Len(prompt) \in Nat
            BY <1>2, <3>4, LenProperties DEF Node
        <3>6. Len(p) >= BlockSize
            BY <1>7, <3>4, <3>5 DEF Node
        <3>7. BlockSize \in AlignedLengths(Len(p)) /\ BlockSize \in 0..Len(p) /\ Len(p) \in 0..Len(prompt)
            BY <1>7, <3>4, <3>5, <3>6 DEF AlignedLengths
        <3>8. Prefix(p, BlockSize) = Prefix(prompt, BlockSize)
            BY <1>2, <3>4, <3>7, PrefixPrefix
        <3>9. Prefix(p, BlockSize) \in NodesOf(t)
            BY <3>3, <3>7 DEF Closed
        <3> QED BY <3>2, <3>8, <3>9
    <2>2. ASSUME t # seq, Prefix(prompt, BlockSize) \in NodesOf(t)
          PROVE  Later(seq, t)
        <3> DEFINE p == Prefix(prompt, BlockSize)
        <3>1. p \in Held(seq) /\ p \in Held(t)
            BY <1>2, <1>7, <2>2, PathNode DEF Held
        <3> HIDE DEF p
        <3>2. p \in DOMAIN tree /\ Contains(tree[p], seq) /\ Contains(tree[p], t)
            BY <1>2, <3>1 DEF TreeInv, HeldInv, Owns
        <3>3. PICK i \in 1..Len(tree[p]) : tree[p][i] = t
            BY <3>2 DEF Contains
        <3>4. /\ Len(tree[p]) \in Nat /\ i # Len(tree[p])
              /\ Len(tree[p]) \in 1..Len(tree[p]) /\ tree[p][Len(tree[p])] = seq
            BY <1>5, <2>2, <3>2, <3>3
        <3>5. i < Len(tree[p])
            BY <3>4
        <3> QED BY <3>2, <3>3, <3>4, <3>5 DEF Later, InOrder
    <2> QED BY <2>1, <2>2 DEF Later, InOrder
<1>9. \A s, t : Later(s, t)' <=> Later(s, t)
    BY <1>1 DEF Later, InOrder
<1>10. ASSUME NEW s \in SeqIds, NEW t \in SeqIds
       PROVE  Newer(s, t)' <=> Newer(s, t)
    <2>1. Newer(s, t)' <=> Later(s, t)
        BY <1>1, <1>2, <1>9 DEF Newer, Inserting
    <2>2. Newer(s, t) <=> \/ s = seq /\ t # seq /\ Prefix(prompt, BlockSize) \in NodesOf(t)
                          \/ s # seq /\ t # seq /\ Later(s, t)
        BY <1>1 DEF Newer, Inserting
    <2> QED BY <1>6, <1>8, <2>1, <2>2
<1> QED BY <1>3, <1>4, <1>10, SilentIf

(* evict() takes effect when it is called.                                 *)
LEMMA RefinesEvict ==
    ASSUME TreeInv, NEW s \in SeqIds, Evict(s)
    PROVE  Index!Evict(s)
<1>1. /\ pc = "idle" /\ pc' = "evict" /\ seq' = s /\ PopNodes(s)
      /\ UNCHANGED <<tree, node_count>>
    BY DEF Evict, Enter
<1>2. seq = NoSeq /\ NoSeq \notin SeqIds
    BY <1>1, TreeAssumption DEF TreeInv, CallInv
<1>3. s \notin DOMAIN seq_nodes' /\ \A u \in SeqIds : u # s => NodesOf(u)' = NodesOf(u)
    BY <1>1, CallBegins
<1>4. ASSUME NEW u \in SeqIds
      PROVE  ClaimOf(u)' = IF u = s THEN <<>> ELSE ClaimOf(u)
    <2>1. ClaimOf(u)' = Longest(NodesOf(u)') /\ ClaimOf(u) = Longest(NodesOf(u))
        BY <1>1 DEF ClaimOf, Inserting, Longest
    <2>2. CASE u = s
        <3>1. NodesOf(u)' = {}
            BY <1>3, <2>2 DEF NodesOf
        <3> QED BY <2>1, <2>2, <3>1 DEF Longest
    <2>3. CASE u # s
        BY <1>3, <2>1, <2>3
    <2> QED BY <2>2, <2>3
<1>5. Claims' = [Claims EXCEPT ![s] = <<>>]
    BY <1>4 DEF Claims
<1>6. ASSUME NEW u \in SeqIds, NEW v \in SeqIds
      PROVE  Newer(u, v)' <=> Newer(u, v) /\ u # s /\ v # s
    BY <1>1, <1>2 DEF Newer, Inserting, Later, InOrder
<1>7. Order' = {pair \in Order : pair[1] # s /\ pair[2] # s}
    <2>1. ASSUME NEW pair \in SeqIds \X SeqIds
          PROVE  pair \in Order' <=> pair \in Order /\ pair[1] # s /\ pair[2] # s
        <3>1. PICK u \in SeqIds, v \in SeqIds : pair = <<u, v>>
            OBVIOUS
        <3>2. pair[1] = u /\ pair[2] = v
            BY <3>1
        <3>3. pair \in Order <=> Newer(u, v)
            BY <3>2, Zenon DEF Order
        <3>4. pair \in Order' <=> Newer(u, v)'
            BY <3>2, Zenon DEF Order
        <3> QED BY <1>6, <3>2, <3>3, <3>4
    <2>2. Order \subseteq SeqIds \X SeqIds /\ Order' \subseteq SeqIds \X SeqIds
        BY Zenon DEF Order
    <2> QED BY <2>1, <2>2
<1>8. Returned' = [call |-> "evict"]
    BY <1>1 DEF Returned
<1> QED BY <1>5, <1>7, <1>8, Zenon DEF Index!Evict, Index!Unclaim

(* insert() too.                                                           *)
LEMMA RefinesInsert ==
    ASSUME TreeInv, NEW tokens \in Inputs, NEW s \in SeqIds, Insert(tokens, s)
    PROVE  Index!Insert(tokens, s)
<1>1. /\ pc = "idle" /\ pc' = "replace" /\ seq' = s /\ prompt' = tokens /\ PopNodes(s)
      /\ Len(tokens) >= BlockSize
      /\ UNCHANGED <<tree, node_count>>
    BY DEF Insert, Enter
<1>2. seq = NoSeq /\ NoSeq \notin SeqIds /\ tokens \in Seq(Token) /\ Len(tokens) \in Nat
    BY <1>1, TreeAssumption, LenProperties DEF TreeInv, CallInv
<1>3. \A u \in SeqIds : u # s => NodesOf(u)' = NodesOf(u)
    BY <1>1, CallBegins
<1>4. ASSUME NEW u \in SeqIds
      PROVE  ClaimOf(u)' = IF u = s THEN Index!Published(tokens) ELSE ClaimOf(u)
    <2>1. CASE u = s
        <3>1. ClaimOf(u)' = Prefix(tokens, WholeBlocks(Len(tokens)))
            BY <1>1, <2>1 DEF ClaimOf, Inserting, Prefix
        <3> QED BY <2>1, <3>1, SameBlocks
    <2>2. CASE u # s
        <3>1. ClaimOf(u)' = Longest(NodesOf(u)') /\ ClaimOf(u) = Longest(NodesOf(u))
            BY <1>1, <2>2 DEF ClaimOf, Inserting, Longest
        <3> QED BY <1>3, <2>2, <3>1
    <2> QED BY <2>1, <2>2
<1>5. Claims' = [Claims EXCEPT ![s] = Index!Published(tokens)]
    BY <1>4 DEF Claims
<1>6. BlockSize \in AlignedLengths(Len(tokens)) /\ \A u : ~Inserting(u)
    BY <1>1, <1>2, BlockAssumption DEF AlignedLengths, Inserting
<1>7. ASSUME NEW u \in SeqIds, NEW v \in SeqIds
      PROVE  Newer(u, v)' <=> \/ Newer(u, v) /\ u # s /\ v # s
                              \/ u = s /\ v # s /\ Index!Shares(v, tokens, BlockSize)
    <2>1. Index!Shares(v, tokens, BlockSize) <=> Prefix(tokens, BlockSize) \in NodesOf(v)
        BY <1>2, <1>6, SharesIsNode
    <2>2. Newer(u, v) <=> Later(u, v)
        BY <1>2, <1>6 DEF Newer
    <2>3. Later(u, v)' <=> Later(u, v)
        BY <1>1 DEF Later, InOrder
    <2>4. Newer(u, v)' <=> \/ u = s /\ v # s /\ Prefix(tokens, BlockSize) \in NodesOf(v)'
                           \/ u # s /\ v # s /\ Later(u, v)'
        BY <1>1 DEF Newer, Inserting, Prefix
    <2> QED BY <1>3, <2>1, <2>2, <2>3, <2>4
<1> DEFINE kept == {pair \in Order : pair[1] # s /\ pair[2] # s}
           sharers == {u \in SeqIds \ {s} : Index!Shares(u, tokens, BlockSize)}
<1>8. Order' = kept \cup {<<s, t>> : t \in sharers}
    <2>1. ASSUME NEW u \in SeqIds, NEW v \in SeqIds
          PROVE  <<u, v>> \in Order' <=> <<u, v>> \in kept \/ (u = s /\ v \in sharers)
        <3>1. <<u, v>> \in Order <=> Newer(u, v)
            BY Zenon DEF Order
        <3>2. <<u, v>> \in Order' <=> Newer(u, v)'
            BY Zenon DEF Order
        <3> QED BY <1>7, <3>1, <3>2
    <2>2. \A pair \in Order' : \E u, v \in SeqIds : pair = <<u, v>>
        BY DEF Order
    <2>3. \A pair \in kept : \E u, v \in SeqIds : pair = <<u, v>>
        BY DEF Order
    <2>4. \A t \in sharers : t \in SeqIds
        OBVIOUS
    <2> HIDE DEF kept, sharers
    <2>5. ASSUME NEW pair \in Order' PROVE pair \in kept \cup {<<s, t>> : t \in sharers}
        BY <2>1, <2>2, <2>5
    <2>6. ASSUME NEW pair \in kept \cup {<<s, t>> : t \in sharers} PROVE pair \in Order'
        <3>1. CASE pair \in kept
            BY <2>1, <2>3, <3>1
        <3>2. CASE pair \in {<<s, t>> : t \in sharers}
            BY <2>1, <2>4, <3>2
        <3> QED BY <3>1, <3>2
    <2> QED BY <2>5, <2>6
<1>9. Returned' = [call |-> "insert", published |-> Len(Index!Published(tokens))]
    <2>1. Returned' = [call |-> "insert", published |-> WholeBlocks(Len(tokens))]
        BY <1>1 DEF Returned
    <2>2. Len(Index!Published(tokens)) = WholeBlocks(Len(tokens))
        BY <1>2, WholeBlocksIs, PrefixIs, SameBlocks
    <2> QED BY <2>1, <2>2
<1>10. ~(Len(tokens) < BlockSize)
    BY <1>1, <1>2, BlockAssumption
<1> QED BY <1>5, <1>8, <1>9, <1>10, Zenon DEF Index!Insert, Index!Claim

LEMMA RefinesInsertNothing ==
    ASSUME TreeInv, NEW tokens \in Inputs, NEW s \in SeqIds, InsertNothing(tokens, s)
    PROVE  Index!Insert(tokens, s)
<1>1. /\ pc = "idle" /\ Len(tokens) < BlockSize
      /\ result' = [call |-> "insert", published |-> 0]
      /\ UNCHANGED <<tree, seq_nodes, pc, seq, prompt>>
    BY DEF InsertNothing, treevars, callvars
<1>2. tokens \in Seq(Token) /\ Len(tokens) \in Nat
    BY TreeAssumption, LenProperties
<1>3. \A u \in SeqIds : ClaimOf(u)' = ClaimOf(u)
    BY <1>1 DEF ClaimOf, Inserting, NodesOf, Prefix, Longest
<1>4. \A u, v \in SeqIds : Newer(u, v)' <=> Newer(u, v)
    BY <1>1 DEF Newer, Inserting, NodesOf, Prefix, Later, InOrder
<1>5. Claims' = Claims
    BY <1>3, Zenon DEF Claims
<1>6. Order' = Order
    <2>1. ASSUME NEW pair \in SeqIds \X SeqIds
          PROVE  Newer(pair[1], pair[2])' <=> Newer(pair[1], pair[2])
        BY <1>4
    <2> QED BY <2>1, Zenon DEF Order
<1>7. Returned' = [call |-> "insert", published |-> Len(Index!Published(tokens))]
    <2>1. Returned' = [call |-> "insert", published |-> 0]
        BY <1>1 DEF Returned
    <2>2. WholeBlocks(Len(tokens)) = 0
        BY <1>1, <1>2, WholeBlocksIs
    <2>3. Len(Index!Published(tokens)) = 0
        BY <1>2, <2>2, PrefixIs, SameBlocks
    <2> QED BY <2>1, <2>3
<1> QED BY <1>1, <1>5, <1>6, <1>7 DEF Index!Insert, Index!Claim, Index!indexvars

LEMMA RefinesClose ==
    ASSUME TreeInv, Close
    PROVE  Index!Close
<1>1. /\ pc = "idle" /\ pc' = "idle" /\ DOMAIN tree' = {} /\ DOMAIN seq_nodes' = {}
      /\ result' = [call |-> "close"]
    BY DEF Close, callvars
<1>2. \A s \in SeqIds : ClaimOf(s)' = <<>>
    BY <1>1 DEF ClaimOf, Inserting, NodesOf, Longest
<1>3. Claims' = [s \in SeqIds |-> <<>>]
    BY <1>2 DEF Claims
<1>4. Order' = {}
    BY <1>1 DEF Order, Newer, Inserting, Later
<1>5. Returned' = [call |-> "close"]
    BY <1>1 DEF Returned
<1> QED BY <1>3, <1>4, <1>5 DEF Index!Close

(* match(): the walk ends at the longest prefix that has a node, which is  *)
(* the longest that a claim shares, and the last owner of that node is     *)
(* newer than its other owners.                                            *)
LEMMA MatchIsMatch ==
    ASSUME TreeInv, pc = "idle", NEW tokens \in Inputs
    PROVE  \/ /\ Match(tokens) = Index!Miss
              /\ Index!Matches(tokens, Index!Miss)
           \/ \E n \in AlignedLengths(Len(tokens)), s \in SeqIds :
                 /\ Match(tokens) = Index!Hit(n, s)
                 /\ Index!Matches(tokens, Index!Hit(n, s))
<1> DEFINE A == AlignedLengths(Len(tokens))
           W == Walk(tokens)
<1>1. tokens \in Seq(Token) /\ Len(tokens) \in Nat
    BY TreeAssumption, LenProperties
<1>2. seq = NoSeq /\ NoSeq \notin SeqIds /\ \A s : ~Inserting(s)
    BY TreeAssumption DEF TreeInv, CallInv, Inserting
<1>3. \A n \in A, s \in SeqIds : Index!Shares(s, tokens, n) <=> Owns(s, Prefix(tokens, n))
    <2> SUFFICES ASSUME NEW n \in A, NEW s \in SeqIds
                 PROVE  Index!Shares(s, tokens, n) <=> Owns(s, Prefix(tokens, n))
        OBVIOUS
    <2>1. Index!Shares(s, tokens, n) <=> Prefix(tokens, n) \in NodesOf(s)
        BY <1>1, <1>2, SharesIsNode
    <2>2. Held(s) = NodesOf(s)
        BY <1>2 DEF Held
    <2> QED BY <2>1, <2>2 DEF TreeInv, HeldInv
<1>4. ASSUME NEW n \in A, Prefix(tokens, n) \in DOMAIN tree
      PROVE  /\ \E s \in SeqIds : Owns(s, Prefix(tokens, n))
             /\ n \in W
    <2> DEFINE p == Prefix(tokens, n)
    <2>1. PICK s \in SeqIds : Owns(s, p)
        <3>1. tree[p] \in Seq(SeqIds) /\ tree[p] # <<>>
            BY <1>4 DEF TreeInv, TypeInv, OwnerInv
        <3> HIDE DEF p
        <3> QED BY <1>4, <3>1, NoOwner DEF Owns, p
    <2>2. p \in Held(s) /\ Closed(Held(s)) /\ Len(p) = n
        BY <1>1, <2>1, PathNode DEF TreeInv, HeldInv
    <2>3. ASSUME NEW m \in AlignedLengths(n) PROVE Prefix(tokens, m) \in DOMAIN tree
        <3>1. Prefix(p, m) \in Held(s)
            BY <2>2 DEF Closed
        <3>2. n \in 0..Len(tokens) /\ m \in 0..n
            BY <1>1 DEF AlignedLengths
        <3>3. Prefix(p, m) = Prefix(tokens, m)
            BY <1>1, <3>2, PrefixPrefix
        <3> QED BY <3>1, <3>3 DEF TreeInv, HeldInv, Owns
    <2> QED BY <2>1, <2>3 DEF Walk
<1>5. ASSUME NEW n \in W PROVE n \in A /\ n \in Nat /\ Prefix(tokens, n) \in DOMAIN tree
    <2>1. n \in A /\ n \in Nat /\ n \in AlignedLengths(n)
        BY <1>1 DEF Walk, AlignedLengths
    <2> QED BY <2>1 DEF Walk
<1>6. \A n \in A, s \in SeqIds : Index!Shares(s, tokens, n) => n \in W
    BY <1>3, <1>4 DEF Owns
<1> HIDE DEF W
<1>7. CASE W = {}
    <2>1. Match(tokens) = Index!Miss
        BY <1>7 DEF Match, W, Index!Miss, Index!Hit
    <2>2. Index!Matches(tokens, Index!Miss)
        BY <1>6, <1>7, SameBlocks DEF Index!Matches
    <2> QED BY <2>1, <2>2
<1>8. CASE W # {}
    <2> DEFINE n == Max(W)
               p == Prefix(tokens, n)
               o == tree[p]
    <2>1. n \in W /\ \A m \in W : m <= n
        <3>1. W \in SUBSET Nat
            BY <1>5
        <3>2. W \subseteq 0..Len(tokens)
            BY <1>1, <1>5 DEF AlignedLengths
        <3>3. IsFiniteSet(W)
            <4>1. IsFiniteSet(0..Len(tokens))
                BY <1>1, 0 \in Int, Len(tokens) \in Int, FS_Interval
            <4> QED BY <3>2, <4>1, FS_Subset
        <3>4. PICK i \in W : \A x \in W : x <= i
            BY <1>8, <3>1, <3>3, Extremes
        <3>5. \A x \in W : i >= x
            BY <3>1, <3>4
        <3>6. Max(W) \in W /\ \A x \in W : Max(W) >= x
            BY <3>5 DEF Max
        <3> HIDE DEF n
        <3> QED BY <3>1, <3>6 DEF n
    <2>2. n \in A /\ n \in Nat /\ p \in DOMAIN tree
        BY <1>5, <2>1
    <2> HIDE DEF n
    <2>3. /\ o \in Seq(SeqIds) /\ o # <<>> /\ Len(o) \in Nat /\ Len(o) # 0
          /\ \A i \in 1..Len(o) : o[i] \in SeqIds
        <3>1. o \in Seq(SeqIds) /\ o # <<>>
            BY <2>2 DEF TreeInv, TypeInv, OwnerInv
        <3> HIDE DEF o
        <3> QED BY <3>1, LenProperties, EmptySeq, ElementOfSeq
    <2> DEFINE s == Last(o)
    <2>4. Len(o) \in 1..Len(o) /\ s = o[Len(o)] /\ s \in SeqIds
        <3> HIDE DEF o
        <3> QED BY <2>3 DEF Last
    <2>5. Match(tokens) = Index!Hit(n, s)
        BY <1>8, <2>3 DEF Match, W, n, Index!Hit
    <2> HIDE DEF s
    <2>6. Index!Shares(s, tokens, n)
        <3>1. Owns(s, p)
            BY <2>2, <2>4 DEF Owns, Contains
        <3> QED BY <1>3, <2>2, <2>4, <3>1
    <2>7. \A m \in A, t \in SeqIds : Index!Shares(t, tokens, m) => m <= n
        BY <1>6, <2>1
    <2>8. ASSUME NEW t \in SeqIds \ {s}, Index!Shares(t, tokens, n)
          PROVE  <<s, t>> \in Order
        <3>1. Owns(t, p)
            BY <1>3, <2>2, <2>8
        <3>2. PICK i \in 1..Len(o) : o[i] = t
            BY <3>1 DEF Owns, Contains
        <3>3. i < Len(o)
            BY <2>3, <2>4, <3>2
        <3>4. Later(s, t)
            BY <2>2, <2>4, <3>2, <3>3 DEF Later, InOrder
        <3>5. Newer(s, t)
            BY <1>2, <2>4, <3>4 DEF Newer
        <3> QED BY <2>4, <3>5, Zenon DEF Order
    <2>9. Index!Matches(tokens, Index!Hit(n, s))
        <3>1. \E m \in Index!AlignedLengths(Len(tokens)), u \in SeqIds :
                 /\ Index!Hit(n, s) = Index!Hit(m, u)
                 /\ Index!Shares(u, tokens, m)
                 /\ \A k \in Index!AlignedLengths(Len(tokens)), t \in SeqIds :
                       Index!Shares(t, tokens, k) => k <= m
                 /\ \A t \in SeqIds \ {u} : Index!Shares(t, tokens, m) => <<u, t>> \in Order
            BY <2>2, <2>4, <2>6, <2>7, <2>8, SameBlocks, Zenon
        <3> QED BY <3>1, Zenon DEF Index!Matches
    <2> QED BY <2>2, <2>4, <2>5, <2>9
<1> QED BY <1>7, <1>8

(* match_for_reuse(): the match, cut back to the usable length.            *)
LEMMA RefinesMatch ==
    ASSUME TreeInv, NEW tokens \in Inputs, MatchForReuse(tokens)
    PROVE  Index!MatchForReuse(tokens)
<1> DEFINE N == Len(tokens)
           u == usable(N)
           S == SeqIds \cup {NoSeq}
<1>1. /\ pc = "idle"
      /\ result' = [call |-> "match_for_reuse", hit |-> ClampedMatch(tokens)]
      /\ UNCHANGED <<tree, seq_nodes, pc, seq, prompt>>
    BY DEF MatchForReuse, treevars, callvars
<1>2. tokens \in Seq(Token) /\ N \in Nat
    BY TreeAssumption, LenProperties
<1>3. u \in Int /\ u < N + 1
    <2> HIDE DEF N
    <2>1. u = ((N - 1) \div BlockSize) * BlockSize
        BY DEF usable, WholeBlocks
    <2>2. (N - 1) \div BlockSize \in Int
        BY <1>2, BlockAssumption
    <2>3. ((N - 1) \div BlockSize) * BlockSize <= N - 1
        BY <1>2, BlockAssumption
    <2> HIDE DEF u
    <2>4. ((N - 1) \div BlockSize) * BlockSize \in Int
        BY <2>2, BlockAssumption
    <2> QED BY <1>2, <2>1, <2>3, <2>4
<1> HIDE DEF u
<1>4. \E n \in 0..N, s \in S :
         /\ ClampedMatch(tokens) = Index!Hit(n, s)
         /\ Index!MatchesForReuse(tokens, Index!Hit(n, s))
    <2>1. CASE u <= 0
        <3>1. ClampedMatch(tokens) = Index!Hit(0, NoSeq)
            BY <2>1 DEF ClampedMatch, Index!Hit, u
        <3>2. Index!MatchesForReuse(tokens, Index!Hit(0, NoSeq))
            BY <2>1, SameBlocks DEF Index!MatchesForReuse, Index!Miss, u
        <3> QED BY <1>2, <3>1, <3>2
    <2>2. ASSUME u > 0, NEW n \in 0..N, NEW s \in S,
                 Match(tokens) = Index!Hit(n, s), n = 0 \/ n \in AlignedLengths(N),
                 Index!Matches(tokens, Index!Hit(n, s))
          PROVE  \E m \in 0..N, v \in S :
                    /\ ClampedMatch(tokens) = Index!Hit(m, v)
                    /\ Index!MatchesForReuse(tokens, Index!Hit(m, v))
        <3>1. n \in Nat /\ u \in Nat /\ ~(u <= 0)
            BY <1>2, <1>3, <2>2
        <3>2. ClampedMatch(tokens) = Index!Hit(Min({n, u}), s)
            <4>1. ClampedMatch(tokens) = [Match(tokens) EXCEPT !.n_tokens = Min({@, u})]
                BY <3>1 DEF ClampedMatch, u
            <4> QED BY <2>2, <4>1 DEF Index!Hit
        <3>3. CASE n <= u
            <4>1. Min({n, u}) = n
                BY <3>1, <3>3 DEF Min
            <4>2. Index!Hit(n, s).n_tokens = n
                BY DEF Index!Hit
            <4>3. Index!MatchesForReuse(tokens, Index!Hit(n, s))
                BY <2>2, <3>1, <3>3, <4>2, SameBlocks DEF Index!MatchesForReuse, u
            <4> QED BY <3>2, <4>1, <4>3
        <3>4. CASE n > u
            <4>1. Min({n, u}) = u
                BY <3>1, <3>4 DEF Min
            <4>2. Index!Hit(u, s).n_tokens = u /\ Index!Hit(u, s).seq_id = s
                BY DEF Index!Hit
            <4>3. n \in AlignedLengths(N)
                BY <2>2, <3>1, <3>4
            <4>4. Index!MatchesForReuse(tokens, Index!Hit(u, s))
                BY <2>2, <3>1, <3>4, <4>2, <4>3, SameBlocks DEF Index!MatchesForReuse, u
            <4>5. u \in 0..N
                BY <1>2, <1>3, <3>1
            <4> QED BY <3>2, <4>1, <4>4, <4>5
        <3> QED BY <3>1, <3>3, <3>4
    <2>3. CASE u > 0
        <3>1. ASSUME Match(tokens) = Index!Miss, Index!Matches(tokens, Index!Miss)
              PROVE  \E m \in 0..N, v \in S :
                        /\ ClampedMatch(tokens) = Index!Hit(m, v)
                        /\ Index!MatchesForReuse(tokens, Index!Hit(m, v))
            <4>1. 0 \in 0..N /\ NoSeq \in S /\ Index!Miss = Index!Hit(0, NoSeq)
                BY <1>2 DEF Index!Miss
            <4> QED BY <2>2, <2>3, <3>1, <4>1
        <3>2. ASSUME NEW n \in AlignedLengths(N), NEW s \in SeqIds,
                     Match(tokens) = Index!Hit(n, s), Index!Matches(tokens, Index!Hit(n, s))
              PROVE  \E m \in 0..N, v \in S :
                        /\ ClampedMatch(tokens) = Index!Hit(m, v)
                        /\ Index!MatchesForReuse(tokens, Index!Hit(m, v))
            <4>1. n \in 0..N /\ s \in S
                BY <1>2 DEF AlignedLengths
            <4> QED BY <2>2, <2>3, <3>2, <4>1
        <3> QED BY <1>1, <3>1, <3>2, MatchIsMatch
    <2> QED BY <1>3, <2>1, <2>3
<1>5. Returned' = [call |-> "match_for_reuse", hit |-> ClampedMatch(tokens)]
    BY <1>1 DEF Returned
<1>6. Claims' = Claims
    <2>1. \A s \in SeqIds : ClaimOf(s)' = ClaimOf(s)
        BY <1>1 DEF ClaimOf, Inserting, NodesOf, Prefix, Longest
    <2> QED BY <2>1, Zenon DEF Claims
<1>7. Order' = Order
    <2>1. \A s, t \in SeqIds : Newer(s, t)' <=> Newer(s, t)
        BY <1>1 DEF Newer, Inserting, NodesOf, Prefix, Later, InOrder
    <2>2. ASSUME NEW pair \in SeqIds \X SeqIds
          PROVE  Newer(pair[1], pair[2])' <=> Newer(pair[1], pair[2])
        BY <2>1
    <2> QED BY <2>2, Zenon DEF Order
<1>8. PICK n \in 0..N, s \in S :
         /\ ClampedMatch(tokens) = Index!Hit(n, s)
         /\ Index!MatchesForReuse(tokens, Index!Hit(n, s))
    BY <1>4
<1>9. Returned' = [call |-> "match_for_reuse", hit |-> Index!Hit(n, s)]
    BY <1>5, <1>8
<1> QED BY <1>6, <1>7, <1>8, <1>9, Zenon DEF Index!MatchForReuse, Index!indexvars

(* Every step of the tree is a step of the abstract cache or none.         *)
LEMMA RefinesNext ==
    TreeInv /\ [Next]_vars => [Index!Next]_<<Index!indexvars, Returned>>
<1> SUFFICES ASSUME TreeInv, [Next]_vars PROVE Index!Next \/ Silent
    BY DEF Silent
<1>1. ASSUME NEW tokens \in Inputs, MatchForReuse(tokens) PROVE Index!Next
    BY <1>1, RefinesMatch DEF Index!Next
<1>2. ASSUME NEW tokens \in Inputs, NEW s \in SeqIds, Insert(tokens, s) \/ InsertNothing(tokens, s)
      PROVE  Index!Next
    BY <1>2, RefinesInsert, RefinesInsertNothing DEF Index!Next
<1>3. ASSUME NEW s \in SeqIds, Evict(s) PROVE Index!Next
    BY <1>3, RefinesEvict DEF Index!Next
<1>4. ASSUME Close PROVE Index!Next
    BY <1>4, RefinesClose DEF Index!Next
<1>5. ASSUME NEW path \in todo, DropNode(path) \/ AddNode(path) PROVE Silent
    BY <1>5, LoopIsSilent
<1>6. ASSUME EvictReturns \/ StartAdding \/ InsertReturns PROVE Silent
    BY <1>6, EvictReturnsIsSilent, StartIsSilent, InsertReturnsIsSilent
<1>7. ASSUME UNCHANGED vars PROVE Silent
    <2>1. UNCHANGED <<tree, seq_nodes, result, pc, seq, prompt>>
        BY <1>7 DEF vars, treevars, callvars
    <2>2. \A s \in SeqIds : ClaimOf(s)' = ClaimOf(s)
        BY <2>1 DEF ClaimOf, Inserting, NodesOf, Prefix, Longest
    <2>3. \A s, t \in SeqIds : Newer(s, t)' <=> Newer(s, t)
        BY <2>1 DEF Newer, Inserting, NodesOf, Prefix, Later, InOrder
    <2>4. Returned' = Returned
        BY <2>1, Zenon DEF Returned
    <2> QED BY <2>2, <2>3, <2>4, SilentIf
<1> QED BY <1>1, <1>2, <1>3, <1>4, <1>5, <1>6, <1>7 DEF Next

(* The radix tree implements the abstract prefix cache, return values of   *)
(* match_for_reuse(), insert() and evict() included.                       *)
THEOREM TreeImplementsIndex ==
    Spec => ImplementsIndex
BY TreeInvariant, RefinesInit, RefinesNext, PTL DEF Spec, ImplementsIndex, Index!Spec
=============================================================================
