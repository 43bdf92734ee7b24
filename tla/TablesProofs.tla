---------------------------- MODULE TablesProofs ----------------------------
(***************************************************************************)
(* Facts about tables of naturals and their sum that the proofs about the  *)
(* block table, the backlog and the rows of a batch share.  Total() is a   *)
(* cardinality, so each is a fact about the set of units a table has: an   *)
(* entry is a row {r} \X (1..n) of units, disjoint from every other row.   *)
(***************************************************************************)
EXTENDS Tables, FiniteSetTheorems, FunctionTheorems, TLAPS

(* A row of n units for one request is finite and has n elements.          *)
LEMMA RowCardinality ==
    ASSUME NEW r, NEW n \in Nat
    PROVE  /\ IsFiniteSet({r} \X (1..n))
           /\ Cardinality({r} \X (1..n)) = n
<1>1. IsFiniteSet(1..n) /\ Cardinality(1..n) = n
    BY FS_Interval, 1 \in Int, n \in Int
<1>2. IsFiniteSet({r}) /\ Cardinality({r}) = 1
    BY FS_Singleton
<1>3. IsFiniteSet({r} \X (1..n)) /\ Cardinality({r} \X (1..n)) = 1 * n
    BY <1>1, <1>2, FS_Product
<1>4. 1 * n = n
    OBVIOUS
<1> QED BY <1>3, <1>4

(* Adding a row to a finite set of units disjoint from it adds n units.    *)
LEMMA UnitsWith ==
    ASSUME NEW table, NEW r, r \notin DOMAIN table, NEW n \in Nat,
           IsFiniteSet(Units(table))
    PROVE  /\ IsFiniteSet(Units(With(table, r, n)))
           /\ Total(With(table, r, n)) = Total(table) + n
<1> DEFINE row == {r} \X (1..n)
<1>1. Units(With(table, r, n)) = Units(table) \cup row
    BY Zenon DEF Units, With
<1>2. Units(table) \cap row = {}
    BY DEF Units
<1>3. IsFiniteSet(row) /\ Cardinality(row) = n
    BY RowCardinality
<1>4. Cardinality(Units(table)) \in Nat
    BY FS_CardinalityType
<1>5. /\ IsFiniteSet(Units(table) \cup row)
      /\ Cardinality(Units(table) \cup row)
            = Cardinality(Units(table)) + Cardinality(row)
                - Cardinality(Units(table) \cap row)
    BY <1>3, FS_Union
<1> HIDE DEF row
<1>6. Cardinality(Units(table) \cap row) = 0
    BY <1>2, FS_EmptySet
<1>7. Cardinality(Units(table) \cup row) = Cardinality(Units(table)) + n
    BY <1>3, <1>4, <1>5, <1>6
<1> QED BY <1>1, <1>5, <1>7, Zenon DEF Total

(* Removing a row takes away exactly the units it held.                    *)
LEMMA UnitsWithout ==
    ASSUME NEW table, NEW r \in DOMAIN table, table[r] \in Nat,
           IsFiniteSet(Units(table))
    PROVE  /\ IsFiniteSet(Units(Without(table, r)))
           /\ Total(Without(table, r)) + table[r] = Total(table)
<1> DEFINE rest == Without(table, r)
<1>1. r \notin DOMAIN rest
    BY DEF Without
<1>2. Units(rest) \subseteq Units(table)
    BY Zenon DEF Units, Without
<1>3. IsFiniteSet(Units(rest))
    BY <1>2, FS_Subset
<1>4. Total(With(rest, r, table[r])) = Total(rest) + table[r]
    BY <1>1, <1>3, UnitsWith
<1>5. Units(With(rest, r, table[r])) = Units(table)
    BY Zenon DEF Units, With, Without
<1> QED BY <1>3, <1>4, <1>5 DEF Total

(* A unit of a table is a key and a number up to the key's entry.          *)
LEMMA UnitIs ==
    ASSUME NEW table, NEW r, NEW i
    PROVE  <<r, i>> \in Units(table) <=> r \in DOMAIN table /\ i \in 1..table[r]
BY DEF Units

LEMMA UnitPair ==
    ASSUME NEW table, NEW u \in Units(table)
    PROVE  u = <<u[1], u[2]>> /\ u[1] \in DOMAIN table /\ u[2] \in 1..table[u[1]]
<1>1. PICK r \in DOMAIN table : u \in {r} \X (1..table[r])
    BY DEF Units
<1> QED BY <1>1

(* A table whose entries are the sums of two others' has their sum in all. *)
LEMMA TotalSplit ==
    ASSUME NEW f, f \in [DOMAIN f -> Nat], NEW g \in [DOMAIN f -> Nat],
           NEW h \in [DOMAIN f -> Nat],
           \A r \in DOMAIN f : f[r] = g[r] + h[r],
           IsFiniteSet(Units(f))
    PROVE  /\ IsFiniteSet(Units(g)) /\ IsFiniteSet(Units(h))
           /\ Total(g) \in Nat /\ Total(h) \in Nat
           /\ Total(f) = Total(g) + Total(h)
<1> DEFINE D == DOMAIN f
           above == Units(f) \ Units(g)
           shift == [u \in Units(h) |-> <<u[1], g[u[1]] + u[2]>>]
<1>1. Units(g) \subseteq Units(f)
    <2> SUFFICES ASSUME NEW u \in Units(g) PROVE u \in Units(f)
        OBVIOUS
    <2>1. u = <<u[1], u[2]>> /\ u[1] \in D /\ u[2] \in 1..g[u[1]]
        BY UnitPair
    <2>2. u[2] \in 1..f[u[1]]
        BY <2>1
    <2> QED BY <2>1, <2>2, UnitIs
<1>2. ASSUME NEW u \in Units(h)
      PROVE  /\ u = <<u[1], u[2]>> /\ u[1] \in D /\ u[2] \in Nat /\ g[u[1]] \in Nat
             /\ shift[u] = <<u[1], g[u[1]] + u[2]>> /\ shift[u] \in above
    <2>1. u = <<u[1], u[2]>> /\ u[1] \in D /\ u[2] \in 1..h[u[1]]
        BY UnitPair
    <2>2. g[u[1]] + u[2] \in 1..f[u[1]] /\ g[u[1]] + u[2] \notin 1..g[u[1]]
        BY <2>1
    <2>3. DOMAIN g = D /\ DOMAIN h = D
        OBVIOUS
    <2> QED BY <2>1, <2>2, <2>3, UnitIs
<1>3. ASSUME NEW u \in above
      PROVE  \E v \in Units(h) : shift[v] = u
    <2>1. u = <<u[1], u[2]>> /\ u[1] \in D /\ u[2] \in 1..f[u[1]]
        BY UnitPair
    <2>2. u[2] \notin 1..g[u[1]]
        BY <2>1, UnitIs
    <2>3. u[2] - g[u[1]] \in 1..h[u[1]] /\ g[u[1]] + (u[2] - g[u[1]]) = u[2]
        BY <2>1, <2>2
    <2> DEFINE v == <<u[1], u[2] - g[u[1]]>>
    <2>4. v \in Units(h)
        BY <2>1, <2>3, UnitIs
    <2>5. shift[v] = <<v[1], g[v[1]] + v[2]>> /\ v[1] = u[1] /\ v[2] = u[2] - g[u[1]]
        BY <2>4
    <2> HIDE DEF v, shift
    <2> QED BY <2>1, <2>3, <2>4, <2>5
<1>4. ExistsBijection(Units(h), above)
    <2>1. shift \in [Units(h) -> above]
        BY <1>2
    <2>2. ASSUME NEW u \in Units(h), NEW v \in Units(h), shift[u] = shift[v]
          PROVE  u = v
        <3> HIDE DEF shift
        <3>1. u[1] = v[1] /\ g[u[1]] + u[2] = g[v[1]] + v[2]
            <4>1. <<u[1], g[u[1]] + u[2]>> = <<v[1], g[v[1]] + v[2]>>
                BY <1>2, <2>2
            <4> QED BY <4>1
        <3>2. u[2] = v[2]
            <4>1. u[2] \in Nat /\ v[2] \in Nat /\ g[u[1]] \in Nat /\ g[u[1]] = g[v[1]]
                BY <1>2, <3>1
            <4> DEFINE m == g[u[1]] i == u[2] j == v[2]
            <4>2. m + i = m + j /\ m \in Nat /\ i \in Nat /\ j \in Nat
                BY <3>1, <4>1, Zenon
            <4> HIDE DEF m, i, j
            <4>3. i = j
                BY <4>2
            <4> QED BY <4>3 DEF i, j
        <3> QED BY <1>2, <3>1, <3>2
    <2> HIDE DEF shift, above
    <2>3. shift \in Bijection(Units(h), above)
        BY <1>3, <2>1, <2>2, Fun_IsBij
    <2> QED BY <2>3, Fun_ExistsBij
<1>5. IsFiniteSet(Units(g)) /\ IsFiniteSet(above) /\ Units(f) \cap Units(g) = Units(g)
    BY <1>1, FS_Subset, FS_Difference
<1>6. Cardinality(above) = Cardinality(Units(f)) - Cardinality(Units(g))
    <2>1. Cardinality(Units(f) \ Units(g))
              = Cardinality(Units(f)) - Cardinality(Units(f) \cap Units(g))
        BY FS_Difference
    <2> QED BY <1>5, <2>1, Zenon
<1>7. IsFiniteSet(Units(h)) /\ Cardinality(above) = Cardinality(Units(h))
    <2> HIDE DEF above
    <2>1. ExistsBijection(above, Units(h))
        BY <1>4, Fun_ExistsBijSymmetric
    <2> QED BY <1>5, <2>1, FS_Bijection
<1>8. /\ Cardinality(Units(f)) \in Nat /\ Cardinality(Units(g)) \in Nat
      /\ Cardinality(Units(h)) \in Nat
    BY <1>5, <1>7, FS_CardinalityType
<1> HIDE DEF above
<1> QED BY <1>5, <1>6, <1>7, <1>8 DEF Total

(* Filling in an entry that was zero.                                      *)
LEMMA TotalReplace ==
    ASSUME NEW D, NEW f \in [D -> Nat], NEW r \in D, f[r] = 0, NEW n \in Nat,
           IsFiniteSet(Units(f))
    PROVE  Total([f EXCEPT ![r] = n]) = Total(f) + n
<1>1. [f EXCEPT ![r] = n] = With(Without(f, r), r, n)
    BY DEF With, Without
<1>2. IsFiniteSet(Units(Without(f, r))) /\ Total(Without(f, r)) + 0 = Total(f)
    BY UnitsWithout
<1>3. r \notin DOMAIN Without(f, r)
    BY DEF Without
<1>4. Total(With(Without(f, r), r, n)) = Total(Without(f, r)) + n
    BY <1>2, <1>3, UnitsWith
<1>5. Total(Without(f, r)) \in Nat
    BY <1>2, FS_CardinalityType DEF Total
<1>6. Total(Without(f, r)) = Total(f)
    BY <1>2, <1>5
<1> QED BY <1>1, <1>4, <1>6
-----------------------------------------------------------------------------
(* The rank of an element: how many are no greater.                        *)
UpTo(S, i) == {j \in S : j <= i}

(* Every rank is taken, since distinct elements have distinct ranks.       *)
LEMMA EveryRank ==
    ASSUME NEW S \in SUBSET Nat, IsFiniteSet(S), NEW k \in 1..Cardinality(S)
    PROVE  \E i \in S : Cardinality(UpTo(S, i)) = k
<1> DEFINE n == Cardinality(S)
           rank == [i \in S |-> Cardinality(UpTo(S, i))]
<1>1. n \in Nat
    BY FS_CardinalityType
<1>2. ASSUME NEW i \in S
      PROVE  /\ IsFiniteSet(UpTo(S, i)) /\ Cardinality(UpTo(S, i)) \in 1..n
    <2>1. UpTo(S, i) \in SUBSET S /\ i \in UpTo(S, i)
        BY DEF UpTo
    <2>2. /\ IsFiniteSet(UpTo(S, i)) /\ Cardinality(UpTo(S, i)) <= n
          /\ Cardinality(UpTo(S, i)) \in Nat
        BY <2>1, FS_Subset, FS_CardinalityType
    <2>3. Cardinality(UpTo(S, i)) # 0
        BY <2>1, <2>2, FS_EmptySet
    <2> QED BY <1>1, <2>2, <2>3
<1>3. ASSUME NEW i \in S, NEW j \in S, i < j
      PROVE  Cardinality(UpTo(S, i)) < Cardinality(UpTo(S, j))
    <2>0. i \in Nat /\ j \in Nat /\ \A x \in S : x \in Nat
        OBVIOUS
    <2>1. UpTo(S, i) \in SUBSET UpTo(S, j) /\ UpTo(S, i) # UpTo(S, j)
        <3>1. \A x \in UpTo(S, i) : x \in UpTo(S, j)
            BY <1>3, <2>0 DEF UpTo
        <3>2. j \in UpTo(S, j) /\ j \notin UpTo(S, i)
            BY <1>3, <2>0 DEF UpTo
        <3> QED BY <3>1, <3>2
    <2>2. /\ Cardinality(UpTo(S, i)) <= Cardinality(UpTo(S, j))
          /\ Cardinality(UpTo(S, i)) # Cardinality(UpTo(S, j))
        BY <1>2, <2>1, FS_Subset
    <2> QED BY <1>2, <2>2
<1>4. rank \in Injection(S, 1..n)
    <2>1. rank \in [S -> 1..n]
        BY <1>2
    <2>2. ASSUME NEW i \in S, NEW j \in S, rank[i] = rank[j]
          PROVE  i = j
        <3>1. i \in Nat /\ j \in Nat /\ rank[i] \in Nat /\ rank[j] \in Nat
            BY <1>1, <2>1
        <3>2. ~(i < j) /\ ~(j < i)
            BY <1>3, <2>2, <3>1
        <3> QED BY <3>1, <3>2
    <2> QED BY <2>1, <2>2 DEF Injection, IsInjective
<1>5. IsFiniteSet(1..n) /\ Cardinality(1..n) = n
    BY <1>1, FS_Interval
<1>6. rank \in Surjection(S, 1..n)
    BY <1>4, <1>5, FS_Injection
<1>7. \E i \in S : rank[i] = k
    BY <1>6 DEF Surjection
<1> QED BY <1>7

(* A finite set of naturals has a smallest and a largest element.          *)
LEMMA Extremes ==
    ASSUME NEW S \in SUBSET Nat, IsFiniteSet(S), S # {}
    PROVE  /\ \E i \in S : \A x \in S : i <= x
           /\ \E i \in S : \A x \in S : x <= i
<1>1. Cardinality(S) \in Nat /\ Cardinality(S) # 0
    BY FS_CardinalityType, FS_EmptySet
<1>2. \E i \in S : \A x \in S : i <= x
    <2>1. PICK i \in S : Cardinality(UpTo(S, i)) = 1
        BY <1>1, EveryRank
    <2>2. UpTo(S, i) \in SUBSET S /\ i \in UpTo(S, i)
        BY DEF UpTo
    <2>3. PICK y : UpTo(S, i) = {y}
        BY <2>1, <2>2, FS_Subset, FS_Singleton
    <2>4. ASSUME NEW x \in S PROVE i <= x
        BY <2>2, <2>3 DEF UpTo
    <2> QED BY <2>4
<1>3. \E i \in S : \A x \in S : x <= i
    <2>1. PICK i \in S : Cardinality(UpTo(S, i)) = Cardinality(S)
        BY <1>1, EveryRank
    <2>2. UpTo(S, i) \in SUBSET S
        BY DEF UpTo
    <2>3. UpTo(S, i) = S
        BY <2>1, <2>2, FS_Subset
    <2> QED BY <2>3 DEF UpTo
<1> QED BY <1>2, <1>3
=============================================================================
