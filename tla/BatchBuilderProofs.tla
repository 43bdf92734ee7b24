------------------------- MODULE BatchBuilderProofs -------------------------
(***************************************************************************)
(* build_batch keeps its contract for every backlog, every number of       *)
(* sequences and every sorted order of them: BatchLoop may decode any      *)
(* batch IsPrepared allows, and this is the reason.                        *)
(*                                                                         *)
(* The invariant describes the loop between two iterations.  BlockInv says *)
(* where the rows of each sequence are; ServedInv says that capacity and   *)
(* rows add up, that whoever is still to be visited has no row and no less *)
(* pending than those visited, and that nobody was cut short unless the    *)
(* capacity is used up.                                                    *)
(***************************************************************************)
EXTENDS BatchBuilder, TablesProofs, SequenceTheorems

Row == [seq_id : Seqs, token : Nat, pos : Nat, needs_logits : BOOLEAN]

RowsOf(s) == {i \in DOMAIN rows : rows[i].seq_id = s}

(* The sequences not yet visited.                                          *)
Left == {ordered[i] : i \in 1..Len(ordered)}

taken == [s \in Seqs |-> row_count(s)]

Squeezed(s) == row_count(s) < Slice(pending[s])

BuilderTypeOK ==
    /\ pending \in [Seqs -> Nat] /\ n_past \in [Seqs -> Nat]
    /\ ordered \in Seq(Seqs)
    /\ remaining \in Nat
    /\ rows \in Seq(Row)

(* The k-th row of a sequence that got n.                                  *)
NthRow(s, k, n) ==
    [seq_id |-> s, token |-> k, pos |-> n_past[s] + k - 1,
     needs_logits |-> n = pending[s] /\ k = n]

(* The rows of s are the n rows after the first b.                         *)
Block(s, b, n) ==
    /\ RowsOf(s) = (b + 1)..(b + n)
    /\ \A k \in 1..n : rows[b + k] = NthRow(s, k, n)

BlockInv == \A s \in Seqs : \E b, n \in Nat : Block(s, b, n)

OrderInv ==
    /\ \A i, j \in 1..Len(ordered) : ordered[i] = ordered[j] => i = j
    /\ Sorted(ordered)
    /\ \A s \in Seqs \ Left, t \in Left : pending[s] <= pending[t]

ServedInv ==
    /\ IsFiniteSet(Units(taken))
    /\ remaining + Total(taken) = BatchCapacity
    /\ \A s \in Left : row_count(s) = 0
    /\ \A s \in Seqs \ Left : row_count(s) <= Slice(pending[s])
    /\ \A s \in Seqs \ Left : Squeezed(s) =>
          /\ remaining = 0
          /\ \A t \in Seqs : pending[t] > pending[s] => row_count(t) = 0
    /\ \A s, t \in Seqs \ Left :
          Squeezed(s) /\ Squeezed(t) /\ row_count(s) > 0 /\ row_count(t) > 0 => s = t

BuilderInv == BuilderTypeOK /\ BlockInv /\ OrderInv /\ ServedInv
-----------------------------------------------------------------------------
LEMMA MinOfTwo ==
    ASSUME NEW a \in Nat, NEW b \in Nat
    PROVE  Min({a, b}) = IF a <= b THEN a ELSE b
<1>1. \E x \in {a, b} : \A y \in {a, b} : x <= y
    OBVIOUS
<1>2. Min({a, b}) \in {a, b} /\ \A y \in {a, b} : Min({a, b}) <= y
    BY <1>1 DEF Min
<1> QED BY <1>2

LEMMA SliceNat ==
    ASSUME NEW n \in Nat
    PROVE  Slice(n) \in Nat /\ Slice(n) <= n /\ (n > 0 => Slice(n) > 0)
BY BatchAssumption DEF Slice

(* A block of n rows counts n.                                             *)
LEMMA BlockCount ==
    ASSUME NEW s, NEW b \in Nat, NEW n \in Nat, RowsOf(s) = (b + 1)..(b + n)
    PROVE  row_count(s) = n
<1>1. Cardinality((b + 1)..(b + n)) = n
    <2>1. b + 1 \in Int /\ b + n \in Int
        OBVIOUS
    <2>2. Cardinality((b + 1)..(b + n))
              = IF b + 1 > b + n THEN 0 ELSE (b + n) - (b + 1) + 1
        BY <2>1, FS_Interval
    <2> QED BY <2>2
<1> QED BY <1>1 DEF row_count, RowsOf

LEMMA CountNat ==
    ASSUME BlockInv, NEW s \in Seqs
    PROVE  row_count(s) \in Nat
<1>1. PICK b \in Nat, n \in Nat : Block(s, b, n)
    BY DEF BlockInv
<1>2. row_count(s) = n
    BY <1>1, BlockCount DEF Block
<1> QED BY <1>2

(* Visiting a sequence takes it, and no other, off the list.               *)
LEMMA Visited ==
    ASSUME BuilderTypeOK, OrderInv, ordered # <<>>, ordered' = Tail(ordered),
           pending' = pending
    PROVE  /\ Head(ordered) \in Seqs /\ Head(ordered) \in Left
           /\ Left' = Left \ {Head(ordered)} /\ Left \subseteq Seqs
           /\ \A t \in Left : pending[Head(ordered)] <= pending[t]
           /\ ordered' \in Seq(Seqs) /\ OrderInv'
<1>1. /\ ordered' \in Seq(Seqs) /\ Len(ordered') = Len(ordered) - 1
      /\ \A i \in 1..Len(ordered') : ordered'[i] = ordered[i + 1]
    BY HeadTailProperties DEF BuilderTypeOK
<1>2. /\ Len(ordered) \in Nat /\ Len(ordered) >= 1 /\ Head(ordered) = ordered[1]
      /\ DOMAIN ordered = 1..Len(ordered) /\ DOMAIN ordered' = 1..Len(ordered')
      /\ \A i \in 1..Len(ordered) : ordered[i] \in Seqs
    BY <1>1 DEF BuilderTypeOK
<1>3. Left' = Left \ {Head(ordered)}
    <2>1. ASSUME NEW i \in 1..Len(ordered')
          PROVE  ordered'[i] \in Left /\ ordered'[i] # Head(ordered)
        BY <1>1, <1>2 DEF Left, OrderInv
    <2>2. ASSUME NEW i \in 1..Len(ordered), ordered[i] # Head(ordered)
          PROVE  \E j \in 1..Len(ordered') : ordered'[j] = ordered[i]
        <3>1. i # 1 /\ i - 1 \in 1..Len(ordered') /\ ordered'[i - 1] = ordered[(i - 1) + 1]
            BY <1>1, <1>2, <2>2
        <3>2. (i - 1) + 1 = i
            OBVIOUS
        <3> QED BY <3>1, <3>2, Zenon
    <2>3. ASSUME NEW s \in Left \ {Head(ordered)}
          PROVE  s \in Left'
        <3>1. PICK i \in 1..Len(ordered) : s = ordered[i]
            BY DEF Left
        <3>2. PICK j \in 1..Len(ordered') : ordered'[j] = ordered[i]
            BY <2>2, <2>3, <3>1
        <3> QED BY <3>1, <3>2 DEF Left
    <2>4. ASSUME NEW s \in Left'
          PROVE  s \in Left \ {Head(ordered)}
        <3>1. PICK i \in 1..Len(ordered') : s = ordered'[i]
            BY <2>4 DEF Left
        <3> QED BY <2>1, <3>1
    <2> QED BY <2>3, <2>4
<1>4. \A t \in Left : pending[Head(ordered)] <= pending[t]
    <2>1. ASSUME NEW i \in 1..Len(ordered)
          PROVE  pending[ordered[1]] <= pending[ordered[i]]
        <3>1. CASE i = 1
            BY <1>2, <3>1 DEF BuilderTypeOK
        <3>2. CASE i # 1
            BY <1>2, <3>2 DEF OrderInv, Sorted
        <3> QED BY <3>1, <3>2
    <2> QED BY <1>2, <2>1 DEF Left
<1>5. OrderInv'
    <2>1. \A i, j \in 1..Len(ordered') : ordered'[i] = ordered'[j] => i = j
        BY <1>1, <1>2 DEF OrderInv
    <2>2. Sorted(ordered)'
        BY <1>1, <1>2 DEF OrderInv, Sorted
    <2>3. ASSUME NEW s \in Seqs \ Left', NEW t \in Left'
          PROVE  pending[s] <= pending[t]
        <3>1. t \in Left /\ s \in Seqs /\ (s \in Seqs \ Left \/ s = Head(ordered))
            BY <1>3, <2>3
        <3>2. \A x \in Seqs \ Left, y \in Left : pending[x] <= pending[y]
            BY DEF OrderInv
        <3> QED BY <1>4, <3>1, <3>2, Zenon
    <2> QED BY <2>1, <2>2, <2>3 DEF OrderInv
<1>6. Head(ordered) \in Seqs /\ Head(ordered) \in Left /\ Left \subseteq Seqs
    BY <1>2 DEF Left
<1> QED BY <1>1, <1>3, <1>4, <1>5, <1>6
-----------------------------------------------------------------------------
LEMMA BuilderInit == Init => BuilderInv
<1> SUFFICES ASSUME Init PROVE BuilderInv
    OBVIOUS
<1>1. Cardinality(Seqs) \in Nat
    BY BuilderAssumption, FS_CardinalityType
<1> DEFINE D == 1..Cardinality(Seqs)
<1>2. /\ ordered \in [D -> Seqs] /\ Sorted(ordered)
      /\ \A i, j \in D : i # j => ordered[i] # ordered[j]
    BY DEF Init, SetToSeqs
<1>3. ordered \in Seq(Seqs) /\ Len(ordered) = Cardinality(Seqs)
    BY <1>1, <1>2
<1>4. BuilderTypeOK
    BY <1>3, BuilderAssumption, BatchAssumption DEF Init, BuilderTypeOK
<1>5. Left = Seqs
    <2>1. ordered \in Injection(D, Seqs)
        BY <1>2, Fun_IsInj
    <2>2. IsFiniteSet(D) /\ Cardinality(D) = Cardinality(Seqs)
        BY <1>1, FS_Interval
    <2>3. ordered \in Surjection(D, Seqs)
        BY <2>1, <2>2, FS_Injection, BuilderAssumption
    <2> QED BY <1>2, <1>3, <2>3, Fun_SurjectionProperties DEF Left
<1>6. OrderInv
    BY <1>2, <1>3, <1>5 DEF OrderInv
<1>7. \A s \in Seqs : RowsOf(s) = {} /\ row_count(s) = 0
    BY FS_EmptySet DEF Init, RowsOf, row_count
<1>8. BlockInv
    <2>1. ASSUME NEW s \in Seqs PROVE Block(s, 0, 0)
        BY <1>7 DEF Block
    <2> QED BY <2>1 DEF BlockInv
<1>9. ServedInv
    <2>1. Units(taken) = {}
        BY <1>7 DEF Units, taken
    <2>2. IsFiniteSet(Units(taken)) /\ Total(taken) = 0
        BY <2>1, FS_EmptySet DEF Total
    <2> QED BY <1>5, <1>7, <2>2, BatchAssumption DEF Init, ServedInv
<1> QED BY <1>4, <1>6, <1>8, <1>9 DEF BuilderInv

LEMMA SkipInv ==
    ASSUME BuilderInv, Skip
    PROVE  BuilderInv'
<1> DEFINE h == Head(ordered)
<1>1. /\ h \in Seqs /\ h \in Left /\ Left' = Left \ {h} /\ Left \subseteq Seqs
      /\ \A t \in Left : pending[h] <= pending[t]
      /\ ordered' \in Seq(Seqs) /\ OrderInv'
    BY Visited DEF Skip, BuilderInv
<1>2. /\ UNCHANGED <<pending, n_past, remaining, rows>>
      /\ pending[h] = 0 \/ remaining <= 0
    BY DEF Skip
<1> HIDE DEF h
<1>3. BuilderTypeOK'
    BY <1>1, <1>2 DEF BuilderInv, BuilderTypeOK
<1>4. BlockInv'
    <2>1. ASSUME NEW s \in Seqs, NEW b \in Nat, NEW n \in Nat, Block(s, b, n)
          PROVE  Block(s, b, n)'
        BY <1>2, <2>1 DEF Block, RowsOf, NthRow
    <2> QED BY <2>1 DEF BuilderInv, BlockInv
<1>5. \A s : row_count(s)' = row_count(s)
    BY <1>2 DEF row_count
<1>6. taken' = taken /\ Units(taken)' = Units(taken) /\ Total(taken)' = Total(taken)
    BY <1>5 DEF taken, Units, Total
<1>7. row_count(h) = 0 /\ pending[h] \in Nat /\ remaining \in Nat
    BY <1>1 DEF BuilderInv, ServedInv, BuilderTypeOK
<1>8. row_count(h) <= Slice(pending[h]) /\ (Squeezed(h) => remaining = 0)
    BY <1>2, <1>7, SliceNat DEF Squeezed
<1>9. ASSUME NEW t \in Seqs, pending[t] > pending[h]
      PROVE  row_count(t) = 0
    <2>1. t \in Left
        BY <1>1, <1>7, <1>9 DEF BuilderInv, OrderInv, BuilderTypeOK
    <2> QED BY <2>1 DEF BuilderInv, ServedInv
<1>10. ServedInv'
    <2>1. \A s : Squeezed(s)' = Squeezed(s)
        BY <1>2, <1>5 DEF Squeezed
    <2>2. (IsFiniteSet(Units(taken)) /\ remaining + Total(taken) = BatchCapacity)'
        BY <1>2, <1>6 DEF BuilderInv, ServedInv
    <2>3. \A s \in Left' : row_count(s)' = 0
        BY <1>1, <1>5 DEF BuilderInv, ServedInv
    <2>4. \A s \in Seqs \ Left' : row_count(s)' <= Slice(pending'[s])
        BY <1>1, <1>2, <1>5, <1>8 DEF BuilderInv, ServedInv
    <2>5. \A s \in Seqs \ Left' : Squeezed(s)' =>
             /\ remaining' = 0
             /\ \A t \in Seqs : pending'[t] > pending'[s] => row_count(t)' = 0
        BY <1>1, <1>2, <1>5, <1>8, <1>9, <2>1 DEF BuilderInv, ServedInv
    <2>6. ASSUME NEW s \in Seqs \ Left', NEW t \in Seqs \ Left',
                 Squeezed(s)', Squeezed(t)', row_count(s)' > 0, row_count(t)' > 0
          PROVE  s = t
        <3>1. s # h /\ t # h
            BY <1>5, <1>7, <2>6
        <3> QED BY <1>1, <1>5, <2>1, <2>6, <3>1 DEF BuilderInv, ServedInv
    <2> QED BY <2>2, <2>3, <2>4, <2>5, <2>6 DEF ServedInv
<1> QED BY <1>1, <1>3, <1>4, <1>10 DEF BuilderInv

(* What an iteration that takes k tokens does to the rows.                 *)
LEMMA TakeRows ==
    ASSUME BuilderTypeOK, BlockInv, NEW h \in Seqs, row_count(h) = 0, NEW k \in Nat,
           k > 0, k <= pending[h], rows' = rows \o SliceRows(h, k),
           UNCHANGED <<pending, n_past>>
    PROVE  /\ rows' \in Seq(Row) /\ BlockInv'
           /\ row_count(h)' = k
           /\ \A s \in Seqs \ {h} : row_count(s)' = row_count(s)
<1> DEFINE slice == SliceRows(h, k)
<1> PICK m : m = Len(rows)
    OBVIOUS
<1>1. /\ slice \in Seq(Row) /\ Len(slice) = k
      /\ \A i \in 1..k : slice[i] = NthRow(h, i, k)
    <2>1. ASSUME NEW i \in 1..k
          PROVE  NthRow(h, i, k) \in Row
        BY DEF NthRow, Row, BuilderTypeOK
    <2>2. slice = [i \in 1..k |-> NthRow(h, i, k)]
        <3>1. ASSUME NEW i \in 1..k
              PROVE  NthRow(h, i, k) = [seq_id |-> h, token |-> i, pos |-> n_past[h] + i - 1,
                                        needs_logits |-> k = pending[h] /\ i = k]
            BY DEF NthRow
        <3> QED BY <3>1 DEF SliceRows
    <2> HIDE DEF slice
    <2> QED BY <2>1, <2>2
<1>2. m \in Nat /\ DOMAIN rows = 1..m /\ \A i \in 1..m : rows[i] \in Row
    BY DEF BuilderTypeOK
<1>3. /\ rows' \in Seq(Row) /\ Len(rows') = m + k
      /\ \A i \in 1..(m + k) : rows'[i] = IF i <= m THEN rows[i] ELSE slice[i - m]
    <2>1. rows' = rows \o slice /\ rows \in Seq(Row)
        BY DEF BuilderTypeOK
    <2> HIDE DEF slice
    <2>2. /\ rows' \in Seq(Row) /\ Len(rows') = Len(rows) + Len(slice)
          /\ \A i \in 1..(Len(rows) + Len(slice)) :
                rows'[i] = IF i <= Len(rows) THEN rows[i] ELSE slice[i - Len(rows)]
        <3> DEFINE both == rows \o slice
        <3>1. /\ both \in Seq(Row) /\ Len(both) = Len(rows) + Len(slice)
              /\ \A i \in 1..(Len(rows) + Len(slice)) :
                    both[i] = IF i <= Len(rows) THEN rows[i] ELSE slice[i - Len(rows)]
            BY <1>1, <2>1, ConcatProperties, Zenon
        <3> QED BY <2>1, <3>1, Zenon
    <2> QED BY <1>1, <2>2
<1>4. DOMAIN rows' = 1..(m + k)
    BY <1>2, <1>3
<1> HIDE DEF slice
<1>5. \A i \in 1..m : rows'[i] = rows[i]
    BY <1>2, <1>3
<1>6. ASSUME NEW i \in 1..k
      PROVE  m + i \in 1..(m + k) /\ rows'[m + i] = NthRow(h, i, k)
    <2>1. m + i \in 1..(m + k) /\ ~(m + i <= m) /\ (m + i) - m = i
        BY <1>2
    <2>2. rows'[m + i] = slice[(m + i) - m]
        BY <1>3, <2>1
    <2> QED BY <1>1, <2>1, <2>2
<1>7. ASSUME NEW i \in 1..(m + k), i \notin 1..m
      PROVE  rows'[i].seq_id = h
    <2>1. i - m \in 1..k /\ m + (i - m) = i
        BY <1>2, <1>7
    <2>2. rows'[i] = NthRow(h, i - m, k)
        BY <1>6, <2>1
    <2> QED BY <2>2 DEF NthRow
<1>8. RowsOf(h) = {}
    <2>1. PICK b \in Nat, n \in Nat : Block(h, b, n)
        BY DEF BlockInv
    <2>2. n = 0
        BY <2>1, BlockCount DEF Block
    <2> QED BY <2>1, <2>2 DEF Block
<1>9. Block(h, m, k)'
    <2>1. RowsOf(h)' = (m + 1)..(m + k)
        <3>1. ASSUME NEW i \in RowsOf(h)'
              PROVE  i \in (m + 1)..(m + k)
            <4>1. i \in 1..(m + k) /\ rows'[i].seq_id = h
                BY <1>4, <3>1 DEF RowsOf
            <4>2. i \notin 1..m
                BY <1>2, <1>5, <1>8, <4>1 DEF RowsOf
            <4> QED BY <1>2, <4>1, <4>2
        <3>2. ASSUME NEW i \in (m + 1)..(m + k)
              PROVE  i \in RowsOf(h)'
            <4>1. i \in 1..(m + k) /\ i \notin 1..m
                BY <1>2
            <4> QED BY <1>4, <1>7, <4>1 DEF RowsOf
        <3> QED BY <3>1, <3>2
    <2>2. \A i \in 1..k : rows'[m + i] = NthRow(h, i, k)'
        BY <1>6 DEF NthRow
    <2> QED BY <2>1, <2>2 DEF Block
<1>10. row_count(h)' = k
    <2>1. RowsOf(h)' = (m + 1)..(m + k)
        BY <1>9 DEF Block
    <2>2. Cardinality((m + 1)..(m + k)) = k
        <3>1. m + 1 \in Int /\ m + k \in Int
            BY <1>2
        <3>2. Cardinality((m + 1)..(m + k))
                  = IF m + 1 > m + k THEN 0 ELSE (m + k) - (m + 1) + 1
            BY <3>1, FS_Interval
        <3> QED BY <1>2, <3>2
    <2> QED BY <2>1, <2>2 DEF row_count, RowsOf
<1>11. ASSUME NEW s \in Seqs \ {h}
       PROVE  RowsOf(s)' = RowsOf(s) /\ row_count(s)' = row_count(s)
    <2>1. RowsOf(s)' = RowsOf(s)
        <3>1. ASSUME NEW i \in RowsOf(s)'
              PROVE  i \in RowsOf(s)
            <4>1. i \in 1..(m + k) /\ rows'[i].seq_id = s
                BY <1>4, <3>1 DEF RowsOf
            <4>2. i \in 1..m
                BY <1>7, <4>1
            <4> QED BY <1>2, <1>5, <4>1, <4>2 DEF RowsOf
        <3>2. ASSUME NEW i \in RowsOf(s)
              PROVE  i \in RowsOf(s)'
            <4>1. i \in 1..m /\ i \in 1..(m + k) /\ rows[i].seq_id = s
                BY <1>2, <3>2 DEF RowsOf
            <4> QED BY <1>4, <1>5, <4>1 DEF RowsOf
        <3> QED BY <3>1, <3>2
    <2> QED BY <2>1 DEF row_count, RowsOf
<1>12. BlockInv'
    <2>1. ASSUME NEW s \in Seqs
          PROVE  \E b, n \in Nat : Block(s, b, n)'
        <3>1. CASE s = h
            BY <1>2, <1>9, <3>1
        <3>2. CASE s # h
            <4>1. PICK b \in Nat, n \in Nat : Block(s, b, n)
                BY DEF BlockInv
            <4>2. ASSUME NEW i \in 1..n
                  PROVE  rows'[b + i] = NthRow(s, i, n)'
                <5>1. b + i \in RowsOf(s)
                    BY <4>1 DEF Block
                <5>2. b + i \in 1..m
                    BY <1>2, <5>1 DEF RowsOf
                <5>3. rows'[b + i] = NthRow(s, i, n)
                    BY <1>5, <4>1, <5>2 DEF Block
                <5> QED BY <5>3 DEF NthRow
            <4>3. RowsOf(s)' = (b + 1)..(b + n)
                BY <1>11, <3>2, <4>1 DEF Block
            <4>4. Block(s, b, n)'
                BY <4>2, <4>3 DEF Block
            <4> QED BY <4>4
        <3> QED BY <3>1, <3>2
    <2> QED BY <2>1 DEF BlockInv
<1> QED BY <1>3, <1>10, <1>11, <1>12

LEMMA TakeInv ==
    ASSUME BuilderInv, Take
    PROVE  BuilderInv'
<1>h. PICK h : h = Head(ordered)
    OBVIOUS
<1>k. PICK k : k = Min({Slice(pending[h]), remaining})
    OBVIOUS
<1>1. /\ h \in Seqs /\ h \in Left /\ Left' = Left \ {h} /\ Left \subseteq Seqs
      /\ \A t \in Left : pending[h] <= pending[t]
      /\ ordered' \in Seq(Seqs) /\ OrderInv'
    BY <1>h, Visited DEF Take, BuilderInv
<1>2. /\ UNCHANGED <<pending, n_past>> /\ pending[h] > 0 /\ remaining > 0
      /\ rows' = rows \o SliceRows(h, k) /\ remaining' = remaining - k
    BY <1>h, <1>k DEF Take
<1>3. /\ pending[h] \in Nat /\ remaining \in Nat /\ row_count(h) = 0
      /\ Slice(pending[h]) \in Nat
    BY <1>1, SliceNat DEF BuilderInv, BuilderTypeOK, ServedInv
<1>4. /\ k \in Nat /\ k > 0 /\ k <= pending[h] /\ k <= Slice(pending[h])
      /\ k <= remaining /\ (k < Slice(pending[h]) => k = remaining)
    <2>1. k = IF Slice(pending[h]) <= remaining THEN Slice(pending[h]) ELSE remaining
        BY <1>k, <1>3, MinOfTwo
    <2> DEFINE c == Slice(pending[h])
    <2>2. c \in Nat /\ c <= pending[h] /\ c > 0
        BY <1>2, <1>3, SliceNat
    <2>3. k = IF c <= remaining THEN c ELSE remaining
        BY <2>1
    <2> HIDE DEF c
    <2>4. /\ k \in Nat /\ k > 0 /\ k <= pending[h] /\ k <= c
          /\ k <= remaining /\ (k < c => k = remaining)
        BY <1>2, <1>3, <2>2, <2>3
    <2> QED BY <2>4 DEF c
<1>5. /\ rows' \in Seq(Row) /\ BlockInv' /\ row_count(h)' = k
      /\ \A s \in Seqs \ {h} : row_count(s)' = row_count(s)
    BY <1>1, <1>2, <1>3, <1>4, TakeRows DEF BuilderInv
<1>6. BuilderTypeOK'
    BY <1>1, <1>2, <1>3, <1>4, <1>5 DEF BuilderInv, BuilderTypeOK
<1>7. /\ IsFiniteSet(Units(taken)')
      /\ Total(taken)' = Total(taken) + k
    <2>1. taken \in [Seqs -> Nat] /\ taken[h] = 0
        BY <1>1, <1>3, CountNat DEF taken, BuilderInv
    <2>2. taken' = [taken EXCEPT ![h] = k]
        BY <1>1, <1>5 DEF taken
    <2>3. taken' = With(Without(taken, h), h, k)
        BY <1>1, <2>1, <2>2 DEF With, Without
    <2>4. /\ IsFiniteSet(Units(Without(taken, h)))
          /\ h \notin DOMAIN Without(taken, h)
        BY <1>1, <2>1, UnitsWithout DEF BuilderInv, ServedInv, Without
    <2>5. IsFiniteSet(Units(taken'))
        BY <1>4, <2>3, <2>4, UnitsWith
    <2>6. Total(taken') = Total(taken) + k
        BY <1>1, <1>4, <2>1, <2>2, TotalReplace DEF BuilderInv, ServedInv
    <2> QED BY <2>5, <2>6 DEF Total, Units
<1>8. Total(taken) \in Nat /\ remaining + Total(taken) = BatchCapacity
    BY FS_CardinalityType DEF BuilderInv, ServedInv, Total
<1>9. remaining' + Total(taken)' = BatchCapacity
    <2> DEFINE x == Total(taken) y == Total(taken)'
    <2>1. x \in Nat /\ remaining + x = BatchCapacity /\ y = x + k
        BY <1>7, <1>8
    <2> HIDE DEF x, y
    <2>2. remaining' + y = BatchCapacity
        BY <1>2, <1>3, <1>4, <2>1, BatchAssumption
    <2> QED BY <2>2 DEF y
<1>10. ASSUME NEW s \in Seqs \ Left
       PROVE  ~Squeezed(s) /\ ~Squeezed(s)'
    <2>1. ~Squeezed(s)
        BY <1>2, <1>3 DEF BuilderInv, ServedInv
    <2> QED BY <1>1, <1>2, <1>5, <2>1 DEF Squeezed
<1>11. ASSUME NEW t \in Seqs, pending[t] > pending[h]
       PROVE  row_count(t)' = 0
    <2>1. t \in Left /\ t # h
        BY <1>1, <1>3, <1>11 DEF BuilderInv, OrderInv, BuilderTypeOK
    <2> QED BY <1>5, <2>1 DEF BuilderInv, ServedInv
<1>12. ServedInv'
    <2>1. \A s \in Left' : row_count(s)' = 0
        BY <1>1, <1>5 DEF BuilderInv, ServedInv
    <2>2. ASSUME NEW s \in Seqs \ Left'
          PROVE  row_count(s)' <= Slice(pending'[s])
        <3>1. CASE s = h
            BY <1>2, <1>4, <1>5, <3>1
        <3>2. CASE s # h
            BY <1>1, <1>2, <1>5, <3>2 DEF BuilderInv, ServedInv
        <3> QED BY <3>1, <3>2
    <2>3. ASSUME NEW s \in Seqs \ Left', Squeezed(s)'
          PROVE  s = h /\ remaining' = 0
        <3>1. s = h
            BY <1>1, <1>10, <2>3
        <3>2. k < Slice(pending[h])
            BY <1>2, <1>5, <2>3, <3>1 DEF Squeezed
        <3> QED BY <1>2, <1>3, <1>4, <3>1, <3>2
    <2>4. \A s \in Seqs \ Left' : Squeezed(s)' =>
             /\ remaining' = 0
             /\ \A t \in Seqs : pending'[t] > pending'[s] => row_count(t)' = 0
        BY <1>2, <1>11, <2>3
    <2>5. \A s, t \in Seqs \ Left' : Squeezed(s)' /\ Squeezed(t)' => s = t
        BY <2>3
    <2> QED BY <1>7, <1>9, <2>1, <2>2, <2>4, <2>5 DEF ServedInv
<1> QED BY <1>1, <1>5, <1>6, <1>12 DEF BuilderInv

LEMMA BuilderInvariant == Spec => []BuilderInv
<1>1. BuilderInv /\ UNCHANGED vars => BuilderInv'
    <2> SUFFICES ASSUME BuilderInv, UNCHANGED vars PROVE BuilderInv'
        OBVIOUS
    <2>1. UNCHANGED <<pending, n_past, ordered, remaining, rows>>
        BY DEF vars
    <2>2. \A s : row_count(s)' = row_count(s) /\ Squeezed(s)' = Squeezed(s)
        BY <2>1 DEF row_count, Squeezed
    <2>3. Left' = Left /\ taken' = taken /\ Units(taken)' = Units(taken)
          /\ Total(taken)' = Total(taken)
        BY <2>1, <2>2 DEF Left, taken, Units, Total
    <2>4. ServedInv'
        BY <2>1, <2>2, <2>3 DEF BuilderInv, ServedInv
    <2>5. OrderInv'
        BY <2>1, <2>3 DEF BuilderInv, OrderInv, Sorted
    <2>6. BlockInv'
        <3>1. ASSUME NEW s \in Seqs, NEW b \in Nat, NEW n \in Nat, Block(s, b, n)
              PROVE  Block(s, b, n)'
            BY <2>1, <3>1 DEF Block, RowsOf, NthRow
        <3> QED BY <3>1 DEF BuilderInv, BlockInv
    <2> QED BY <2>1, <2>4, <2>5, <2>6 DEF BuilderInv, BuilderTypeOK
<1> QED BY <1>1, BuilderInit, SkipInv, TakeInv, PTL DEF Spec, Next
-----------------------------------------------------------------------------
(* build_batch hands the batch loop only batches the contract allows: they *)
(* fit, everybody gets a slice while there is room, and when there is not, *)
(* one sequence is cut short and only longer ones go without.              *)
THEOREM ContractKept == Spec => []ShortestServedFirst
<1>1. BuilderInv => ShortestServedFirst
    <2> SUFFICES ASSUME BuilderInv, ordered = <<>>
                 PROVE  IsPrepared(pending, taken)
        BY DEF ShortestServedFirst, taken
    <2>1. Left = {}
        BY DEF Left
    <2>2. /\ DOMAIN taken = Seqs /\ DOMAIN pending = Seqs
          /\ \A s \in Seqs : /\ taken[s] = row_count(s) /\ row_count(s) \in Nat
                             /\ Slice(pending[s]) \in Nat
        BY CountNat, SliceNat DEF taken, BuilderInv, BuilderTypeOK
    <2>3. /\ Total(taken) \in Nat /\ remaining \in Nat
          /\ remaining + Total(taken) = BatchCapacity
        BY FS_CardinalityType DEF BuilderInv, ServedInv, BuilderTypeOK, Total
    <2>4. \A s \in Seqs : taken[s] \in 0..Slice(pending[s])
        BY <2>1, <2>2 DEF BuilderInv, ServedInv
    <2>5. Total(taken) <= BatchCapacity /\ (remaining = 0 => Total(taken) = BatchCapacity)
        BY <2>3, BatchAssumption
    <2>6. ASSUME NEW s \in Seqs, taken[s] < Slice(pending[s])
          PROVE  /\ Total(taken) = BatchCapacity
                 /\ \A t \in Seqs : pending[t] > pending[s] => taken[t] = 0
        <3>1. Squeezed(s)
            BY <2>2, <2>6 DEF Squeezed
        <3> QED BY <2>1, <2>2, <2>5, <3>1 DEF BuilderInv, ServedInv
    <2>7. ASSUME NEW s \in Seqs, NEW t \in Seqs, taken[s] < Slice(pending[s]),
                 taken[t] < Slice(pending[t]), taken[s] > 0, taken[t] > 0
          PROVE  s = t
        <3>1. Squeezed(s) /\ Squeezed(t) /\ row_count(s) > 0 /\ row_count(t) > 0
            BY <2>2, <2>7 DEF Squeezed
        <3> QED BY <2>1, <3>1 DEF BuilderInv, ServedInv
    <2> QED BY <2>2, <2>4, <2>5, <2>6, <2>7 DEF IsPrepared
<1> QED BY <1>1, BuilderInvariant, PTL

(* However the batch is cut, the rows of a sequence are the first tokens   *)
(* it has pending, in order and at consecutive positions, and logits are   *)
(* asked for once, by the row of its last pending token.                   *)
THEOREM NoTokenSkipped == Spec => []RowsContiguous
<1>1. BuilderInv => RowsContiguous
    <2> SUFFICES ASSUME BuilderInv, NEW i \in DOMAIN rows
                 PROVE  LET s == rows[i].seq_id
                            k == Cardinality({j \in 1..i : rows[j].seq_id = s})
                        IN  /\ rows[i].token = k /\ rows[i].pos = n_past[s] + k - 1
                            /\ rows[i].needs_logits <=> (k = row_count(s) /\ k = pending[s])
        BY DEF RowsContiguous
    <2> DEFINE s == rows[i].seq_id
               k == Cardinality({j \in 1..i : rows[j].seq_id = s})
    <2>1. /\ DOMAIN rows = 1..Len(rows) /\ Len(rows) \in Nat /\ i \in 1..Len(rows)
          /\ s \in Seqs /\ i \in RowsOf(s)
        <3>1. rows \in Seq(Row)
            BY DEF BuilderInv, BuilderTypeOK
        <3>2. rows[i] \in Row
            BY <3>1
        <3> QED BY <3>1, <3>2 DEF Row, RowsOf
    <2> HIDE DEF s
    <2>2. PICK b \in Nat, n \in Nat : Block(s, b, n)
        BY <2>1 DEF BuilderInv, BlockInv
    <2>3. row_count(s) = n
        BY <2>2, BlockCount DEF Block
    <2>4. i \in (b + 1)..(b + n) /\ i - b \in 1..n /\ b + (i - b) = i
        BY <2>1, <2>2 DEF Block
    <2>5. {j \in 1..i : rows[j].seq_id = s} = (b + 1)..i
        <3>1. \A j \in 1..i : rows[j].seq_id = s <=> j \in (b + 1)..(b + n)
            BY <2>1, <2>2 DEF Block, RowsOf
        <3> QED BY <2>4, <3>1
    <2>6. k = i - b
        <3>1. b + 1 \in Int /\ i \in Int
            BY <2>1
        <3>2. Cardinality((b + 1)..i) = IF b + 1 > i THEN 0 ELSE i - (b + 1) + 1
            BY <3>1, FS_Interval
        <3>3. k = IF b + 1 > i THEN 0 ELSE i - (b + 1) + 1
            BY <2>5, <3>2, Zenon
        <3> HIDE DEF k
        <3> QED BY <2>4, <3>1, <3>3
    <2> HIDE DEF k
    <2>7. rows[i] = NthRow(s, k, n)
        BY <2>2, <2>4, <2>6 DEF Block
    <2>8. /\ rows[i].token = k /\ rows[i].pos = n_past[s] + k - 1
          /\ rows[i].needs_logits <=> (n = pending[s] /\ k = n)
        <3>1. /\ NthRow(s, k, n).token = k /\ NthRow(s, k, n).pos = n_past[s] + k - 1
              /\ NthRow(s, k, n).needs_logits = (n = pending[s] /\ k = n)
            BY DEF NthRow
        <3> QED BY <2>7, <3>1, Zenon
    <2>9. rows[i].needs_logits <=> (k = row_count(s) /\ k = pending[s])
        BY <2>3, <2>8
    <2> QED BY <2>8, <2>9 DEF s, k
<1> QED BY <1>1, BuilderInvariant, PTL
=============================================================================
