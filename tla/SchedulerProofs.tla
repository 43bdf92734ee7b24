--------------------------- MODULE SchedulerProofs ---------------------------
(***************************************************************************)
(* Every scheduling policy selects soundly, and WFQ keeps competing        *)
(* classes together, for any number of classes, weights and slots and any  *)
(* history of arrivals, expiries and policy changes.                       *)
(***************************************************************************)
EXTENDS Scheduler, TablesProofs, SequenceTheorems

(* A finite set of naturals has a smallest and a largest element.          *)
LEMMA MinMax ==
    ASSUME NEW S \in SUBSET Nat, IsFiniteSet(S), S # {}
    PROVE  /\ Min(S) \in S /\ \A x \in S : Min(S) <= x
           /\ Max(S) \in S /\ \A x \in S : x <= Max(S)
<1>1. \E i \in S : \A x \in S : i <= x
    BY Extremes
<1>2. \E i \in S : \A x \in S : i >= x
    <2>1. PICK i \in S : \A x \in S : x <= i
        BY Extremes
    <2> QED BY <2>1
<1> QED BY <1>1, <1>2 DEF Min, Max

LEMMA MinOfTwo ==
    ASSUME NEW a \in Nat, NEW b \in Nat
    PROVE  /\ Min({a, b}) = IF a <= b THEN a ELSE b
           /\ Max({a, b}) = IF a <= b THEN b ELSE a
<1>1. \E x \in {a, b} : \A y \in {a, b} : x <= y
    OBVIOUS
<1>2. \E x \in {a, b} : \A y \in {a, b} : x >= y
    OBVIOUS
<1>3. Min({a, b}) \in {a, b} /\ \A y \in {a, b} : Min({a, b}) <= y
    BY <1>1 DEF Min
<1>4. Max({a, b}) \in {a, b} /\ \A y \in {a, b} : Max({a, b}) >= y
    BY <1>2 DEF Max
<1> QED BY <1>3, <1>4
-----------------------------------------------------------------------------
(* The state between two iterations of select(): what has been picked are  *)
(* distinct waiters, with the iterations left they make up the selection,  *)
(* and a class is picked from its oldest waiter on.                        *)
SelectionInv ==
    /\ policy \in Policies
    /\ waiting \in Seq(Priorities)
    /\ virtual_finish \in [DOMAIN virtual_finish -> Nat]
    /\ left \in Nat /\ capacity \in Nat
    /\ chosen \in Seq(Nat) /\ ToSet(chosen) \subseteq DOMAIN waiting /\ IsInjective(chosen)
    /\ ~Selecting => left = 0 /\ chosen = <<>>
    /\ Selecting => Len(chosen) + left = Min({capacity, Len(waiting)})
    /\ \A i \in ToSet(chosen), j \in DOMAIN waiting :
          (j < i /\ waiting[j] = waiting[i]) => j \in ToSet(chosen)

(* The pool and the times of its classes, in a state of the invariant.     *)
LEMMA PoolFacts ==
    ASSUME SelectionInv
    PROVE  /\ pool \in SUBSET Nat /\ pool \in SUBSET DOMAIN waiting /\ IsFiniteSet(pool)
           /\ DOMAIN waiting = 1..Len(waiting) /\ Len(waiting) \in Nat
           /\ backlogged \in SUBSET Priorities /\ IsFiniteSet(backlogged)
<1>1. /\ DOMAIN waiting = 1..Len(waiting) /\ Len(waiting) \in Nat
      /\ \A i \in DOMAIN waiting : waiting[i] \in Priorities
    BY DEF SelectionInv
<1>2. pool \in SUBSET Nat /\ pool \in SUBSET DOMAIN waiting
    BY <1>1 DEF pool
<1>3. IsFiniteSet(pool)
    <2>1. IsFiniteSet(1..Len(waiting))
        BY <1>1, FS_Interval
    <2> QED BY <1>1, <1>2, <2>1, FS_Subset
<1>4. backlogged \in SUBSET Priorities
    BY <1>1, <1>2 DEF backlogged
<1>5. IsFiniteSet(backlogged)
    <2> DEFINE class == [i \in pool |-> waiting[i]]
    <2>1. class \in Surjection(pool, backlogged)
        BY DEF backlogged, Surjection
    <2> HIDE DEF class
    <2> QED BY <1>3, <2>1, FS_Surjection
<1> QED BY <1>1, <1>2, <1>3, <1>4, <1>5

(* The virtual times of a finite set of classes are finitely many.         *)
LEMMA TimesFinite ==
    ASSUME NEW classes, IsFiniteSet(classes), NEW vft, vft \in [DOMAIN vft -> Nat]
    PROVE  LET times == {vft[c] : c \in classes \cap DOMAIN vft}
           IN  IsFiniteSet(times) /\ times \in SUBSET Nat
<1> DEFINE dom == classes \cap DOMAIN vft
           times == {vft[c] : c \in dom}
           time == [c \in dom |-> vft[c]]
<1>1. IsFiniteSet(dom)
    BY FS_Subset
<1>2. time \in Surjection(dom, times) /\ times \in SUBSET Nat
    BY DEF Surjection
<1>3. IsFiniteSet(times)
    <2> HIDE DEF dom, times, time
    <2> QED BY <1>1, <1>2, FS_Surjection
<1> QED BY <1>2, <1>3

LEMMA TimesTyped ==
    ASSUME SelectionInv
    PROVE  /\ DOMAIN virtual_finish_time = DOMAIN virtual_finish \cup backlogged
           /\ virtual_finish_time \in [DOMAIN virtual_finish_time -> Nat]
<1> DEFINE known == {virtual_finish[c] : c \in backlogged \cap DOMAIN virtual_finish}
           D == DOMAIN virtual_finish \cup backlogged
<1>1. virtual_finish \in [DOMAIN virtual_finish -> Nat]
    BY DEF SelectionInv
<1>2. IsFiniteSet(known) /\ known \in SUBSET Nat
    BY <1>1, PoolFacts, TimesFinite
<1>3. known # {} => Min(known) \in Nat
    <2> HIDE DEF known
    <2> QED BY <1>2, MinMax
<1>4. virtual_finish_time =
        [c \in D |-> IF c \in DOMAIN virtual_finish THEN virtual_finish[c]
                     ELSE IF known = {} THEN 0 ELSE Min(known)]
    BY DEF virtual_finish_time
<1> HIDE DEF known
<1> QED BY <1>1, <1>3, <1>4

(* A grant costs a class between nothing and one whole unit of time.       *)
LEMMA ChargeBound ==
    ASSUME NEW c \in Priorities
    PROVE  Scale \in Nat /\ Scale \div weight(c) \in 0..Scale
<1>1. c \in Nat /\ Scale \in Nat
    BY SchedulerAssumption
<1>2. weight(c) \in Nat /\ weight(c) > 0
    BY <1>1, MinOfTwo DEF weight
<1> QED BY <1>1, <1>2

(* What removing a waiter or the chosen ones leaves is again a queue.      *)
LEMMA ExpireTyped ==
    ASSUME NEW s \in Seq(Priorities), NEW i \in DOMAIN s
    PROVE  RemoveAt(s, i) \in Seq(Priorities)
<1>1. i \in 1..Len(s) /\ Len(s) \in Nat /\ \A k \in 1..Len(s) : s[k] \in Priorities
    OBVIOUS
<1>2. SubSeq(s, 1, i - 1) \in Seq(Priorities) /\ SubSeq(s, i + 1, Len(s)) \in Seq(Priorities)
    BY <1>1, SubSeqProperties
<1> QED BY <1>2, ConcatProperties DEF RemoveAt

LEMMA EndTyped ==
    ASSUME SelectionInv, End
    PROVE  waiting' \in Seq(Priorities)
<1> DEFINE n == Cardinality(pool)
           nth(k) == CHOOSE i \in pool : Cardinality({j \in pool : j <= i}) = k
<1>1. n \in Nat
    BY PoolFacts, FS_CardinalityType
<1>2. ASSUME NEW k \in 1..n
      PROVE  waiting[nth(k)] \in Priorities
    <2>1. \E i \in pool : Cardinality({j \in pool : j <= i}) = k
        BY PoolFacts, EveryRank DEF UpTo
    <2>2. nth(k) \in pool
        BY <2>1
    <2> HIDE DEF nth
    <2> QED BY <2>2, PoolFacts DEF SelectionInv
<1>3. waiting' = [k \in 1..n |-> waiting[nth(k)]]
    BY DEF End
<1> HIDE DEF n, nth
<1> QED BY <1>1, <1>2, <1>3
-----------------------------------------------------------------------------
LEMMA SelectionInit == Init => SelectionInv
<1> SUFFICES ASSUME Init PROVE SelectionInv
    OBVIOUS
<1>1. ToSet(<<>>) = {} /\ IsInjective(<<>>)
    BY DEF ToSet, IsInjective
<1>2. /\ policy = "wfq" /\ virtual_finish = [c \in {} |-> 0] /\ waiting = <<>>
      /\ left = 0 /\ chosen = <<>> /\ capacity = 0
    BY DEF Init
<1> QED BY <1>1, <1>2 DEF SelectionInv, Selecting, Policies

(* Outside select(), the queue and the policy may change as they like.     *)
LEMMA OutsideSelect ==
    ASSUME SelectionInv, ~Selecting, UNCHANGED <<left, chosen, capacity>>,
           waiting' \in Seq(Priorities), policy' \in Policies,
           virtual_finish' \in [DOMAIN virtual_finish' -> Nat]
    PROVE  SelectionInv'
<1>1. chosen = <<>> /\ left = 0 /\ ~Selecting'
    BY DEF SelectionInv, Selecting
<1>2. ToSet(<<>>) = {} /\ IsInjective(<<>>)
    BY DEF ToSet, IsInjective
<1>3. ToSet(chosen') = {} /\ IsInjective(chosen') /\ chosen' = <<>>
    BY <1>1, <1>2
<1> QED BY <1>1, <1>3 DEF SelectionInv, Selecting

(* A pick takes the oldest waiter of its class.                            *)
LEMMA OldestOfClass ==
    ASSUME SelectionInv, NEW i \in pool, NEW j \in pool, j < i, waiting[j] = waiting[i],
           NEW vft, vft = virtual_finish_time
    PROVE  ~Before(vft, i, j)
<1>1. /\ i \in Nat /\ j \in Nat /\ waiting[i] \in Nat /\ waiting[j] \in Nat
      /\ policy \in {"fifo", "priority", "wfq"}
    BY PoolFacts, SchedulerAssumption DEF SelectionInv, Policies
<1>2. vft[waiting[i]] \in Nat /\ vft[waiting[j]] = vft[waiting[i]]
    BY TimesTyped DEF backlogged
<1>3. ~(vft[waiting[i]] < vft[waiting[j]]) /\ ~(i < j) /\ ~(waiting[i] > waiting[j])
    BY <1>1, <1>2
<1>4. CASE policy = "fifo"
    BY <1>3, <1>4 DEF Before
<1>5. CASE policy = "priority"
    BY <1>3, <1>5 DEF Before
<1>6. CASE policy = "wfq"
    BY <1>3, <1>6 DEF Before
<1> QED BY <1>1, <1>4, <1>5, <1>6

LEMMA PickSound ==
    ASSUME SelectionInv, NEW i \in DOMAIN waiting, Pick(i)
    PROVE  SelectionInv'
<1>1. /\ i \in pool /\ i \in Nat /\ i \notin ToSet(chosen)
      /\ chosen \in Seq(Nat) /\ chosen' = Append(chosen, i)
      /\ left \in Nat /\ left > 0 /\ left' = left - 1
      /\ UNCHANGED <<policy, waiting, capacity>>
    BY PoolFacts DEF Pick, SelectionInv, pool
<1>2. /\ chosen' \in Seq(Nat) /\ Len(chosen') = Len(chosen) + 1 /\ Len(chosen) \in Nat
      /\ DOMAIN chosen = 1..Len(chosen) /\ DOMAIN chosen' = 1..(Len(chosen) + 1)
      /\ \A k \in 1..Len(chosen) : chosen'[k] = chosen[k]
      /\ chosen'[Len(chosen) + 1] = i
    BY <1>1
<1>3. ToSet(chosen') = ToSet(chosen) \cup {i}
    BY <1>2 DEF ToSet
<1>4. IsInjective(chosen')
    <2> SUFFICES ASSUME NEW a \in DOMAIN chosen', NEW b \in DOMAIN chosen',
                        chosen'[a] = chosen'[b]
                 PROVE  a = b
        BY DEF IsInjective
    <2>1. \A k \in 1..Len(chosen) : chosen'[k] # i
        BY <1>1, <1>2 DEF ToSet
    <2>2. CASE a \in 1..Len(chosen) /\ b \in 1..Len(chosen)
        BY <1>2, <2>2 DEF SelectionInv, IsInjective
    <2>3. CASE ~(a \in 1..Len(chosen) /\ b \in 1..Len(chosen))
        BY <1>2, <2>1, <2>3
    <2> QED BY <2>2, <2>3
<1>5. virtual_finish' \in [DOMAIN virtual_finish' -> Nat]
    <2>1. CASE policy # "wfq"
        BY <2>1 DEF Pick, SelectionInv
    <2>2. CASE policy = "wfq"
        <3> DEFINE vft == virtual_finish_time
                   c == waiting[i]
        <3>1. virtual_finish' = charge(vft, c)
            BY <2>2 DEF Pick
        <3>2. /\ c \in DOMAIN vft /\ c \in Priorities /\ vft \in [DOMAIN vft -> Nat]
            BY <1>1, TimesTyped, PoolFacts DEF backlogged
        <3> HIDE DEF vft, c
        <3>3. vft[c] + Scale \div weight(c) \in Nat
            BY <3>2, ChargeBound
        <3> QED BY <3>1, <3>2, <3>3 DEF charge
    <2> QED BY <2>1, <2>2
<1>6. ASSUME NEW a \in ToSet(chosen'), NEW j \in DOMAIN waiting', j < a,
             waiting'[j] = waiting'[a]
      PROVE  j \in ToSet(chosen')
    <2>1. CASE a \in ToSet(chosen)
        BY <1>1, <1>3, <1>6, <2>1 DEF SelectionInv
    <2>2. CASE a = i
        <3> SUFFICES ASSUME j \in pool PROVE FALSE
            BY <1>1, <1>3 DEF pool
        <3>1. j \in pool \ {i}
            BY <1>1, <1>6, <2>2
        <3>2. Before(virtual_finish_time, i, j)
            BY <3>1 DEF Pick
        <3> QED BY <1>1, <1>6, <2>2, <3>1, <3>2, OldestOfClass
    <2> QED BY <1>3, <2>1, <2>2
<1>7. Selecting /\ Selecting' /\ left' \in Nat
    BY <1>1 DEF SelectionInv, Selecting
<1>8. Len(chosen') + left' = Min({capacity', Len(waiting')})
    <2>1. Len(chosen) + left = Min({capacity, Len(waiting)})
        BY <1>7 DEF SelectionInv
    <2>2. Len(chosen') + left' = Len(chosen) + left
        BY <1>1, <1>2
    <2> QED BY <1>1, <2>1, <2>2
<1>9. ToSet(chosen') \subseteq DOMAIN waiting'
    BY <1>1, <1>3 DEF SelectionInv
<1> QED BY <1>1, <1>2, <1>4, <1>5, <1>6, <1>7, <1>8, <1>9 DEF SelectionInv

LEMMA SelectionNext == SelectionInv /\ [Next]_vars => SelectionInv'
<1> SUFFICES ASSUME SelectionInv, [Next]_vars PROVE SelectionInv'
    OBVIOUS
<1>1. ASSUME NEW c \in Priorities, Arrive(c) PROVE SelectionInv'
    <2>1. waiting' \in Seq(Priorities)
        BY <1>1 DEF Arrive, SelectionInv
    <2> QED BY <1>1, <2>1, OutsideSelect DEF Arrive, SelectionInv
<1>2. ASSUME NEW i \in DOMAIN waiting, Expire(i) PROVE SelectionInv'
    <2>1. waiting' \in Seq(Priorities)
        BY <1>2, ExpireTyped DEF Expire, SelectionInv
    <2> QED BY <1>2, <2>1, OutsideSelect DEF Expire, SelectionInv
<1>3. ASSUME NEW name \in Policies, SetPolicy(name) PROVE SelectionInv'
    <2>1. virtual_finish' \in [DOMAIN virtual_finish' -> Nat]
        BY <1>3 DEF SetPolicy
    <2> QED BY <1>3, <2>1, OutsideSelect DEF SetPolicy, SelectionInv
<1>4. ASSUME NEW n \in 1..Slots, Begin(n) PROVE SelectionInv'
    <2>1. /\ n \in Nat /\ n > 0 /\ capacity' = n /\ left' = Min({n, Len(waiting)})
          /\ chosen = <<>> /\ Len(waiting) \in Nat
          /\ UNCHANGED <<policy, virtual_finish, waiting, chosen>>
        BY <1>4 DEF Begin, SelectionInv
    <2>2. left' \in Nat
        BY <2>1, MinOfTwo
    <2>3. Len(chosen') = 0
        BY <2>1
    <2>4. Selecting' /\ Len(chosen') + left' = Min({capacity', Len(waiting')})
        BY <2>1, <2>2, <2>3 DEF Selecting
    <2> QED BY <2>1, <2>2, <2>4 DEF SelectionInv
<1>5. CASE End
    <2>1. waiting' \in Seq(Priorities) /\ chosen' = <<>> /\ capacity' = 0 /\ left' = 0
          /\ UNCHANGED <<policy, virtual_finish>>
        BY <1>5, EndTyped DEF End
    <2>2. ToSet(<<>>) = {} /\ IsInjective(<<>>)
        BY DEF ToSet, IsInjective
    <2>3. ToSet(chosen') = {} /\ IsInjective(chosen') /\ ~Selecting'
        BY <2>1, <2>2 DEF Selecting
    <2> QED BY <2>1, <2>3 DEF SelectionInv
<1>6. CASE UNCHANGED vars
    BY <1>6 DEF vars, SelectionInv, Selecting
<1> QED BY <1>1, <1>2, <1>3, <1>4, <1>5, <1>6, PickSound DEF Next

LEMMA SelectionInvariant == Spec => []SelectionInv
BY SelectionInit, SelectionNext, PTL DEF Spec

(* Whichever policy is in force, and however often it is swapped, select() *)
(* fills the free slots with distinct waiters and never lets a request     *)
(* overtake an older one of its class.                                     *)
THEOREM EveryPolicySelectsSoundly == Spec => []SelectionSound
<1>1. SelectionInv => SelectionSound
    <2> SUFFICES ASSUME SelectionInv PROVE SelectionSound
        OBVIOUS
    <2>1. Selecting /\ left = 0 => Len(chosen) = Min({capacity, Len(waiting)})
        <3> SUFFICES ASSUME Selecting, left = 0 PROVE Len(chosen) = Min({capacity, Len(waiting)})
            OBVIOUS
        <3>1. Len(chosen) \in Nat /\ Len(chosen) + 0 = Min({capacity, Len(waiting)})
            BY DEF SelectionInv
        <3>2. Len(chosen) + 0 = Len(chosen)
            BY <3>1
        <3> QED BY <3>1, <3>2
    <2> QED BY <2>1 DEF SelectionInv, SelectionSound
<1> QED BY <1>1, SelectionInvariant, PTL
-----------------------------------------------------------------------------
(* The earliest class is picked: its virtual time is no later than that of *)
(* any class in the pool.                                                  *)
LEMMA PickIsEarliest ==
    ASSUME SelectionInv, policy = "wfq", NEW i \in DOMAIN waiting, Pick(i),
           NEW c \in backlogged
    PROVE  virtual_finish_time[waiting[i]] <= virtual_finish_time[c]
<1> DEFINE vft == virtual_finish_time
<1>1. PICK j \in pool : c = waiting[j]
    BY DEF backlogged
<1>2. i \in pool /\ \A k \in pool \ {i} : Before(vft, i, k)
    BY DEF Pick
<1>3. vft[waiting[i]] \in Nat /\ vft[c] \in Nat
    BY <1>2, TimesTyped DEF backlogged
<1>4. CASE j = i
    BY <1>1, <1>3, <1>4
<1>5. CASE j # i
    <2>1. Before(vft, i, j)
        BY <1>2, <1>5
    <2> HIDE DEF vft
    <2>2. vft[waiting[i]] < vft[waiting[j]] \/ vft[waiting[i]] = vft[waiting[j]]
        BY <2>1 DEF Before
    <2>3. vft[waiting[i]] <= vft[c]
        BY <1>1, <1>3, <2>2
    <2> QED BY <2>3 DEF vft
<1> QED BY <1>4, <1>5

(* Times within [low, high] are spread by no more than high - low.         *)
LEMMA SpreadBound ==
    ASSUME NEW vft, vft \in [DOMAIN vft -> Nat], NEW classes, IsFiniteSet(classes),
           NEW low \in Nat, NEW high \in Nat, low <= high,
           \A c \in classes \cap DOMAIN vft : low <= vft[c] /\ vft[c] <= high
    PROVE  Spread(vft, classes) \in Nat /\ Spread(vft, classes) <= high - low
<1> DEFINE times == {vft[c] : c \in classes \cap DOMAIN vft}
<1>1. IsFiniteSet(times) /\ times \in SUBSET Nat
    BY TimesFinite
<1>2. \A t \in times : low <= t /\ t <= high
    OBVIOUS
<1>3. Spread(vft, classes) = IF times = {} THEN 0 ELSE Max(times) - Min(times)
    BY DEF Spread
<1> HIDE DEF times
<1>4. CASE times = {}
    BY <1>3, <1>4
<1>5. CASE times # {}
    <2>1. /\ Max(times) \in times /\ Min(times) \in times /\ Min(times) <= Max(times)
        BY <1>1, <1>5, MinMax
    <2>2. /\ Max(times) \in Nat /\ Min(times) \in Nat
          /\ low <= Min(times) /\ Max(times) <= high
        BY <1>1, <1>2, <2>1
    <2> QED BY <1>3, <1>5, <2>1, <2>2
<1> QED BY <1>4, <1>5

(* The times the pool is judged by lie within those its classes have.      *)
LEMMA NewcomersInRange ==
    ASSUME SelectionInv, NEW c \in backlogged
    PROVE  LET known == {virtual_finish[d] : d \in backlogged \cap DOMAIN virtual_finish} IN
           /\ known = {} => virtual_finish_time[c] = 0
           /\ known # {} => /\ Min(known) \in Nat /\ Max(known) \in Nat
                            /\ Min(known) <= virtual_finish_time[c]
                            /\ virtual_finish_time[c] <= Max(known)
<1> DEFINE known == {virtual_finish[d] : d \in backlogged \cap DOMAIN virtual_finish}
<1>1. IsFiniteSet(known) /\ known \in SUBSET Nat
    BY PoolFacts, TimesFinite DEF SelectionInv
<1>2. virtual_finish_time[c] =
         IF c \in DOMAIN virtual_finish THEN virtual_finish[c]
         ELSE IF known = {} THEN 0 ELSE Min(known)
    BY DEF virtual_finish_time
<1>3. c \in DOMAIN virtual_finish => virtual_finish[c] \in known
    OBVIOUS
<1> HIDE DEF known
<1>4. known # {} => /\ Min(known) \in known /\ Max(known) \in known
                    /\ \A x \in known : Min(known) <= x /\ x <= Max(known)
    <2> SUFFICES ASSUME known # {}
                 PROVE  /\ Min(known) \in known /\ Max(known) \in known
                        /\ \A x \in known : Min(known) <= x /\ x <= Max(known)
        OBVIOUS
    <2>1. /\ Min(known) \in known /\ \A x \in known : Min(known) <= x
          /\ Max(known) \in known /\ \A x \in known : x <= Max(known)
        BY <1>1, MinMax
    <2> QED BY <2>1
<1>5. known = {} => virtual_finish_time[c] = 0
    BY <1>2, <1>3
<1>6. ASSUME known # {}
      PROVE  /\ Min(known) \in Nat /\ Max(known) \in Nat
             /\ Min(known) <= virtual_finish_time[c] /\ virtual_finish_time[c] <= Max(known)
    <2>1. /\ Min(known) \in Nat /\ Max(known) \in Nat /\ virtual_finish_time[c] \in known
          /\ \A x \in known : Min(known) <= x /\ x <= Max(known)
        BY <1>1, <1>2, <1>3, <1>4, <1>6
    <2> QED BY <2>1
<1> QED BY <1>5, <1>6 DEF known

LEMMA PickSpread ==
    ASSUME SelectionInv, policy = "wfq", NEW i \in DOMAIN waiting, Pick(i)
    PROVE  Spread(virtual_finish', backlogged)
               <= Max({Spread(virtual_finish, backlogged), Scale})
<1> DEFINE vft == virtual_finish_time
           c == waiting[i]
           low == vft[c]
           cost == Scale \div weight(c)
           known == {virtual_finish[d] : d \in backlogged \cap DOMAIN virtual_finish}
           old == Spread(virtual_finish, backlogged)
           bound == Max({old, Scale})
<1>1. /\ IsFiniteSet(backlogged) /\ backlogged \subseteq DOMAIN vft
      /\ vft \in [DOMAIN vft -> Nat]
      /\ virtual_finish' = [vft EXCEPT ![c] = @ + cost]
      /\ c \in backlogged /\ c \in Priorities
    BY PoolFacts, TimesTyped DEF Pick, charge, backlogged
<1>2. Scale \in Nat /\ cost \in Nat /\ cost <= Scale
    BY <1>1, ChargeBound
<1>3. \A d \in backlogged : low <= vft[d] /\ vft[d] \in Nat
    BY <1>1, PickIsEarliest
<1>4. old \in Nat /\ \A d \in backlogged : vft[d] <= low + old
    <2>1. CASE known = {}
        <3>1. old = 0
            BY <2>1 DEF Spread
        <3>2. \A d \in backlogged : vft[d] = 0
            BY <2>1, NewcomersInRange
        <3> QED BY <1>1, <3>1, <3>2
    <2>2. CASE known # {}
        <3>1. old = Max(known) - Min(known)
            BY <2>2 DEF Spread
        <3>2. \A d \in backlogged : /\ Min(known) \in Nat /\ Max(known) \in Nat
                                     /\ Min(known) <= vft[d] /\ vft[d] <= Max(known)
            BY <2>2, NewcomersInRange
        <3> HIDE DEF known, old, vft
        <3>3. Min(known) \in Nat /\ Max(known) \in Nat /\ Min(known) <= low /\ low <= Max(known)
            BY <1>1, <3>2
        <3>4. old \in Nat
            <4>1. low \in Nat
                BY <1>1, <1>3
            <4> HIDE DEF low
            <4> QED BY <3>1, <3>3, <4>1
        <3>5. ASSUME NEW d \in backlogged PROVE vft[d] <= low + old
            <4>1. vft[d] \in Nat /\ vft[d] <= Max(known) /\ low \in Nat
                BY <1>1, <1>3, <3>2
            <4> HIDE DEF low
            <4> QED BY <3>1, <3>3, <4>1
        <3> QED BY <3>4, <3>5
    <2> QED BY <2>1, <2>2
<1>5. bound \in Nat /\ old <= bound /\ Scale <= bound
    <2>1. old \in Nat /\ Scale \in Nat
        BY <1>2, <1>4
    <2> HIDE DEF old
    <2>2. bound = IF old <= Scale THEN Scale ELSE old
        BY <2>1, MinOfTwo
    <2> HIDE DEF bound
    <2> QED BY <2>1, <2>2
<1> HIDE DEF vft, c, cost, known, old, bound
<1>6. /\ virtual_finish' \in [DOMAIN virtual_finish' -> Nat]
      /\ low \in Nat /\ low + bound \in Nat /\ low <= low + bound
    BY <1>1, <1>2, <1>3, <1>5
<1>7. ASSUME NEW d \in backlogged
      PROVE  low <= virtual_finish'[d] /\ virtual_finish'[d] <= low + bound
    <2>1. CASE d = c
        <3>1. virtual_finish'[d] = low + cost
            BY <1>1, <2>1
        <3> QED BY <1>2, <1>5, <1>6, <3>1
    <2>2. CASE d # c
        <3>1. virtual_finish'[d] = vft[d]
            BY <1>1, <2>2
        <3> QED BY <1>3, <1>4, <1>5, <1>6, <3>1
    <2> QED BY <2>1, <2>2
<1>8. Spread(virtual_finish', backlogged) <= (low + bound) - low
      /\ Spread(virtual_finish', backlogged) \in Nat
    BY <1>1, <1>6, <1>7, SpreadBound
<1>9. Spread(virtual_finish', backlogged) <= bound
    BY <1>5, <1>6, <1>8
<1> QED BY <1>9 DEF bound, old

(* Under WFQ a pick leaves the virtual times of the classes it had to      *)
(* choose from no further apart than they were, or than one grant, for any *)
(* weights and whether or not the classes have a history.                  *)
THEOREM GrantsStayClose == Spec => PickKeepsSpread
<1> DEFINE A == policy = "wfq" /\ chosen' # chosen /\ chosen' # <<>> =>
                   Spread(virtual_finish', backlogged)
                       <= Max({Spread(virtual_finish, backlogged), Scale})
<1>1. SelectionInv /\ [Next]_vars => [A]_vars
    <2> SUFFICES ASSUME SelectionInv, Next, policy = "wfq", chosen' # chosen, chosen' # <<>>
                 PROVE  Spread(virtual_finish', backlogged)
                            <= Max({Spread(virtual_finish, backlogged), Scale})
        OBVIOUS
    <2>1. PICK i \in DOMAIN waiting : Pick(i)
        BY DEF Next, Arrive, Expire, SetPolicy, Begin, End
    <2> QED BY <2>1, PickSpread
<1> QED BY <1>1, SelectionInvariant, PTL DEF Spec, PickKeepsSpread
==============================================================================
