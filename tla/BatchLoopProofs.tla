-------------------------- MODULE BatchLoopProofs --------------------------
(***************************************************************************)
(* What the batch loop keeps right for every number of slots, requests,    *)
(* prompts, budgets and pool, chunk and block sizes, in three parts: the   *)
(* KV accounting by itself, the books of the loop, and the cells.          *)
(***************************************************************************)
EXTENDS BatchLoop, TablesProofs, SequenceTheorems

-----------------------------------------------------------------------------
(***************************************************************************)
(* The KV accounting.  A reservation adds the units {r} \X (1..n), disjoint*)
(* from those of every other request, and a release removes exactly them.  *)
(***************************************************************************)
(* A reservation never costs a negative number of blocks.                  *)
LEMMA BlocksNeededNat ==
    ASSUME NEW n \in Nat
    PROVE  blocks_needed(n) \in Nat
BY BlockAssumption DEF blocks_needed

(* The state the KV accounting is always in: typed, and balanced.          *)
KVInv == KVTypeOK /\ Ledger

LEMMA KVInitInv == KVInit => KVInv
<1> SUFFICES ASSUME KVInit PROVE KVInv
    OBVIOUS
<1>1. total_blocks \in Nat
    BY KVAssumption, BlockAssumption DEF total_blocks
<1>2. Units(block_table) = {}
    BY DEF KVInit, Units
<1>3. IsFiniteSet(Units(block_table)) /\ Total(block_table) = 0
    BY <1>2, FS_EmptySet DEF Total
<1> QED BY <1>1, <1>3 DEF KVInit, KVInv, KVTypeOK, Ledger

LEMMA ReserveInv ==
    ASSUME KVInv, NEW r \in Requests, NEW n \in Nat, Reserve(r, n)
    PROVE  KVInv'
<1> DEFINE k == blocks_needed(n)
<1>1. k \in Nat
    BY BlocksNeededNat
<1>2. total_blocks \in Nat
    BY KVAssumption, BlockAssumption DEF total_blocks
<1>3. r \notin DOMAIN block_table /\ k <= free_blocks
    BY DEF Reserve
<1>4. free_blocks' = free_blocks - k /\ block_table' = With(block_table, r, k)
    BY DEF Reserve
<1> HIDE DEF k
<1>5. /\ IsFiniteSet(Units(block_table'))
      /\ Total(block_table') = Total(block_table) + k
    BY <1>1, <1>3, <1>4, UnitsWith DEF KVInv, Ledger
<1>6. Total(block_table) \in Nat
    BY FS_CardinalityType DEF KVInv, Ledger, Total
<1>7. free_blocks' \in 0..total_blocks
    BY <1>1, <1>2, <1>3, <1>4 DEF KVInv, KVTypeOK
<1>8. /\ DOMAIN block_table' \subseteq Requests
      /\ block_table' \in [DOMAIN block_table' -> Nat]
    BY <1>1, <1>4 DEF KVInv, KVTypeOK, With
<1>9. free_blocks' + Total(block_table') = total_blocks
    BY <1>1, <1>2, <1>4, <1>5, <1>6 DEF KVInv, KVTypeOK, Ledger
<1> QED BY <1>5, <1>7, <1>8, <1>9 DEF KVInv, KVTypeOK, Ledger, total_blocks, Total, Units

LEMMA ReleaseInv ==
    ASSUME KVInv, NEW r \in Requests, Release(r)
    PROVE  KVInv'
<1>1. CASE r \in DOMAIN block_table
    <2>1. free_blocks' = free_blocks + block_table[r]
          /\ block_table' = Without(block_table, r)
        BY <1>1 DEF Release
    <2>2. block_table[r] \in Nat
        BY <1>1 DEF KVInv, KVTypeOK
    <2>3. /\ IsFiniteSet(Units(block_table'))
          /\ Total(block_table') + block_table[r] = Total(block_table)
        BY <1>1, <2>1, <2>2, UnitsWithout DEF KVInv, Ledger
    <2>4. Total(block_table') \in Nat
        BY <2>3, FS_CardinalityType DEF Total
    <2>5. total_blocks \in Nat
        BY KVAssumption, BlockAssumption DEF total_blocks
    <2>6. free_blocks' + Total(block_table') = total_blocks
        BY <2>1, <2>2, <2>3, <2>4, <2>5 DEF KVInv, KVTypeOK, Ledger
    <2>7. free_blocks' \in 0..total_blocks
        BY <2>1, <2>2, <2>4, <2>5, <2>6 DEF KVInv, KVTypeOK
    <2>8. /\ DOMAIN block_table' \subseteq Requests
          /\ block_table' \in [DOMAIN block_table' -> Nat]
        BY <2>1 DEF KVInv, KVTypeOK, Without
    <2> QED BY <2>3, <2>6, <2>7, <2>8 DEF KVInv, KVTypeOK, Ledger, total_blocks, Total, Units
<1>2. CASE r \notin DOMAIN block_table
    BY <1>2 DEF Release, kvvars, KVInv, KVTypeOK, Ledger, total_blocks, Total, Units
<1> QED BY <1>1, <1>2

(* kv_cache/manager.py keeps exact books: whatever the pool, the block     *)
(* size and the order of reserve() and release() calls, its counters stay  *)
(* typed and the free blocks plus the blocks held are the whole pool.      *)
THEOREM KVLedger == KVSpec => [](KVTypeOK /\ Ledger)
<1>1. KVInit => KVInv
    BY KVInitInv
<1>2. KVInv /\ [KVNext]_kvvars => KVInv'
    <2> SUFFICES ASSUME KVInv, [KVNext]_kvvars PROVE KVInv'
        OBVIOUS
    <2>1. ASSUME NEW r \in Requests, NEW n \in 0..MaxRequest, Reserve(r, n)
          PROVE  KVInv'
        BY <2>1, ReserveInv, KVAssumption
    <2>2. ASSUME NEW r \in Requests, Release(r)
          PROVE  KVInv'
        BY <2>2, ReleaseInv
    <2>3. CASE UNCHANGED kvvars
        BY <2>3 DEF kvvars, KVInv, KVTypeOK, Ledger, total_blocks, Total, Units
    <2> QED BY <2>1, <2>2, <2>3 DEF KVNext, ReserveRefused
<1> QED BY <1>1, <1>2, PTL DEF KVSpec, KVInv

-----------------------------------------------------------------------------
(***************************************************************************)
(* The books of the loop.  The inductive invariant has two halves.         *)
(* CoreInv is about what finish() and admit() keep in step: the books      *)
(* (blocks, slots, claims) and the spans.  PhaseInv says what the loop is  *)
(* holding while it stands at pc, which is what makes the steps of CoreInv *)
(* legitimate: there is a free slot for each selected request, and a       *)
(* sampled token belongs to one active request.  The books are proved      *)
(* apart from the spans because a finish() that raises keeps the former    *)
(* and not the latter.                                                     *)
(***************************************************************************)
booksvars == <<kvvars, claims, waiting, free_slots, slot>>
corevars == <<booksvars, tracevars>>

CoreTypeOK ==
    /\ waiting \subseteq Requests
    /\ IsFiniteSet(waiting)
    /\ free_slots \in Seq(SeqIds)
    /\ slot \in [Requests -> SeqIds \cup {NoSeq}]
    /\ claims \in [SeqIds -> Seq(Token)]
    /\ ~PrefixCacheEnabled => \A s \in SeqIds : claims[s] = <<>>

BooksInv ==
    /\ KVInv
    /\ CoreTypeOK
    /\ ReservationsExact
    /\ SlotPartition
    /\ ClaimsAreLive

CoreInv == BooksInv /\ SpansBalanced

PhaseInv ==
    /\ pc # "admit" => selected = {}
    /\ selected \subseteq waiting
    /\ Cardinality(selected) <= Len(free_slots)
    /\ pc # "sample" => sampled = {}
    /\ sampled \subseteq active \X Sampled
    /\ \A p, q \in sampled : p[1] = q[1] => p = q
    /\ NoLostWakeup
    /\ consumer \in [Requests -> ConsumerStates]
    /\ \A r \in waiting \cup active : consumer[r] # "none"

LoopInv == CoreInv /\ PhaseInv
-----------------------------------------------------------------------------
(* A step that touches none of the books' variables keeps BooksInv ...     *)
LEMMA BooksUnchanged ==
    ASSUME BooksInv, UNCHANGED booksvars
    PROVE  BooksInv' /\ active' = active
<1>1. active' = active
    BY DEF booksvars, active
<1>2. KVInv'
    BY DEF BooksInv, booksvars, kvvars, KVInv, KVTypeOK, Ledger, total_blocks, Total, Units
<1>3. CoreTypeOK'
    BY DEF BooksInv, booksvars, CoreTypeOK
<1>4. ReservationsExact'
    BY <1>1 DEF BooksInv, booksvars, kvvars, ReservationsExact
<1>5. SlotPartition' /\ ClaimsAreLive'
    BY <1>1 DEF BooksInv, booksvars, SlotPartition, ClaimsAreLive
<1> QED BY <1>1, <1>2, <1>3, <1>4, <1>5 DEF BooksInv

(* ... and if it leaves the spans alone too, CoreInv.                      *)
LEMMA CoreUnchanged ==
    ASSUME CoreInv, UNCHANGED corevars
    PROVE  CoreInv' /\ active' = active
<1>1. BooksInv' /\ active' = active /\ waiting' = waiting
    BY BooksUnchanged DEF CoreInv, corevars, booksvars
<1> QED BY <1>1 DEF CoreInv, corevars, tracevars, SpansBalanced

(* The whole blocks of a prompt are no longer than the prompt.             *)
LEMMA WholeBlocksBound ==
    ASSUME NEW n \in Nat
    PROVE  WholeBlocks(n) \in 0..n
BY BlockAssumption DEF WholeBlocks

(* What is published of a prompt is a sequence of tokens.                  *)
LEMMA PublishedType ==
    ASSUME NEW tokens \in Seq(Token)
    PROVE  Published(tokens) \in Seq(Token)
<1>1. WholeBlocks(Len(tokens)) \in 0..Len(tokens)
    BY WholeBlocksBound
<1> QED BY <1>1 DEF Published

NoRepeats(list) == \A i, j \in DOMAIN list : list[i] = list[j] => i = j
Elements(list) == {list[i] : i \in DOMAIN list}

(* The slots in the free list when one is appended, when one is popped.    *)
LEMMA FreeSlotsAppend ==
    ASSUME NEW list \in Seq(SeqIds), NEW s \in SeqIds
    PROVE  /\ Append(list, s) \in Seq(SeqIds)
           /\ Elements(Append(list, s)) = Elements(list) \cup {s}
<1>1. /\ Append(list, s) \in Seq(SeqIds)
      /\ DOMAIN list = 1..Len(list)
      /\ DOMAIN Append(list, s) = 1..(Len(list) + 1)
    OBVIOUS
<1>2. \A i \in DOMAIN list : i \in DOMAIN Append(list, s) /\ Append(list, s)[i] = list[i]
    OBVIOUS
<1>3. Append(list, s)[Len(list) + 1] = s /\ Len(list) + 1 \in DOMAIN Append(list, s)
    OBVIOUS
<1>4. \A i \in DOMAIN Append(list, s) : i = Len(list) + 1 \/ i \in DOMAIN list
    BY <1>1
<1> QED BY <1>1, <1>2, <1>3, <1>4 DEF Elements

LEMMA FreeSlotsPop ==
    ASSUME NEW list \in Seq(SeqIds), Len(list) > 0, NoRepeats(list),
           NEW s, s = list[Len(list)],
           NEW rest, rest = SubSeq(list, 1, Len(list) - 1)
    PROVE  /\ s \in SeqIds
           /\ rest \in Seq(SeqIds)
           /\ Len(rest) = Len(list) - 1
           /\ NoRepeats(rest)
           /\ Elements(rest) = Elements(list) \ {s}
<1> DEFINE n == Len(list)
<1>1. n \in Nat /\ n > 0 /\ DOMAIN list = 1..n /\ s \in SeqIds
    OBVIOUS
<1>2. rest \in Seq(SeqIds) /\ Len(rest) = n - 1
    BY <1>1
<1>3. DOMAIN rest = 1..(n - 1) /\ \A i \in 1..(n - 1) : rest[i] = list[i]
    BY <1>2
<1>4. NoRepeats(rest)
    BY <1>1, <1>3 DEF NoRepeats
<1>5. Elements(rest) = Elements(list) \ {s}
    <2>1. \A i \in DOMAIN rest : i \in DOMAIN list /\ i # n
        BY <1>1, <1>3
    <2>2. \A i \in DOMAIN list : i = n \/ i \in DOMAIN rest
        BY <1>1, <1>3
    <2>3. \A i \in DOMAIN list : list[i] = s <=> i = n
        BY <1>1 DEF NoRepeats
    <2> QED BY <1>3, <2>1, <2>2, <2>3 DEF Elements
<1> QED BY <1>1, <1>2, <1>4, <1>5
-----------------------------------------------------------------------------
(* finish(): a request gives everything back at once.                      *)
LEMMA GiveBackBooks ==
    ASSUME BooksInv, NEW r \in active, GiveBack(r), UNCHANGED waiting
    PROVE  BooksInv' /\ active' = active \ {r}
<1> DEFINE s == slot[r]
<1>1. r \in Requests /\ s \in SeqIds
    BY DEF active, BooksInv, CoreTypeOK
<1>2. active' = active \ {r}
    BY DEF active, GiveBack, LeaveBatch, BooksInv, CoreTypeOK
<1>3. KVInv'
    BY <1>1, ReleaseInv DEF BooksInv, GiveBack, LeaveBatch
<1>4. CoreTypeOK'
    <2>1. free_slots' \in Seq(SeqIds)
        BY <1>1 DEF BooksInv, CoreTypeOK, GiveBack, LeaveBatch, ReturnSlot
    <2>2. slot' \in [Requests -> SeqIds \cup {NoSeq}]
        BY <1>1 DEF BooksInv, CoreTypeOK, GiveBack, LeaveBatch
    <2>3. /\ claims' \in [SeqIds -> Seq(Token)]
          /\ ~PrefixCacheEnabled => \A t \in SeqIds : claims'[t] = <<>>
        <3>1. CASE PrefixCacheEnabled
            <4>1. claims' = [claims EXCEPT ![s] = <<>>]
                BY <3>1 DEF GiveBack, LeaveBatch, DropClaim, Unclaim
            <4>2. claims \in [SeqIds -> Seq(Token)] /\ <<>> \in Seq(Token)
                BY DEF BooksInv, CoreTypeOK
            <4> QED BY <3>1, <4>1, <4>2
        <3>2. CASE ~PrefixCacheEnabled
            BY <3>2 DEF BooksInv, CoreTypeOK, GiveBack, LeaveBatch, DropClaim, indexvars
        <3> QED BY <3>1, <3>2
    <2> QED BY <2>1, <2>2, <2>3 DEF BooksInv, CoreTypeOK
<1>5. ReservationsExact'
    <2>1. r \in DOMAIN block_table /\ r \notin waiting
        BY DEF BooksInv, ReservationsExact
    <2>2. DOMAIN block_table' = DOMAIN block_table \ {r}
        BY <2>1 DEF GiveBack, LeaveBatch, Release, Without
    <2> QED BY <1>2, <2>1, <2>2 DEF BooksInv, ReservationsExact
<1>6. SlotPartition'
    <2>1. /\ free_slots \in Seq(SeqIds)
          /\ free_slots' = Append(free_slots, s)
          /\ \A q \in active' : slot'[q] = slot[q]
        BY <1>2 DEF BooksInv, CoreTypeOK, GiveBack, LeaveBatch, ReturnSlot, active
    <2>2. ~ \E i \in DOMAIN free_slots : free_slots[i] = s
        BY <1>1 DEF BooksInv, SlotPartition
    <2> HIDE DEF s
    <2>3. \A i, j \in DOMAIN free_slots' : free_slots'[i] = free_slots'[j] => i = j
        BY <1>1, <2>1, <2>2 DEF BooksInv, SlotPartition
    <2>4. \A q, p \in active' : slot'[q] = slot'[p] => q = p
        BY <1>2, <2>1 DEF BooksInv, SlotPartition
    <2>5. ASSUME NEW t \in SeqIds
          PROVE  (\E i \in DOMAIN free_slots' : free_slots'[i] = t)
                    <=> ~(\E q \in active' : slot'[q] = t)
        <3>1. (\E i \in DOMAIN free_slots' : free_slots'[i] = t)
                 <=> (t = s \/ \E i \in DOMAIN free_slots : free_slots[i] = t)
            <4>1. Elements(free_slots') = Elements(free_slots) \cup {s}
                BY <1>1, <2>1, FreeSlotsAppend
            <4> QED BY <4>1 DEF Elements
        <3>2. (\E i \in DOMAIN free_slots : free_slots[i] = t)
                 <=> ~(\E q \in active : slot[q] = t)
            BY DEF BooksInv, SlotPartition
        <3>3. (\E q \in active' : slot'[q] = t) <=> (t # s /\ \E q \in active : slot[q] = t)
            BY <1>2, <2>1 DEF BooksInv, SlotPartition, s
        <3> QED BY <3>1, <3>2, <3>3
    <2> QED BY <2>3, <2>4, <2>5 DEF SlotPartition
<1>7. ClaimsAreLive'
    <2> SUFFICES ASSUME NEW t \in SeqIds, claims'[t] # <<>>
                 PROVE  \E q \in active' : slot'[q] = t /\ claims'[t] = Published(Prompt[q])
        BY DEF ClaimsAreLive
    <2>1. t # s /\ claims'[t] = claims[t]
        BY <1>1 DEF BooksInv, CoreTypeOK, GiveBack, LeaveBatch, DropClaim, Unclaim, indexvars
    <2>2. PICK q \in active : slot[q] = t /\ claims[t] = Published(Prompt[q])
        BY <2>1 DEF BooksInv, ClaimsAreLive
    <2>3. q # r /\ slot'[q] = slot[q]
        BY <2>1, <2>2 DEF GiveBack, LeaveBatch, BooksInv, CoreTypeOK, active
    <2> QED BY <1>2, <2>1, <2>2, <2>3
<1> QED BY <1>2, <1>3, <1>4, <1>5, <1>6, <1>7 DEF BooksInv

LEMMA FinishCore ==
    ASSUME CoreInv, NEW r \in active, finish(r), UNCHANGED waiting
    PROVE  CoreInv' /\ active' = active \ {r}
<1>1. BooksInv' /\ active' = active \ {r}
    BY GiveBackBooks DEF CoreInv, finish
<1>2. r \notin waiting
    BY DEF CoreInv, BooksInv, ReservationsExact
<1>3. /\ roots' = roots \ {r}
      /\ open_children' = open_children \ {<<r, "generation">>}
    BY DEF finish, TraceEnded
<1>4. SpansBalanced'
    BY <1>1, <1>2, <1>3 DEF CoreInv, SpansBalanced
<1> QED BY <1>1, <1>4 DEF CoreInv

(* expire_stale_waiters(): a waiter gives back its blocks.                 *)
LEMMA LeaveCore ==
    ASSUME CoreInv, NEW r \in waiting, LeaveQueue(r), TraceEnded(r, "queue_wait"),
           waiting' = waiting \ {r}, UNCHANGED <<claims, free_slots, slot>>
    PROVE  CoreInv' /\ active' = active
<1>1. r \in Requests /\ r \notin active /\ r \in DOMAIN block_table
    BY DEF CoreInv, BooksInv, CoreTypeOK, ReservationsExact
<1>2. active' = active
    BY DEF active
<1>3. KVInv'
    BY <1>1, ReleaseInv DEF CoreInv, BooksInv, LeaveQueue
<1>4. IsFiniteSet(waiting')
    BY FS_Subset DEF CoreInv, BooksInv, CoreTypeOK
<1>5. CoreTypeOK'
    BY <1>4 DEF CoreInv, BooksInv, CoreTypeOK
<1>6. ReservationsExact'
    <2>1. DOMAIN block_table' = DOMAIN block_table \ {r}
        BY <1>1 DEF LeaveQueue, Release, Without
    <2> QED BY <1>1, <1>2, <2>1 DEF CoreInv, BooksInv, ReservationsExact
<1>7. SlotPartition' /\ ClaimsAreLive'
    BY <1>2 DEF CoreInv, BooksInv, SlotPartition, ClaimsAreLive
<1>8. SpansBalanced'
    BY <1>1, <1>2 DEF CoreInv, BooksInv, SpansBalanced, TraceEnded
<1> QED BY <1>2, <1>3, <1>5, <1>6, <1>7, <1>8 DEF CoreInv, BooksInv

(* generate(): an accepted request holds its blocks and waits.             *)
LEMMA AcceptBooks ==
    ASSUME BooksInv, NEW r \in Requests, Accept(r), UNCHANGED <<claims, free_slots, slot>>
    PROVE  BooksInv' /\ active' = active
<1>1. worst_case_tokens(r) \in Nat
    BY LoopAssumption DEF worst_case_tokens
<1>2. active' = active
    BY DEF active
<1>3. KVInv'
    BY <1>1, ReserveInv DEF BooksInv, Accept
<1>4. waiting' = waiting \cup {r} /\ r \notin waiting \cup active
    BY DEF BooksInv, ReservationsExact, Accept, push, Reserve
<1>5. IsFiniteSet(waiting')
    BY <1>4, FS_AddElement DEF BooksInv, CoreTypeOK
<1>6. CoreTypeOK'
    BY <1>4, <1>5 DEF BooksInv, CoreTypeOK
<1>7. ReservationsExact'
    <2>1. DOMAIN block_table' = DOMAIN block_table \cup {r}
        BY DEF Accept, Reserve, With
    <2> QED BY <1>2, <1>4, <2>1 DEF BooksInv, ReservationsExact
<1>8. SlotPartition' /\ ClaimsAreLive'
    BY <1>2 DEF BooksInv, SlotPartition, ClaimsAreLive
<1> QED BY <1>2, <1>3, <1>6, <1>7, <1>8 DEF BooksInv

LEMMA AcceptCore ==
    ASSUME CoreInv, NEW r \in Requests, Accept(r), UNCHANGED <<claims, free_slots, slot>>
    PROVE  CoreInv' /\ active' = active
<1>1. BooksInv' /\ active' = active
    BY AcceptBooks DEF CoreInv
<1>2. waiting' = waiting \cup {r} /\ r \notin waiting \cup active
    BY DEF CoreInv, BooksInv, ReservationsExact, Accept, push, Reserve
<1>3. <<r, "admission">> \notin open_children
    BY DEF CoreInv, SpansBalanced
<1>4. roots' = roots \cup {r} /\ open_children' = open_children \cup {<<r, "queue_wait">>}
    BY <1>3 DEF Accept, TraceAccepted
<1>5. SpansBalanced'
    BY <1>1, <1>2, <1>4 DEF CoreInv, SpansBalanced
<1> QED BY <1>1, <1>5 DEF CoreInv

(* ... and one that is rejected leaves nothing behind.                     *)
LEMMA RejectCore ==
    ASSUME CoreInv, NEW r \in Requests, Reject(r), r \notin waiting \cup active,
           UNCHANGED <<claims, free_slots, slot>>
    PROVE  UNCHANGED corevars
<1>1. UNCHANGED <<kvvars, waiting>>
    BY DEF Reject, ReserveRefused
<1>2. r \notin roots /\ <<r, "admission">> \notin open_children
    BY DEF CoreInv, BooksInv, SpansBalanced
<1>3. UNCHANGED tracevars
    BY <1>2 DEF Reject, TraceRejected, tracevars
<1> QED BY <1>1, <1>3 DEF corevars, booksvars

(* admit(): a waiter takes the slot on top of the free list.               *)
LEMMA AdmitCore ==
    ASSUME CoreInv, NEW r \in waiting, Admit(r), Len(free_slots) > 0
    PROVE  /\ CoreInv'
           /\ active' = active \cup {r}
           /\ free_slots' = SubSeq(free_slots, 1, Len(free_slots) - 1)
           /\ Len(free_slots') = Len(free_slots) - 1
<1> DEFINE s == free_slots[Len(free_slots)]
<1>1. /\ slot' = [slot EXCEPT ![r] = s]
      /\ waiting' = waiting \ {r}
      /\ free_slots' = SubSeq(free_slots, 1, Len(free_slots) - 1)
      /\ UNCHANGED kvvars
      /\ TraceAdmitted(r)
    BY DEF Admit
<1>2. /\ s \in SeqIds
      /\ free_slots' \in Seq(SeqIds)
      /\ Len(free_slots') = Len(free_slots) - 1
      /\ \A i, j \in DOMAIN free_slots' : free_slots'[i] = free_slots'[j] => i = j
      /\ \A t \in SeqIds :
            (\E i \in DOMAIN free_slots' : free_slots'[i] = t)
               <=> (t # s /\ \E i \in DOMAIN free_slots : free_slots[i] = t)
    <2>1. free_slots \in Seq(SeqIds) /\ NoRepeats(free_slots)
        BY DEF CoreInv, BooksInv, CoreTypeOK, SlotPartition, NoRepeats
    <2>2. s = free_slots[Len(free_slots)]
        OBVIOUS
    <2> HIDE DEF s
    <2>3. /\ s \in SeqIds
          /\ free_slots' \in Seq(SeqIds)
          /\ Len(free_slots') = Len(free_slots) - 1
          /\ NoRepeats(free_slots')
          /\ Elements(free_slots') = Elements(free_slots) \ {s}
        BY <1>1, <2>1, <2>2, FreeSlotsPop
    <2> QED BY <2>3 DEF NoRepeats, Elements
<1>3. \E i \in DOMAIN free_slots : free_slots[i] = s
    BY DEF CoreInv, BooksInv, CoreTypeOK
<1>4. /\ \/ PrefixCacheEnabled /\ Claim(Prompt[r], s)
         \/ ~PrefixCacheEnabled /\ UNCHANGED indexvars
    BY DEF Admit
<1> HIDE DEF s
<1>5. r \in Requests /\ r \notin active
    BY DEF CoreInv, BooksInv, CoreTypeOK, ReservationsExact
<1>6. active' = active \cup {r} /\ \A q \in active : slot'[q] = slot[q]
    BY <1>1, <1>2, <1>5, IndexAssumption DEF active, CoreInv, BooksInv, CoreTypeOK
<1>7. slot'[r] = s
    BY <1>1, <1>5 DEF CoreInv, BooksInv, CoreTypeOK
<1>8. KVInv'
    BY <1>1 DEF CoreInv, BooksInv, kvvars, KVInv, KVTypeOK, Ledger, total_blocks, Total, Units
<1>9. Prompt[r] \in Seq(Token) /\ Published(Prompt[r]) \in Seq(Token)
    BY <1>5, LoopAssumption, PublishedType
<1>10. \/ claims' = claims
       \/ PrefixCacheEnabled /\ claims' = [claims EXCEPT ![s] = Published(Prompt[r])]
    BY <1>4 DEF Claim, indexvars
<1>11. CoreTypeOK'
    <2>1. IsFiniteSet(waiting')
        BY <1>1, FS_Subset DEF CoreInv, BooksInv, CoreTypeOK
    <2>2. slot' \in [Requests -> SeqIds \cup {NoSeq}]
        BY <1>1, <1>2 DEF CoreInv, BooksInv, CoreTypeOK
    <2>3. /\ claims' \in [SeqIds -> Seq(Token)]
          /\ ~PrefixCacheEnabled => \A t \in SeqIds : claims'[t] = <<>>
        <3>1. CASE claims' = claims
            BY <3>1 DEF CoreInv, BooksInv, CoreTypeOK
        <3>2. CASE PrefixCacheEnabled /\ claims' = [claims EXCEPT ![s] = Published(Prompt[r])]
            BY <1>2, <1>9, <3>2 DEF CoreInv, BooksInv, CoreTypeOK
        <3> QED BY <1>10, <3>1, <3>2
    <2> QED BY <1>1, <1>2, <2>1, <2>2, <2>3 DEF CoreInv, BooksInv, CoreTypeOK
<1>12. ReservationsExact'
    BY <1>1, <1>5, <1>6 DEF CoreInv, BooksInv, ReservationsExact, kvvars
<1>13. SlotPartition'
    <2>1. \A q, p \in active' : slot'[q] = slot'[p] => q = p
        BY <1>2, <1>3, <1>6, <1>7 DEF CoreInv, BooksInv, SlotPartition
    <2>2. ASSUME NEW t \in SeqIds
          PROVE  (\E i \in DOMAIN free_slots' : free_slots'[i] = t)
                    <=> ~(\E q \in active' : slot'[q] = t)
        <3>1. (\E q \in active' : slot'[q] = t) <=> (t = s \/ \E q \in active : slot[q] = t)
            BY <1>6, <1>7
        <3>2. (\E i \in DOMAIN free_slots : free_slots[i] = t)
                 <=> ~(\E q \in active : slot[q] = t)
            BY DEF CoreInv, BooksInv, SlotPartition
        <3> QED BY <1>2, <3>1, <3>2
    <2> QED BY <1>2, <2>1, <2>2 DEF SlotPartition
<1>14. ClaimsAreLive'
    <2> SUFFICES ASSUME NEW t \in SeqIds, claims'[t] # <<>>
                 PROVE  \E q \in active' : slot'[q] = t /\ claims'[t] = Published(Prompt[q])
        BY DEF ClaimsAreLive
    <2>1. CASE claims'[t] = claims[t]
        <3>1. PICK q \in active : slot[q] = t /\ claims[t] = Published(Prompt[q])
            BY <2>1 DEF CoreInv, BooksInv, ClaimsAreLive
        <3> QED BY <1>6, <2>1, <3>1
    <2>2. CASE claims'[t] # claims[t]
        <3>1. t = s /\ claims'[t] = Published(Prompt[r])
            BY <1>2, <1>10, <2>2 DEF CoreInv, BooksInv, CoreTypeOK
        <3> QED BY <1>6, <1>7, <3>1
    <2> QED BY <2>1, <2>2
<1>15. SpansBalanced'
    <2>1. /\ roots' = roots
          /\ open_children' = (open_children \ {<<r, "queue_wait">>}) \cup {<<r, "generation">>}
        BY <1>1 DEF TraceAdmitted
    <2> QED BY <1>1, <1>5, <1>6, <2>1 DEF CoreInv, BooksInv, SpansBalanced
<1> QED BY <1>1, <1>2, <1>6, <1>8, <1>11, <1>12, <1>13, <1>14, <1>15 DEF CoreInv, BooksInv
-----------------------------------------------------------------------------
(* A list of all slots, as long as there are slots, repeats none.          *)
LEMMA InitialSlots ==
    ASSUME NEW list \in [1..Cardinality(SeqIds) -> SeqIds],
           \A s \in SeqIds : \E i \in DOMAIN list : list[i] = s
    PROVE  list \in Seq(SeqIds) /\ NoRepeats(list)
<1> DEFINE n == Cardinality(SeqIds)
<1>1. n \in Nat
    BY LoopAssumption, FS_CardinalityType
<1>2. IsFiniteSet(1..n) /\ Cardinality(1..n) = n
    BY <1>1, FS_Interval, 1 \in Int, n \in Int
<1>3. list \in Surjection(1..n, SeqIds)
    BY DEF Surjection
<1>4. list \in Injection(1..n, SeqIds)
    BY <1>2, <1>3, FS_SurjSameCardinalityImpliesInj
<1>5. list \in Seq(SeqIds)
    BY <1>1
<1> QED BY <1>4, <1>5 DEF Injection, IsInjective, NoRepeats

LEMMA InitInv == Init => LoopInv
<1> SUFFICES ASSUME Init PROVE LoopInv
    OBVIOUS
<1>1. active = {} /\ waiting = {}
    BY DEF Init, active
<1>2. KVInv
    BY KVInitInv DEF Init
<1>3. free_slots \in Seq(SeqIds) /\ NoRepeats(free_slots)
    BY InitialSlots DEF Init
<1>4. CoreTypeOK
    <2>1. IsFiniteSet(waiting)
        BY <1>1, FS_EmptySet
    <2>2. /\ slot \in [Requests -> SeqIds \cup {NoSeq}]
          /\ claims = [s \in SeqIds |-> <<>>]
        BY DEF Init, IndexInit
    <2>3. claims \in [SeqIds -> Seq(Token)]
        BY <2>2
    <2> QED BY <1>1, <1>3, <2>1, <2>2, <2>3 DEF CoreTypeOK
<1>5. ReservationsExact
    BY <1>1 DEF Init, KVInit, ReservationsExact
<1>6. SlotPartition
    <2>1. \A s \in SeqIds : \E i \in DOMAIN free_slots : free_slots[i] = s
        BY DEF Init
    <2> QED BY <1>1, <1>3, <2>1 DEF SlotPartition, NoRepeats
<1>7. ClaimsAreLive
    BY DEF Init, IndexInit, ClaimsAreLive
<1>8. SpansBalanced
    BY <1>1 DEF Init, TraceInit, SpansBalanced
<1>9. PhaseInv
    <2>1. Cardinality(selected) <= Len(free_slots)
        BY <1>3, FS_EmptySet DEF Init
    <2>2. consumer \in [Requests -> ConsumerStates]
        BY DEF Init, StreamInit, ConsumerStates
    <2> QED BY <1>1, <2>1, <2>2 DEF Init, PhaseInv, NoLostWakeup
<1> QED BY <1>2, <1>4, <1>5, <1>6, <1>7, <1>8, <1>9 DEF LoopInv, CoreInv, BooksInv
-----------------------------------------------------------------------------
(* Handlers, consumers and time, which run while the loop is in an await.  *)
LEMMA ConsumerTyped ==
    ASSUME consumer \in [Requests -> ConsumerStates], NEW r \in Requests,
           ConsumerStep(r) \/ ClientStep(r)
    PROVE  /\ consumer' \in [Requests -> ConsumerStates]
           /\ \A q \in Requests : consumer[q] # "none" => consumer'[q] # "none"
BY DEF ConsumerStep, ClientStep, ConsumerStates, Start, ReceiveText, SeeDisconnect,
       ReceiveEnd, Finalize, Disconnect, CancelTask, CancelSend

LEMMA HandlerInv ==
    ASSUME LoopInv, NEW r \in Requests, generate(r) \/ Consume(r) \/ Client(r) \/ Age(r)
    PROVE  LoopInv'
<1>1. CASE generate(r)
    <2>1. r \notin waiting \cup active
        BY <1>1 DEF generate, LoopInv, PhaseInv
    <2>2. UNCHANGED <<claims, free_slots, slot, pc, selected, sampled>>
        BY <1>1 DEF generate, indexvars, seqvars, batchvars
    <2>3. selected = {} /\ sampled = {}
        BY <1>1 DEF generate, AtAwait, LoopInv, PhaseInv
    <2>4. CASE Accept(r)
        <3>1. CoreInv' /\ active' = active
            BY <2>2, <2>4, AcceptCore DEF LoopInv
        <3>2. waiting' = waiting \cup {r} /\ arrived' = TRUE
            BY <2>4 DEF Accept, push
        <3>3. /\ consumer' \in [Requests -> ConsumerStates]
              /\ \A q \in waiting' \cup active' : consumer'[q] # "none"
            BY <2>4, <3>1, <3>2 DEF Accept, LoopInv, PhaseInv, ConsumerStates,
                                    CoreInv, BooksInv, CoreTypeOK, active
        <3> QED BY <2>2, <2>3, <3>1, <3>2, <3>3 DEF LoopInv, PhaseInv, NoLostWakeup
    <2>5. CASE Reject(r)
        <3>1. UNCHANGED corevars
            BY <2>1, <2>2, <2>5, RejectCore DEF LoopInv
        <3>2. CoreInv' /\ active' = active
            BY <3>1, CoreUnchanged DEF LoopInv
        <3>3. UNCHANGED <<waiting, arrived>>
            BY <2>5 DEF Reject
        <3>4. /\ consumer' \in [Requests -> ConsumerStates]
              /\ \A q \in waiting' \cup active' : consumer'[q] # "none"
            BY <2>1, <2>5, <3>2, <3>3 DEF Reject, LoopInv, PhaseInv, ConsumerStates,
                                          CoreInv, BooksInv, CoreTypeOK, active
        <3> QED BY <2>2, <2>3, <3>2, <3>3, <3>4 DEF LoopInv, PhaseInv, NoLostWakeup
    <2> QED BY <1>1, <2>4, <2>5 DEF generate
<1>2. CASE Consume(r) \/ Client(r) \/ Age(r)
    <2>1. UNCHANGED corevars /\ UNCHANGED <<arrived, pc, selected, sampled>>
        BY <1>2 DEF Consume, Client, Age, corevars, booksvars, indexvars, seqvars,
                    batchvars, queuevars
    <2>2. CoreInv' /\ active' = active /\ waiting' = waiting /\ free_slots' = free_slots
        BY <2>1, CoreUnchanged DEF LoopInv, corevars, booksvars
    <2>3. /\ consumer' \in [Requests -> ConsumerStates]
          /\ \A q \in Requests : consumer[q] # "none" => consumer'[q] # "none"
        <3>1. CASE Consume(r) \/ Client(r)
            BY <3>1, ConsumerTyped DEF Consume, Client, LoopInv, PhaseInv
        <3>2. CASE Age(r)
            BY <3>2 DEF Age, streamvars, LoopInv, PhaseInv
        <3> QED BY <1>2, <3>1, <3>2
    <2>4. waiting \cup active \subseteq Requests
        BY DEF LoopInv, CoreInv, BooksInv, CoreTypeOK, active
    <2> QED BY <2>1, <2>2, <2>3, <2>4 DEF LoopInv, PhaseInv, NoLostWakeup
<1> QED BY <1>1, <1>2
-----------------------------------------------------------------------------
(* The steps of the loop that leave the core's variables alone.            *)
LEMMA QuietInv ==
    ASSUME LoopInv,
           \/ GoIdle \/ Wake \/ Select \/ Build \/ Yield \/ FailDone \/ SampleDone
           \/ Decode \/ DecodeFails
           \/ \E r \in Requests, token \in Sampled : SampleEmits(r, token)
    PROVE  LoopInv'
<1>1. UNCHANGED corevars /\ UNCHANGED consumer
    BY DEF GoIdle, Wake, Select, Build, Yield, FailDone, SampleDone, Decode, DecodeFails,
           SampleEmits, corevars, booksvars, indexvars, streamvars, queuevars, seqvars
<1>2. CoreInv' /\ active' = active /\ waiting' = waiting /\ free_slots' = free_slots
    BY <1>1, CoreUnchanged DEF LoopInv, corevars, booksvars
<1>3. CASE GoIdle \/ Wake \/ Build \/ Yield \/ FailDone \/ SampleDone \/ DecodeFails
    <2>1. UNCHANGED <<selected, sampled>>
        BY <1>3 DEF GoIdle, Wake, Build, Yield, FailDone, SampleDone, DecodeFails, batchvars
    <2>2. selected = {} /\ (pc' # "sample" => sampled = {})
        BY <1>3 DEF GoIdle, Wake, Build, Yield, FailDone, SampleDone, DecodeFails,
                    LoopInv, PhaseInv
    <2>3. NoLostWakeup'
        BY <1>2, <1>3 DEF GoIdle, Wake, Build, Yield, FailDone, SampleDone, DecodeFails,
                          NoLostWakeup
    <2> QED BY <1>1, <1>2, <2>1, <2>2, <2>3 DEF LoopInv, PhaseInv
<1>4. CASE Select
    <2>1. /\ selected' \subseteq waiting /\ pc' = "admit"
          /\ UNCHANGED sampled /\ sampled = {}
        BY <1>4 DEF Select, LoopInv, PhaseInv
    <2>2. Cardinality(selected') <= Len(free_slots)
        <3>1. Len(free_slots) \in Nat
            BY DEF LoopInv, CoreInv, BooksInv, CoreTypeOK
        <3> QED BY <1>4, <3>1 DEF Select
    <2> QED BY <1>1, <1>2, <2>1, <2>2 DEF LoopInv, PhaseInv, NoLostWakeup
<1>5. CASE Decode
    <2>1. UNCHANGED selected /\ selected = {} /\ pc' = "sample"
        BY <1>5 DEF Decode, LoopInv, PhaseInv
    <2>2. PICK token \in [Flagged -> Sampled] : sampled' = {<<r, token[r]>> : r \in Flagged}
        BY <1>5 DEF Decode
    <2>3. sampled' \subseteq active \X Sampled
        BY <2>2 DEF Flagged
    <2>4. \A p, q \in sampled' : p[1] = q[1] => p = q
        BY <2>2
    <2> QED BY <1>1, <1>2, <2>1, <2>3, <2>4 DEF LoopInv, PhaseInv, NoLostWakeup
<1>6. CASE \E r \in Requests, token \in Sampled : SampleEmits(r, token)
    <2>1. UNCHANGED <<selected, pc>> /\ sampled' \subseteq sampled /\ pc = "sample"
        BY <1>6 DEF SampleEmits
    <2> QED BY <1>1, <1>2, <2>1 DEF LoopInv, PhaseInv, NoLostWakeup
<1> QED BY <1>3, <1>4, <1>5, <1>6

LEMMA ExpireInv ==
    ASSUME LoopInv, NEW r \in Requests, ExpireWaiter(r)
    PROVE  LoopInv'
<1>1. /\ r \in waiting /\ waiting' = waiting \ {r}
      /\ LeaveQueue(r) /\ TraceEnded(r, "queue_wait")
      /\ UNCHANGED <<claims, free_slots, slot, consumer, pc, selected, sampled>>
      /\ pc \in {"top", "woken"}
    BY DEF ExpireWaiter, indexvars, seqvars, batchvars
<1>2. CoreInv' /\ active' = active
    BY <1>1, LeaveCore DEF LoopInv
<1>3. selected = {}
    BY <1>1 DEF LoopInv, PhaseInv
<1> QED BY <1>1, <1>2, <1>3 DEF LoopInv, PhaseInv, NoLostWakeup

(* There is a free slot for whoever admit() is called on.                  *)
LEMMA SlotForSelected ==
    ASSUME LoopInv, NEW r \in Requests, Admit(r)
    PROVE  Len(free_slots) > 0
<1>1. r \in selected /\ IsFiniteSet(selected)
    BY FS_Subset DEF Admit, LoopInv, PhaseInv, CoreInv, BooksInv, CoreTypeOK
<1>2. Cardinality(selected) \in Nat /\ Cardinality(selected) # 0
    BY <1>1, FS_CardinalityType, FS_EmptySet
<1>3. Len(free_slots) \in Nat /\ Cardinality(selected) <= Len(free_slots)
    BY DEF LoopInv, PhaseInv, CoreInv, BooksInv, CoreTypeOK
<1> QED BY <1>2, <1>3

LEMMA AdmitInv ==
    ASSUME LoopInv, NEW r \in Requests, Admit(r)
    PROVE  LoopInv'
<1>1. /\ pc = "admit" /\ r \in selected /\ selected' = selected \ {r}
      /\ waiting' = waiting \ {r}
      /\ UNCHANGED <<consumer, pc, sampled>>
    BY DEF Admit, streamvars
<1>2. r \in waiting /\ IsFiniteSet(selected)
    BY <1>1, FS_Subset DEF LoopInv, PhaseInv, CoreInv, BooksInv, CoreTypeOK
<1>3. /\ Cardinality(selected) \in Nat
      /\ Cardinality(selected') = Cardinality(selected) - 1
      /\ Cardinality(selected') \in Nat
    BY <1>1, <1>2, FS_CardinalityType, FS_RemoveElement
<1>4. Len(free_slots) \in Nat /\ Cardinality(selected) <= Len(free_slots)
    BY DEF LoopInv, PhaseInv, CoreInv, BooksInv, CoreTypeOK
<1>5. Len(free_slots) > 0
    BY <1>3, <1>4
<1>6. /\ CoreInv' /\ active' = active \cup {r}
      /\ Len(free_slots') = Len(free_slots) - 1
    BY <1>2, <1>5, AdmitCore DEF LoopInv
<1>7. Cardinality(selected') <= Len(free_slots')
    BY <1>3, <1>4, <1>6
<1> QED BY <1>1, <1>2, <1>6, <1>7 DEF LoopInv, PhaseInv, NoLostWakeup

LEMMA FailInv ==
    ASSUME LoopInv, NEW r \in Requests, FailOne(r)
    PROVE  LoopInv'
<1>1. /\ pc = "failed" /\ r \in active /\ finish(r)
      /\ UNCHANGED <<waiting, consumer, pc, selected, sampled>>
    BY DEF FailOne, queuevars, batchvars
<1>2. CoreInv' /\ active' = active \ {r}
    BY <1>1, FinishCore DEF LoopInv
<1>3. selected = {} /\ sampled = {}
    BY <1>1 DEF LoopInv, PhaseInv
<1>4. Cardinality(selected') <= Len(free_slots')
    BY <1>1, <1>2, <1>3, FS_EmptySet DEF CoreInv, BooksInv, CoreTypeOK
<1> QED BY <1>1, <1>2, <1>3, <1>4 DEF LoopInv, PhaseInv, NoLostWakeup

LEMMA SampleFinishesInv ==
    ASSUME LoopInv, NEW r \in Requests, NEW token \in Sampled, NEW timed_out \in BOOLEAN,
           SampleFinishes(r, token, timed_out)
    PROVE  LoopInv'
<1>1. /\ pc = "sample" /\ <<r, token>> \in sampled /\ finish(r)
      /\ sampled' = sampled \ {<<r, token>>}
      /\ UNCHANGED <<waiting, consumer, pc, selected>>
    BY DEF SampleFinishes, queuevars
<1>2. r \in active /\ selected = {}
    BY <1>1 DEF LoopInv, PhaseInv
<1>3. CoreInv' /\ active' = active \ {r}
    BY <1>1, <1>2, FinishCore DEF LoopInv
<1>4. Cardinality(selected') <= Len(free_slots')
    BY <1>1, <1>2, <1>3, FS_EmptySet DEF CoreInv, BooksInv, CoreTypeOK
<1>5. sampled' \subseteq active' \X Sampled
    <2>1. \A p \in sampled' : p \in active \X Sampled /\ p[1] # r
        BY <1>1 DEF LoopInv, PhaseInv
    <2> QED BY <1>3, <2>1
<1> QED BY <1>1, <1>2, <1>3, <1>4, <1>5 DEF LoopInv, PhaseInv, NoLostWakeup

LEMMA NextInv == LoopInv /\ [Next]_vars => LoopInv'
<1> SUFFICES ASSUME LoopInv, [Next]_vars PROVE LoopInv'
    OBVIOUS
<1>1. CASE LoopStep
    BY <1>1, QuietInv, ExpireInv, AdmitInv, FailInv, SampleFinishesInv DEF LoopStep
<1>2. CASE \E r \in Requests : generate(r) \/ Consume(r) \/ Client(r) \/ Age(r)
    BY <1>2, HandlerInv
<1>3. CASE UNCHANGED vars
    <2>1. /\ UNCHANGED corevars
          /\ UNCHANGED <<arrived, pc, selected, sampled, consumer>>
        BY <1>3 DEF vars, corevars, booksvars, indexvars, streamvars, seqvars, batchvars, queuevars
    <2>2. CoreInv' /\ active' = active /\ waiting' = waiting /\ free_slots' = free_slots
        BY <2>1, CoreUnchanged DEF LoopInv, corevars, booksvars
    <2> QED BY <2>1, <2>2 DEF LoopInv, PhaseInv, NoLostWakeup
<1> QED BY <1>1, <1>2, <1>3 DEF Next

(* The strengthened invariant holds in every reachable state.              *)
LEMMA LoopInvariant == Spec => []LoopInv
BY InitInv, NextInv, PTL DEF Spec
-----------------------------------------------------------------------------
(* No slot of the runtime is ever lost, shared or freed twice, on any of   *)
(* the exits of batch_loop and for any number of slots.                    *)
THEOREM SlotsNeverLost == Spec => []SlotPartition
<1>1. LoopInv => SlotPartition
    BY DEF LoopInv, CoreInv, BooksInv
<1> QED BY <1>1, LoopInvariant, PTL

(* Admission, expiry and finish() together keep exact books: precisely the *)
(* queued and the active requests hold blocks, and with what is free those *)
(* blocks are the whole pool.                                              *)
THEOREM BlocksNeverLost == Spec => [](ReservationsExact /\ Ledger)
<1>1. LoopInv => ReservationsExact /\ Ledger
    BY DEF LoopInv, CoreInv, BooksInv, KVInv
<1> QED BY <1>1, LoopInvariant, PTL

(* finish()'s evict() is enough: a slot never advertises a prompt other    *)
(* than that of the request that holds it.                                 *)
THEOREM DonorsAreLive == Spec => []ClaimsAreLive
<1>1. LoopInv => ClaimsAreLive
    BY DEF LoopInv, CoreInv, BooksInv
<1> QED BY <1>1, LoopInvariant, PTL

(* wait_until_nonempty() cannot sleep through an arrival.                  *)
THEOREM WakeupNeverLost == Spec => []NoLostWakeup
<1>1. LoopInv => NoLostWakeup
    BY DEF LoopInv, PhaseInv
<1> QED BY <1>1, LoopInvariant, PTL

(* Every path through generate() and batch_loop ends the spans it opened.  *)
THEOREM SpansEnded == Spec => []SpansBalanced
<1>1. LoopInv => SpansBalanced
    BY DEF LoopInv, CoreInv, BooksInv
<1> QED BY <1>1, LoopInvariant, PTL
-----------------------------------------------------------------------------
(* With nothing queued and nothing active, every block is free.            *)
LEMMA IdlePoolIsFull ==
    ASSUME LoopInv, waiting \cup active = {}
    PROVE  free_blocks = total_blocks /\ Cardinality(waiting) = 0
<1>1. DOMAIN block_table = {} /\ waiting = {}
    BY DEF LoopInv, CoreInv, BooksInv, ReservationsExact
<1>2. Units(block_table) = {}
    BY <1>1 DEF Units
<1>3. Total(block_table) = 0 /\ Cardinality(waiting) = 0
    BY <1>1, <1>2, FS_EmptySet DEF Total
<1>4. free_blocks \in Nat /\ free_blocks + Total(block_table) = total_blocks
    BY KVAssumption, BlockAssumption
    DEF LoopInv, CoreInv, BooksInv, KVInv, KVTypeOK, Ledger, total_blocks
<1> QED BY <1>3, <1>4

(* The loop itself rejects nobody.                                         *)
LEMMA LoopKeepsConsumers ==
    ASSUME LoopStep
    PROVE  consumer' = consumer
<1>1. CASE GoIdle \/ Wake \/ Select \/ Build \/ Yield \/ FailDone \/ SampleDone
    BY <1>1 DEF GoIdle, Wake, Select, Build, Yield, FailDone, SampleDone, streamvars
<1>2. CASE Decode \/ DecodeFails
    BY <1>2 DEF Decode, DecodeFails, streamvars
<1>3. ASSUME NEW r \in Requests, ExpireWaiter(r) \/ Admit(r) \/ FailOne(r)
      PROVE  consumer' = consumer
    BY <1>3 DEF ExpireWaiter, Admit, FailOne, streamvars
<1>4. ASSUME NEW r \in Requests, NEW token \in Sampled, NEW timed_out \in BOOLEAN,
             SampleFinishes(r, token, timed_out)
      PROVE  consumer' = consumer
    BY <1>4 DEF SampleFinishes
<1>5. ASSUME NEW r \in Requests, NEW token \in Sampled, SampleEmits(r, token)
      PROVE  consumer' = consumer
    BY <1>5 DEF SampleEmits
<1> QED BY <1>1, <1>2, <1>3, <1>4, <1>5 DEF LoopStep

(* Retrying a 503 against an idle server succeeds, unless the request is   *)
(* larger than the whole pool: no history of generate(), finish() and      *)
(* expiry leaves blocks behind that nobody holds.                          *)
THEOREM NoCapacityLost == Spec => IdleServerAccepts
<1>1. LoopInv /\ [Next]_vars => [TurnsAwayUnservable]_vars
    <2> SUFFICES ASSUME LoopInv, Next, NEW r \in Requests, waiting \cup active = {},
                        consumer[r] = "none", consumer'[r] = "rejected"
                 PROVE  MaxQueueDepth = 0 \/ blocks_needed(worst_case_tokens(r)) > total_blocks
        BY DEF TurnsAwayUnservable
    <2>1. CASE LoopStep
        BY <2>1, LoopKeepsConsumers
    <2>2. ASSUME NEW q \in Requests, generate(q)
          PROVE  MaxQueueDepth = 0 \/ blocks_needed(worst_case_tokens(r)) > total_blocks
        <3>1. consumer \in [Requests -> ConsumerStates]
            BY DEF LoopInv, PhaseInv
        <3>2. q = r /\ ~Accept(q)
            BY <2>2, <3>1 DEF generate, Accept, Reject
        <3>3. /\ Reject(r) /\ free_blocks = total_blocks
              /\ Cardinality(waiting) = 0 /\ MaxQueueDepth \in Nat
            BY <2>2, <3>2, IdlePoolIsFull, LoopAssumption DEF generate
        <3> QED BY <3>3 DEF Reject, ReserveRefused
    <2>3. ASSUME NEW q \in Requests, Consume(q) \/ Client(q) \/ Age(q)
          PROVE  FALSE
        <3>1. consumer \in [Requests -> ConsumerStates]
            BY DEF LoopInv, PhaseInv
        <3>2. \/ consumer' = consumer
              \/ \E now \in {"reading", "leaving", "done", "gone"} :
                    consumer' = [consumer EXCEPT ![q] = now]
            BY <2>3 DEF Consume, Client, Age, ConsumerStep, ClientStep, Start, ReceiveText,
                        SeeDisconnect, ReceiveEnd, Finalize, Disconnect, CancelTask, CancelSend,
                        streamvars
        <3> QED BY <3>1, <3>2
    <2> QED BY <2>1, <2>2, <2>3 DEF Next
<1> QED BY <1>1, LoopInvariant, PTL DEF Spec, IdleServerAccepts

-----------------------------------------------------------------------------
(***************************************************************************)
(* The cells llama.cpp holds are always the text the batch loop believes   *)
(* they are, for every choice of donors: prefix reuse never mixes two      *)
(* requests' text.  On top of LoopInv the invariant says of each active    *)
(* request that its context still begins with its prompt: a donor is found *)
(* by the prompt it published, but its cells hold a part of its context.   *)
(***************************************************************************)
(* The cells of a sequence that holds the first n tokens of a text.        *)
Cells(text, n) == {<<i - 1, text[i]>> : i \in 1..n}

(* The cells that the k tokens after the first n of a text are written to. *)
Rows(text, n, k) == {<<n + i - 1, text[n + i]>> : i \in 1..k}

(* The part llama_memory_seq_cp copies of the cells of a donor.            *)
Below(held, n) == {c \in held : c[1] < n}

(* What is left of a text without its first n tokens.                      *)
Suffix(text, n) == SubSeq(text, n + 1, Len(text))

CellTypeOK ==
    /\ pending \in [Requests -> Seq(Token)]
    /\ context \in [Requests -> Seq(Token)]
    /\ n_past \in [Requests -> Nat]
    /\ take \in [Requests -> Nat]
    /\ cells \in [SeqIds -> SUBSET (Nat \X Token)]

(* Request r's cells and pending tokens are its context, cut at n_past.    *)
Coherent(r) ==
    /\ n_past[r] <= Len(context[r])
    /\ cells[slot[r]] = Cells(context[r], n_past[r])
    /\ pending[r] = Suffix(context[r], n_past[r])
    /\ Len(Prompt[r]) <= Len(context[r])
    /\ \A i \in 1..Len(Prompt[r]) : context[r][i] = Prompt[r][i]

CellInv ==
    /\ CellTypeOK
    /\ pc # "failed" => \A r \in active : Coherent(r)
    /\ \A s \in Elements(free_slots) : cells[s] = {}
    /\ \A r \in Requests \ active : pending[r] = <<>>
    /\ \A r \in Requests : take[r] <= Len(pending[r])
    /\ pc # "decoding" => \A r \in Requests : take[r] = 0
    /\ \A p \in sampled : pending[p[1]] = <<>>

CellLoopInv == LoopInv /\ CellInv
-----------------------------------------------------------------------------
(* What the cells of a text and of its parts have to do with each other.   *)
LEMMA CellsType ==
    ASSUME NEW text \in Seq(Token), NEW n \in 0..Len(text)
    PROVE  Cells(text, n) \in SUBSET (Nat \X Token)
BY DEF Cells

LEMMA CellsExtend ==
    ASSUME NEW text \in Seq(Token), NEW n \in Nat, NEW k \in Nat, n + k <= Len(text)
    PROVE  Cells(text, n) \cup Rows(text, n, k) = Cells(text, n + k)
<1> DEFINE more == Rows(text, n, k)
<1>1. Cells(text, n) \subseteq Cells(text, n + k)
    BY DEF Cells
<1>2. more \subseteq Cells(text, n + k)
    <2>1. \A i \in 1..k : n + i \in 1..(n + k)
        OBVIOUS
    <2> QED BY <2>1 DEF Cells, Rows
<1>3. ASSUME NEW j \in 1..(n + k)
      PROVE  <<j - 1, text[j]>> \in Cells(text, n) \cup more
    <2>1. CASE j <= n
        BY <2>1 DEF Cells
    <2>2. CASE j > n
        <3>1. j - n \in 1..k /\ n + (j - n) = j
            BY <2>2
        <3> QED BY <3>1 DEF Rows
    <2> QED BY <2>1, <2>2
<1> QED BY <1>1, <1>2, <1>3 DEF Cells

LEMMA CellsCut ==
    ASSUME NEW text, NEW n \in Nat, NEW m \in 0..n
    PROVE  Below(Cells(text, n), m) = Cells(text, m)
BY DEF Cells, Below

LEMMA CellsAgree ==
    ASSUME NEW a, NEW b, NEW n \in Nat, \A i \in 1..n : a[i] = b[i]
    PROVE  Cells(a, n) = Cells(b, n)
BY DEF Cells

LEMMA CellsReach ==
    ASSUME NEW text, NEW n \in Nat, NEW m \in Nat, \E c \in Cells(text, n) : c[1] >= m - 1
    PROVE  m <= n
BY DEF Cells

LEMMA SuffixType ==
    ASSUME NEW text \in Seq(Token), NEW n \in 0..Len(text)
    PROVE  /\ Suffix(text, n) \in Seq(Token)
           /\ Len(Suffix(text, n)) = Len(text) - n
           /\ \A i \in 1..(Len(text) - n) : Suffix(text, n)[i] = text[n + i]
           /\ n = Len(text) => Suffix(text, n) = <<>>
<1>1. /\ Suffix(text, n) \in Seq(Token)
      /\ Len(Suffix(text, n)) = Len(text) - n
    BY DEF Suffix
<1>2. \A i \in 1..(Len(text) - n) : Suffix(text, n)[i] = text[n + i]
    BY DEF Suffix
<1>3. n = Len(text) => Len(Suffix(text, n)) = 0
    BY <1>1
<1> QED BY <1>1, <1>2, <1>3, EmptySeq

(* Cutting a prefix off twice.                                             *)
LEMMA SuffixOfSuffix ==
    ASSUME NEW text \in Seq(Token), NEW n \in Nat, NEW k \in Nat, n + k <= Len(text)
    PROVE  Suffix(Suffix(text, n), k) = Suffix(text, n + k)
<1> DEFINE rest == Suffix(text, n)
           left == Suffix(rest, k)
           right == Suffix(text, n + k)
<1>1. /\ rest \in Seq(Token) /\ Len(rest) = Len(text) - n
      /\ \A i \in 1..(Len(text) - n) : rest[i] = text[n + i]
    BY SuffixType
<1>2. /\ right \in Seq(Token) /\ Len(right) = Len(text) - (n + k)
      /\ \A i \in 1..(Len(text) - (n + k)) : right[i] = text[n + k + i]
    BY SuffixType
<1> HIDE DEF rest
<1>3. k \in 0..Len(rest)
    BY <1>1
<1>4. /\ left \in Seq(Token) /\ Len(left) = Len(rest) - k
      /\ \A i \in 1..(Len(rest) - k) : left[i] = rest[k + i]
    BY <1>1, <1>3, SuffixType
<1> HIDE DEF left, right
<1>5. Len(left) = Len(right)
    BY <1>1, <1>2, <1>4
<1>6. ASSUME NEW i \in 1..Len(left)
      PROVE  left[i] = right[i]
    <2>1. k + i \in 1..(Len(text) - n) /\ n + (k + i) = n + k + i
        BY <1>1, <1>4
    <2>2. left[i] = rest[k + i] /\ rest[k + i] = text[n + (k + i)]
        BY <1>1, <1>4, <2>1
    <2>3. right[i] = text[n + k + i]
        BY <1>2, <1>5
    <2> QED BY <2>1, <2>2, <2>3
<1>7. left = right
    BY <1>2, <1>4, <1>5, <1>6, SeqEqual
<1> QED BY <1>7 DEF left, right, rest
-----------------------------------------------------------------------------
LEMMA CellInitInv == Init => CellInv
<1> SUFFICES ASSUME Init PROVE CellInv
    OBVIOUS
<1>1. active = {} /\ sampled = {}
    BY DEF Init, active
<1>2. /\ pending = [r \in Requests |-> <<>>] /\ context = [r \in Requests |-> <<>>]
      /\ n_past = [r \in Requests |-> 0] /\ take = [r \in Requests |-> 0]
      /\ cells = [s \in SeqIds |-> {}]
    BY DEF Init
<1>3. CellTypeOK
    BY <1>2 DEF CellTypeOK
<1>4. \A s \in Elements(free_slots) : cells[s] = {}
    <2>1. free_slots \in Seq(SeqIds)
        BY InitialSlots DEF Init
    <2> QED BY <1>2, <2>1 DEF Elements
<1>5. \A r \in Requests : take[r] <= Len(pending[r])
    <2>1. Len(<<>>) = 0
        OBVIOUS
    <2>2. \A r \in Requests : take[r] = 0 /\ pending[r] = <<>>
        BY <1>2
    <2> SUFFICES ASSUME NEW r \in Requests PROVE take[r] <= Len(pending[r])
        OBVIOUS
    <2>3. take[r] = 0 /\ Len(pending[r]) = 0
        BY <2>1, <2>2, Zenon
    <2> QED BY <2>3
<1> QED BY <1>1, <1>2, <1>3, <1>4, <1>5 DEF CellInv

seqcellvars == <<seqvars, take, sampled, cells>>

(* A request whose own state is left alone stays coherent.                 *)
LEMMA CoherentKept ==
    ASSUME NEW r, Coherent(r), cells'[slot'[r]] = cells[slot[r]],
           n_past'[r] = n_past[r], context'[r] = context[r], pending'[r] = pending[r]
    PROVE  Coherent(r)'
BY DEF Coherent, Cells, Suffix

(* Steps that move no token: the loop may change its place, but not into a *)
(* decode, and it leaves "failed" only when nothing is active any more.    *)
LEMMA CellUnchanged ==
    ASSUME LoopInv, CellInv, UNCHANGED seqcellvars,
           pc' = "failed" \/ pc # "failed" \/ active = {},
           pc' = pc \/ (pc # "decoding" /\ pc' # "decoding")
    PROVE  CellInv'
<1>1. /\ UNCHANGED <<free_slots, slot, pending, n_past, context, take, sampled, cells>>
      /\ active' = active
    BY DEF seqcellvars, seqvars, active
<1>2. CellTypeOK'
    BY <1>1 DEF CellInv, CellTypeOK
<1>3. pc' # "failed" => \A r \in active' : Coherent(r)'
    BY <1>1 DEF CellInv, Coherent, Cells
<1>4. \A s \in Elements(free_slots') : cells'[s] = {}
    BY <1>1 DEF CellInv
<1> QED BY <1>1, <1>2, <1>3, <1>4 DEF CellInv

(* build_batch takes at most what is pending.                              *)
LEMMA BuildCell ==
    ASSUME LoopInv, CellInv, Build
    PROVE  CellInv'
<1>1. /\ UNCHANGED <<free_slots, slot, pending, n_past, context, sampled, cells>>
      /\ pc = "admit" /\ pc' # "failed" /\ active' = active
    BY DEF Build, seqvars, active
<1>2. PICK rows \in [Requests -> 0..ChunkSize] :
         /\ IsPrepared(Backlog, rows)
         /\ take' = rows
         /\ pc' = IF \A r \in Requests : rows[r] = 0 THEN "yield" ELSE "decoding"
    BY DEF Build
<1>3. ASSUME NEW r \in Requests
      PROVE  rows[r] \in 0..Slice(Len(pending[r]))
    BY <1>2, <1>3 DEF IsPrepared, Backlog
<1>4. ASSUME NEW r \in Requests
      PROVE  rows[r] \in Nat /\ rows[r] <= Len(pending[r])
    <2>1. Len(pending[r]) \in Nat
        BY <1>4 DEF CellInv, CellTypeOK
    <2> QED BY <1>3, <2>1, BatchAssumption DEF Slice
<1>5. CellTypeOK'
    BY <1>1, <1>2, <1>4 DEF CellInv, CellTypeOK
<1>6. \A r \in Requests : take'[r] <= Len(pending'[r])
    BY <1>1, <1>2, <1>4
<1>7. pc' # "decoding" => \A r \in Requests : take'[r] = 0
    BY <1>2
<1>8. \A r \in active' : Coherent(r)'
    BY <1>1 DEF CellInv, Coherent, Cells
<1> QED BY <1>1, <1>5, <1>6, <1>7, <1>8 DEF CellInv

(* The rows of the batch that belong to r's slot are r's own.              *)
LEMMA WrittenOwn ==
    ASSUME LoopInv, NEW r \in active
    PROVE  Written(slot[r]) = {<<n_past[r] + i - 1, pending[r][i]>> : i \in 1..take[r]}
<1>1. {q \in active : slot[q] = slot[r]} = {r}
    BY DEF LoopInv, CoreInv, BooksInv, SlotPartition
<1> QED BY <1>1 DEF Written

(* ... and nothing is written to a slot that is free.                      *)
LEMMA WrittenFree ==
    ASSUME LoopInv, NEW s \in Elements(free_slots)
    PROVE  s \in SeqIds /\ Written(s) = {}
<1>1. s \in SeqIds
    BY DEF Elements, LoopInv, CoreInv, BooksInv, CoreTypeOK
<1>2. {q \in active : slot[q] = s} = {}
    BY <1>1 DEF Elements, LoopInv, CoreInv, BooksInv, SlotPartition
<1> QED BY <1>1, <1>2 DEF Written

(* decode(): the tokens that leave pending_tokens become cells.            *)
LEMMA DecodeCoherent ==
    ASSUME LoopInv, CellInv, pc = "decoding", NEW r \in active,
           UNCHANGED <<slot, context>>,
           n_past'[r] = n_past[r] + take[r],
           pending'[r] = Suffix(pending[r], take[r]),
           cells'[slot[r]] = cells[slot[r]] \cup Written(slot[r])
    PROVE  Coherent(r)' /\ (take[r] = Len(pending[r]) => pending'[r] = <<>>)
<1> DEFINE text == context[r]
           n == n_past[r]
           k == take[r]
<1>1. r \in Requests
    BY DEF active
<1>2. text \in Seq(Token) /\ n \in Nat /\ k \in Nat /\ pending[r] \in Seq(Token)
    BY <1>1 DEF CellInv, CellTypeOK
<1>3. Coherent(r) /\ k <= Len(pending[r])
    BY <1>1 DEF CellInv
<1>4. /\ n <= Len(text)
      /\ cells[slot[r]] = Cells(text, n)
      /\ pending[r] = Suffix(text, n)
    BY <1>3 DEF Coherent
<1> HIDE DEF text, n, k
<1>5. /\ Len(pending[r]) = Len(text) - n
      /\ \A i \in 1..(Len(text) - n) : pending[r][i] = text[n + i]
    BY <1>2, <1>4, SuffixType
<1>6. n + k <= Len(text)
    BY <1>2, <1>3, <1>4, <1>5
<1>7. Suffix(pending[r], k) = Suffix(text, n + k)
    BY <1>2, <1>4, <1>6, SuffixOfSuffix
<1>8. Written(slot[r]) = Rows(text, n, k)
    <2>1. Written(slot[r]) = {<<n + i - 1, pending[r][i]>> : i \in 1..k}
        BY WrittenOwn DEF n, k
    <2>2. \A i \in 1..k : pending[r][i] = text[n + i]
        BY <1>2, <1>3, <1>5
    <2> QED BY <2>1, <2>2 DEF Rows
<1>9. cells'[slot[r]] = Cells(text, n + k)
    BY <1>2, <1>4, <1>6, <1>8, CellsExtend
<1>10. pending'[r] = Suffix(text, n + k)
    BY <1>7 DEF k
<1>11. k = Len(pending[r]) => pending'[r] = <<>>
    <2>1. k = Len(pending[r]) => n + k = Len(text)
        BY <1>2, <1>5
    <2> QED BY <1>2, <1>6, <1>10, <2>1, SuffixType
<1> QED BY <1>3, <1>6, <1>9, <1>10, <1>11 DEF Coherent, Cells, text, n, k

(* The cells a batch writes have their type.                               *)
LEMMA WrittenType ==
    ASSUME LoopInv, CellInv, NEW s \in SeqIds
    PROVE  Written(s) \in SUBSET (Nat \X Token)
<1> SUFFICES ASSUME NEW r \in active, slot[r] = s, NEW i \in 1..take[r]
             PROVE  <<n_past[r] + i - 1, pending[r][i]>> \in Nat \X Token
    BY DEF Written
<1>1. /\ pending[r] \in Seq(Token) /\ take[r] \in Nat /\ take[r] <= Len(pending[r])
      /\ n_past[r] \in Nat
    BY DEF CellInv, CellTypeOK, active
<1>2. i \in 1..Len(pending[r])
    BY <1>1
<1>3. n_past[r] + i - 1 \in Nat /\ pending[r][i] \in Token
    BY <1>1, <1>2
<1> QED BY <1>3

LEMMA DecodeCell ==
    ASSUME LoopInv, CellInv, Decode
    PROVE  CellInv'
<1>1. /\ pc = "decoding" /\ pc' = "sample"
      /\ UNCHANGED <<free_slots, slot, context>>
      /\ cells' = [s \in SeqIds |-> cells[s] \cup Written(s)]
      /\ n_past' = [r \in Requests |-> n_past[r] + take[r]]
      /\ pending' = [r \in Requests |-> Suffix(pending[r], take[r])]
      /\ take' = [r \in Requests |-> 0]
    BY DEF Decode, Suffix
<1>2. active' = active /\ active \subseteq Requests
    BY <1>1 DEF active
<1>3. ASSUME NEW r \in active
      PROVE  /\ Coherent(r)'
             /\ take[r] = Len(pending[r]) => pending'[r] = <<>>
    <2>1. slot[r] \in SeqIds
        BY <1>3 DEF active, LoopInv, CoreInv, BooksInv, CoreTypeOK
    <2> QED BY <1>1, <1>2, <1>3, <2>1, DecodeCoherent
<1>4. ASSUME NEW r \in Requests
      PROVE  /\ pending'[r] \in Seq(Token)
             /\ r \notin active => pending'[r] = <<>>
    <2>1. /\ pending[r] \in Seq(Token) /\ take[r] \in Nat /\ take[r] <= Len(pending[r])
          /\ pending'[r] = Suffix(pending[r], take[r])
        BY <1>1, <1>4 DEF CellInv, CellTypeOK
    <2>2. pending'[r] \in Seq(Token) /\ Len(pending'[r]) = Len(pending[r]) - take[r]
        BY <2>1, SuffixType
    <2>3. r \notin active => Len(pending[r]) = 0
        BY <1>4 DEF CellInv
    <2>4. r \notin active => Len(pending'[r]) = 0
        BY <2>1, <2>2, <2>3
    <2> QED BY <2>2, <2>4
<1>5. \A s \in SeqIds : Written(s) \in SUBSET (Nat \X Token)
    BY WrittenType
<1>6. CellTypeOK'
    <2>1. pending' \in [Requests -> Seq(Token)]
        BY <1>1, <1>4
    <2>2. n_past' \in [Requests -> Nat] /\ take' \in [Requests -> Nat]
        BY <1>1 DEF CellInv, CellTypeOK
    <2>3. cells' \in [SeqIds -> SUBSET (Nat \X Token)]
        BY <1>1, <1>5 DEF CellInv, CellTypeOK
    <2> QED BY <1>1, <2>1, <2>2, <2>3 DEF CellInv, CellTypeOK
<1>7. \A s \in Elements(free_slots') : cells'[s] = {}
    BY <1>1, WrittenFree DEF CellInv
<1>8. \A r \in Requests : take'[r] = 0 /\ take'[r] <= Len(pending'[r])
    BY <1>1, <1>4
<1>9. \A p \in sampled' : pending'[p[1]] = <<>>
    <2>1. \A p \in sampled' : p[1] \in Flagged
        BY DEF Decode
    <2> QED BY <1>3, <2>1 DEF Flagged
<1> QED BY <1>1, <1>2, <1>3, <1>4, <1>6, <1>7, <1>8, <1>9 DEF CellInv

(* decode() raises: nothing is said of the active requests' cells any      *)
(* more, but the free slots are still empty.                               *)
LEMMA DecodeFailsCell ==
    ASSUME LoopInv, CellInv, DecodeFails
    PROVE  CellInv'
<1>1. /\ pc' = "failed" /\ take' = [r \in Requests |-> 0]
      /\ UNCHANGED <<free_slots, slot, pending, n_past, context, sampled>>
      /\ \/ UNCHANGED cells
         \/ cells' = [s \in SeqIds |-> cells[s] \cup Written(s)]
      /\ active' = active
    BY DEF DecodeFails, seqvars, active
<1>2. cells' \in [SeqIds -> SUBSET (Nat \X Token)]
    <2>1. \A s \in SeqIds : Written(s) \in SUBSET (Nat \X Token)
        BY WrittenType
    <2> QED BY <1>1, <2>1 DEF CellInv, CellTypeOK
<1>3. CellTypeOK'
    BY <1>1, <1>2 DEF CellInv, CellTypeOK
<1>4. \A s \in Elements(free_slots') : cells'[s] = {}
    BY <1>1, WrittenFree DEF CellInv
<1>5. \A r \in Requests : take'[r] = 0 /\ take'[r] <= Len(pending'[r])
    BY <1>1 DEF CellInv, CellTypeOK
<1> QED BY <1>1, <1>3, <1>4, <1>5 DEF CellInv

(* finish(): the slot goes back empty, and no other request notices.       *)
LEMMA FinishCell ==
    ASSUME LoopInv, CellInv, NEW r \in active, finish(r),
           UNCHANGED <<pc, take>>, pc # "decoding", sampled' \subseteq sampled
    PROVE  CellInv'
<1> DEFINE s == slot[r]
<1>1. r \in Requests /\ s \in SeqIds /\ free_slots \in Seq(SeqIds)
    BY DEF active, LoopInv, CoreInv, BooksInv, CoreTypeOK
<1>2. /\ cells' = [cells EXCEPT ![s] = {}]
      /\ pending' = [pending EXCEPT ![r] = <<>>]
      /\ n_past' = [n_past EXCEPT ![r] = 0]
      /\ context' = [context EXCEPT ![r] = <<>>]
      /\ slot' = [slot EXCEPT ![r] = NoSeq]
      /\ free_slots' = Append(free_slots, s)
    BY DEF finish, GiveBack, LeaveBatch, free_sequence, ReturnSlot
<1>3. active' = active \ {r} /\ \A q \in active' : slot'[q] = slot[q] /\ slot[q] \in SeqIds
    BY <1>1, <1>2 DEF active, LoopInv, CoreInv, BooksInv, CoreTypeOK
<1>4. \A q \in active' : slot[q] # s
    BY <1>3 DEF LoopInv, CoreInv, BooksInv, SlotPartition
<1> HIDE DEF s
<1>5. CellTypeOK'
    <2>1. <<>> \in Seq(Token)
        OBVIOUS
    <2>2. pending' \in [Requests -> Seq(Token)] /\ context' \in [Requests -> Seq(Token)]
        BY <1>1, <1>2, <2>1 DEF CellInv, CellTypeOK
    <2>3. n_past' \in [Requests -> Nat] /\ take' \in [Requests -> Nat]
        BY <1>1, <1>2 DEF CellInv, CellTypeOK
    <2>4. cells' \in [SeqIds -> SUBSET (Nat \X Token)]
        BY <1>1, <1>2 DEF CellInv, CellTypeOK
    <2> QED BY <2>2, <2>3, <2>4 DEF CellTypeOK
<1>6. ASSUME NEW q \in active', pc # "failed"
      PROVE  Coherent(q)'
    <2>1. Coherent(q)
        BY <1>3, <1>6 DEF CellInv
    <2>2. q \in Requests /\ q # r
        BY <1>3, <1>6 DEF active
    <2>3. /\ n_past'[q] = n_past[q] /\ context'[q] = context[q] /\ pending'[q] = pending[q]
          /\ cells'[slot'[q]] = cells[slot[q]]
        BY <1>2, <1>3, <1>4, <1>6, <2>2 DEF CellInv, CellTypeOK
    <2> QED BY <2>1, <2>3, CoherentKept
<1>7. \A t \in Elements(free_slots') : cells'[t] = {}
    <2>1. Elements(free_slots') = Elements(free_slots) \cup {s}
        BY <1>1, <1>2, FreeSlotsAppend
    <2>2. Elements(free_slots) \subseteq SeqIds
        BY <1>1 DEF Elements
    <2> QED BY <1>1, <1>2, <2>1, <2>2 DEF CellInv, CellTypeOK
<1>8. \A q \in Requests : pending'[q] = IF q = r THEN <<>> ELSE pending[q]
    BY <1>2 DEF CellInv, CellTypeOK
<1>9. \A q \in Requests \ active' : pending'[q] = <<>>
    BY <1>3, <1>8 DEF CellInv
<1>10. \A q \in Requests : take'[q] = 0 /\ take'[q] <= Len(pending'[q])
    BY <1>5 DEF CellInv, CellTypeOK
<1>11. \A p \in sampled' : pending'[p[1]] = <<>>
    <2>1. \A p \in sampled : p[1] \in Requests
        BY DEF LoopInv, PhaseInv, active
    <2> QED BY <1>8, <2>1 DEF CellInv
<1> QED BY <1>5, <1>6, <1>7, <1>9, <1>10, <1>11 DEF CellInv

(* A text that grows by one token.                                         *)
LEMMA SuffixAppend ==
    ASSUME NEW text \in Seq(Token), NEW token \in Token
    PROVE  /\ Append(text, token) \in Seq(Token)
           /\ Len(Append(text, token)) = Len(text) + 1
           /\ \A i \in 1..Len(text) : Append(text, token)[i] = text[i]
           /\ Suffix(Append(text, token), Len(text)) = <<token>>
<1>1. /\ Append(text, token) \in Seq(Token)
      /\ Len(Append(text, token)) = Len(text) + 1
      /\ \A i \in 1..Len(text) : Append(text, token)[i] = text[i]
      /\ Append(text, token)[Len(text) + 1] = token
    OBVIOUS
<1> DEFINE longer == Append(text, token)
           rest == Suffix(longer, Len(text))
<1>2. /\ longer \in Seq(Token) /\ Len(longer) = Len(text) + 1
      /\ Len(text) \in 0..Len(longer) /\ longer[Len(text) + 1] = token
    BY <1>1
<1> HIDE DEF longer
<1>3. /\ rest \in Seq(Token) /\ Len(rest) = Len(longer) - Len(text)
      /\ \A i \in 1..(Len(longer) - Len(text)) : rest[i] = longer[Len(text) + i]
    BY <1>2, SuffixType
<1>4. rest = <<token>>
    <2> HIDE DEF rest
    <2>1. Len(rest) = 1 /\ rest[1] = token
        BY <1>2, <1>3
    <2> QED BY <1>3, <2>1
<1> QED BY <1>1, <1>4 DEF longer

(* A sampled token is pending next and ends the request's context.         *)
LEMMA SampleEmitsCell ==
    ASSUME LoopInv, CellInv, NEW r \in Requests, NEW token \in Sampled, SampleEmits(r, token)
    PROVE  CellInv'
<1> DEFINE text == context[r]
<1>1. /\ pc = "sample" /\ <<r, token>> \in sampled
      /\ sampled' = sampled \ {<<r, token>>}
      /\ pending' = [pending EXCEPT ![r] = <<token>>]
      /\ context' = [context EXCEPT ![r] = Append(text, token)]
      /\ UNCHANGED <<pc, free_slots, slot, n_past, take, cells>>
      /\ active' = active
    BY DEF SampleEmits, active
<1>2. r \in active /\ token \in Token
    BY <1>1, LoopAssumption DEF LoopInv, PhaseInv
<1>3. /\ text \in Seq(Token) /\ n_past[r] \in Nat
      /\ Coherent(r) /\ pending[r] = <<>>
    BY <1>1, <1>2 DEF CellInv, CellTypeOK
<1> HIDE DEF text
<1>4. n_past[r] = Len(text)
    <2>1. Suffix(text, n_past[r]) = <<>> /\ n_past[r] \in 0..Len(text)
        BY <1>3 DEF Coherent, text
    <2>2. Len(Suffix(text, n_past[r])) = 0
        BY <2>1
    <2> QED BY <1>3, <2>1, <2>2, SuffixType
<1>5. /\ Append(text, token) \in Seq(Token)
      /\ Len(Append(text, token)) = Len(text) + 1
      /\ \A i \in 1..Len(text) : Append(text, token)[i] = text[i]
      /\ Suffix(Append(text, token), Len(text)) = <<token>>
    BY <1>2, <1>3, SuffixAppend
<1>6. context'[r] = Append(text, token) /\ pending'[r] = <<token>>
    BY <1>1 DEF CellInv, CellTypeOK
<1>7. Coherent(r)'
    <2>1. cells'[slot'[r]] = Cells(context'[r], n_past'[r])
        <3>1. cells[slot[r]] = Cells(text, Len(text))
            BY <1>3, <1>4 DEF Coherent, text
        <3>2. Cells(text, Len(text)) = Cells(Append(text, token), Len(text))
            <4>1. Len(text) \in Nat /\ \A i \in 1..Len(text) : text[i] = Append(text, token)[i]
                BY <1>3, <1>5
            <4> QED BY <4>1, CellsAgree, Zenon
        <3> QED BY <1>1, <1>4, <1>6, <3>1, <3>2
    <2>2. pending'[r] = Suffix(context'[r], n_past'[r])
        BY <1>1, <1>4, <1>5, <1>6
    <2>3. n_past'[r] <= Len(context'[r])
        BY <1>1, <1>3, <1>4, <1>5, <1>6
    <2>4. /\ Len(Prompt[r]) <= Len(context'[r])
          /\ \A i \in 1..Len(Prompt[r]) : context'[r][i] = Prompt[r][i]
        <3>1. /\ Len(Prompt[r]) <= Len(text) /\ Len(Prompt[r]) \in Nat /\ Len(text) \in Nat
              /\ \A i \in 1..Len(Prompt[r]) : text[i] = Prompt[r][i]
            BY <1>3, LoopAssumption DEF Coherent, text
        <3>2. \A i \in 1..Len(Prompt[r]) : i \in 1..Len(text)
            BY <3>1
        <3> QED BY <1>5, <1>6, <3>1, <3>2
    <2> QED BY <2>1, <2>2, <2>3, <2>4 DEF Coherent, Cells, Suffix
<1>8. ASSUME NEW q \in active, q # r
      PROVE  Coherent(q)'
    <2>1. context'[q] = context[q] /\ pending'[q] = pending[q] /\ Coherent(q)
        BY <1>1, <1>8 DEF CellInv, CellTypeOK, active
    <2> QED BY <1>1, <2>1, CoherentKept
<1>9. CellTypeOK'
    <2>1. <<token>> \in Seq(Token)
        BY <1>2
    <2> QED BY <1>1, <1>5, <2>1 DEF CellInv, CellTypeOK
<1>10. \A q \in Requests : q # r => pending'[q] = pending[q]
    BY <1>1 DEF CellInv, CellTypeOK
<1>11. \A q \in Requests : take'[q] = 0 /\ take'[q] <= Len(pending'[q])
    BY <1>1, <1>9 DEF CellInv, CellTypeOK
<1>12. \A p \in sampled' : p[1] \in Requests /\ p[1] # r /\ p \in sampled
    BY <1>1 DEF LoopInv, PhaseInv, active
<1>13. \A s \in Elements(free_slots') : cells'[s] = {}
    BY <1>1 DEF CellInv
<1> QED BY <1>1, <1>2, <1>7, <1>8, <1>9, <1>10, <1>11, <1>12, <1>13 DEF CellInv
-----------------------------------------------------------------------------
(* What the prefix cache offers is a claim that shares the prefix.         *)
LEMMA MatchShares ==
    ASSUME NEW tokens, NEW n \in Nat, n > 0, NEW donor, Matches(tokens, Hit(n, donor))
    PROVE  donor \in SeqIds /\ Shares(donor, tokens, n)
<1>1. Hit(n, donor) # Miss
    BY DEF Hit, Miss
<1>2. PICK m \in AlignedLengths(Len(tokens)), s \in SeqIds :
         Hit(n, donor) = Hit(m, s) /\ Shares(s, tokens, m)
    BY <1>1 DEF Matches
<1>3. m = n /\ s = donor
    BY <1>2 DEF Hit
<1> QED BY <1>2, <1>3

LEMMA ReuseShares ==
    ASSUME NEW tokens, NEW n \in Nat, n > 0, NEW donor, MatchesForReuse(tokens, Hit(n, donor))
    PROVE  donor \in SeqIds /\ \E m \in Nat : m >= n /\ Shares(donor, tokens, m)
<1>1. Hit(n, donor).n_tokens = n /\ Hit(n, donor).seq_id = donor /\ Hit(n, donor) # Miss
    BY DEF Hit, Miss
<1>2. CASE Matches(tokens, Hit(n, donor))
    BY <1>2, MatchShares
<1>3. CASE \E m \in AlignedLengths(Len(tokens)) :
               m > n /\ Matches(tokens, Hit(m, donor))
    <2>1. PICK m \in AlignedLengths(Len(tokens)) : m > n /\ Matches(tokens, Hit(m, donor))
        BY <1>3
    <2>2. m \in Nat /\ m > 0
        BY <2>1 DEF AlignedLengths
    <2> QED BY <2>1, <2>2, MatchShares
<1> QED BY <1>1, <1>2, <1>3 DEF MatchesForReuse

(* Two texts that share their first m tokens agree on the first n <= m.    *)
LEMMA SharesAgree ==
    ASSUME NEW tokens \in Seq(Token), NEW s \in SeqIds, claims[s] \in Seq(Token),
           NEW m \in Nat, NEW n \in 0..m, Shares(s, tokens, m)
    PROVE  /\ n <= Len(claims[s])
           /\ \A i \in 1..n : claims[s][i] = tokens[i]
<1>1. /\ m <= Len(claims[s]) /\ m <= Len(tokens)
      /\ SubSeq(claims[s], 1, m) = SubSeq(tokens, 1, m)
    BY DEF Shares
<1>2. ASSUME NEW i \in 1..m
      PROVE  claims[s][i] = tokens[i]
    <2>1. SubSeq(claims[s], 1, m)[i] = claims[s][i]
        BY <1>1
    <2>2. SubSeq(tokens, 1, m)[i] = tokens[i]
        BY <1>1
    <2> QED BY <1>1, <2>1, <2>2
<1> QED BY <1>1, <1>2

(* The published part of a prompt is a prefix of it.                       *)
LEMMA PublishedPrefix ==
    ASSUME NEW tokens \in Seq(Token)
    PROVE  /\ Len(Published(tokens)) <= Len(tokens)
           /\ \A i \in 1..Len(Published(tokens)) : Published(tokens)[i] = tokens[i]
<1>1. WholeBlocks(Len(tokens)) \in 0..Len(tokens)
    BY WholeBlocksBound
<1> QED BY <1>1 DEF Published

(* reuse_prefix(): whenever its check lets a copy through, the donor's     *)
(* cells below n are the first n tokens of the new request's prompt.       *)
LEMMA ReuseSound ==
    ASSUME LoopInv, CellInv, pc # "failed", NEW r \in Requests, NEW s,
           NEW n \in Nat, n > 0, NEW donor,
           MatchesForReuse(Prompt[r], Hit(n, donor)), Covers(donor, s, n)
    PROVE  Below(cells[donor], n) = Cells(Prompt[r], n)
<1>1. donor \in SeqIds
    BY ReuseShares
<1>2. PICK m \in Nat : m >= n /\ Shares(donor, Prompt[r], m)
    BY ReuseShares
<1>3. Prompt[r] \in Seq(Token) /\ claims[donor] \in Seq(Token)
    BY <1>1, LoopAssumption DEF LoopInv, CoreInv, BooksInv, CoreTypeOK
<1>4. n <= Len(claims[donor]) /\ \A i \in 1..n : claims[donor][i] = Prompt[r][i]
    BY <1>1, <1>2, <1>3, SharesAgree
<1>5. PICK q \in active : slot[q] = donor /\ claims[donor] = Published(Prompt[q])
    <2>1. claims[donor] # <<>>
        BY <1>3, <1>4
    <2> QED BY <1>1, <2>1 DEF LoopInv, CoreInv, BooksInv, ClaimsAreLive
<1>6. q \in Requests /\ Prompt[q] \in Seq(Token) /\ Coherent(q)
    BY LoopAssumption DEF CellInv, active
<1>7. /\ n_past[q] \in Nat /\ context[q] \in Seq(Token)
      /\ cells[donor] = Cells(context[q], n_past[q])
      /\ \A i \in 1..Len(Prompt[q]) : context[q][i] = Prompt[q][i]
    BY <1>5, <1>6 DEF CellInv, CellTypeOK, Coherent
<1>8. \A i \in 1..n : context[q][i] = Prompt[r][i]
    <2>1. /\ Len(claims[donor]) <= Len(Prompt[q])
          /\ \A i \in 1..Len(claims[donor]) : claims[donor][i] = Prompt[q][i]
        BY <1>5, <1>6, PublishedPrefix
    <2>2. \A i \in 1..n : i \in 1..Len(claims[donor]) /\ i \in 1..Len(Prompt[q])
        BY <1>3, <1>4, <1>6, <2>1
    <2> QED BY <1>4, <1>7, <2>1, <2>2
<1>9. n <= n_past[q]
    <2>1. \E c \in Cells(context[q], n_past[q]) : c[1] >= n - 1
        BY <1>7 DEF Covers
    <2> QED BY <1>7, <2>1, CellsReach
<1>10. Below(cells[donor], n) = Cells(context[q], n)
    <2>1. n \in 0..n_past[q]
        BY <1>7, <1>9
    <2>2. Below(Cells(context[q], n_past[q]), n) = Cells(context[q], n)
        BY <1>7, <2>1, CellsCut
    <2> QED BY <1>7, <2>2
<1>11. Cells(context[q], n) = Cells(Prompt[r], n)
    BY <1>8, CellsAgree
<1> QED BY <1>10, <1>11

(* admit(): a request starts with the part of its prompt that its cells    *)
(* hold, whether that is nothing or what was copied from a donor.          *)
LEMMA AdmitCell ==
    ASSUME LoopInv, CellInv, NEW r \in Requests, Admit(r), LoopInv'
    PROVE  CellInv'
<1> DEFINE s == free_slots[Len(free_slots)]
           text == Prompt[r]
<1>1. /\ pc = "admit" /\ r \in selected
      /\ free_slots' = SubSeq(free_slots, 1, Len(free_slots) - 1)
      /\ slot' = [slot EXCEPT ![r] = s]
      /\ context' = [context EXCEPT ![r] = text]
      /\ UNCHANGED <<pc, take, sampled>>
    BY DEF Admit
<1>2. r \in waiting /\ r \notin active /\ Len(free_slots) > 0
    <2>1. r \in waiting /\ IsFiniteSet(selected)
        BY <1>1, FS_Subset DEF LoopInv, PhaseInv, CoreInv, BooksInv, CoreTypeOK
    <2>2. Cardinality(selected) \in Nat /\ Cardinality(selected) # 0
        BY <1>1, <2>1, FS_CardinalityType, FS_EmptySet
    <2>3. Len(free_slots) \in Nat /\ Cardinality(selected) <= Len(free_slots)
        BY DEF LoopInv, PhaseInv, CoreInv, BooksInv, CoreTypeOK
    <2> QED BY <2>1, <2>2, <2>3 DEF LoopInv, CoreInv, BooksInv, ReservationsExact
<1>3. /\ s \in SeqIds /\ s \in Elements(free_slots)
      /\ Elements(free_slots') = Elements(free_slots) \ {s}
    <2>1. free_slots \in Seq(SeqIds) /\ NoRepeats(free_slots)
        BY DEF LoopInv, CoreInv, BooksInv, CoreTypeOK, SlotPartition, NoRepeats
    <2>2. s \in Elements(free_slots) /\ s \in SeqIds
        BY <1>2, <2>1 DEF Elements
    <2>3. s = free_slots[Len(free_slots)]
        OBVIOUS
    <2> HIDE DEF s
    <2> QED BY <1>1, <1>2, <2>1, <2>2, <2>3, FreeSlotsPop
<1>4. cells[s] = {}
    BY <1>3 DEF CellInv
<1>5. text \in Seq(Token)
    BY LoopAssumption
<1>6. PICK n \in 0..Len(text) :
         /\ cells' = [cells EXCEPT ![s] = Cells(text, n)]
         /\ n_past' = [n_past EXCEPT ![r] = n]
         /\ pending' = [pending EXCEPT ![r] = Suffix(text, n)]
    <2>0. cells \in [SeqIds -> SUBSET (Nat \X Token)] /\ Len(text) \in Nat
        BY <1>5 DEF CellInv, CellTypeOK
    <2>1. Cells(text, 0) = {} /\ Suffix(text, 0) = text
        <3>1. Suffix(text, 0) = SubSeq(text, 1, Len(text))
            BY DEF Suffix
        <3>2. SubSeq(text, 1, Len(text)) = text
            BY <1>5, SubSeqFull
        <3> QED BY <3>1, <3>2 DEF Cells
    <2>2. [cells EXCEPT ![s] = Cells(text, 0)] = cells
        BY <1>3, <1>4, <2>0, <2>1
    <2>3. CASE ~PrefixCacheEnabled
        <3>1. /\ n_past' = [n_past EXCEPT ![r] = 0] /\ cells' = cells
              /\ pending' = [pending EXCEPT ![r] = text]
            BY <2>3 DEF Admit
        <3>2. 0 \in 0..Len(text)
            BY <2>0
        <3> QED BY <2>1, <2>2, <3>1, <3>2
    <2>4. CASE PrefixCacheEnabled
        <3>1. PICK n \in 0..Len(text), donor \in SeqIds \cup {NoSeq} :
                 LET reused == Reused(Hit(n, donor), s) IN
                 /\ MatchesForReuse(text, Hit(n, donor))
                 /\ IF reused > 0 THEN CopyCells(donor, s, reused) ELSE UNCHANGED cells
                 /\ n_past' = [n_past EXCEPT ![r] = reused]
                 /\ pending' = [pending EXCEPT ![r] = SubSeq(text, reused + 1, Len(text))]
            BY <2>4 DEF Admit
        <3> DEFINE reused == Reused(Hit(n, donor), s)
        <3>2. /\ n_past' = [n_past EXCEPT ![r] = reused]
              /\ pending' = [pending EXCEPT ![r] = Suffix(text, reused)]
            BY <3>1 DEF Suffix
        <3>3. CASE n > 0 /\ Covers(donor, s, n)
            <4>1. reused = n
                BY <3>3 DEF Reused, Hit
            <4>2. Below(cells[donor], n) = Cells(text, n)
                BY <1>1, <3>1, <3>3, ReuseSound
            <4>3. CopyCells(donor, s, n)
                BY <3>1, <3>3, <4>1
            <4>4. cells' = [cells EXCEPT ![s] = cells[s] \cup Cells(text, n)]
                BY <4>2, <4>3 DEF CopyCells, Below
            <4>5. cells[s] \cup Cells(text, n) = Cells(text, n)
                BY <1>4
            <4> QED BY <3>2, <4>1, <4>4, <4>5
        <3>4. CASE ~(n > 0 /\ Covers(donor, s, n))
            <4>1. reused = 0 /\ 0 \in 0..Len(text)
                BY <2>0, <3>4 DEF Reused, Hit
            <4>2. cells' = cells
                BY <3>1, <4>1
            <4> HIDE DEF reused
            <4> QED BY <2>2, <3>2, <4>1, <4>2
        <3> QED BY <3>3, <3>4
    <2> QED BY <2>3, <2>4
<1> HIDE DEF s, text
<1>7. active' = active \cup {r} /\ \A q \in active : q # r /\ slot'[q] = slot[q] /\ slot[q] # s
    <2>1. active' = active \cup {r} /\ \A q \in active : q # r /\ slot'[q] = slot[q]
        BY <1>1, <1>2, <1>3, IndexAssumption DEF active, LoopInv, CoreInv, BooksInv, CoreTypeOK
    <2>2. \A q \in active : slot[q] # s
        BY <1>3 DEF Elements, LoopInv, CoreInv, BooksInv, SlotPartition
    <2> QED BY <2>1, <2>2
<1>8. /\ Suffix(text, n) \in Seq(Token) /\ Cells(text, n) \in SUBSET (Nat \X Token)
      /\ n \in Nat
    BY <1>5, SuffixType, CellsType
<1>9. CellTypeOK'
    <2>1. pending' \in [Requests -> Seq(Token)] /\ context' \in [Requests -> Seq(Token)]
        BY <1>1, <1>5, <1>6, <1>8 DEF CellInv, CellTypeOK
    <2>2. n_past' \in [Requests -> Nat] /\ take' \in [Requests -> Nat]
        BY <1>1, <1>6, <1>8 DEF CellInv, CellTypeOK
    <2>3. cells' \in [SeqIds -> SUBSET (Nat \X Token)]
        BY <1>3, <1>6, <1>8 DEF CellInv, CellTypeOK
    <2> QED BY <2>1, <2>2, <2>3 DEF CellTypeOK
<1>10. Coherent(r)'
    <2>1. /\ slot'[r] = s /\ context'[r] = text /\ n_past'[r] = n
          /\ pending'[r] = Suffix(text, n) /\ cells'[s] = Cells(text, n)
        BY <1>1, <1>3, <1>6 DEF CellInv, CellTypeOK, LoopInv, CoreInv, BooksInv, CoreTypeOK
    <2>2. n <= Len(text) /\ Len(text) \in Nat
        BY <1>5
    <2> QED BY <2>1, <2>2 DEF Coherent, Cells, Suffix, text
<1>11. ASSUME NEW q \in active
       PROVE  Coherent(q)'
    <2>1. Coherent(q) /\ q \in Requests /\ slot[q] \in SeqIds
        BY <1>1 DEF CellInv, active, LoopInv, CoreInv, BooksInv, CoreTypeOK
    <2>2. /\ n_past'[q] = n_past[q] /\ context'[q] = context[q] /\ pending'[q] = pending[q]
          /\ cells'[slot'[q]] = cells[slot[q]]
        BY <1>1, <1>6, <1>7, <2>1 DEF CellInv, CellTypeOK
    <2> QED BY <2>1, <2>2, CoherentKept
<1>12. \A t \in Elements(free_slots') : cells'[t] = {}
    <2>1. \A t \in Elements(free_slots') : t # s /\ t \in Elements(free_slots) /\ t \in SeqIds
        <3>1. Elements(free_slots) \subseteq SeqIds
            BY DEF Elements, LoopInv, CoreInv, BooksInv, CoreTypeOK
        <3> QED BY <1>3, <3>1
    <2> QED BY <1>6, <2>1 DEF CellInv, CellTypeOK
<1>13. \A q \in Requests : q # r => pending'[q] = pending[q]
    BY <1>6 DEF CellInv, CellTypeOK
<1>14. \A q \in Requests \ active' : pending'[q] = <<>>
    BY <1>7, <1>13 DEF CellInv
<1>15. \A q \in Requests : take'[q] = 0 /\ take'[q] <= Len(pending'[q])
    BY <1>1, <1>9 DEF CellInv, CellTypeOK
<1>16. sampled' = {}
    BY <1>1 DEF LoopInv, PhaseInv
<1> QED BY <1>1, <1>7, <1>9, <1>10, <1>11, <1>12, <1>14, <1>15, <1>16 DEF CellInv
-----------------------------------------------------------------------------
LEMMA CellNext == CellLoopInv /\ [Next]_vars => CellLoopInv'
<1> SUFFICES ASSUME LoopInv, CellInv, [Next]_vars PROVE CellInv'
    BY NextInv DEF CellLoopInv
<1>1. LoopInv'
    BY NextInv
<1>2. CASE GoIdle \/ Wake \/ Select \/ Yield \/ FailDone \/ SampleDone
    <2>1. UNCHANGED seqcellvars
        BY <1>2 DEF GoIdle, Wake, Select, Yield, FailDone, SampleDone, seqcellvars, batchvars
    <2>2. /\ pc # "failed" \/ active = {}
          /\ pc # "decoding" /\ pc' # "decoding"
        BY <1>2 DEF GoIdle, Wake, Select, Yield, FailDone, SampleDone
    <2> QED BY <2>1, <2>2, CellUnchanged
<1>3. CASE \E r \in Requests :
              generate(r) \/ Consume(r) \/ Client(r) \/ Age(r) \/ ExpireWaiter(r)
    <2>1. UNCHANGED seqcellvars /\ pc' = pc
        BY <1>3 DEF generate, Consume, Client, Age, ExpireWaiter, seqcellvars, batchvars
    <2> QED BY <2>1, CellUnchanged
<1>4. CASE UNCHANGED vars
    <2>1. UNCHANGED seqcellvars /\ pc' = pc
        BY <1>4 DEF vars, seqcellvars, batchvars
    <2> QED BY <2>1, CellUnchanged
<1>5. CASE Build
    BY <1>5, BuildCell
<1>6. CASE Decode
    BY <1>6, DecodeCell
<1>7. CASE DecodeFails
    BY <1>7, DecodeFailsCell
<1>8. ASSUME NEW r \in Requests, Admit(r)
      PROVE  CellInv'
    BY <1>1, <1>8, AdmitCell
<1>9. ASSUME NEW r \in Requests, FailOne(r)
      PROVE  CellInv'
    <2>1. /\ r \in active /\ finish(r) /\ pc = "failed"
          /\ UNCHANGED <<pc, take, sampled>>
        BY <1>9 DEF FailOne, batchvars
    <2> QED BY <2>1, FinishCell
<1>10. ASSUME NEW r \in Requests, NEW token \in Sampled, NEW timed_out \in BOOLEAN,
              SampleFinishes(r, token, timed_out)
       PROVE  CellInv'
    <2>1. /\ <<r, token>> \in sampled /\ finish(r) /\ pc = "sample"
          /\ UNCHANGED <<pc, take>> /\ sampled' \subseteq sampled
        BY <1>10 DEF SampleFinishes
    <2>2. r \in active
        BY <2>1 DEF LoopInv, PhaseInv
    <2> QED BY <2>1, <2>2, FinishCell
<1>11. ASSUME NEW r \in Requests, NEW token \in Sampled, SampleEmits(r, token)
       PROVE  CellInv'
    BY <1>11, SampleEmitsCell
<1> QED BY <1>2, <1>3, <1>4, <1>5, <1>6, <1>7, <1>8, <1>9, <1>10, <1>11 DEF Next, LoopStep

LEMMA CellInvariant == Spec => []CellLoopInv
<1>1. Init => CellLoopInv
    BY InitInv, CellInitInv DEF CellLoopInv
<1> QED BY <1>1, CellNext, PTL DEF Spec

(* A request's cells are its own text and nothing else, whether they were  *)
(* decoded in chunks or copied from a donor by reuse_prefix(), and finish()*)
(* leaves nothing behind in a slot: for every workload, donor and failure. *)
THEOREM CellsAreCoherent == Spec => []KVCoherent
<1>1. CellLoopInv => KVCoherent
    <2> SUFFICES ASSUME CellLoopInv PROVE KVCoherent
        OBVIOUS
    <2>1. pc # "failed" => \A r \in active :
             /\ cells[slot[r]] = {<<i - 1, context[r][i]>> : i \in 1..n_past[r]}
             /\ pending[r] = SubSeq(context[r], n_past[r] + 1, Len(context[r]))
        BY DEF CellLoopInv, CellInv, Coherent, Cells, Suffix
    <2>2. \A i \in DOMAIN free_slots : cells[free_slots[i]] = {}
        BY DEF CellLoopInv, CellInv, Elements
    <2> QED BY <2>1, <2>2 DEF KVCoherent
<1> QED BY <1>1, CellInvariant, PTL
-----------------------------------------------------------------------------
(* The types of the rest of the loop's state.  Two conjuncts are more than *)
(* shape: a request's remaining budget stays positive as long as it is     *)
(* active, so that the test after the decrement cannot be passed over; and *)
(* the waiters past their queue timeout are waiters: none is admitted      *)
(* between its expiry and its removal.                                     *)
RestTypeOK ==
    /\ IndexTypeOK
    /\ DOMAIN streams \subseteq Requests
    /\ arrived \in BOOLEAN
    /\ pc \in {"top", "idle", "woken", "admit", "yield", "decoding", "sample", "failed"}
    /\ remaining \in [Requests -> Nat]
    /\ \A r \in active : remaining[r] > 0
    /\ take \in [Requests -> 0..ChunkSize]
    /\ stale \subseteq waiting
    /\ selected \cap stale = {}

TypeInv == CellLoopInv /\ RestTypeOK

LEMMA TypeInit == Init => RestTypeOK
<1> SUFFICES ASSUME Init PROVE RestTypeOK
    OBVIOUS
<1>1. claims \in [SeqIds -> Seq(Token)] /\ newer \subseteq SeqIds \X SeqIds
    BY DEF Init, IndexInit
<1>2. DOMAIN streams \subseteq Requests
    BY DEF Init, StreamInit
<1>3. take \in [Requests -> 0..ChunkSize] /\ remaining \in [Requests -> Nat]
    BY BatchAssumption DEF Init
<1>4. active = {}
    BY DEF Init, active
<1> QED BY <1>1, <1>2, <1>3, <1>4 DEF Init, RestTypeOK, IndexTypeOK

(* The streams' methods keep their dict keyed by requests.                 *)
LEMMA StreamTyped ==
    ASSUME DOMAIN streams \subseteq Requests, NEW r \in Requests, NEW token,
           \/ create(r) \/ push_token(r, token) \/ close(r)
           \/ ConsumerStep(r) \/ ClientStep(r)
    PROVE  DOMAIN streams' \subseteq Requests
<1>1. CASE create(r)
    BY <1>1 DEF create, With
<1>2. CASE push_token(r, token)
    BY <1>2 DEF push_token
<1>3. CASE close(r)
    BY <1>3 DEF close
<1>4. CASE ConsumerStep(r)
    <2>1. CASE ReceiveText(r)
        BY <2>1 DEF ReceiveText
    <2>2. CASE SeeDisconnect(r)
        BY <2>2 DEF SeeDisconnect
    <2>3. CASE Start(r) \/ ReceiveEnd(r) \/ Finalize(r)
        BY <2>3 DEF Start, ReceiveEnd, Finalize, Without
    <2> QED BY <1>4, <2>1, <2>2, <2>3 DEF ConsumerStep
<1>5. CASE ClientStep(r)
    BY <1>5 DEF ClientStep, Disconnect, CancelTask, CancelSend, Without
<1> QED BY <1>1, <1>2, <1>3, <1>4, <1>5

LEMMA FinishTypes ==
    ASSUME CellLoopInv, RestTypeOK, NEW r \in active, finish(r),
           UNCHANGED <<waiting, arrived, stale, pc, selected, take>>
    PROVE  RestTypeOK'
<1>1. r \in Requests /\ slot[r] \in SeqIds
    BY DEF active, CellLoopInv, LoopInv, CoreInv, BooksInv, CoreTypeOK
<1>2. IndexTypeOK'
    <2>1. CASE PrefixCacheEnabled
        <3>1. /\ claims' = [claims EXCEPT ![slot[r]] = <<>>]
              /\ newer' \subseteq newer /\ <<>> \in Seq(Token)
            BY <2>1 DEF finish, GiveBack, LeaveBatch, DropClaim, Unclaim
        <3> QED BY <3>1 DEF RestTypeOK, IndexTypeOK
    <2>2. CASE ~PrefixCacheEnabled
        BY <2>2 DEF finish, GiveBack, LeaveBatch, DropClaim, indexvars, RestTypeOK, IndexTypeOK
    <2> QED BY <2>1, <2>2
<1>3. DOMAIN streams' \subseteq Requests
    BY <1>1, StreamTyped DEF finish, GiveBack, LeaveBatch, RestTypeOK
<1>4. /\ remaining' \in [Requests -> Nat]
      /\ \A q \in active' : remaining'[q] > 0
    <2>1. /\ remaining' = [remaining EXCEPT ![r] = 0]
          /\ slot' = [slot EXCEPT ![r] = NoSeq]
          /\ slot \in [Requests -> SeqIds \cup {NoSeq}]
        BY DEF finish, GiveBack, LeaveBatch, CellLoopInv, LoopInv, CoreInv, BooksInv, CoreTypeOK
    <2>2. active' \subseteq active \ {r}
        BY <2>1 DEF active
    <2> QED BY <1>1, <2>1, <2>2 DEF RestTypeOK, active
<1> QED BY <1>2, <1>3, <1>4 DEF RestTypeOK

LEMMA AdmitTypes ==
    ASSUME CellLoopInv, RestTypeOK, NEW r \in Requests, Admit(r)
    PROVE  RestTypeOK'
<1> DEFINE s == free_slots[Len(free_slots)]
<1>1. /\ pc = "admit" /\ r \in selected /\ selected' = selected \ {r}
      /\ waiting' = waiting \ {r}
      /\ slot' = [slot EXCEPT ![r] = s]
      /\ remaining' = [remaining EXCEPT ![r] = MaxTokens[r]]
      /\ UNCHANGED <<streams, arrived, stale, pc, take>>
    BY DEF Admit, streamvars
<1>2. Len(free_slots) > 0
    <2>1. IsFiniteSet(selected)
        BY FS_Subset DEF CellLoopInv, LoopInv, PhaseInv, CoreInv, BooksInv, CoreTypeOK
    <2>2. Cardinality(selected) \in Nat /\ Cardinality(selected) # 0
        BY <1>1, <2>1, FS_CardinalityType, FS_EmptySet
    <2>3. Len(free_slots) \in Nat /\ Cardinality(selected) <= Len(free_slots)
        BY DEF CellLoopInv, LoopInv, PhaseInv, CoreInv, BooksInv, CoreTypeOK
    <2> QED BY <2>2, <2>3
<1>3. s \in SeqIds
    BY <1>2 DEF CellLoopInv, LoopInv, CoreInv, BooksInv, CoreTypeOK
<1>4. \/ PrefixCacheEnabled /\ Claim(Prompt[r], s)
      \/ UNCHANGED indexvars
    BY DEF Admit
<1> HIDE DEF s
<1>5. IndexTypeOK'
    <2>1. CASE UNCHANGED indexvars
        BY <2>1 DEF indexvars, RestTypeOK, IndexTypeOK
    <2>2. CASE Claim(Prompt[r], s) /\ ~UNCHANGED indexvars
        <3>1. /\ claims' = [claims EXCEPT ![s] = Published(Prompt[r])]
              /\ newer' = {p \in newer : p[1] # s /\ p[2] # s}
                    \cup {<<s, t>> : t \in {u \in SeqIds \ {s} : Shares(u, Prompt[r], BlockSize)}}
            BY <2>2 DEF Claim
        <3>2. Published(Prompt[r]) \in Seq(Token)
            BY LoopAssumption, PublishedType
        <3>3. newer' \subseteq SeqIds \X SeqIds
            BY <1>3, <3>1 DEF RestTypeOK, IndexTypeOK
        <3>4. claims' \in [SeqIds -> Seq(Token)]
            BY <1>3, <3>1, <3>2 DEF RestTypeOK, IndexTypeOK
        <3> QED BY <3>3, <3>4 DEF IndexTypeOK
    <2> QED BY <1>4, <2>1, <2>2
<1>6. /\ remaining' \in [Requests -> Nat]
      /\ \A q \in active' : remaining'[q] > 0
    <2>1. MaxTokens[r] \in Nat /\ MaxTokens[r] > 0
        BY LoopAssumption
    <2>2. active' \subseteq active \cup {r}
        BY <1>1 DEF active, CellLoopInv, LoopInv, CoreInv, BooksInv, CoreTypeOK
    <2> QED BY <1>1, <2>1, <2>2 DEF RestTypeOK, active
<1>7. stale' \subseteq waiting' /\ selected' \cap stale' = {}
    BY <1>1 DEF RestTypeOK
<1> QED BY <1>1, <1>5, <1>6, <1>7 DEF RestTypeOK

LEMMA HandlerTypes ==
    ASSUME CellLoopInv, RestTypeOK, NEW r \in Requests,
           generate(r) \/ Consume(r) \/ Client(r) \/ Age(r)
    PROVE  RestTypeOK'
<1>1. /\ UNCHANGED <<claims, newer, pc, slot, remaining, selected, take>>
      /\ active' = active
    BY DEF generate, Consume, Client, Age, indexvars, seqvars, batchvars, active
<1>2. DOMAIN streams' \subseteq Requests
    <2>1. CASE generate(r)
        <3>1. create(r) \/ UNCHANGED streams
            BY <2>1 DEF generate, Accept, Reject
        <3> QED BY <3>1, StreamTyped DEF RestTypeOK
    <2>2. CASE Consume(r) \/ Client(r)
        BY <2>2, StreamTyped DEF Consume, Client, RestTypeOK
    <2>3. CASE Age(r)
        BY <2>3 DEF Age, streamvars, RestTypeOK
    <2> QED BY <2>1, <2>2, <2>3
<1>3. /\ arrived' \in BOOLEAN
      /\ stale' \subseteq waiting'
    BY DEF generate, Accept, Reject, push, Consume, Client, Age, queuevars, RestTypeOK
<1>4. selected' \cap stale' = {}
    <2>1. selected = {}
        BY DEF generate, Consume, Client, Age, AtAwait, CellLoopInv, LoopInv, PhaseInv
    <2> QED BY <1>1, <2>1
<1> QED BY <1>1, <1>2, <1>3, <1>4 DEF RestTypeOK, IndexTypeOK

LEMMA QuietTypes ==
    ASSUME CellLoopInv, RestTypeOK,
           \/ GoIdle \/ Wake \/ Select \/ Build \/ Yield \/ FailDone \/ SampleDone
           \/ Decode \/ DecodeFails
    PROVE  RestTypeOK'
<1>1. /\ UNCHANGED <<claims, newer, streams, slot, remaining, waiting, stale>>
      /\ active' = active
    BY DEF GoIdle, Wake, Select, Build, Yield, FailDone, SampleDone, Decode, DecodeFails,
           indexvars, streamvars, seqvars, queuevars, active
<1>2. /\ arrived' \in BOOLEAN
      /\ pc' \in {"top", "idle", "woken", "admit", "yield", "decoding", "sample", "failed"}
    BY DEF GoIdle, Wake, Select, Build, Yield, FailDone, SampleDone, Decode, DecodeFails,
           queuevars, RestTypeOK
<1>3. take' \in [Requests -> 0..ChunkSize]
    <2>1. CASE Build
        BY <2>1 DEF Build
    <2>2. CASE Decode \/ DecodeFails
        BY <2>2, BatchAssumption DEF Decode, DecodeFails
    <2>3. CASE GoIdle \/ Wake \/ Select \/ Yield \/ FailDone \/ SampleDone
        BY <2>3 DEF GoIdle, Wake, Select, Yield, FailDone, SampleDone, batchvars, RestTypeOK
    <2> QED BY <2>1, <2>2, <2>3
<1>4. selected' \cap stale' = {}
    <2>1. CASE Select
        BY <1>1, <2>1 DEF Select
    <2>2. CASE ~Select
        BY <1>1, <2>2 DEF GoIdle, Wake, Build, Yield, FailDone, SampleDone, Decode,
                          DecodeFails, batchvars, RestTypeOK
    <2> QED BY <2>1, <2>2
<1> QED BY <1>1, <1>2, <1>3, <1>4 DEF RestTypeOK, IndexTypeOK

LEMMA TypeNext == TypeInv /\ [Next]_vars => TypeInv'
<1> SUFFICES ASSUME CellLoopInv, RestTypeOK, [Next]_vars PROVE RestTypeOK'
    BY CellNext DEF TypeInv
<1>1. ASSUME NEW r \in Requests, ExpireWaiter(r)
      PROVE  RestTypeOK'
    <2>1. /\ UNCHANGED <<claims, newer, arrived, pc, slot, remaining, selected, take>>
          /\ active' = active /\ close(r)
          /\ stale' = stale \ {r} /\ waiting' = waiting \ {r}
        BY <1>1 DEF ExpireWaiter, LeaveQueue, indexvars, seqvars, batchvars, active
    <2>2. DOMAIN streams' \subseteq Requests
        BY <2>1, StreamTyped DEF RestTypeOK
    <2> QED BY <2>1, <2>2 DEF RestTypeOK, IndexTypeOK
<1>2. ASSUME NEW r \in Requests, FailOne(r)
      PROVE  RestTypeOK'
    BY <1>2, FinishTypes DEF FailOne, queuevars, batchvars
<1>3. ASSUME NEW r \in Requests, NEW token \in Sampled, NEW timed_out \in BOOLEAN,
             SampleFinishes(r, token, timed_out)
      PROVE  RestTypeOK'
    <2>1. /\ <<r, token>> \in sampled /\ finish(r)
          /\ UNCHANGED <<waiting, arrived, stale, pc, selected, take>>
        BY <1>3 DEF SampleFinishes, queuevars
    <2>2. r \in active
        BY <2>1 DEF CellLoopInv, LoopInv, PhaseInv
    <2> QED BY <2>1, <2>2, FinishTypes
<1>4. ASSUME NEW r \in Requests, NEW token \in Sampled, SampleEmits(r, token)
      PROVE  RestTypeOK'
    <2>1. /\ remaining' = [remaining EXCEPT ![r] = @ - 1]
          /\ remaining[r] - 1 > 0 /\ push_token(r, token)
          /\ UNCHANGED <<claims, newer, waiting, arrived, stale, pc, slot, selected, take>>
          /\ active' = active
        BY <1>4 DEF SampleEmits, Continues, indexvars, queuevars, active
    <2>2. DOMAIN streams' \subseteq Requests
        BY <2>1, StreamTyped DEF RestTypeOK
    <2>3. /\ remaining' \in [Requests -> Nat]
          /\ \A q \in active' : remaining'[q] > 0
        BY <2>1 DEF RestTypeOK, active
    <2> QED BY <2>1, <2>2, <2>3 DEF RestTypeOK, IndexTypeOK
<1>5. CASE UNCHANGED vars
    BY <1>5 DEF vars, indexvars, streamvars, queuevars, seqvars, batchvars, active,
                RestTypeOK, IndexTypeOK
<1> QED BY <1>1, <1>2, <1>3, <1>4, <1>5, AdmitTypes, HandlerTypes, QuietTypes
        DEF Next, LoopStep

(* Every variable of the serving core keeps its type on every path through *)
(* batch_loop and generate(), and an active request always has budget left.*)
THEOREM LoopTyped == Spec => []TypeOK
<1>1. Init => TypeInv
    BY InitInv, CellInitInv, TypeInit DEF TypeInv, CellLoopInv
<1>2. TypeInv => TypeOK
    <2> SUFFICES ASSUME TypeInv PROVE TypeOK
        OBVIOUS
    <2>1. KVTypeOK
        BY DEF TypeInv, CellLoopInv, LoopInv, CoreInv, BooksInv, KVInv
    <2>2. /\ waiting \subseteq Requests /\ free_slots \in Seq(SeqIds)
          /\ slot \in [Requests -> SeqIds \cup {NoSeq}]
        BY DEF TypeInv, CellLoopInv, LoopInv, CoreInv, BooksInv, CoreTypeOK
    <2>3. /\ consumer \in [Requests -> ConsumerStates]
          /\ selected \subseteq waiting /\ sampled \subseteq active \X Sampled
        BY DEF TypeInv, CellLoopInv, LoopInv, PhaseInv
    <2>4. CellTypeOK
        BY DEF TypeInv, CellLoopInv, CellInv
    <2>5. \A s \in SeqIds : cells[s] \subseteq Nat \X Token
        BY <2>4 DEF CellTypeOK
    <2> QED BY <2>1, <2>2, <2>3, <2>4, <2>5 DEF TypeInv, RestTypeOK, CellTypeOK, TypeOK
<1> QED BY <1>1, <1>2, TypeNext, PTL DEF Spec
=============================================================================
