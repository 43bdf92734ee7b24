----------------------------- MODULE Scheduler -----------------------------
(***************************************************************************)
(* The scheduling policies: FIFO, strict priority and weighted fair        *)
(* queuing (tinyserve/scheduler, tinyserve/queue/fairness.py), behind the  *)
(* swappable ActivePolicy (tinyserve/api/app.py).  One Pick is one         *)
(* iteration of WFQPolicy.select; for the two sorting policies it is the   *)
(* next element of their sorted list.                                      *)
(*                                                                         *)
(* A request is its priority class; the queue is in order of arrival, so a *)
(* request's index stands for its arrival_ts.  Virtual time is counted in  *)
(* units of 1 / Scale, a common multiple of the weights.                   *)
(***************************************************************************)
EXTENDS Tables, Sequences, FiniteSetsExt, SequencesExt

CONSTANTS
    Priorities,   \* the priority classes in use
    Scale,        \* virtual time units per 1.0
    Slots,        \* n_seq_max: the largest capacity select() is given
    MaxWaiting,   \* bound on the length of the queue
    MaxArrivals   \* bound on the number of arrivals

(* weight(): max(priority, 1).                                             *)
weight(p) == Max({p, 1})

ASSUME SchedulerAssumption ==
    /\ Priorities \subseteq Nat
    /\ Scale \in Nat \ {0}
    /\ \A p \in Priorities : Scale % weight(p) = 0

VARIABLES
    policy,          \* ActivePolicy.name
    virtual_finish,  \* WeightedFairQueue._virtual_finish
    waiting,         \* the queue's classes, oldest first
    left,            \* iterations left of the select() in progress
    chosen,          \* indices of the waiters picked so far, in order
    capacity,        \* the capacity of the select() in progress
    arrivals         \* number of requests so far

vars == <<policy, virtual_finish, waiting, left, chosen, capacity, arrivals>>

Policies == {"fifo", "priority", "wfq"}

Init ==
    /\ policy = "wfq"
    /\ virtual_finish = [c \in {} |-> 0]
    /\ waiting = <<>> /\ arrivals = 0
    /\ left = 0 /\ chosen = <<>> /\ capacity = 0

Selecting == capacity > 0
-----------------------------------------------------------------------------
(* Between two calls of select().                                          *)
Arrive(c) ==
    /\ ~Selecting
    /\ Len(waiting) < MaxWaiting /\ arrivals < MaxArrivals
    /\ waiting' = Append(waiting, c)
    /\ arrivals' = arrivals + 1
    /\ UNCHANGED <<policy, virtual_finish, left, chosen, capacity>>

Expire(i) ==
    /\ ~Selecting
    /\ waiting' = RemoveAt(waiting, i)
    /\ UNCHANGED <<policy, virtual_finish, left, chosen, capacity, arrivals>>

(* ActivePolicy.set: a new policy object, with no virtual times.           *)
SetPolicy(name) ==
    /\ ~Selecting
    /\ policy' = name
    /\ virtual_finish' = [c \in {} |-> 0]
    /\ UNCHANGED <<waiting, left, chosen, capacity, arrivals>>
-----------------------------------------------------------------------------
(* select(waiting, n).                                                     *)
Begin(n) ==
    /\ ~Selecting
    /\ capacity' = n
    /\ left' = Min({n, Len(waiting)})
    /\ UNCHANGED <<policy, virtual_finish, waiting, chosen, arrivals>>

pool == DOMAIN waiting \ ToSet(chosen)

backlogged == {waiting[i] : i \in pool}

(* Mutant: a class without history starts at zero.                         *)
StartAtZero ==
    [c \in DOMAIN virtual_finish \cup backlogged |->
        IF c \in DOMAIN virtual_finish THEN virtual_finish[c] ELSE 0]

(* virtual_finish_time() for the whole pool: a class without history gets  *)
(* the smallest time among the backlogged classes that have one.           *)
virtual_finish_time ==
    LET known == {virtual_finish[c] : c \in backlogged \cap DOMAIN virtual_finish} IN
    [c \in DOMAIN virtual_finish \cup backlogged |->
        IF c \in DOMAIN virtual_finish THEN virtual_finish[c]
        ELSE IF known = {} THEN 0 ELSE Min(known)]

(* Mutant: among equals the latest arrival first.                          *)
BeforeByLatest(vft, i, j) ==
    CASE policy = "fifo" -> i < j
      [] policy = "priority" -> waiting[i] > waiting[j] \/ (waiting[i] = waiting[j] /\ i > j)
      [] policy = "wfq" -> vft[waiting[i]] < vft[waiting[j]]
                             \/ (vft[waiting[i]] = vft[waiting[j]] /\ i < j)

(* i comes before j: the sort and min() keys of the three policies.        *)
Before(vft, i, j) ==
    CASE policy = "fifo" -> i < j
      [] policy = "priority" -> waiting[i] > waiting[j] \/ (waiting[i] = waiting[j] /\ i < j)
      [] policy = "wfq" -> vft[waiting[i]] < vft[waiting[j]]
                             \/ (vft[waiting[i]] = vft[waiting[j]] /\ i < j)

charge(vft, c) == [vft EXCEPT ![c] = @ + Scale \div weight(c)]

Pick(i) ==
    /\ left > 0
    /\ i \in pool
    /\ LET vft == virtual_finish_time IN
       /\ \A j \in pool \ {i} : Before(vft, i, j)
       /\ virtual_finish' = IF policy = "wfq" THEN charge(vft, waiting[i]) ELSE virtual_finish
    /\ chosen' = Append(chosen, i)
    /\ left' = left - 1
    /\ UNCHANGED <<policy, waiting, capacity, arrivals>>

(* The batch loop removes the chosen from the queue.                       *)
End ==
    /\ Selecting /\ left = 0
    /\ waiting' = [k \in 1..Cardinality(pool) |->
                      waiting[CHOOSE i \in pool : Cardinality({j \in pool : j <= i}) = k]]
    /\ chosen' = <<>> /\ capacity' = 0
    /\ UNCHANGED <<policy, virtual_finish, left, arrivals>>

Next ==
    \/ \E c \in Priorities : Arrive(c)
    \/ \E i \in DOMAIN waiting : Expire(i) \/ Pick(i)
    \/ \E name \in Policies : SetPolicy(name)
    \/ \E n \in 1..Slots : Begin(n)
    \/ End

Spec == Init /\ [][Next]_vars
-----------------------------------------------------------------------------
(* What the batch loop and its clients assume of every policy: select()    *)
(* returns as many distinct waiters as fit (fewer would leave slots idle,  *)
(* a repeated one make queue.remove raise in the batch loop), and no       *)
(* request overtakes an older one of its own class.                        *)
SelectionSound ==
    /\ Selecting /\ left = 0 =>
          Len(chosen) = Min({capacity, Len(waiting)}) /\ IsInjective(chosen)
    /\ \A i \in ToSet(chosen), j \in DOMAIN waiting :
          (j < i /\ waiting[j] = waiting[i]) => j \in ToSet(chosen)

(* Distance between the virtual times of the slowest and the fastest of    *)
(* the given classes, as far as they have one.                             *)
Spread(vft, classes) ==
    LET times == {vft[c] : c \in classes \cap DOMAIN vft} IN
    IF times = {} THEN 0 ELSE Max(times) - Min(times)

(* WFQ never favours a class by more than one grant: a pick, whether among *)
(* classes with a history or newcomers, leaves the virtual times of the    *)
(* backlogged classes no further apart than they were, or than one charge. *)
PickKeepsSpread ==
    [][(policy = "wfq" /\ chosen' # chosen /\ chosen' # <<>>) =>
          Spread(virtual_finish', backlogged)
              <= Max({Spread(virtual_finish, backlogged), Scale})]_vars

(* "Bounds unfairness across priority classes under skewed load"           *)
(* (scheduler/wfq.py:5): two classes that compete for a slot are never     *)
(* further apart than two grants.                                          *)
BoundedUnfairness ==
    policy = "wfq" => Spread(virtual_finish, backlogged) <= 2 * Scale
=============================================================================
