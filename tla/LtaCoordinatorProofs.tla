------------------------- MODULE LtaCoordinatorProofs -------------------------
(***************************************************************************)
(* Theorems about LtaScheduler, then about LtaCoordinator, which extends   *)
(* it: for every plan and dependency graph, any devices, slots, sessions   *)
(* and generations, and whatever the workers do.                           *)
(*                                                                         *)
(* IInv is the scheduler's inductive invariant: a window is in one place   *)
(* only together with what the dependency index holds (PlanSound), the     *)
(* generation order only with the seals (Opened), and the publication      *)
(* frontier is a prefix of the plan whose length is the cursor (Frontier). *)
(* The coordinator takes only steps of the scheduler, so that IInv holds   *)
(* of it; CInv adds what its own books, the pool's and the seeds have to   *)
(* do with the scheduler's state.  That the loop never stalls follows.     *)
(***************************************************************************)
EXTENDS LtaCoordinator, DataProofs

\* Planned work is of a known view and generation, its dependencies are planned, earlier
\* work of the view, and the dependency index holds exactly those without a result.
PlanSound ==
  /\ \A w \in registered : View[w] \in Views /\ Generation[w] \in generations[View[w]]
  /\ Dependable(registered, registered)
  /\ \A w \in Work : waiting[w] = IF w \in registered THEN Open(w) ELSE {}
  /\ \A w \in Work : result[w] # Pending => w \in registered

\* The work published is a prefix of the plan, the batch being published the next piece.
Frontier ==
  /\ committed \subseteq Completed /\ batch \subseteq Completed \ committed
  /\ cursor = Cardinality(committed)
  /\ \A w \in committed : \A u \in registered : u < w => u \in committed
  /\ \A w \in batch : \A u \in registered : u < w => u \in committed \union batch

\* Whatever was opened or settled has all earlier generations of its view sealed, so that
\* no work of theirs can still arrive.
Opened ==
  \A w \in Leased \union Completed : \A g \in 0..(Generation[w] - 1) : <<View[w], g>> \in sealedGenerations

\* A claim is told from every failed one by its token, and only its own work is settled by it.
LeasesFresh ==
  /\ IsFiniteSet(failedLeases)
  /\ \A c \in failedLeases : c.token < Cardinality(failedLeases)
  /\ \A c \in active : c.token <= Cardinality(failedLeases) /\ c \notin failedLeases
  /\ \A w \in Work : result[w] \notin failedLeases /\ (result[w] \in Leases => result[w].work = w)

\* A view that is projected back is sealed, and was not projected back before.
Returning == backprojecting \subseteq sealedViews \ backprojected

\* The inductive invariant.
IInv ==
  /\ CountersExact /\ PlanSound /\ Frontier /\ Opened /\ GenerationsInOrder
  /\ LeasesFresh /\ OneUsePerDevice /\ Returning

-----------------------------------------------------------------------------
(* The plan order. *)

\* The elements of a finite set of plan orders have the ranks 0, 1, ..., each one its own.
LEMMA Ranks ==
  ASSUME NEW S \in SUBSET Nat, IsFiniteSet(S)
  PROVE  /\ \A v, w \in S : Before(v, S) = Before(w, S) => v = w
         /\ \A w \in S : Before(w, S) + 1 \in 1..Cardinality(S)
         /\ \A i \in 1..Cardinality(S) : \E w \in S : Before(w, S) = i - 1
<1> DEFINE Below(w) == {u \in S : u < w}
           rank == [w \in S |-> Before(w, S) + 1]
<1>1. \A w \in S : IsFiniteSet(Below(w)) /\ Cardinality(Below(w)) \in Nat
  BY FS_Subset, FS_CardinalityType
<1>2. \A w \in S : Before(w, S) \in Nat
  BY <1>1 DEF Before
<1>3. ASSUME NEW v \in S, NEW w \in S, v < w
      PROVE  Before(v, S) < Before(w, S)
  <2>1. Below(v) \subseteq Below(w) /\ v \in Below(w) /\ v \notin Below(v)
    <3>1. \A u \in S : u \in Nat
      OBVIOUS
    <3>2. \A u \in S : u < v => u < w
      BY <1>3, <3>1
    <3>3. ~(v < v)
      BY <3>1
    <3>4. QED
      BY <1>3, <3>2, <3>3
  <2>2. Cardinality(Below(v)) <= Cardinality(Below(w)) /\ Cardinality(Below(v)) # Cardinality(Below(w))
    BY <1>1, <2>1, FS_Subset
  <2>3. QED
    BY <1>1, <2>2 DEF Before
<1>4. \A v, w \in S : Before(v, S) = Before(w, S) => v = w
  BY <1>2, <1>3
<1>5. ASSUME NEW w \in S
      PROVE  Before(w, S) + 1 \in 1..Cardinality(S)
  <2>1. Below(w) \subseteq S /\ w \notin Below(w)
    OBVIOUS
  <2>2. Cardinality(Below(w)) <= Cardinality(S) /\ Cardinality(Below(w)) # Cardinality(S)
    BY <2>1, FS_Subset
  <2>3. Cardinality(S) \in Nat
    BY FS_CardinalityType
  <2>4. QED
    BY <1>1, <2>2, <2>3 DEF Before
<1>6. rank \in Injection(S, 1..Cardinality(S))
  <2>1. rank \in [S -> 1..Cardinality(S)]
    BY <1>5
  <2>2. \A v, w \in S : rank[v] = rank[w] => v = w
    BY <1>2, <1>4
  <2> HIDE DEF rank
  <2>3. QED
    BY <2>1, <2>2, Fun_IsInj
<1>7. Cardinality(S) \in Nat
  BY FS_CardinalityType
<1>8. IsFiniteSet(1..Cardinality(S)) /\ Cardinality(1..Cardinality(S)) = Cardinality(S)
  BY <1>7, FS_Interval
<1>9. rank \in Surjection(S, 1..Cardinality(S))
  <2> HIDE DEF rank
  <2>1. QED
    BY <1>6, <1>8, FS_Injection
<1>10. ASSUME NEW i \in 1..Cardinality(S)
       PROVE  \E w \in S : Before(w, S) = i - 1
  <2>1. \E w \in S : rank[w] = i
    <3> HIDE DEF rank
    <3>1. QED
      BY <1>9 DEF Surjection
  <2>2. QED
    BY <1>2, <2>1
<1>11. QED
  BY <1>4, <1>5, <1>10

\* InPlanOrder lists every element of the set once.
LEMMA InPlanOrderLists ==
  ASSUME NEW S \in SUBSET Nat, IsFiniteSet(S)
  PROVE  /\ InPlanOrder(S) \in Seq(S)
         /\ Range(InPlanOrder(S)) = S
         /\ IsInjective(InPlanOrder(S))
<1> DEFINE n == Cardinality(S)
           q == InPlanOrder(S)
<1>1. n \in Nat
  BY FS_CardinalityType
<1>2. \A i \in 1..n : q[i] \in S /\ Before(q[i], S) = i - 1
  BY Ranks DEF InPlanOrder
<1>3. DOMAIN q = 1..n /\ q = [i \in 1..n |-> q[i]]
  BY DEF InPlanOrder
<1>4. q \in Seq(S)
  <2>1. q \in [1..n -> S]
    BY <1>2, <1>3
  <2>2. QED
    BY <1>1, <2>1, SeqDef
<1>5. ASSUME NEW i \in 1..n, NEW j \in 1..n, q[i] = q[j]
      PROVE  i = j
  <2>1. i - 1 = j - 1
    BY <1>2, <1>5
  <2>2. QED
    BY <1>1, <2>1
<1>6. ASSUME NEW w \in S
      PROVE  \E i \in 1..n : q[i] = w
  <2>1. Before(w, S) + 1 \in 1..n
    BY Ranks
  <2>2. Before(q[Before(w, S) + 1], S) = Before(w, S) /\ q[Before(w, S) + 1] \in S
    <3>1. Before(w, S) \in Nat
      BY FS_Subset, FS_CardinalityType DEF Before
    <3>2. QED
      BY <1>2, <2>1, <3>1
  <2>3. q[Before(w, S) + 1] = w
    BY <2>2, Ranks
  <2>4. QED
    BY <2>1, <2>3
<1>7. Range(q) = S
  BY <1>2, <1>3, <1>6 DEF Range
<1>8. IsInjective(q)
  BY <1>3, <1>5 DEF IsInjective
<1>9. QED
  BY <1>4, <1>7, <1>8

\* Without takes one element out of a queue that holds it once.
LEMMA WithoutRemoves ==
  ASSUME NEW T, NEW q \in Seq(T), IsInjective(q), NEW i \in DOMAIN q
  PROVE  /\ Without(q, i) \in Seq(T)
         /\ Range(Without(q, i)) = Range(q) \ {q[i]}
         /\ IsInjective(Without(q, i))
<1>1. Without(q, i) = Leaving(q, i)
  BY DEF Without, Leaving
<1> HIDE DEF Without
<1>2. Leaving(q, i) \in Seq(T) /\ IsInjective(Leaving(q, i))
  BY LeavingRemoves
<1>3. Range(Leaving(q, i)) = Range(q) \ {q[i]}
  BY LeavingRemoves
<1>4. QED
  BY <1>1, <1>2, <1>3

-----------------------------------------------------------------------------
(* Where a window is. *)

\* Sets of work are finite sets of natural numbers.
LEMMA WorkSets ==
  /\ \A S \in SUBSET Work : S \in SUBSET Nat /\ IsFiniteSet(S) /\ Cardinality(S) \in Nat
  /\ \A w \in Work : View[w] \in Views => Owner[View[w]] \in Devices
<1>1. Work \subseteq Nat /\ IsFiniteSet(Work) /\ Owner \in [Views -> Devices]
  BY WorkAssumption, ConstructorAssumption
<1>2. ASSUME NEW S \in SUBSET Work
      PROVE  S \in SUBSET Nat /\ IsFiniteSet(S) /\ Cardinality(S) \in Nat
  BY <1>1, FS_Subset, FS_CardinalityType
<1>3. QED
  BY <1>1, <1>2

\* All the work in the queues q.
Listed(q) == UNION {Range(q[d]) : d \in Devices}

\* Queues as the scheduler keeps them: work is listed once, and only at the owner of its view.
Sound(q) ==
  /\ q \in [Devices -> Seq(Work)]
  /\ \A d \in Devices : IsInjective(q[d]) /\ \A w \in Range(q[d]) : w \in Work /\ Owner[View[w]] = d

\* The queues of a state that satisfies the invariant are sound.
LEMMA QueuesSound == TypeOK /\ InOnePlace => Sound(queue)
<1> SUFFICES ASSUME TypeOK, InOnePlace PROVE Sound(queue)
  OBVIOUS
<1>1. queue \in [Devices -> Seq(Work)]
  BY DEF TypeOK
<1>2. ASSUME NEW d \in Devices, NEW w \in Range(queue[d])
      PROVE  w \in Work
  BY <1>1, <1>2, RangeOfSeq
<1>3. QED
  BY <1>1, <1>2 DEF Sound, InOnePlace

\* Putting one more set of work of a view into its owner's queue, at any positions.
LEMMA QueueGains ==
  ASSUME NEW q, Sound(q), NEW o \in Devices, NEW F \in SUBSET Work, \A x \in F : Owner[View[x]] = o,
         NEW r \in Seq(Work), IsInjective(r), Range(r) = Range(q[o]) \union F,
         NEW p \in [Devices -> Seq(Work)], \A d \in Devices : p[d] = IF d = o THEN r ELSE q[d]
  PROVE  Sound(p) /\ Listed(p) = Listed(q) \union F
<1>1. /\ p \in [Devices -> Seq(Work)]
      /\ \A d \in Devices : p[d] = IF d = o THEN r ELSE q[d]
  OBVIOUS
<1>2. Sound(p)
  BY <1>1 DEF Sound
<1>3. \A d \in Devices : Range(p[d]) = IF d = o THEN Range(q[d]) \union F ELSE Range(q[d])
  BY <1>1
<1>4. Listed(p) = Listed(q) \union F
  BY <1>3 DEF Listed
<1>5. QED
  BY <1>2, <1>4

\* Taking the window at a position out of a queue takes it out of all of them.
LEMMA QueueLoses ==
  ASSUME NEW q, Sound(q), NEW o \in Devices, NEW i \in DOMAIN q[o],
         NEW p \in [Devices -> Seq(Work)], \A d \in Devices : p[d] = IF d = o THEN Without(q[o], i) ELSE q[d]
  PROVE  Sound(p) /\ Listed(p) = Listed(q) \ {q[o][i]} /\ q[o][i] \in Listed(q)
<1> DEFINE w == q[o][i]
<1>1. w \in Range(q[o]) /\ Owner[View[w]] = o /\ q \in [Devices -> Seq(Work)] /\ IsInjective(q[o])
  BY DEF Sound, Range
<1>2. /\ Without(q[o], i) \in Seq(Work) /\ IsInjective(Without(q[o], i))
      /\ Range(Without(q[o], i)) = Range(q[o]) \ {w}
  BY <1>1, WithoutRemoves
<1>3. /\ p \in [Devices -> Seq(Work)]
      /\ \A d \in Devices : p[d] = IF d = o THEN Without(q[o], i) ELSE q[d]
  OBVIOUS
<1> HIDE DEF w
<1>4. Sound(p)
  BY <1>2, <1>3 DEF Sound
<1>5. \A d \in Devices : Range(p[d]) = Range(q[d]) \ {w}
  BY <1>1, <1>2, <1>3 DEF Sound
<1>6. Listed(p) = Listed(q) \ {w}
  BY <1>5 DEF Listed
<1>7. QED
  BY <1>1, <1>4, <1>6 DEF w, Listed

\* A claim is a lease of a position of some queue by a free slot.
LEMMA ClaimIsLease ==
  ASSUME NEW slot \in Slots, Claim(slot)
  PROVE  \E o \in Devices : \E i \in DOMAIN queue[o] :
            Lease(slot, o, i) /\ Free(slot) /\ Claimable(queue[o][i])
<1>1. slot.device \in Devices
  BY DEF Slots
<1>2. CASE ClaimOwn(slot)
  BY <1>1, <1>2 DEF ClaimOwn, OwnPositions
<1>3. CASE ClaimHelp(slot)
  BY <1>3 DEF ClaimHelp, HelpPositions, OwnPositions
<1>4. QED
  BY <1>2, <1>3 DEF Claim

\* Ending a lease frees its slot and its work, and no other.
LEMMA LeaseGivenUp ==
  ASSUME InOnePlace, OneUsePerDevice, NEW c \in active, active' = {b \in active : b.slot # c.slot}
  PROVE  /\ active' = active \ {c} /\ c.work \in Leased /\ Leased' = Leased \ {c.work}
         /\ BusySlots' \subseteq BusySlots
<1>1. active' = active \ {c}
  BY DEF OneUsePerDevice
<1>2. \A b \in active : b.work = c.work => b = c
  BY DEF InOnePlace
<1>3. QED
  BY <1>1, <1>2 DEF Leased, BusySlots

\* A window whose last open dependency is settled moves from the blocked to its queue.
LEMMA Settles ==
  ASSUME IInv, NEW w \in registered, NEW q, Sound(q), UNCHANGED registered,
         waiting' = [u \in Work |-> waiting[u] \ {w}], queue' = Activated(q, w)
  PROVE  /\ Sound(queue') /\ Freed(w) \subseteq Blocked /\ Blocked' = Blocked \ Freed(w)
         /\ Queued' = Listed(q) \union Freed(w)
<1> DEFINE o == Owner[View[w]]
<1>1. registered \subseteq Work /\ waiting \in [Work -> SUBSET Work] /\ o \in Devices
  BY WorkSets DEF IInv, CountersExact, TypeOK, PlanSound
<1>2. Freed(w) \subseteq Blocked /\ Blocked' = Blocked \ Freed(w)
  BY <1>1 DEF Freed, Children, Blocked
<1>3. ASSUME NEW u \in Freed(w)
      PROVE  u \in Work /\ Owner[View[u]] = o
  <2>1. u \in registered /\ u \in Work /\ w \in Deps[u]
    BY <1>1 DEF Freed, Children, IInv, PlanSound, Open
  <2>2. QED
    BY <2>1 DEF IInv, PlanSound, Dependable
<1>4. CASE Freed(w) = {}
  BY <1>2, <1>4 DEF Activated, Queued, Listed
<1>5. CASE Freed(w) # {}
  <2> DEFINE S == Range(q[o]) \union Freed(w)
  <2>1. S \subseteq Work
    BY <1>1, <1>3 DEF Sound
  <2>2. S \in SUBSET Nat /\ IsFiniteSet(S)
    BY <2>1, WorkSets
  <2>3. InPlanOrder(S) \in Seq(S) /\ Range(InPlanOrder(S)) = S /\ IsInjective(InPlanOrder(S))
    BY <2>2, InPlanOrderLists
  <2>4. InPlanOrder(S) \in Seq(Work)
    BY <2>1, <2>3, SeqMonotonic
  <2>5. queue' = [q EXCEPT ![o] = InPlanOrder(S)]
    BY <1>1, <1>5 DEF Activated, Sound
  <2>6. Sound(queue') /\ Listed(queue') = Listed(q) \union Freed(w)
    <3> DEFINE r == InPlanOrder(S)
    <3>1. /\ o \in Devices /\ Freed(w) \in SUBSET Work /\ \A u \in Freed(w) : Owner[View[u]] = o
          /\ r \in Seq(Work) /\ IsInjective(r) /\ Range(r) = Range(q[o]) \union Freed(w)
      BY <1>1, <1>3, <2>3, <2>4
    <3>2. queue' \in [Devices -> Seq(Work)] /\ \A d \in Devices : queue'[d] = IF d = o THEN r ELSE q[d]
      BY <1>1, <2>4, <2>5 DEF Sound
    <3> HIDE DEF r, o, S
    <3>3. Sound(queue')
      BY <3>1, <3>2, QueueGains
    <3>4. Listed(queue') = Listed(q) \union Freed(w)
      BY <3>1, <3>2, QueueGains
    <3>5. QED
      BY <3>3, <3>4
  <2>7. QED
    BY <1>2, <2>6 DEF Queued, Listed
<1>6. QED
  BY <1>4, <1>5

\* Planning more work puts it in its owner's queue or among the blocked.
LEMMA RegisterPlaces ==
  ASSUME IInv, NEW v \in Views, NEW g \in Generations, NEW S \in SUBSET (Work \ registered), Register(v, g, S)
  PROVE  InOnePlace' /\ Sound(queue')
<1> DEFINE R == Runnable(v, S)
           o == Owner[v]
           r == queue[o] \o InPlanOrder(R)
<1>0. TypeOK /\ InOnePlace /\ Sound(queue) /\ PlanSound
  BY QueuesSound DEF IInv, CountersExact
<1>1. /\ registered \subseteq Work /\ S \subseteq Work /\ S \cap registered = {} /\ R \subseteq S
      /\ R \in SUBSET Work /\ o \in Devices /\ queue \in [Devices -> Seq(Work)]
  BY <1>0, ConstructorAssumption DEF TypeOK, Runnable
<1>2. \A w \in S : View[w] = v /\ (w \in R <=> Open(w) = {})
  BY DEF Register, Runnable
<1>3. InPlanOrder(R) \in Seq(R) /\ Range(InPlanOrder(R)) = R /\ IsInjective(InPlanOrder(R))
  BY <1>1, WorkSets, InPlanOrderLists
<1>4. InPlanOrder(R) \in Seq(Work)
  BY <1>1, <1>3, SeqMonotonic
<1>5. Range(queue[o]) \subseteq registered
  BY <1>0, <1>1 DEF InOnePlace, Queued
<1>6. r \in Seq(Work) /\ Range(r) = Range(queue[o]) \union R /\ IsInjective(r)
  BY <1>0, <1>1, <1>3, <1>4, <1>5, JoinAdds DEF Sound
<1>7. queue' \in [Devices -> Seq(Work)] /\ \A d \in Devices : queue'[d] = IF d = o THEN r ELSE queue[d]
  BY <1>1, <1>6 DEF Register
<1>8. \A w \in R : Owner[View[w]] = o
  BY <1>1, <1>2
<1>9. Sound(queue') /\ Listed(queue') = Listed(queue) \union R
  <2>0. Sound(queue) /\ o \in Devices /\ R \in SUBSET Work
    BY <1>0, <1>1
  <2> HIDE DEF r, o, R
  <2>1. Sound(queue')
    BY <1>6, <1>7, <1>8, <2>0 DEF Sound
  <2>2. Listed(queue') = Listed(queue) \union R
    BY <1>6, <1>7, <1>8, <2>0, QueueGains
  <2>3. QED
    BY <2>1, <2>2
<1>10. Queued' = Queued \union R
  BY <1>9 DEF Queued, Listed
<1>11. Blocked' = Blocked \union (S \ R)
  <2>1. registered' = registered \union S /\ waiting' = [w \in Work |-> IF w \in S THEN Open(w) ELSE waiting[w]]
    BY DEF Register
  <2>2. QED
    BY <1>1, <1>2, <2>1 DEF Blocked
<1>12. Leased' = Leased /\ Completed' = Completed /\ dropped' = dropped /\ active' = active
       /\ registered' = registered \union S
  BY <1>0, <1>1 DEF Register, Leased, Completed, PlanSound, faults
<1>13. \A d \in Devices : IsInjective(queue'[d]) /\ \A w \in Range(queue'[d]) : Owner[View[w]] = d
  BY <1>9 DEF Sound
<1>14. QED
  <2> HIDE DEF R
  <2>1. registered = Queued \union Blocked \union Leased \union Completed \union dropped
    BY <1>0 DEF InOnePlace
  <2>2. QED
    BY <1>0, <1>1, <1>9, <1>10, <1>11, <1>12, <1>13, <2>1 DEF InOnePlace

\* A claim takes a window from a queue to a slot.
LEMMA LeasePlaces ==
  ASSUME IInv, NEW slot \in Slots, NEW o \in Devices, NEW i \in DOMAIN queue[o], Lease(slot, o, i)
  PROVE  /\ InOnePlace' /\ Sound(queue') /\ queue[o][i] \in Queued
         /\ Leased' = Leased \union {queue[o][i]} /\ Completed' = Completed
<1> DEFINE w == queue[o][i]
<1>0. InOnePlace /\ Sound(queue)
  BY QueuesSound DEF IInv, CountersExact
<1>1. queue' \in [Devices -> Seq(Work)]
      /\ \A d \in Devices : queue'[d] = IF d = o THEN Without(queue[o], i) ELSE queue[d]
  BY <1>0, WithoutRemoves DEF Lease, Sound
<1>2. Sound(queue') /\ w \in Listed(queue)
  BY <1>0, <1>1, QueueLoses
<1>3. Listed(queue') = Listed(queue) \ {w}
  BY <1>0, <1>1, QueueLoses
<1>4. PICK c : active' = active \union {c} /\ c.work = w
  <2> DEFINE new == [work |-> w, slot |-> slot, token |-> Cardinality(failedLeases)]
  <2>1. active' = active \union {new} /\ new.work = w
    BY DEF Lease
  <2>2. QED
    BY <2>1
<1>5. Leased' = Leased \union {w} /\ Queued' = Queued \ {w} /\ w \in Queued
  BY <1>2, <1>3, <1>4 DEF Leased, Queued, Listed
<1>6. Blocked' = Blocked /\ Completed' = Completed /\ UNCHANGED <<registered, dropped>>
  BY DEF Lease, Blocked, Completed, plan, faults
<1>7. \A d \in Devices : IsInjective(queue'[d]) /\ \A u \in Range(queue'[d]) : Owner[View[u]] = d
  BY <1>2 DEF Sound
<1>8. \A b, d \in active' : b.work = d.work => b = d
  <2>1. w \notin Leased
    BY <1>0, <1>5 DEF InOnePlace
  <2>2. \A b \in active : b.work # w
    BY <2>1 DEF Leased
  <2>3. QED
    BY <1>0, <1>4, <2>2 DEF InOnePlace
<1>9. InOnePlace'
  <2> HIDE DEF w
  <2>1. QED
    BY <1>0, <1>5, <1>6, <1>7, <1>8 DEF InOnePlace
<1>10. QED
  BY <1>2, <1>5, <1>6, <1>9

\* An accepted result settles the work and frees the windows that waited only for it.
LEMMA CompletePlaces ==
  ASSUME IInv, NEW c \in active, Complete(c)
  PROVE  /\ InOnePlace' /\ Sound(queue') /\ c.work \in registered /\ c.work \notin Completed
         /\ Leased' = Leased \ {c.work} /\ Completed' = Completed \union {c.work}
<1> DEFINE w == c.work
<1>0. TypeOK /\ InOnePlace /\ OneUsePerDevice /\ Sound(queue)
  BY QueuesSound DEF IInv, CountersExact
<1>1. active' = active \ {c} /\ w \in Leased /\ Leased' = Leased \ {w}
  BY <1>0, LeaseGivenUp DEF Complete
<1>2. w \in registered /\ w \in Work /\ w \notin Queued \union Blocked \union Completed \union dropped
  BY <1>0, <1>1 DEF InOnePlace, TypeOK
<1>3. Sound(queue') /\ Freed(w) \subseteq Blocked /\ Blocked' = Blocked \ Freed(w)
      /\ Queued' = Queued \union Freed(w)
  <2>1. UNCHANGED registered /\ waiting' = [u \in Work |-> waiting[u] \ {w}] /\ queue' = Activated(queue, w)
    BY DEF Complete, plan
  <2> HIDE DEF w
  <2>2. Sound(queue') /\ Freed(w) \subseteq Blocked /\ Blocked' = Blocked \ Freed(w)
    BY <1>0, <1>2, <2>1, Settles
  <2>3. Queued' = Listed(queue) \union Freed(w)
    BY <1>0, <1>2, <2>1, Settles
  <2>4. QED
    BY <2>2, <2>3 DEF Queued, Listed
<1>4. Completed' = Completed \union {w} /\ UNCHANGED <<registered, dropped>>
  <2>1. c # Pending /\ result' = [result EXCEPT ![w] = c] /\ registered' = registered
        /\ dropped' = dropped
    BY <1>0, ResultAssumption DEF TypeOK, Complete, plan, faults
  <2>2. QED
    BY <1>0, <1>2, <2>1 DEF Completed, TypeOK
<1>5. \A d \in Devices : IsInjective(queue'[d]) /\ \A u \in Range(queue'[d]) : Owner[View[u]] = d
  BY <1>3 DEF Sound
<1>6. InOnePlace'
  <2> HIDE DEF w
  <2>1. QED
    BY <1>0, <1>1, <1>2, <1>3, <1>4, <1>5 DEF InOnePlace
<1>7. QED
  BY <1>1, <1>2, <1>3, <1>4, <1>6

\* Work that is skipped is settled from its queue.
LEMMA SkipPlaces ==
  ASSUME IInv, NEW w \in registered, Skip(w)
  PROVE  /\ InOnePlace' /\ Sound(queue') /\ w \notin Leased \union Completed
         /\ Leased' = Leased /\ Completed' = Completed \union {w}
<1>0. TypeOK /\ InOnePlace /\ Sound(queue)
  BY QueuesSound DEF IInv, CountersExact
<1>12. PICK e \in Devices : \E i \in DOMAIN queue[e] :
         queue[e][i] = w /\ queue' = Activated([queue EXCEPT ![e] = Without(@, i)], w)
  BY DEF Skip
<1>1. PICK i \in DOMAIN queue[e] :
        queue[e][i] = w /\ queue' = Activated([queue EXCEPT ![e] = Without(@, i)], w)
  BY <1>12
<1> DEFINE q == [queue EXCEPT ![e] = Without(@, i)]
<1>2. q \in [Devices -> Seq(Work)] /\ \A d \in Devices : q[d] = IF d = e THEN Without(queue[e], i) ELSE queue[d]
  BY <1>0, WithoutRemoves DEF Sound
<1>3. Sound(q) /\ w \in Listed(queue)
  BY <1>0, <1>1, <1>2, QueueLoses
<1>4. Listed(q) = Listed(queue) \ {w}
  <2>1. Sound(queue) /\ queue[e][i] = w
    BY <1>0, <1>1
  <2> HIDE DEF q
  <2>2. Listed(q) = Listed(queue) \ {queue[e][i]}
    BY <1>2, <2>1, QueueLoses
  <2>3. QED
    BY <2>1, <2>2
<1>5. UNCHANGED <<registered, active, dropped>> /\ waiting' = [u \in Work |-> waiting[u] \ {w}]
      /\ queue' = Activated(q, w)
  BY <1>1 DEF Skip, plan, faults
<1> HIDE DEF q
<1>6. Sound(queue') /\ Freed(w) \subseteq Blocked /\ Blocked' = Blocked \ Freed(w)
  BY <1>0, <1>3, <1>5, Settles
<1>7. Queued' = Listed(q) \union Freed(w)
  BY <1>0, <1>3, <1>5, Settles
<1>8. Queued' = (Queued \ {w}) \union Freed(w) /\ w \in Queued
  BY <1>3, <1>4, <1>7 DEF Queued, Listed
<1>9. Completed' = Completed \union {w} /\ Leased' = Leased
  <2>1. Skipped # Pending /\ result' = [result EXCEPT ![w] = Skipped] /\ w \in Work
    BY <1>0, ResultAssumption DEF TypeOK, Skip
  <2>2. QED
    BY <1>0, <1>5, <2>1 DEF Completed, Leased, TypeOK
<1>10. \A d \in Devices : IsInjective(queue'[d]) /\ \A u \in Range(queue'[d]) : Owner[View[u]] = d
  BY <1>6 DEF Sound
<1>11. InOnePlace'
  BY <1>0, <1>5, <1>6, <1>8, <1>9, <1>10 DEF InOnePlace
<1>13. QED
  BY <1>6, <1>9, <1>11 DEF Skip

\* A failed lease puts its work back at the head of its queue, or drops it.
LEMMA FailPlaces ==
  ASSUME IInv, NEW c \in active, NEW retry \in BOOLEAN, Fail(c, retry)
  PROVE  InOnePlace' /\ Sound(queue') /\ Leased' = Leased \ {c.work} /\ Completed' = Completed
<1> DEFINE w == c.work
           o == Owner[View[w]]
<1>0. TypeOK /\ InOnePlace /\ OneUsePerDevice /\ Sound(queue) /\ PlanSound
  BY QueuesSound DEF IInv, CountersExact
<1>1. active' = active \ {c} /\ w \in Leased /\ Leased' = Leased \ {w}
  BY <1>0, LeaseGivenUp DEF Fail
<1>2. w \in registered /\ w \in Work /\ w \notin Queued \union Blocked \union Completed \union dropped
  BY <1>0, <1>1 DEF InOnePlace, TypeOK
<1>3. Completed' = Completed /\ Blocked' = Blocked /\ registered' = registered
  BY DEF Fail, plan, Completed, Blocked
<1>4. CASE ~retry
  <2>1. queue' = queue /\ dropped' = dropped \union {w}
    BY <1>4 DEF Fail
  <2>2. Queued' = Queued
    BY <2>1 DEF Queued
  <2> HIDE DEF w
  <2>3. InOnePlace'
    BY <1>0, <1>1, <1>2, <1>3, <2>1, <2>2 DEF InOnePlace
  <2>4. QED
    BY <1>0, <1>1, <1>3, <2>1, <2>3 DEF w
<1>5. CASE retry
  <2> DEFINE r == <<w>> \o queue[o]
  <2>1. queue' = [queue EXCEPT ![o] = r] /\ dropped' = dropped
    BY <1>5 DEF Fail, Requeue
  <2>2. o \in Devices /\ queue \in [Devices -> Seq(Work)] /\ queue[o] \in Seq(Work) /\ IsInjective(queue[o])
    BY <1>0, <1>2, WorkSets DEF PlanSound, Sound
  <2>3. <<w>> \in Seq(Work) /\ Range(<<w>>) = {w} /\ IsInjective(<<w>>)
    <3>1. DOMAIN <<w>> = {1} /\ <<w>>[1] = w /\ <<w>> \in Seq(Work)
      BY <1>2
    <3>2. QED
      BY <3>1 DEF Range, IsInjective
  <2>4. w \notin Range(queue[o])
    BY <1>2, <2>2 DEF Queued
  <2>5. r \in Seq(Work) /\ IsInjective(r)
    BY <2>2, <2>3, <2>4, JoinAdds
  <2>6. Range(r) = Range(queue[o]) \union {w}
    <3> DEFINE one == <<w>>
    <3>1. one \in Seq(Work) /\ Range(one) = {w} /\ r = one \o queue[o]
      BY <2>3
    <3> HIDE DEF w, o, one, r
    <3>2. Range(one \o queue[o]) = Range(one) \union Range(queue[o])
      BY <2>2, <3>1, RangeConcatenation
    <3>3. QED
      BY <3>1, <3>2
  <2>7. queue' \in [Devices -> Seq(Work)] /\ \A d \in Devices : queue'[d] = IF d = o THEN r ELSE queue[d]
    BY <2>1, <2>2, <2>5
  <2> DEFINE F == {w}
  <2>8. F \in SUBSET Work /\ \A x \in F : Owner[View[x]] = o
    BY <1>2
  <2>15. Sound(queue) /\ o \in Devices /\ Range(r) = Range(queue[o]) \union F
    BY <1>0, <2>2, <2>6
  <2> HIDE DEF w, o, r, F
  <2>9. Sound(queue')
    BY <2>5, <2>7, <2>8, <2>15, QueueGains
  <2>10. Listed(queue') = Listed(queue) \union F
    BY <2>5, <2>7, <2>8, <2>15, QueueGains
  <2>11. Queued' = Queued \union {w}
    BY <2>10 DEF Queued, Listed, F
  <2>12. \A d \in Devices : IsInjective(queue'[d]) /\ \A u \in Range(queue'[d]) : Owner[View[u]] = d
    BY <2>9 DEF Sound
  <2>13. InOnePlace'
    BY <1>0, <1>1, <1>2, <1>3, <2>1, <2>11, <2>12 DEF InOnePlace
  <2>14. QED
    BY <1>1, <1>3, <2>9, <2>13 DEF w
<1>6. QED
  BY <1>4, <1>5

-----------------------------------------------------------------------------
(* The kinds of step. *)

\* The seals of a generation or a view, and the mark that admits a view's windows.
Seals ==
  \/ \E v \in Views, g \in Generations : SealGeneration(v, g)
  \/ \E v \in Views : SealView(v) \/ MarkProjectionReady(v)

\* The three steps of the ordered publication.
Publishes == ClaimCommittable \/ CompleteCommit \/ FailCommit

\* The three steps by which a view is projected back on its owner.
Returns ==
  \/ \E d \in Devices : ClaimBackprojection(d)
  \/ \E v \in Views : CompleteBackprojection(v) \/ FailBackprojection(v)

\* A claim the scheduler grants: a free slot, a position of a queue that may be opened.
Opening(slot, o, i) == Lease(slot, o, i) /\ Free(slot) /\ Claimable(queue[o][i])

\* Every step is of one of these kinds; only a current lease completes or fails.
LEMMA NextCases ==
  ASSUME [Next]_vars
  PROVE  \/ \E v \in Views, g \in Generations, S \in SUBSET (Work \ registered) : Register(v, g, S)
         \/ \E slot \in Slots, o \in Devices : \E i \in DOMAIN queue[o] : Opening(slot, o, i)
         \/ \E c \in active : Complete(c) \/ \E retry \in BOOLEAN : Fail(c, retry)
         \/ \E w \in registered : Skip(w)
         \/ Seals \/ Publishes \/ Returns \/ UNCHANGED vars
<1>1. ASSUME NEW slot \in Slots, Claim(slot)
      PROVE  \E o \in Devices : \E i \in DOMAIN queue[o] : Opening(slot, o, i)
  BY <1>1, ClaimIsLease DEF Opening
<1>2. ASSUME NEW c \in active \union failedLeases, Complete(c) \/ \E retry \in BOOLEAN : Fail(c, retry)
      PROVE  c \in active
  BY <1>2 DEF Complete, Fail, IsCurrent
<1>3. QED
  BY <1>1, <1>2 DEF Next, Seals, Publishes, Returns

\* Everything but the counters of unpublished work keeps its type.
Typed ==
  /\ registered \in SUBSET Work
  /\ generations \in [Views -> SUBSET Generations]
  /\ sealedGenerations \subseteq Views \X Generations
  /\ {sealedViews, projectionReady, backprojecting, backprojected} \subseteq SUBSET Views
  /\ waiting \in [Work -> SUBSET Work]
  /\ active \subseteq Leases /\ failedLeases \subseteq Leases
  /\ result \in [Work -> Results]
  /\ {cursor, failures} \subseteq Nat
  /\ {committed, batch, dropped} \subseteq SUBSET Work

\* A step keeps these types.
LEMMA TypedStep == IInv /\ [Next]_vars => Typed'
<1> SUFFICES ASSUME IInv, [Next]_vars PROVE Typed'
  OBVIOUS
<1>0. TypeOK /\ Typed /\ PlanSound /\ LeasesFresh
  BY DEF IInv, CountersExact, TypeOK, Typed
<1> USE DEF plan, publication, views, faults
<1>1. ASSUME NEW v \in Views, NEW g \in Generations, NEW S \in SUBSET (Work \ registered), Register(v, g, S)
      PROVE  Typed'
  <2>1. \A w \in Work : Open(w) \in SUBSET Work
    BY WorkAssumption DEF Open
  <2>2. registered' \in SUBSET Work /\ generations' \in [Views -> SUBSET Generations]
    BY <1>0, <1>1 DEF Register, Typed
  <2>3. waiting' \in [Work -> SUBSET Work]
    BY <1>0, <1>1, <2>1 DEF Register, Typed
  <2>4. QED
    BY <1>0, <1>1, <2>2, <2>3 DEF Register, Typed
<1>2. ASSUME NEW slot \in Slots, NEW o \in Devices, NEW i \in DOMAIN queue[o], Opening(slot, o, i)
      PROVE  Typed'
  <2>1. Cardinality(failedLeases) \in Nat
    BY <1>0, FS_CardinalityType DEF LeasesFresh
  <2>2. queue[o][i] \in Work
    <3>1. queue[o] \in Seq(Work)
      BY <1>0 DEF TypeOK
    <3>2. QED
      BY <3>1, LenProperties, ElementOfSeq
  <2>3. [work |-> queue[o][i], slot |-> slot, token |-> Cardinality(failedLeases)] \in Leases
    BY <2>1, <2>2 DEF Leases
  <2>4. QED
    BY <1>0, <1>2, <2>3 DEF Opening, Lease, Typed
<1>3. ASSUME NEW c \in active, Complete(c)
      PROVE  Typed'
  <2>1. c \in Leases /\ c.work \in Work
    BY <1>0 DEF Typed, Leases
  <2>2. result' \in [Work -> Results]
    BY <1>0, <1>3, <2>1 DEF Complete, Typed, Results
  <2>3. waiting' \in [Work -> SUBSET Work]
    BY <1>0, <1>3 DEF Complete, Typed
  <2>4. QED
    BY <1>0, <1>3, <2>2, <2>3 DEF Complete, Typed
<1>4. ASSUME NEW c \in active, NEW retry \in BOOLEAN, Fail(c, retry)
      PROVE  Typed'
  <2>1. c \in Leases /\ c.work \in Work
    BY <1>0 DEF Typed, Leases
  <2>2. failures' \in Nat /\ failedLeases' \subseteq Leases /\ dropped' \in SUBSET Work
    BY <1>0, <1>4, <2>1 DEF Fail, Typed
  <2>3. QED
    BY <1>0, <1>4, <2>2 DEF Fail, Typed
<1>5. ASSUME NEW w \in registered, Skip(w)
      PROVE  Typed'
  <2>1. result' \in [Work -> Results]
    BY <1>0, <1>5 DEF Skip, Typed, Results
  <2>2. waiting' \in [Work -> SUBSET Work]
    BY <1>0, <1>5 DEF Skip, Typed
  <2>3. QED
    BY <1>0, <1>5, <2>1, <2>2 DEF Skip, Typed
<1>6. CASE Seals
  <2>1. ASSUME NEW v \in Views, NEW g \in Generations, SealGeneration(v, g)
        PROVE  Typed'
    <3>1. sealedGenerations' \subseteq Views \X Generations
      BY <1>0, <2>1 DEF SealGeneration, Typed
    <3>2. QED
      BY <1>0, <2>1, <3>1 DEF SealGeneration, Typed
  <2>2. ASSUME NEW v \in Views, SealView(v) \/ MarkProjectionReady(v)
        PROVE  Typed'
    <3>1. sealedViews' \subseteq Views /\ projectionReady' \subseteq Views
      BY <1>0, <2>2 DEF SealView, MarkProjectionReady, Typed
    <3>2. UNCHANGED <<registered, generations, sealedGenerations, waiting, active, result,
                      publication, views, faults>>
      BY <2>2 DEF SealView, MarkProjectionReady
    <3>3. QED
      BY <1>0, <3>1, <3>2 DEF Typed
  <2>3. QED
    BY <1>6, <2>1, <2>2 DEF Seals
<1>7. CASE Publishes
  <2>1. ReadyPrefix \in SUBSET Work
    BY <1>0 DEF ReadyPrefix, Ahead, Typed
  <2>2. cursor' \in Nat
    <3>1. Cardinality(batch) \in Nat
      BY <1>0, WorkSets DEF Typed
    <3>2. QED
      BY <1>0, <1>7, <3>1 DEF Publishes, ClaimCommittable, CompleteCommit, FailCommit, Typed
  <2>3. failures' \in Nat /\ batch' \in SUBSET Work /\ committed' \in SUBSET Work
    BY <1>0, <1>7, <2>1 DEF Publishes, ClaimCommittable, CompleteCommit, FailCommit, Typed
  <2>4. QED
    BY <1>0, <1>7, <2>2, <2>3 DEF Publishes, ClaimCommittable, CompleteCommit, FailCommit, Typed
<1>8. CASE Returns
  BY <1>0, <1>8 DEF Returns, ClaimBackprojection, CompleteBackprojection, FailBackprojection, Typed
<1>9. CASE UNCHANGED vars
  BY <1>0, <1>9 DEF vars, Typed
<1>10. QED
  BY <1>1, <1>2, <1>3, <1>4, <1>5, <1>6, <1>7, <1>8, <1>9, NextCases

\* A step keeps every window in one place.
LEMMA OnePlaceStep == IInv /\ [Next]_vars => InOnePlace' /\ Sound(queue')
<1> SUFFICES ASSUME IInv, [Next]_vars PROVE InOnePlace' /\ Sound(queue')
  OBVIOUS
<1>1. ASSUME UNCHANGED <<registered, queue, waiting, active, result, dropped>>
      PROVE  InOnePlace' /\ Sound(queue')
  <2>1. InOnePlace /\ Sound(queue)
    BY QueuesSound DEF IInv, CountersExact
  <2>2. Queued' = Queued /\ Blocked' = Blocked /\ Leased' = Leased /\ Completed' = Completed
    BY <1>1 DEF Queued, Blocked, Leased, Completed
  <2>3. InOnePlace'
    BY <1>1, <2>1, <2>2 DEF InOnePlace
  <2>4. Sound(queue')
    BY <1>1, <2>1
  <2>5. QED
    BY <2>3, <2>4
<1>2. Seals \/ Publishes \/ Returns \/ UNCHANGED vars
        => UNCHANGED <<registered, queue, waiting, active, result, dropped>>
  BY DEF Seals, SealGeneration, SealView, MarkProjectionReady, Publishes, ClaimCommittable,
         CompleteCommit, FailCommit, Returns, ClaimBackprojection, CompleteBackprojection,
         FailBackprojection, vars, plan, publication, views, faults
<1>3. QED
  BY <1>1, <1>2, NextCases, RegisterPlaces, LeasePlaces, CompletePlaces, FailPlaces, SkipPlaces DEF Opening

-----------------------------------------------------------------------------
(* The counters and the dependency index. *)

\* Work is counted once when it is counted in two parts.
LEMMA CountSplit ==
  ASSUME NEW S \in SUBSET Work, NEW T \in SUBSET Work, S \cap T = {}, NEW v, NEW g
  PROVE  /\ CountOf(v, g, S) \in Nat /\ CountOf(v, g, T) \in Nat
         /\ CountOf(v, g, S \union T) = CountOf(v, g, S) + CountOf(v, g, T)
<1> DEFINE A == {w \in S : View[w] = v /\ Generation[w] = g}
           B == {w \in T : View[w] = v /\ Generation[w] = g}
<1>1. A \in SUBSET Work /\ B \in SUBSET Work
  OBVIOUS
<1>2. IsFiniteSet(A) /\ IsFiniteSet(B) /\ Cardinality(A) \in Nat /\ Cardinality(B) \in Nat
  BY <1>1, WorkSets
<1>3. {w \in S \union T : View[w] = v /\ Generation[w] = g} = A \union B
  OBVIOUS
<1>4. A \cap B = {}
  OBVIOUS
<1> HIDE DEF A, B
<1>5. Cardinality(A \cap B) = 0
  BY <1>4, FS_EmptySet
<1>6. Cardinality(A \union B) = Cardinality(A) + Cardinality(B)
  <2>1. Cardinality(A \union B) = Cardinality(A) + Cardinality(B) - Cardinality(A \cap B)
    BY <1>2, FS_Union
  <2>2. QED
    BY <1>2, <1>5, <2>1
<1>7. QED
  BY <1>2, <1>3, <1>6 DEF CountOf, A, B

\* No work counted means there is none.
LEMMA CountedNone ==
  ASSUME NEW S \in SUBSET Work, NEW v, NEW g, CountOf(v, g, S) = 0
  PROVE  \A w \in S : ~(View[w] = v /\ Generation[w] = g)
<1> DEFINE A == {w \in S : View[w] = v /\ Generation[w] = g}
<1>1. IsFiniteSet(A) /\ Cardinality(A) = 0
  BY WorkSets DEF CountOf
<1>2. A = {}
  <2> HIDE DEF A
  <2>1. QED
    BY <1>1, FS_EmptySet
<1>3. QED
  BY <1>2

\* The counters of a generation say how much of it is registered and not published.
CountsExact ==
  /\ uncommitted \in [Views \X Generations -> Nat]
  /\ \A v \in Views, g \in Generations : uncommitted[<<v, g>>] = CountOf(v, g, registered \ committed)

\* A step keeps the counters exact.
LEMMA CountStep == IInv /\ [Next]_vars => CountsExact'
<1> SUFFICES ASSUME IInv, [Next]_vars PROVE CountsExact'
  OBVIOUS
<1>0. TypeOK /\ CountsExact /\ Frontier
  BY DEF IInv, CountersExact, CountsExact, TypeOK
<1>1. registered \in SUBSET Work /\ committed \subseteq registered /\ batch \subseteq registered \ committed
  BY <1>0 DEF TypeOK, Frontier, Completed
<1> USE DEF plan, publication, views, faults
<1>2. ASSUME NEW v \in Views, NEW g \in Generations, NEW S \in SUBSET (Work \ registered), Register(v, g, S)
      PROVE  CountsExact'
  <2>1. /\ registered' = registered \union S /\ committed' = committed
        /\ uncommitted' = [uncommitted EXCEPT ![<<v, g>>] = @ + Cardinality(S)]
    BY <1>2 DEF Register
  <2>2. S \in SUBSET Work /\ Cardinality(S) \in Nat /\ <<v, g>> \in Views \X Generations
    BY WorkSets
  <2>3. uncommitted' \in [Views \X Generations -> Nat]
    BY <1>0, <2>1, <2>2 DEF CountsExact
  <2>4. ASSUME NEW u \in Views, NEW h \in Generations
        PROVE  uncommitted'[<<u, h>>] = CountOf(u, h, registered' \ committed')
    <3> DEFINE old == registered \ committed
    <3>1. old \in SUBSET Work /\ old \cap S = {} /\ registered' \ committed' = old \union S
      BY <1>1, <2>1
    <3> HIDE DEF old
    <3>2. CountOf(u, h, registered' \ committed') = CountOf(u, h, old) + CountOf(u, h, S)
      BY <2>2, <3>1, CountSplit
    <3>3. uncommitted[<<u, h>>] = CountOf(u, h, old) /\ uncommitted[<<u, h>>] \in Nat
      BY <1>0 DEF CountsExact, old
    <3>4. CASE u = v /\ h = g
      <4>1. {w \in S : View[w] = u /\ Generation[w] = h} = S
        BY <1>2, <3>4 DEF Register
      <4>2. CountOf(u, h, S) = Cardinality(S)
        BY <4>1 DEF CountOf
      <4>3. uncommitted'[<<u, h>>] = uncommitted[<<u, h>>] + Cardinality(S)
        BY <1>0, <2>1, <2>2, <3>4 DEF CountsExact
      <4>4. QED
        BY <3>2, <3>3, <4>2, <4>3
    <3>5. CASE ~(u = v /\ h = g)
      <4>1. {w \in S : View[w] = u /\ Generation[w] = h} = {}
        BY <1>2, <3>5 DEF Register
      <4>2. CountOf(u, h, S) = 0
        BY <4>1, FS_EmptySet DEF CountOf
      <4>3. uncommitted'[<<u, h>>] = uncommitted[<<u, h>>]
        BY <1>0, <2>1, <3>5 DEF CountsExact
      <4>4. QED
        BY <3>2, <3>3, <4>2, <4>3
    <3>6. QED
      BY <3>4, <3>5
  <2>5. QED
    BY <2>3, <2>4 DEF CountsExact
<1>3. CASE CompleteCommit
  <2>1. /\ registered' = registered /\ committed' = committed \union batch
        /\ uncommitted' = [x \in Views \X Generations |-> uncommitted[x] - CountOf(x[1], x[2], batch)]
    BY <1>3 DEF CompleteCommit
  <2>2. ASSUME NEW u \in Views, NEW h \in Generations
        PROVE  /\ uncommitted'[<<u, h>>] = CountOf(u, h, registered' \ committed')
               /\ uncommitted'[<<u, h>>] \in Nat
    <3> DEFINE new == registered \ (committed \union batch)
    <3>1. new \in SUBSET Work /\ batch \in SUBSET Work /\ new \cap batch = {}
          /\ registered \ committed = new \union batch /\ registered' \ committed' = new
      BY <1>1, <2>1
    <3> HIDE DEF new
    <3>2. CountOf(u, h, new \union batch) = CountOf(u, h, new) + CountOf(u, h, batch)
          /\ CountOf(u, h, new) \in Nat /\ CountOf(u, h, batch) \in Nat
      BY <3>1, CountSplit
    <3>3. uncommitted[<<u, h>>] = CountOf(u, h, new \union batch)
      BY <1>0, <3>1 DEF CountsExact
    <3>4. uncommitted'[<<u, h>>] = uncommitted[<<u, h>>] - CountOf(u, h, batch)
      BY <2>1
    <3>5. uncommitted'[<<u, h>>] = CountOf(u, h, new)
      <4>1. \A a, b \in Nat : (a + b) - b = a
        OBVIOUS
      <4>2. QED
        BY <3>2, <3>3, <3>4, <4>1
    <3>6. QED
      BY <3>1, <3>2, <3>5
  <2>3. uncommitted' \in [Views \X Generations -> Nat]
    <3>1. \A x \in Views \X Generations : uncommitted'[x] \in Nat
      BY <2>2
    <3>2. QED
      BY <2>1, <3>1
  <2>4. QED
    BY <2>2, <2>3 DEF CountsExact
<1>4. ASSUME UNCHANGED <<uncommitted, registered, committed>>
      PROVE  CountsExact'
  BY <1>0, <1>4 DEF CountsExact
<1>5. ASSUME NEW slot \in Slots, NEW o \in Devices, NEW i \in DOMAIN queue[o], Opening(slot, o, i)
      PROVE  CountsExact'
  BY <1>4, <1>5 DEF Opening, Lease
<1>6. ASSUME NEW c \in active, Complete(c) \/ \E retry \in BOOLEAN : Fail(c, retry)
      PROVE  CountsExact'
  BY <1>4, <1>6 DEF Complete, Fail
<1>7. ASSUME NEW w \in registered, Skip(w)
      PROVE  CountsExact'
  BY <1>4, <1>7 DEF Skip
<1>8. CASE Seals \/ Returns \/ UNCHANGED vars
  BY <1>4, <1>8 DEF Seals, SealGeneration, SealView, MarkProjectionReady, Returns,
       ClaimBackprojection, CompleteBackprojection, FailBackprojection, vars
<1>9. CASE Publishes
  BY <1>3, <1>4, <1>9 DEF Publishes, ClaimCommittable, FailCommit
<1>10. QED
  BY <1>2, <1>5, <1>6, <1>7, <1>8, <1>9, NextCases

\* The first half of the invariant, types, places and counters, in the next state.
LEMMA CountersStep == IInv /\ [Next]_vars => CountersExact'
<1> SUFFICES ASSUME IInv, [Next]_vars PROVE CountersExact'
  OBVIOUS
<1>1. Typed' /\ InOnePlace' /\ CountsExact' /\ queue' \in [Devices -> Seq(Work)]
  BY TypedStep, OnePlaceStep, CountStep DEF Sound
<1>2. TypeOK'
  BY <1>1 DEF Typed, CountsExact, TypeOK
<1>3. QED
  BY <1>1, <1>2 DEF CountersExact, CountsExact

\* A settled dependency leaves the index of every window, and a new window enters it.
LEMMA IndexStep ==
  ASSUME TypeOK, PlanSound, NEW w \in registered, UNCHANGED registered,
         waiting' = [u \in Work |-> waiting[u] \ {w}],
         NEW r \in Results, r # Pending, result' = [result EXCEPT ![w] = r]
  PROVE  /\ \A u \in Work : waiting'[u] = IF u \in registered' THEN Open(u)' ELSE {}
         /\ \A u \in Work : result'[u] # Pending => u \in registered'
<1>1. w \in Work /\ \A u \in Work : result'[u] = IF u = w THEN r ELSE result[u]
  BY DEF TypeOK
<1>2. \A u \in Work : Deps[u] \subseteq Work
  BY WorkAssumption
<1>3. \A u \in Work : Open(u)' = Open(u) \ {w}
  BY <1>1, <1>2 DEF Open
<1>4. QED
  BY <1>1, <1>3 DEF PlanSound

\* A step keeps the plan and its dependency index sound.
LEMMA PlanStep == IInv /\ [Next]_vars => PlanSound'
<1> SUFFICES ASSUME IInv, [Next]_vars PROVE PlanSound'
  OBVIOUS
<1>0. TypeOK /\ PlanSound
  BY DEF IInv, CountersExact
<1> USE DEF plan, publication, views, faults
<1>1. ASSUME UNCHANGED <<registered, generations, waiting, result>>
      PROVE  PlanSound'
  <2>1. \A u \in Work : Open(u)' = Open(u)
    BY <1>1 DEF Open
  <2>2. QED
    BY <1>0, <1>1, <2>1 DEF PlanSound
<1>2. ASSUME NEW w \in registered, UNCHANGED <<registered, generations>>,
             waiting' = [u \in Work |-> waiting[u] \ {w}],
             NEW r \in Results, r # Pending, result' = [result EXCEPT ![w] = r]
      PROVE  PlanSound'
  BY <1>0, <1>2, IndexStep DEF PlanSound
<1>3. ASSUME NEW v \in Views, NEW g \in Generations, NEW S \in SUBSET (Work \ registered), Register(v, g, S)
      PROVE  PlanSound'
  <2>1. /\ registered' = registered \union S /\ result' = result
        /\ generations' = [generations EXCEPT ![v] = @ \union {g}]
        /\ waiting' = [w \in Work |-> IF w \in S THEN Open(w) ELSE waiting[w]]
        /\ \A w \in S : View[w] = v /\ Generation[w] = g
        /\ Dependable(S, registered \union S)
    BY <1>3 DEF Register
  <2>2. \A u \in Work : Open(u)' = Open(u)
    BY <2>1 DEF Open
  <2>3. \A u \in Views : generations'[u] = IF u = v THEN generations[u] \union {g} ELSE generations[u]
    BY <1>0, <2>1 DEF TypeOK
  <2>4. \A w \in registered' : View[w] \in Views /\ Generation[w] \in generations'[View[w]]
    BY <1>0, <2>1, <2>3 DEF PlanSound
  <2>5. Dependable(registered', registered')
    BY <1>0, <2>1 DEF PlanSound, Dependable
  <2>6. \A w \in Work : waiting'[w] = IF w \in registered' THEN Open(w)' ELSE {}
    BY <1>0, <2>1, <2>2 DEF PlanSound
  <2>7. \A w \in Work : result'[w] # Pending => w \in registered'
    BY <1>0, <2>1 DEF PlanSound
  <2>8. QED
    BY <2>4, <2>5, <2>6, <2>7 DEF PlanSound
<1>4. ASSUME NEW c \in active, Complete(c)
      PROVE  PlanSound'
  <2>1. c.work \in registered
    BY <1>4, CompletePlaces
  <2>2. c \in Results /\ c # Pending
    BY <1>0, ResultAssumption DEF TypeOK, Results
  <2>3. /\ UNCHANGED <<registered, generations>> /\ waiting' = [u \in Work |-> waiting[u] \ {c.work}]
        /\ result' = [result EXCEPT ![c.work] = c]
    BY <1>4 DEF Complete
  <2> DEFINE w == c.work
  <2>4. w \in registered /\ waiting' = [u \in Work |-> waiting[u] \ {w}] /\ result' = [result EXCEPT ![w] = c]
    BY <2>1, <2>3
  <2> HIDE DEF w
  <2>5. QED
    BY <1>2, <2>2, <2>3, <2>4
<1>5. ASSUME NEW w \in registered, Skip(w)
      PROVE  PlanSound'
  <2>1. Skipped \in Results /\ Skipped # Pending
    BY ResultAssumption DEF Results
  <2>2. /\ UNCHANGED <<registered, generations>> /\ waiting' = [u \in Work |-> waiting[u] \ {w}]
        /\ result' = [result EXCEPT ![w] = Skipped]
    BY <1>5 DEF Skip
  <2>3. QED
    BY <1>2, <2>1, <2>2
<1>6. ASSUME NEW slot \in Slots, NEW o \in Devices, NEW i \in DOMAIN queue[o], Opening(slot, o, i)
      PROVE  PlanSound'
  BY <1>1, <1>6 DEF Opening, Lease
<1>7. ASSUME NEW c \in active, NEW retry \in BOOLEAN, Fail(c, retry)
      PROVE  PlanSound'
  BY <1>1, <1>7 DEF Fail
<1>8. CASE Seals \/ Returns \/ Publishes \/ UNCHANGED vars
  BY <1>1, <1>8 DEF Seals, SealGeneration, SealView, MarkProjectionReady, Returns,
       ClaimBackprojection, CompleteBackprojection, FailBackprojection, vars,
       Publishes, ClaimCommittable, CompleteCommit, FailCommit
<1>9. QED
  BY <1>3, <1>4, <1>5, <1>6, <1>7, <1>8, NextCases

-----------------------------------------------------------------------------
(* The publication frontier. *)

\* The work ahead of the cursor is the registered work that is not published.
LEMMA AheadIsUnpublished ==
  ASSUME TypeOK, Frontier
  PROVE  Ahead = registered \ committed
<1>1. registered \in SUBSET Work /\ committed \subseteq registered /\ \A w \in registered : w \in Nat
  BY WorkAssumption DEF TypeOK, Frontier, Completed
<1>2. cursor = Cardinality(committed) /\ \A w \in committed : \A u \in registered : u < w => u \in committed
  BY DEF Frontier
<1>3. IsFiniteSet(committed) /\ Cardinality(committed) \in Nat
  <2>1. committed \in SUBSET Work
    BY <1>1
  <2>2. QED
    BY <2>1, WorkSets
<1>4. ASSUME NEW w \in registered
      PROVE  (Before(w, registered) >= cursor) <=> w \notin committed
  <2> DEFINE L == {u \in registered : u < w}
  <2>1. L \in SUBSET Work /\ Before(w, registered) = Cardinality(L)
    BY <1>1 DEF Before
  <2>2. IsFiniteSet(L) /\ Cardinality(L) \in Nat
    BY <2>1, WorkSets
  <2>3. CASE w \in committed
    <3>1. L \subseteq committed /\ L # committed
      <4>1. ~(w < w)
        BY <1>1
      <4>2. QED
        BY <1>2, <2>3, <4>1
    <3> HIDE DEF L
    <3>2. Cardinality(L) <= Cardinality(committed) /\ Cardinality(L) # Cardinality(committed)
      BY <1>3, <3>1, FS_Subset
    <3>3. QED
      BY <1>2, <1>3, <2>1, <2>2, <2>3, <3>2
  <2>4. CASE w \notin committed
    <3>1. committed \subseteq L
      <4>1. ASSUME NEW u \in committed PROVE u < w
        <5>1. u \in Nat /\ w \in Nat /\ u # w /\ ~(w < u)
          BY <1>1, <1>2, <2>4
        <5>2. QED
          BY <5>1
      <4>2. QED
        BY <1>1, <4>1
    <3> HIDE DEF L
    <3>2. Cardinality(committed) <= Cardinality(L)
      BY <2>2, <3>1, FS_Subset
    <3>3. QED
      BY <1>2, <1>3, <2>1, <2>2, <2>4, <3>2
  <2>5. QED
    BY <2>3, <2>4
<1>5. QED
  BY <1>1, <1>4 DEF Ahead

\* What the frontier depends on grows with every step: the plan at its end, the results anywhere.
LEMMA PlanGrows ==
  ASSUME IInv, [Next]_vars
  PROVE  /\ registered \subseteq registered' /\ Completed \subseteq Completed'
         /\ \A u \in registered' \ registered : \A w \in registered : w < u
<1>0. TypeOK
  BY DEF IInv, CountersExact
<1> USE DEF plan, publication, views, faults
<1>1. ASSUME NEW v \in Views, NEW g \in Generations, NEW S \in SUBSET (Work \ registered), Register(v, g, S)
      PROVE  /\ registered \subseteq registered' /\ Completed \subseteq Completed'
             /\ \A u \in registered' \ registered : \A w \in registered : w < u
  BY <1>1 DEF Register, Follows, Completed
<1>2. CASE UNCHANGED <<registered, result>>
  BY <1>2 DEF Completed
<1>3. ASSUME NEW c \in active, Complete(c)
      PROVE  registered' = registered /\ Completed \subseteq Completed'
  <2>1. registered' = registered
    BY <1>3 DEF Complete
  <2>2. Completed' = Completed \union {c.work}
    BY <1>3, CompletePlaces
  <2>3. QED
    BY <2>1, <2>2
<1>4. ASSUME NEW w \in registered, Skip(w)
      PROVE  registered' = registered /\ Completed \subseteq Completed'
  <2>1. registered' = registered
    BY <1>4 DEF Skip
  <2>2. Completed' = Completed \union {w}
    BY <1>4, SkipPlaces
  <2>3. QED
    BY <2>1, <2>2
<1>5. ASSUME NEW slot \in Slots, NEW o \in Devices, NEW i \in DOMAIN queue[o], Opening(slot, o, i)
      PROVE  UNCHANGED <<registered, result>>
  BY <1>5 DEF Opening, Lease
<1>6. ASSUME NEW c \in active, NEW retry \in BOOLEAN, Fail(c, retry)
      PROVE  UNCHANGED <<registered, result>>
  BY <1>6 DEF Fail
<1>7. Seals \/ Returns \/ Publishes \/ UNCHANGED vars => UNCHANGED <<registered, result>>
  BY DEF Seals, SealGeneration, SealView, MarkProjectionReady, Returns,
       ClaimBackprojection, CompleteBackprojection, FailBackprojection, vars,
       Publishes, ClaimCommittable, CompleteCommit, FailCommit
<1>8. QED
  BY <1>1, <1>2, <1>3, <1>4, <1>5, <1>6, <1>7, NextCases

\* A step keeps the published work a prefix of the plan.
LEMMA FrontierStep == IInv /\ [Next]_vars => Frontier'
<1> SUFFICES ASSUME IInv, [Next]_vars PROVE Frontier'
  OBVIOUS
<1>0. TypeOK /\ Frontier
  BY DEF IInv, CountersExact
<1>1. registered \in SUBSET Work /\ registered' \in SUBSET Work
  BY <1>0, TypedStep DEF TypeOK, Typed
<1>2. /\ registered \subseteq registered' /\ Completed \subseteq Completed' /\ Completed \subseteq registered
      /\ \A u \in registered' \ registered : \A w \in registered : w < u
  BY PlanGrows DEF Completed
<1>3. ASSUME NEW u \in registered', NEW w \in registered, u < w
      PROVE  u \in registered
  <2>1. u \in Nat /\ w \in Nat
    BY <1>1, WorkAssumption
  <2>2. QED
    BY <1>2, <1>3, <2>1
<1>4. ASSUME UNCHANGED <<committed, cursor, batch>>
      PROVE  Frontier'
  BY <1>0, <1>2, <1>3, <1>4 DEF Frontier
<1> USE DEF plan, publication, views, faults
<1>5. CASE Publishes
  <2>0. UNCHANGED <<registered, result>> /\ Completed' = Completed
    BY <1>5 DEF Publishes, ClaimCommittable, CompleteCommit, FailCommit, Completed
  <2>1. CASE ClaimCommittable
    <3>1. batch' = ReadyPrefix /\ UNCHANGED <<cursor, committed>>
      BY <2>1 DEF ClaimCommittable
    <3>2. Ahead = registered \ committed
      BY <1>0, AheadIsUnpublished
    <3>3. \A w \in Ahead : w <= w
      BY <1>1, <3>2, WorkAssumption
    <3>4. ReadyPrefix \subseteq Completed \ committed
      BY <3>2, <3>3 DEF ReadyPrefix
    <3>5. ASSUME NEW w \in ReadyPrefix, NEW u \in registered, u < w
          PROVE  u \in committed \union ReadyPrefix
      <4>1. CASE u \in Ahead
        <5>1. \A x \in Ahead : x <= u => x <= w
          <6>1. u \in Nat /\ w \in Nat /\ \A x \in Ahead : x \in Nat
            BY <1>1, <3>2, WorkAssumption DEF ReadyPrefix
          <6>2. QED
            BY <3>5, <6>1
        <5>2. QED
          BY <4>1, <5>1 DEF ReadyPrefix
      <4>2. QED
        BY <3>2, <4>1
    <3>6. QED
      BY <1>0, <2>0, <3>1, <3>4, <3>5 DEF Frontier
  <2>2. CASE CompleteCommit
    <3>1. committed' = committed \union batch /\ cursor' = cursor + Cardinality(batch) /\ batch' = {}
      BY <2>2 DEF CompleteCommit
    <3>2. committed \in SUBSET Work /\ batch \in SUBSET Work /\ batch \cap committed = {}
      BY <1>0 DEF TypeOK, Frontier
    <3>3. Cardinality(committed \cap batch) = 0
      <4>1. committed \cap batch = {}
        BY <3>2
      <4>2. QED
        BY <4>1, FS_EmptySet
    <3>4. Cardinality(committed \union batch) = Cardinality(committed) + Cardinality(batch) - Cardinality(committed \cap batch)
      BY <3>2, WorkSets, FS_Union
    <3>5. Cardinality(committed) \in Nat /\ Cardinality(batch) \in Nat
      BY <3>2, WorkSets
    <3>6. cursor' = Cardinality(committed')
      BY <1>0, <3>1, <3>3, <3>4, <3>5 DEF Frontier
    <3>7. QED
      BY <1>0, <2>0, <3>1, <3>6 DEF Frontier
  <2>3. CASE FailCommit
    BY <1>0, <2>0, <2>3 DEF FailCommit, Frontier
  <2>4. QED
    BY <1>5, <2>1, <2>2, <2>3 DEF Publishes
<1>6. ASSUME NEW v \in Views, NEW g \in Generations, NEW S \in SUBSET (Work \ registered), Register(v, g, S)
      PROVE  Frontier'
  BY <1>4, <1>6 DEF Register
<1>7. ASSUME NEW slot \in Slots, NEW o \in Devices, NEW i \in DOMAIN queue[o], Opening(slot, o, i)
      PROVE  Frontier'
  BY <1>4, <1>7 DEF Opening, Lease
<1>8. ASSUME NEW c \in active, Complete(c) \/ \E retry \in BOOLEAN : Fail(c, retry)
      PROVE  Frontier'
  BY <1>4, <1>8 DEF Complete, Fail
<1>9. ASSUME NEW w \in registered, Skip(w)
      PROVE  Frontier'
  BY <1>4, <1>9 DEF Skip
<1>10. CASE Seals \/ Returns \/ UNCHANGED vars
  BY <1>4, <1>10 DEF Seals, SealGeneration, SealView, MarkProjectionReady, Returns,
       ClaimBackprojection, CompleteBackprojection, FailBackprojection, vars
<1>11. QED
  BY <1>5, <1>6, <1>7, <1>8, <1>9, <1>10, NextCases

-----------------------------------------------------------------------------
(* The order of generations. *)

\* A window that may be opened has its dependencies completed, and every earlier
\* generation of its view is sealed and published.
LEMMA ReadyWindow ==
  ASSUME IInv, NEW w \in registered, GenerationReady(w)
  PROVE  /\ Deps[w] \subseteq Completed
         /\ \A g \in 0..(Generation[w] - 1) : <<View[w], g>> \in sealedGenerations
         /\ \A u \in registered : View[u] = View[w] /\ Generation[u] < Generation[w] => u \in committed
<1>0. TypeOK /\ PlanSound /\ CountersExact
  BY DEF IInv, CountersExact
<1>1. w \in Work /\ View[w] \in Views /\ Deps[w] \subseteq Work /\ Generation[w] \in Nat
  BY <1>0, WorkAssumption DEF TypeOK, PlanSound
<1>2. Deps[w] \subseteq Completed
  BY <1>0, <1>1 DEF GenerationReady, PlanSound, Completed
<1>3. \A g \in 0..(Generation[w] - 1) : <<View[w], g>> \in sealedGenerations /\ uncommitted[<<View[w], g>>] = 0
  BY DEF GenerationReady, Settled
<1>4. ASSUME NEW u \in registered, View[u] = View[w], Generation[u] < Generation[w]
      PROVE  u \in committed
  <2>1. Generation[u] \in Nat /\ Generation[u] \in Generations
    BY <1>0, <1>1, <1>4, WorkAssumption DEF TypeOK, PlanSound
  <2>2. Generation[u] \in 0..(Generation[w] - 1)
    BY <1>1, <1>4, <2>1
  <2>3. CountOf(View[w], Generation[u], registered \ committed) = 0
    BY <1>0, <1>1, <1>3, <2>1, <2>2 DEF CountersExact
  <2>4. registered \ committed \in SUBSET Work
    BY <1>0 DEF TypeOK
  <2>5. QED
    BY <1>4, <2>3, <2>4, CountedNone
<1>5. QED
  BY <1>2, <1>3, <1>4

\* Only work that may be opened joins what is leased or completed.
LEMMA StartedStep ==
  ASSUME IInv, [Next]_vars, NEW w \in Leased' \union Completed'
  PROVE  w \in registered /\ (w \in Leased \union Completed \/ GenerationReady(w))
<1>0. TypeOK /\ InOnePlace /\ PlanSound
  BY DEF IInv, CountersExact
<1>1. Leased \union Completed \subseteq registered
  BY <1>0 DEF InOnePlace
<1> USE DEF plan, publication, views, faults
<1>2. ASSUME UNCHANGED <<active, result>>
      PROVE  w \in Leased \union Completed
  <2>1. Leased' = Leased
    BY <1>2 DEF Leased
  <2>2. Completed' \subseteq Completed
    BY <1>0, <1>2, TypedStep DEF Completed, PlanSound, Typed
  <2>3. QED
    BY <2>1, <2>2
<1>3. ASSUME NEW slot \in Slots, NEW o \in Devices, NEW i \in DOMAIN queue[o], Opening(slot, o, i)
      PROVE  w \in registered /\ (w \in Leased \union Completed \/ GenerationReady(w))
  <2> DEFINE x == queue[o][i]
  <2>1. Leased' = Leased \union {x} /\ x \in Queued
    BY <1>3, LeasePlaces DEF Opening
  <2>2. Completed' = Completed
    BY <1>3, LeasePlaces DEF Opening
  <2>3. x \in registered /\ GenerationReady(x)
    BY <1>0, <1>3, <2>1 DEF InOnePlace, Opening, Claimable
  <2> HIDE DEF x
  <2>4. QED
    BY <1>1, <2>1, <2>2, <2>3
<1>4. ASSUME NEW c \in active, Complete(c)
      PROVE  w \in Leased \union Completed
  <2>1. Leased' = Leased \ {c.work} /\ c.work \in Leased
    BY <1>4, CompletePlaces DEF Leased
  <2>2. Completed' = Completed \union {c.work}
    BY <1>4, CompletePlaces
  <2>3. QED
    BY <2>1, <2>2
<1>5. ASSUME NEW c \in active, NEW retry \in BOOLEAN, Fail(c, retry)
      PROVE  w \in Leased \union Completed
  <2>1. Leased' = Leased \ {c.work}
    BY <1>5, FailPlaces
  <2>2. Completed' = Completed
    BY <1>5, FailPlaces
  <2>3. QED
    BY <2>1, <2>2
<1>6. ASSUME NEW u \in registered, Skip(u)
      PROVE  w \in registered /\ (w \in Leased \union Completed \/ GenerationReady(w))
  <2>1. Leased' = Leased
    BY <1>6, SkipPlaces
  <2>2. Completed' = Completed \union {u}
    BY <1>6, SkipPlaces
  <2>3. GenerationReady(u)
    BY <1>6 DEF Skip
  <2>4. QED
    BY <1>1, <2>1, <2>2, <2>3
<1>7. ASSUME NEW v \in Views, NEW g \in Generations, NEW S \in SUBSET (Work \ registered), Register(v, g, S)
      PROVE  w \in Leased \union Completed
  BY <1>2, <1>7 DEF Register
<1>8. Seals \/ Returns \/ Publishes \/ UNCHANGED vars => UNCHANGED <<active, result>>
  BY DEF Seals, SealGeneration, SealView, MarkProjectionReady, Returns,
       ClaimBackprojection, CompleteBackprojection, FailBackprojection, vars,
       Publishes, ClaimCommittable, CompleteCommit, FailCommit
<1>9. QED
  BY <1>1, <1>2, <1>3, <1>4, <1>5, <1>6, <1>7, <1>8, NextCases

\* Seals are never broken, publications never withdrawn, and work is planned for open generations only.
LEMMA SealsHold ==
  ASSUME IInv, [Next]_vars
  PROVE  /\ sealedGenerations \subseteq sealedGenerations' /\ committed \subseteq committed'
         /\ \A u \in registered' \ registered : <<View[u], Generation[u]>> \notin sealedGenerations
<1> USE DEF plan, publication, views, faults
<1>1. ASSUME NEW v \in Views, NEW g \in Generations, NEW S \in SUBSET (Work \ registered), Register(v, g, S)
      PROVE  /\ UNCHANGED <<sealedGenerations, committed>>
             /\ \A u \in registered' \ registered : <<View[u], Generation[u]>> \notin sealedGenerations
  BY <1>1 DEF Register
<1>2. ASSUME NEW slot \in Slots, NEW o \in Devices, NEW i \in DOMAIN queue[o], Opening(slot, o, i)
      PROVE  UNCHANGED <<registered, sealedGenerations, committed>>
  BY <1>2 DEF Opening, Lease
<1>3. ASSUME NEW c \in active, Complete(c) \/ \E retry \in BOOLEAN : Fail(c, retry)
      PROVE  UNCHANGED <<registered, sealedGenerations, committed>>
  BY <1>3 DEF Complete, Fail
<1>4. ASSUME NEW w \in registered, Skip(w)
      PROVE  UNCHANGED <<registered, sealedGenerations, committed>>
  BY <1>4 DEF Skip
<1>5. Seals \/ Returns \/ Publishes \/ UNCHANGED vars
        => registered' = registered /\ sealedGenerations \subseteq sealedGenerations' /\ committed \subseteq committed'
  BY DEF Seals, SealGeneration, SealView, MarkProjectionReady, Returns,
       ClaimBackprojection, CompleteBackprojection, FailBackprojection, vars,
       Publishes, ClaimCommittable, CompleteCommit, FailCommit
<1>6. QED
  BY <1>1, <1>2, <1>3, <1>4, <1>5, NextCases

\* A step keeps the generations in order.
LEMMA OrderStep == IInv /\ [Next]_vars => Opened' /\ GenerationsInOrder'
<1> SUFFICES ASSUME IInv, [Next]_vars PROVE Opened' /\ GenerationsInOrder'
  OBVIOUS
<1>1. \A w \in Leased' \union Completed' :
        /\ w \in registered /\ Deps[w] \subseteq Completed
        /\ \A g \in 0..(Generation[w] - 1) : <<View[w], g>> \in sealedGenerations
        /\ \A u \in registered : View[u] = View[w] /\ Generation[u] < Generation[w] => u \in committed
  <2> SUFFICES ASSUME NEW w \in Leased' \union Completed'
               PROVE  /\ w \in registered /\ Deps[w] \subseteq Completed
                      /\ \A g \in 0..(Generation[w] - 1) : <<View[w], g>> \in sealedGenerations
                      /\ \A u \in registered :
                           View[u] = View[w] /\ Generation[u] < Generation[w] => u \in committed
    OBVIOUS
  <2>1. w \in registered /\ (w \in Leased \union Completed \/ GenerationReady(w))
    BY StartedStep
  <2>2. CASE w \in Leased \union Completed
    BY <2>1, <2>2 DEF IInv, Opened, GenerationsInOrder
  <2>3. CASE GenerationReady(w)
    BY <2>1, <2>3, ReadyWindow
  <2>4. QED
    BY <2>1, <2>2, <2>3
<1>2. /\ sealedGenerations \subseteq sealedGenerations' /\ committed \subseteq committed' /\ Completed \subseteq Completed'
      /\ \A u \in registered' \ registered : <<View[u], Generation[u]>> \notin sealedGenerations
  BY SealsHold, PlanGrows
<1>3. Opened'
  BY <1>1, <1>2 DEF Opened
<1>4. ASSUME NEW w \in Leased' \union Completed', NEW u \in registered',
             View[u] = View[w], Generation[u] < Generation[w]
      PROVE  u \in committed'
  <2>1. u \in Work /\ w \in Work
    BY <1>1, TypedStep DEF Typed, IInv, CountersExact, TypeOK
  <2>2. Generation[u] \in 0..(Generation[w] - 1)
    BY <1>4, <2>1, WorkAssumption
  <2>3. u \in registered
    BY <1>1, <1>2, <1>4, <2>2
  <2>4. QED
    BY <1>1, <1>2, <1>4, <2>3
<1>5. GenerationsInOrder'
  BY <1>1, <1>2, <1>4 DEF GenerationsInOrder
<1>6. QED
  BY <1>3, <1>5

-----------------------------------------------------------------------------
(* The claims. *)

\* A step keeps the failed claims apart from the held and from the accepted ones.
LEMMA FreshStep == IInv /\ [Next]_vars => LeasesFresh'
<1> SUFFICES ASSUME IInv, [Next]_vars PROVE LeasesFresh'
  OBVIOUS
<1>0. TypeOK /\ InOnePlace /\ OneUsePerDevice /\ LeasesFresh /\ Cardinality(failedLeases) \in Nat
  BY FS_CardinalityType DEF IInv, CountersExact, LeasesFresh
<1> USE DEF plan, publication, views, faults
<1>1. ASSUME UNCHANGED <<active, failedLeases, result>>
      PROVE  LeasesFresh'
  BY <1>0, <1>1 DEF LeasesFresh
<1>2. ASSUME NEW slot \in Slots, NEW o \in Devices, NEW i \in DOMAIN queue[o], Opening(slot, o, i)
      PROVE  LeasesFresh'
  <2> DEFINE new == [work |-> queue[o][i], slot |-> slot, token |-> Cardinality(failedLeases)]
  <2>1. active' = active \union {new} /\ failedLeases' = failedLeases /\ result' = result
    BY <1>2 DEF Opening, Lease
  <2>2. new.token = Cardinality(failedLeases)
    OBVIOUS
  <2> HIDE DEF new
  <2>3. new \notin failedLeases
    BY <1>0, <2>2 DEF LeasesFresh
  <2>4. QED
    BY <1>0, <2>1, <2>2, <2>3 DEF LeasesFresh
<1>3. ASSUME NEW c \in active, Complete(c)
      PROVE  LeasesFresh'
  <2>1. active' \subseteq active /\ failedLeases' = failedLeases /\ result' = [result EXCEPT ![c.work] = c]
    BY <1>3 DEF Complete
  <2>2. c \notin failedLeases /\ \A u \in Work : result'[u] = IF u = c.work THEN c ELSE result[u]
    BY <1>0, <2>1 DEF LeasesFresh, TypeOK
  <2>3. QED
    BY <1>0, <2>1, <2>2 DEF LeasesFresh
<1>4. ASSUME NEW c \in active, NEW retry \in BOOLEAN, Fail(c, retry)
      PROVE  LeasesFresh'
  <2>1. active' = active \ {c} /\ failedLeases' = failedLeases \union {c} /\ result' = result
    BY <1>0, <1>4, LeaseGivenUp DEF Fail
  <2>2. c \notin failedLeases /\ c.token <= Cardinality(failedLeases) /\ c \in Leases
        /\ \A b \in active \union failedLeases : b \in Leases /\ b.token \in Nat
    BY <1>0 DEF LeasesFresh, TypeOK, Leases
  <2>3. IsFiniteSet(failedLeases \union {c})
    BY <1>0, FS_AddElement DEF LeasesFresh
  <2>4. Cardinality(failedLeases \union {c}) = Cardinality(failedLeases) + 1
    BY <1>0, <2>2, FS_AddElement DEF LeasesFresh
  <2> DEFINE n == Cardinality(failedLeases)
             m == Cardinality(failedLeases')
  <2>5. m = n + 1 /\ n \in Nat
    BY <1>0, <2>1, <2>4
  <2>6. \A b \in failedLeases : b.token < n
    BY <1>0 DEF LeasesFresh
  <2>7. \A b \in active : b.token <= n /\ b \notin failedLeases
    BY <1>0 DEF LeasesFresh
  <2> HIDE DEF n, m
  <2>8. \A b \in failedLeases' : b.token < m
    <3>1. \A b \in failedLeases : b.token < m
      BY <2>2, <2>5, <2>6
    <3>2. c.token < m
      BY <2>2, <2>5, <2>7
    <3>3. QED
      BY <2>1, <3>1, <3>2
  <2>9. \A b \in active' : b.token <= m /\ b \notin failedLeases'
    <3>1. \A b \in active : b.token <= m
      BY <2>2, <2>5, <2>7
    <3>2. QED
      BY <2>1, <2>7, <3>1
  <2>10. ASSUME NEW w \in Work
         PROVE  result'[w] \notin failedLeases' /\ (result'[w] \in Leases => result'[w].work = w)
    <3>1. result[w] \notin failedLeases /\ (result[w] \in Leases => result[w].work = w)
      BY <1>0 DEF LeasesFresh
    <3>2. result[w] # c
      <4>1. SUFFICES ASSUME result[w] = c PROVE FALSE
        OBVIOUS
      <4>2. c.work = w /\ c.work \in Leased
        BY <2>2, <3>1, <4>1 DEF Leased
      <4>3. w \in Completed
        BY <1>0, <2>2, <4>1, <4>2, ResultAssumption DEF Completed, InOnePlace
      <4>4. QED
        BY <1>0, <4>2, <4>3 DEF InOnePlace
    <3>3. QED
      BY <2>1, <3>1, <3>2
  <2>11. QED
    BY <2>1, <2>3, <2>8, <2>9, <2>10 DEF LeasesFresh, m
<1>5. ASSUME NEW w \in registered, Skip(w)
      PROVE  LeasesFresh'
  <2>1. active' = active /\ failedLeases' = failedLeases /\ result' = [result EXCEPT ![w] = Skipped]
    BY <1>5 DEF Skip
  <2>2. Skipped \notin Leases /\ \A u \in Work : result'[u] = IF u = w THEN Skipped ELSE result[u]
    BY <1>0, <2>1, ResultAssumption DEF TypeOK
  <2>3. failedLeases \subseteq Leases
    BY <1>0 DEF TypeOK
  <2>4. QED
    BY <1>0, <2>1, <2>2, <2>3 DEF LeasesFresh
<1>6. ASSUME NEW v \in Views, NEW g \in Generations, NEW S \in SUBSET (Work \ registered), Register(v, g, S)
      PROVE  LeasesFresh'
  BY <1>1, <1>6 DEF Register
<1>7. Seals \/ Returns \/ Publishes \/ UNCHANGED vars => UNCHANGED <<active, failedLeases, result>>
  BY DEF Seals, SealGeneration, SealView, MarkProjectionReady, Returns,
       ClaimBackprojection, CompleteBackprojection, FailBackprojection, vars,
       Publishes, ClaimCommittable, CompleteCommit, FailCommit
<1>8. QED
  BY <1>1, <1>2, <1>3, <1>4, <1>5, <1>6, <1>7, NextCases

\* A step keeps every slot and every device to one use.
LEMMA UseStep == IInv /\ [Next]_vars => OneUsePerDevice' /\ Returning'
<1> SUFFICES ASSUME IInv, [Next]_vars PROVE OneUsePerDevice' /\ Returning'
  OBVIOUS
<1>0. InOnePlace /\ OneUsePerDevice /\ Returning
  BY DEF IInv, CountersExact
<1> USE DEF plan, publication, views, faults
<1>1. ASSUME active' \subseteq active, backprojecting' \subseteq backprojecting
      PROVE  OneUsePerDevice'
  <2>1. BusyDevices' \subseteq BusyDevices
    BY <1>1 DEF BusyDevices, BusySlots
  <2>2. QED
    BY <1>0, <1>1, <2>1 DEF OneUsePerDevice
<1>2. ASSUME NEW slot \in Slots, NEW o \in Devices, NEW i \in DOMAIN queue[o], Opening(slot, o, i)
      PROVE  OneUsePerDevice' /\ Returning'
  <2> DEFINE new == [work |-> queue[o][i], slot |-> slot, token |-> Cardinality(failedLeases)]
  <2>1. active' = active \union {new} /\ UNCHANGED <<backprojecting, backprojected, sealedViews>>
    BY <1>2 DEF Opening, Lease
  <2>2. new.slot = slot
    OBVIOUS
  <2> HIDE DEF new
  <2>3. slot \notin BusySlots /\ slot.device \notin {Owner[v] : v \in backprojecting}
    BY <1>2 DEF Opening, Free
  <2>4. BusyDevices' = BusyDevices \union {slot.device}
    BY <2>1, <2>2 DEF BusyDevices, BusySlots
  <2>5. \A b \in active : b.slot # slot
    BY <2>3 DEF BusySlots
  <2>6. OneUsePerDevice'
    BY <1>0, <2>1, <2>2, <2>3, <2>4, <2>5 DEF OneUsePerDevice
  <2>7. QED
    BY <1>0, <2>1, <2>6 DEF Returning
<1>3. ASSUME NEW c \in active, Complete(c) \/ \E retry \in BOOLEAN : Fail(c, retry)
      PROVE  OneUsePerDevice' /\ Returning'
  <2>1. active' \subseteq active /\ UNCHANGED <<backprojecting, backprojected, sealedViews>>
    BY <1>3 DEF Complete, Fail
  <2>2. QED
    BY <1>0, <1>1, <2>1 DEF Returning
<1>4. ASSUME UNCHANGED <<active, backprojecting, backprojected, sealedViews>>
      PROVE  OneUsePerDevice' /\ Returning'
  BY <1>0, <1>1, <1>4 DEF Returning
<1>5. CASE Seals
  <2>1. UNCHANGED <<active, backprojecting, backprojected>> /\ sealedViews \subseteq sealedViews'
    BY <1>5 DEF Seals, SealGeneration, SealView, MarkProjectionReady
  <2>2. QED
    BY <1>0, <1>1, <2>1 DEF Returning
<1>6. CASE Returns
  <2>1. ASSUME NEW d \in Devices, ClaimBackprojection(d)
        PROVE  OneUsePerDevice' /\ Returning'
    <3>1. PICK v \in Views : Owner[v] = d /\ Returnable(v) /\ backprojecting' = backprojecting \union {v}
      BY <2>1 DEF ClaimBackprojection
    <3>2. /\ d \notin BusyDevices /\ \A u \in backprojecting : Owner[u] # d
          /\ UNCHANGED <<active, backprojected, sealedViews>>
      BY <2>1 DEF ClaimBackprojection
    <3>3. BusyDevices' = BusyDevices
      BY <3>2 DEF BusyDevices, BusySlots
    <3>4. OneUsePerDevice'
      BY <1>0, <3>1, <3>2, <3>3 DEF OneUsePerDevice
    <3>5. Returning'
      BY <1>0, <3>1, <3>2 DEF Returning, Returnable
    <3>6. QED
      BY <3>4, <3>5
  <2>2. ASSUME NEW v \in Views, CompleteBackprojection(v) \/ FailBackprojection(v)
        PROVE  OneUsePerDevice' /\ Returning'
    <3>1. /\ active' = active /\ sealedViews' = sealedViews /\ backprojecting' = backprojecting \ {v}
          /\ backprojected' \subseteq backprojected \union {v}
      BY <2>2 DEF CompleteBackprojection, FailBackprojection
    <3>2. QED
      BY <1>0, <1>1, <3>1 DEF Returning
  <2>3. QED
    BY <1>6, <2>1, <2>2 DEF Returns
<1>7. ASSUME NEW v \in Views, NEW g \in Generations, NEW S \in SUBSET (Work \ registered), Register(v, g, S)
      PROVE  OneUsePerDevice' /\ Returning'
  BY <1>4, <1>7 DEF Register
<1>8. ASSUME NEW w \in registered, Skip(w)
      PROVE  OneUsePerDevice' /\ Returning'
  BY <1>4, <1>8 DEF Skip
<1>9. CASE Publishes \/ UNCHANGED vars
  BY <1>4, <1>9 DEF Publishes, ClaimCommittable, CompleteCommit, FailCommit, vars
<1>10. QED
  BY <1>2, <1>3, <1>5, <1>6, <1>7, <1>8, <1>9, NextCases

-----------------------------------------------------------------------------
(* The invariant and what follows from it. *)

\* The scheduler is built with the initial plan, of which every window is queued or blocked.
LEMMA InitIsSound == Init => IInv
<1> SUFFICES ASSUME Init PROVE IInv
  OBVIOUS
<1> DEFINE Open0(d) == {w \in Initial : Owner[View[w]] = d /\ Deps[w] = {}}
<1>0. /\ Initial \in SUBSET Work /\ \A w \in Initial : View[w] \in Views /\ Deps[w] \subseteq Work
      /\ \A w \in Initial : Owner[View[w]] \in Devices
  BY WorkAssumption, WorkSets DEF Views
<1>1. Leased = {} /\ Completed = {} /\ BusyDevices = {}
  BY <1>0 DEF Init, Leased, Completed, BusyDevices, BusySlots
<1>2. \A d \in Devices :
        InPlanOrder(Open0(d)) \in Seq(Work) /\ Range(InPlanOrder(Open0(d))) = Open0(d)
        /\ IsInjective(InPlanOrder(Open0(d)))
  <2> SUFFICES ASSUME NEW d \in Devices
               PROVE  InPlanOrder(Open0(d)) \in Seq(Work) /\ Range(InPlanOrder(Open0(d))) = Open0(d)
                      /\ IsInjective(InPlanOrder(Open0(d)))
    OBVIOUS
  <2>1. Open0(d) \in SUBSET Work
    BY <1>0
  <2> HIDE DEF Open0
  <2>2. /\ InPlanOrder(Open0(d)) \in Seq(Open0(d)) /\ Range(InPlanOrder(Open0(d))) = Open0(d)
        /\ IsInjective(InPlanOrder(Open0(d)))
    BY <2>1, WorkSets, InPlanOrderLists
  <2>3. QED
    BY <2>1, <2>2, SeqMonotonic
<1>3. queue \in [Devices -> Seq(Work)] /\ \A d \in Devices : queue[d] = InPlanOrder(Open0(d))
  BY <1>2 DEF Init
<1>4. \A d \in Devices : Range(queue[d]) = Open0(d) /\ IsInjective(queue[d])
  BY <1>2, <1>3
<1>5. Queued = {w \in Initial : Deps[w] = {}}
  BY <1>0, <1>4 DEF Queued
<1>6. Blocked = {w \in Initial : Deps[w] # {}}
  BY <1>0 DEF Init, Blocked
<1>7. InOnePlace
  BY <1>1, <1>4, <1>5, <1>6 DEF Init, InOnePlace
<1>8. \A v \in Views, g \in Generations : CountOf(v, g, Initial) \in Nat
  <2>1. \A v, g : {w \in Initial : View[w] = v /\ Generation[w] = g} \in SUBSET Work
    BY <1>0
  <2>2. QED
    BY <2>1, WorkSets DEF CountOf
<1>9. uncommitted \in [Views \X Generations -> Nat]
  <2>1. \A x \in Views \X Generations : CountOf(x[1], x[2], Initial) \in Nat
    BY <1>8
  <2>2. QED
    BY <2>1 DEF Init
<1>10. generations \in [Views -> SUBSET Generations] /\ \A w \in Initial : Generation[w] \in generations[View[w]]
  <2>1. \A v \in Views : \A w \in Initial : View[w] = v => Generation[w] \in Generations
    BY <1>0, ConstructorAssumption, WorkAssumption
  <2>2. QED
    BY <1>0, <2>1 DEF Init, GenerationsOf
<1>11. TypeOK
  <2>1. Pending \in Results /\ \A w \in Work : Deps[w] \in SUBSET Work
    BY WorkAssumption DEF Results
  <2>2. waiting \in [Work -> SUBSET Work] /\ result \in [Work -> Results]
    BY <2>1 DEF Init
  <2>3. sealedGenerations \subseteq Views \X Generations /\ cursor \in Nat /\ failures \in Nat
    BY DEF Init
  <2>4. QED
    BY <1>0, <1>3, <1>9, <1>10, <2>2, <2>3 DEF Init, TypeOK
<1>12. CountersExact
  <2>1. \A v \in Views, g \in Generations : uncommitted[<<v, g>>] = CountOf(v, g, Initial)
    BY DEF Init
  <2>2. registered \ committed = Initial
    BY DEF Init
  <2>3. QED
    BY <1>7, <1>11, <2>1, <2>2 DEF CountersExact
<1>13. PlanSound
  <2>1. \A w \in Work : Open(w) = Deps[w]
    BY WorkAssumption DEF Init, Open
  <2>2. QED
    BY <1>0, <1>10, <2>1, ConstructorAssumption DEF Init, PlanSound
<1>14. Frontier
  BY FS_EmptySet DEF Init, Frontier
<1>15. Opened /\ GenerationsInOrder
  BY <1>1 DEF Opened, GenerationsInOrder
<1>16. LeasesFresh
  BY FS_EmptySet, ResultAssumption DEF Init, LeasesFresh
<1>17. OneUsePerDevice /\ Returning
  BY DEF Init, OneUsePerDevice, Returning
<1>18. QED
  BY <1>12, <1>13, <1>14, <1>15, <1>16, <1>17 DEF IInv

\* Every step keeps the invariant.
LEMMA IInvStep == IInv /\ [Next]_vars => IInv'
BY CountersStep, PlanStep, FrontierStep, OrderStep, FreshStep, UseStep DEF IInv

\* The invariant is inductive.
LEMMA IInvIsInductive == Spec => []IInv
BY InitIsSound, IInvStep, PTL DEF Spec

\* A window is in one place, a device in one use, and the counters of a generation are
\* exact, however sessions are planned, claimed, completed, failed and skipped
\* (lta_scheduler.py:675).
THEOREM WindowsHaveOnePlace == Spec => []OnePlaceOneUse
<1>1. IInv => OnePlaceOneUse
  BY DEF IInv, OnePlaceOneUse
<1>2. QED
  BY IInvIsInductive, <1>1, PTL

\* A window is opened only after its dependencies and all earlier generations of its view,
\* those registered later included.
THEOREM GenerationsStayInOrder == Spec => []GenerationsInOrder
<1>1. IInv => GenerationsInOrder
  BY DEF IInv
<1>2. QED
  BY IInvIsInductive, <1>1, PTL

\* A claim that was failed never settles its work, whatever was claimed since
\* (lta_scheduler.py:694).
THEOREM LateAnswersSettleNothing == Spec => []LateAnswersAreRefused
<1>1. IInv => LateAnswersAreRefused
  <2> SUFFICES ASSUME IInv, NEW c \in failedLeases PROVE result[c.work] # c
    BY DEF LateAnswersAreRefused
  <2>1. c.work \in Work
    BY DEF IInv, CountersExact, TypeOK, Leases
  <2>2. QED
    BY <2>1 DEF IInv, LeasesFresh
<1>2. QED
  BY IInvIsInductive, <1>1, PTL

-----------------------------------------------------------------------------
(* The abstract publication. *)

\* A view is sealed only when all its work is published.
LEMMA SealedIsPublished ==
  ASSUME IInv, NEW v \in Views, SealView(v), NEW w \in registered, View[w] = v
  PROVE  w \in committed
<1>1. CountersExact /\ registered \ committed \in SUBSET Work /\ generations \in [Views -> SUBSET Generations]
  BY DEF IInv, CountersExact, TypeOK
<1>2. Generation[w] \in generations[v] /\ Generation[w] \in Generations
  BY <1>1 DEF IInv, PlanSound
<1>3. CountOf(v, Generation[w], registered \ committed) = 0
  BY <1>1, <1>2 DEF SealView, Settled, CountersExact
<1>4. QED
  BY <1>1, <1>3, CountedNone

\* Every step of the scheduler is a step of the abstract publication, or none.
LEMMA PublicationStep == IInv /\ [Next]_vars => [Publication!Next]_(Publication!vars)
<1> SUFFICES ASSUME IInv, [Next]_vars PROVE [Publication!Next]_(Publication!vars)
  OBVIOUS
<1>0. TypeOK /\ PlanSound /\ Frontier /\ Returning
  BY DEF IInv, CountersExact
<1> USE DEF plan, publication, views, faults
<1>1. ASSUME UNCHANGED <<registered, committed, sealedViews, backprojected>>, Completed' = Completed
      PROVE  UNCHANGED Publication!vars
  BY <1>1 DEF Publication!vars
<1>2. UNCHANGED <<registered, result>> => Completed' = Completed
  BY DEF Completed
<1>3. ASSUME NEW v \in Views, NEW g \in Generations, NEW S \in SUBSET (Work \ registered), Register(v, g, S)
      PROVE  Publication!Next
  <2>1. Completed' = Completed
    BY <1>0, <1>3 DEF Register, Completed, PlanSound
  <2>2. Publication!Offer(S)
    BY <1>3, <2>1 DEF Register, Follows, Publication!Offer
  <2>3. QED
    BY <2>2 DEF Publication!Next
<1>4. ASSUME NEW slot \in Slots, NEW o \in Devices, NEW i \in DOMAIN queue[o], Opening(slot, o, i)
      PROVE  UNCHANGED Publication!vars
  BY <1>1, <1>2, <1>4 DEF Opening, Lease
<1>5. ASSUME NEW c \in active, Complete(c)
      PROVE  Publication!Next
  <2> DEFINE w == c.work
  <2>1. w \in registered /\ w \notin Completed
    BY <1>5, CompletePlaces
  <2>2. Completed' = Completed \union {w}
    BY <1>5, CompletePlaces
  <2>3. UNCHANGED <<registered, committed, sealedViews, backprojected>>
    BY <1>5 DEF Complete
  <2> HIDE DEF w
  <2>4. Publication!Settle(w)
    BY <2>1, <2>2, <2>3 DEF Publication!Settle
  <2>5. QED
    BY <2>1, <2>4 DEF Publication!Next
<1>6. ASSUME NEW c \in active, NEW retry \in BOOLEAN, Fail(c, retry)
      PROVE  UNCHANGED Publication!vars
  BY <1>1, <1>2, <1>6 DEF Fail
<1>7. ASSUME NEW w \in registered, Skip(w)
      PROVE  Publication!Next
  <2>1. w \notin Completed
    BY <1>7 DEF Skip
  <2>2. Completed' = Completed \union {w}
    BY <1>7, SkipPlaces
  <2>3. UNCHANGED <<registered, committed, sealedViews, backprojected>>
    BY <1>7 DEF Skip
  <2>4. Publication!Settle(w)
    BY <2>1, <2>2, <2>3 DEF Publication!Settle
  <2>5. QED
    BY <2>4 DEF Publication!Next
<1>8. CASE Seals
  <2>1. ASSUME NEW v \in Views, SealView(v)
        PROVE  Publication!Next
    <3>1. Completed' = Completed
      BY <1>2, <2>1 DEF SealView
    <3>2. \A w \in registered : View[w] = v => w \in committed
      BY <2>1, SealedIsPublished
    <3>3. Publication!Close(v)
      BY <2>1, <3>1, <3>2 DEF SealView, Publication!Close
    <3>4. v \in Publication!Views
      BY DEF Views, Publication!Views
    <3>5. QED
      BY <3>3, <3>4 DEF Publication!Next
  <2>2. ASSUME NEW v \in Views, MarkProjectionReady(v) \/ \E g \in Generations : SealGeneration(v, g)
        PROVE  UNCHANGED Publication!vars
    BY <1>1, <1>2, <2>2 DEF MarkProjectionReady, SealGeneration
  <2>3. QED
    BY <1>8, <2>1, <2>2 DEF Seals
<1>9. CASE Publishes
  <2>0. Completed' = Completed /\ UNCHANGED <<registered, sealedViews, backprojected>>
    BY <1>2, <1>9 DEF Publishes, ClaimCommittable, CompleteCommit, FailCommit
  <2>1. CASE CompleteCommit
    <3>1. batch # {} /\ committed' = committed \union batch
      BY <2>1 DEF CompleteCommit
    <3>2. batch \in SUBSET Completed /\ batch \subseteq Completed \ committed
          /\ \A w \in batch : \A u \in registered : u < w => u \in committed \union batch
      BY <1>0 DEF Frontier
    <3>3. Publication!Publish(batch)
      BY <2>0, <3>1, <3>2 DEF Publication!Publish
    <3>4. QED
      BY <3>2, <3>3 DEF Publication!Next
  <2>2. CASE ClaimCommittable \/ FailCommit
    <3>1. committed' = committed
      BY <2>2 DEF ClaimCommittable, FailCommit
    <3>2. QED
      BY <1>1, <2>0, <3>1
  <2>3. QED
    BY <1>9, <2>1, <2>2 DEF Publishes
<1>10. CASE Returns
  <2>0. Completed' = Completed /\ UNCHANGED <<registered, committed, sealedViews>>
    BY <1>2, <1>10 DEF Returns, ClaimBackprojection, CompleteBackprojection, FailBackprojection
  <2>1. ASSUME NEW v \in Views, CompleteBackprojection(v)
        PROVE  Publication!Next
    <3>1. v \in sealedViews \ backprojected /\ backprojected' = backprojected \union {v}
      BY <1>0, <2>1 DEF CompleteBackprojection, Returning
    <3>2. Publication!Return(v)
      BY <2>0, <3>1 DEF Publication!Return
    <3>3. v \in Publication!Views
      BY DEF Views, Publication!Views
    <3>4. QED
      BY <3>2, <3>3 DEF Publication!Next
  <2>2. ASSUME \/ \E d \in Devices : ClaimBackprojection(d)
               \/ \E v \in Views : FailBackprojection(v)
        PROVE  UNCHANGED Publication!vars
    <3>1. backprojected' = backprojected
      BY <2>2 DEF ClaimBackprojection, FailBackprojection
    <3>2. QED
      BY <1>1, <2>0, <3>1
  <2>3. QED
    BY <1>10, <2>1, <2>2 DEF Returns
<1>11. CASE UNCHANGED vars
  BY <1>1, <1>2, <1>11 DEF vars
<1>12. QED
  BY <1>3, <1>4, <1>5, <1>6, <1>7, <1>8, <1>9, <1>10, <1>11, NextCases

\* The scheduler implements the ordered publication it promises: work is settled once,
\* published once and in plan order, and a closed view has all its work published and gets
\* no more (lta_scheduler.py:251).
THEOREM SchedulerPublishesInOrder == Spec => ImplementsPublication
<1>1. Init => Publication!Init
  <2> SUFFICES ASSUME Init PROVE Publication!Init
    OBVIOUS
  <2>1. Completed = {}
    BY WorkAssumption DEF Init, Completed
  <2>2. QED
    BY <2>1 DEF Init, Publication!Init
<1>2. QED
  BY <1>1, IInvIsInductive, PublicationStep, PTL DEF Spec, ImplementsPublication, Publication!Spec

-----------------------------------------------------------------------------
(* The coordinator *)

\* The places of the loop, before the shutdown.
LoopPlaces == {"open", "dispatch", "redispatch", "wait", "skip", "commit", "seal"}
\* What the workers put on the event queue.
Events == [kind : {"result", "error"}, task : Leases, slot : Slots]

\* The types of the coordinator's own variables and of the pool's.
OwnTypes ==
  /\ at \in Places /\ turn \in 0..Cardinality(Slots)
  /\ offer \in Leases \union {Nothing} /\ book \subseteq Leases
  /\ reduced \subseteq Work /\ seeded \subseteq Work /\ branches \subseteq Work
  /\ generation \in Generations /\ forced \subseteq Slots
PoolTypes ==
  /\ inbox \in [Slots -> Seq(Leases \union {Stop})]
  /\ running \in [Slots -> Leases \union {Nothing}]
  /\ alive \subseteq Slots
  /\ answers \in Seq(Events)
  /\ expected \in [Work -> Leases \union {Nothing}]

\* What goes with the place of the coordinator's thread.
Placed ==
  /\ outcome = "running" <=> at \in LoopPlaces
  /\ offer # Nothing => at \in {"dispatch", "redispatch"}
  /\ branches # {} => at = "skip"
  /\ at # "open" => projectionReady = Views
  /\ dropped = {}

\* Planned windows are of the generations up to now, all sealed but the one being
\* planned, and all that is of an earlier one is published.
Planned ==
  /\ Initial \subseteq registered
  /\ \A w \in registered : /\ Generation[w] <= generation
                           /\ Generation[w] < generation => w \in committed
  /\ \A v \in Views, g \in 0..generation :
       <<v, g>> \in sealedGenerations \/ (at = "seal" /\ g = generation)

\* A seeded window has no open predecessor and none that was skipped; what may run is
\* seeded, except for the branches that are about to be skipped.
Seeds ==
  /\ SeedsDecide
  /\ \A w \in seeded : w \in registered /\ \A d \in Deps[w] : result[d] \notin {Pending, Skipped}
  /\ Queued \ branches \subseteq seeded
  /\ branches \subseteq Queued \ seeded

\* What is settled and not yet published has been reduced, unless it was skipped.
Reductions == \A w \in Completed \ committed : result[w] # Skipped => w \in reduced

\* The three books of open windows: the scheduler's leases, the coordinator's `book`, and
\* the attempts the pool expects.
Books ==
  /\ active = book \union ({offer} \ {Nothing}) /\ offer \notin book
  /\ \A w \in Work : expected[w] # Nothing => expected[w] \in book /\ expected[w].work = w
  /\ \A c \in book : expected[c.work] = c

\* Where the tasks are that the pool has: each once, on its slot, or on a worker's way out.
Inside(s) == Range(inbox[s])
Answering == {e.task : e \in Range(answers)}
Carried ==
  /\ \A s \in Slots : /\ \A c \in Inside(s) : c \in book /\ c.slot = s /\ c # running[s]
                      /\ running[s] # Nothing => running[s] \in book /\ running[s].slot = s
                      /\ IsInjective(inbox[s])
  /\ IsInjective(answers)
  /\ \A e \in Range(answers) : /\ e.task \in book /\ e.task.slot = e.slot
                               /\ e.task \notin Inside(e.slot) /\ running[e.slot] # e.task
                               /\ \A f \in Range(answers) : f.task = e.task => f = e
  /\ \A c \in book : c.slot \in alive => c \in Inside(c.slot) \/ c = running[c.slot] \/ c \in Answering

\* After a good end everything is published and sealed, and projected only when every
\* worker has gone.
Ended ==
  /\ outcome = "finished" => sealedViews = Views /\ committed = registered /\ active = {}
  /\ at = "project" => outcome = "finished" /\ alive = {} /\ backprojected = {}
  /\ at \notin {"project", "ended"} => backprojecting = {} /\ backprojected = {}
  /\ DevicesAreFreeForProjection

\* The inductive invariant.
CInv ==
  /\ IInv /\ OwnTypes /\ PoolTypes /\ Placed /\ Planned /\ Seeds /\ Reductions
  /\ outcome = "running" => Books /\ Carried
  /\ Ended /\ AssertionsHold

-----------------------------------------------------------------------------
(* The one view, its windows and the scheduler's steps. *)

\* The plan is of one view, View1.
LEMMA OneView ==
  /\ View1 \in Views /\ Views = {View1}
  /\ IInv => \A w \in registered : w \in Work /\ View[w] = View1
<1>1. View1 \in Views /\ Views = {View1}
  BY CoordinatorAssumption DEF View1
<1>2. IInv => \A w \in registered : w \in Work /\ View[w] = View1
  BY <1>1 DEF IInv, PlanSound, CountersExact, TypeOK
<1>3. QED
  BY <1>1, <1>2

\* Queued is what is planned, not opened or settled, and has no open predecessor.
LEMMA QueuedAre ==
  IInv /\ dropped = {} => Queued = {w \in registered : w \notin Leased \union Completed /\ Open(w) = {}}
<1> SUFFICES ASSUME IInv, dropped = {}
             PROVE  Queued = {w \in registered : w \notin Leased \union Completed /\ Open(w) = {}}
  OBVIOUS
<1>1. InOnePlace /\ registered \subseteq Work /\ \A w \in registered : waiting[w] = Open(w)
  BY DEF IInv, CountersExact, PlanSound, TypeOK
<1>2. Blocked = {w \in registered : Open(w) # {}}
  BY <1>1 DEF Blocked
<1>3. QED
  BY <1>1, <1>2 DEF InOnePlace

\* The same of the next state.
LEMMA QueuedWillBe ==
  (IInv /\ dropped = {} => Queued = {w \in registered : w \notin Leased \union Completed /\ Open(w) = {}})'
BY QueuedAre, PTL

\* The children of an unsettled window wait for nothing else.
LEMMA OffspringWaits ==
  ASSUME IInv, NEW w \in registered, w \notin Completed, NEW c \in Offspring(w)
  PROVE  /\ c \in registered /\ c \in Work /\ Deps[c] = {w} /\ Open(c) = {w}
         /\ c \notin Leased \union Completed
<1>1. c \in registered /\ w \in Deps[c] /\ result[w] = Pending
  BY DEF Offspring, Completed
<1>2. c \in Work /\ Deps[c] = {w}
  BY <1>1, OneView, CoordinatorAssumption
<1>3. Open(c) = {w}
  BY <1>1, <1>2 DEF Open
<1>4. ~(Deps[c] \subseteq Completed)
  BY <1>2
<1>5. QED
  BY <1>1, <1>2, <1>3, <1>4 DEF IInv, GenerationsInOrder

\* A queued window may be opened or skipped as soon as its generation is sealed.
LEMMA QueuedIsReady ==
  ASSUME IInv, dropped = {}, Planned, at # "seal", generation \in Generations, NEW w \in Queued
  PROVE  GenerationReady(w)
<1>1. w \in registered /\ w \in Work /\ View[w] = View1 /\ View1 \in Views /\ Open(w) = {}
  BY QueuedAre, OneView
<1>2. \A d \in Deps[w] : result[d] # Pending
  BY <1>1 DEF Open
<1>3. Generation[w] \in Nat /\ Generation[w] <= generation /\ generation \in Nat
  BY <1>1, WorkAssumption, ConstructorAssumption DEF Planned, Generations
<1>4. \A g \in 0..Generation[w] : g \in 0..generation /\ <<View1, g>> \in sealedGenerations
  BY <1>1, <1>3 DEF Planned
<1>5. ASSUME NEW g \in 0..(Generation[w] - 1)
      PROVE  uncommitted[<<View1, g>>] = 0
  <2> DEFINE A == {u \in registered \ committed : View[u] = View1 /\ Generation[u] = g}
  <2>1. g \in Generations /\ g < generation
    BY <1>3, <1>4, <1>5, ConstructorAssumption DEF Generations
  <2>2. A = {}
    BY <2>1 DEF Planned
  <2>3. uncommitted[<<View1, g>>] = Cardinality(A)
    BY <1>1, <2>1 DEF IInv, CountersExact, CountOf
  <2>4. QED
    BY <2>2, <2>3, FS_EmptySet
<1>6. QED
  BY <1>1, <1>2, <1>3, <1>4, <1>5 DEF GenerationReady, Settled

\* A generation that is settled is published; so is all that is planned, if it is the last one.
LEMMA SettledIsPublished ==
  ASSUME IInv, Planned, generation \in Generations, Settled(View1, generation)
  PROVE  committed = registered
<1>1. registered \ committed \in SUBSET Work /\ committed \subseteq registered
  BY DEF IInv, CountersExact, TypeOK, Frontier, Completed
<1>2. CountOf(View1, generation, registered \ committed) = 0
  BY OneView DEF Settled, IInv, CountersExact
<1>3. ASSUME NEW w \in registered
      PROVE  w \in committed
  <2>1. Generation[w] <= generation /\ (Generation[w] < generation => w \in committed)
    BY DEF Planned
  <2>2. Generation[w] \in Nat /\ generation \in Nat
    <3>1. w \in Work /\ {Generation, Cost} \subseteq [Work -> Nat] /\ MaxGeneration \in Nat
      BY OneView, WorkAssumption, ConstructorAssumption
    <3>2. QED
      BY <3>1 DEF Generations
  <2>3. CASE Generation[w] = generation
    BY <1>1, <1>2, <2>3, OneView, CountedNone
  <2>4. QED
    BY <2>1, <2>2, <2>3
<1>4. QED
  BY <1>1, <1>3

\* What a claim does to the leases.
LEMMA ClaimEffect ==
  ASSUME IInv, NEW s \in Slots, Claim(s)
  PROVE  \E c \in Leases :
           /\ active' = active \union {c} /\ c \notin active /\ c.slot = s /\ c.work \in Queued
           /\ Leased' = Leased \union {c.work} /\ c.work \notin Leased /\ Completed' = Completed
           /\ UNCHANGED <<plan, waiting, result, publication, views, faults>>
<1>1. PICK o \in Devices : \E i \in DOMAIN queue[o] :
         Lease(s, o, i) /\ Free(s) /\ Claimable(queue[o][i])
  BY ClaimIsLease
<1>2. PICK i \in DOMAIN queue[o] : Lease(s, o, i)
  BY <1>1
<1> DEFINE c == [work |-> queue[o][i], slot |-> s, token |-> Cardinality(failedLeases)]
<1>3. queue[o][i] \in Queued /\ Leased' = Leased \union {queue[o][i]} /\ Completed' = Completed
  BY <1>2, LeasePlaces
<1>4. Queued \subseteq registered /\ Queued \cap Leased = {} /\ registered \subseteq Work
  BY DEF IInv, CountersExact, InOnePlace, TypeOK
<1>5. Cardinality(failedLeases) \in Nat
  BY FS_CardinalityType DEF IInv, LeasesFresh
<1>6. c \in Leases /\ c.work = queue[o][i] /\ c.slot = s
  BY <1>3, <1>4, <1>5 DEF Leases
<1>7. active' = active \union {c} /\ UNCHANGED <<plan, waiting, result, publication, views, faults>>
  BY <1>2 DEF Lease
<1> HIDE DEF c
<1>8. c \notin active
  BY <1>3, <1>4, <1>6 DEF Leased
<1>9. QED
  BY <1>3, <1>4, <1>6, <1>7, <1>8

\* Skipping one of the branches never fails.
LEMMA SkipSucceeds ==
  ASSUME IInv, OwnTypes, Placed, Planned, Seeds, SkipBranch
  PROVE  \E w \in branches : Skip(w) /\ branches' = (branches \ {w}) \union Offspring(w) /\ UNCHANGED <<at, outcome>>
<1>1. branches # {} /\ at = "skip" /\ branches \subseteq Work /\ branches \subseteq Queued
  BY DEF SkipBranch, OwnTypes, Seeds
<1>2. Min(branches) \in branches
  <2>1. \A x \in branches : x \in Nat
    BY <1>1, WorkAssumption
  <2>2. \E m \in branches : \A x \in branches : m <= x
    BY <1>1, <2>1, Least, WorkSets
  <2>3. QED
    BY <2>2 DEF Min
<1>3. GenerationReady(Min(branches))
  BY <1>1, <1>2, QueuedIsReady DEF OwnTypes, Placed
<1>4. QED
  BY <1>1, <1>2, <1>3 DEF SkipBranch, Behind

\* The coordinator and the workers take only steps of the scheduler, or leave it alone.
LEMMA SchedulerStep ==
  ASSUME CInv, [CoordinatorNext]_all
  PROVE  [Next]_vars
<1> USE DEF CInv
<1>1. CASE MarkReady \/ ClaimNext \/ SubmitOffer \/ SubmitRaises \/ Dispatched
  <2>1. CASE MarkReady
    BY <2>1, OneView DEF MarkReady, Next
  <2>2. CASE ClaimNext
    BY <2>2 DEF ClaimNext, OnOffer, Next
  <2>3. CASE SubmitRaises
    <3>1. Fail(offer, TRUE) /\ offer \in active
      BY <2>3 DEF SubmitRaises, Fail, IsCurrent
    <3>2. QED
      BY <3>1 DEF Next
  <2>4. CASE SubmitOffer \/ Dispatched
    BY <2>4 DEF SubmitOffer, Dispatched
  <2>5. QED
    BY <1>1, <2>1, <2>2, <2>3, <2>4
<1>2. CASE LeaseEnds \/ PollAgain \/ WorkerDied \/ AnswerRaises \/ \E c \in book : ReductionFails(c)
  BY <1>2 DEF LeaseEnds, PollAgain, WorkerDied, AnswerRaises, ReductionFails
<1>3. ASSUME NEW c \in book, NEW given, Reduce(c, given)
      PROVE  Next
  BY <1>3 DEF Reduce, Complete, IsCurrent, Next
<1>4. CASE SkipBranch
  <2>1. PICK w \in branches : Skip(w)
    BY <1>4, SkipSucceeds
  <2>2. w \in registered
    BY QueuedAre DEF Seeds, Placed
  <2>3. QED
    BY <2>1, <2>2 DEF Next
<1>5. CASE Skipping \/ StartCommit \/ Commit \/ CommitRaises \/ Unsettled
  BY <1>5 DEF Skipping, StartCommit, Commit, CommitRaises, Unsettled, Next
<1>6. CASE NextGeneration
  <2>1. PICK S \in SUBSET (Work \ registered) : Register(View1, generation + 1, S)
    BY <1>6 DEF NextGeneration
  <2>2. generation + 1 \in Generations
    BY <2>1, ConstructorAssumption DEF Register, OwnTypes, Generations
  <2>3. QED
    BY <2>1, <2>2, OneView DEF Next
<1>7. CASE SealNext \/ LastGeneration \/ ContinuationFails
  BY <1>7, OneView DEF SealNext, LastGeneration, ContinuationFails, Next, OwnTypes
<1>8. CASE Shutdown \/ Joined \/ Project \/ Projected
  <2>1. Owner[View1] \in Devices
    BY OneView, ConstructorAssumption
  <2>2. QED
    BY <1>8, <2>1, OneView DEF Shutdown, Joined, Project, Projected, Next
<1>9. ASSUME NEW s \in Slots, Worker(s) \/ Terminate(s)
      PROVE  UNCHANGED vars
  BY <1>9 DEF Worker, Terminate
<1>10. CASE UNCHANGED all
  BY <1>10 DEF all
<1>11. QED
  BY <1>1, <1>2, <1>3, <1>4, <1>5, <1>6, <1>7, <1>8, <1>9, <1>10 DEF CoordinatorNext, Coordinator

-----------------------------------------------------------------------------
(* The coordinator's variables keep their types and stand by the place it is at. *)

\* There are as many slots as pairs of a device and a number of a worker.
LEMMA SlotCount ==
  /\ Cardinality(Slots) = Cardinality(Devices) * WorkersPerDevice
  /\ Cardinality(Slots) \in Nat
<1> DEFINE D == Cardinality(Devices)
           I == 0..(WorkersPerDevice - 1)
           pair == [t \in Slots |-> <<t.device, t.index>>]
<1>1. IsFiniteSet(Devices) /\ D \in Nat /\ WorkersPerDevice \in {1, 2, 3, 4}
  BY ConstructorAssumption, FS_CardinalityType
<1>2. IsFiniteSet(I) /\ Cardinality(I) = WorkersPerDevice
  BY <1>1, FS_Interval
<1>3. IsFiniteSet(Devices \X I) /\ Cardinality(Devices \X I) = D * WorkersPerDevice
  BY <1>1, <1>2, FS_Product
<1>4. pair \in Bijection(Slots, Devices \X I)
  <2>1. pair \in [Slots -> Devices \X I]
    BY DEF Slots
  <2>2. \A t, u \in Slots : pair[t] = pair[u] => t = u
    BY DEF Slots
  <2>3. \A x \in Devices \X I : \E t \in Slots : pair[t] = x
    <3>1. ASSUME NEW d \in Devices, NEW i \in I
          PROVE  \E t \in Slots : pair[t] = <<d, i>>
      <4>1. [device |-> d, index |-> i] \in Slots
        BY DEF Slots
      <4>2. QED
        BY <4>1
    <3>2. \A x \in Devices \X I : \E d \in Devices, i \in I : x = <<d, i>>
      OBVIOUS
    <3> HIDE DEF pair, I
    <3>3. QED
      BY <3>1, <3>2
  <2> HIDE DEF pair, I
  <2>4. QED
    BY <2>1, <2>2, <2>3, Fun_IsBij
<1>5. Cardinality(Slots) = D * WorkersPerDevice
  <2>1. ExistsBijection(Slots, Devices \X I) /\ ExistsBijection(Devices \X I, Slots)
    BY <1>4, Fun_ExistsBijSymmetric DEF ExistsBijection
  <2>2. Cardinality(Devices \X I) = Cardinality(Slots)
    <3> HIDE DEF I, D
    <3>1. QED
      BY <1>3, <2>1, FS_Bijection
  <2>3. QED
    BY <1>3, <2>2
<1>6. QED
  BY <1>1, <1>5

\* A turn is a number of a slot.
LEMMA TurnsAreBounded ==
  ASSUME NEW s \in Slots
  PROVE  TurnOf(s) \in 0..Cardinality(Slots)
<1> DEFINE D == Cardinality(Devices)
           E == {e \in Devices : e < s.device}
<1>1. IsFiniteSet(Devices) /\ D \in Nat /\ WorkersPerDevice \in {1, 2, 3, 4}
  BY ConstructorAssumption, FS_CardinalityType
<1>5. Cardinality(Slots) = D * WorkersPerDevice
  BY SlotCount
<1>6. Cardinality(E) \in Nat /\ Cardinality(E) < D
  <2>1. s.device \in Devices /\ Devices \subseteq Nat
    BY CoordinatorAssumption DEF Slots
  <2>2. E \subseteq Devices /\ s.device \notin E
    <3>1. \A n \in Nat : ~(n < n)
      OBVIOUS
    <3>2. s.device \in Nat
      BY <2>1
    <3>3. QED
      BY <3>1, <3>2
  <2>3. IsFiniteSet(E) /\ Cardinality(E) <= D /\ (Cardinality(E) = D => E = Devices)
    <3> HIDE DEF E
    <3>1. QED
      BY <1>1, <2>2, FS_Subset
  <2>4. Cardinality(E) \in Nat
    BY <2>3, FS_CardinalityType
  <2>5. QED
    BY <1>1, <2>1, <2>2, <2>3, <2>4
<1>7. s.index \in 0..(WorkersPerDevice - 1)
  BY DEF Slots
<1>8. s.index * D + Cardinality(E) + 1 \in 0..(D * WorkersPerDevice)
  <2> HIDE DEF E, D
  <2>1. s.index \in 0..3 /\ s.index < WorkersPerDevice
    BY <1>1, <1>7
  <2>2. QED
    BY <1>1, <1>6, <2>1
<1>9. TurnOf(s) = s.index * D + Cardinality(E) + 1
  BY DEF TurnOf, DeviceRank
<1>10. QED
  BY <1>5, <1>8, <1>9

\* Steps that touch nothing but the scheduler, the turn and the place of the thread.
Idly ==
  \/ MarkReady \/ Dispatched \/ LeaseEnds \/ PollAgain \/ WorkerDied \/ Skipping \/ StartCommit
  \/ CommitRaises \/ Unsettled \/ SealNext \/ LastGeneration \/ ContinuationFails
  \/ Joined \/ Project \/ Projected \/ UNCHANGED all

\* They leave the pool and the books alone.
LEMMA IdleEffect ==
  ASSUME Idly
  PROVE  /\ UNCHANGED <<inbox, running, alive, answers, expected>>
         /\ UNCHANGED <<offer, book, reduced, seeded, branches, generation, forced>>
         /\ at \in Places => at' \in Places
         /\ turn' \in {0, turn}
<1> USE DEF all, own, pool, hands, GoOn, Raise, Places
<1>1. CASE MarkReady \/ Dispatched \/ LeaseEnds \/ PollAgain \/ WorkerDied \/ Skipping \/ StartCommit
  BY <1>1 DEF MarkReady, Dispatched, LeaseEnds, PollAgain, WorkerDied, Skipping, StartCommit
<1>2. CASE CommitRaises \/ Unsettled \/ SealNext \/ LastGeneration \/ ContinuationFails
  BY <1>2 DEF CommitRaises, Unsettled, SealNext, LastGeneration, ContinuationFails
<1>3. CASE Joined \/ Project \/ Projected \/ UNCHANGED all
  BY <1>3 DEF Joined, Project, Projected
<1>4. QED
  BY <1>1, <1>2, <1>3 DEF Idly

\* Every step is one of these or one that the books know.
LEMMA CoordinatorCases ==
  ASSUME [CoordinatorNext]_all
  PROVE  \/ Idly \/ ClaimNext \/ SubmitOffer \/ SubmitRaises \/ AnswerRaises
         \/ \E c \in book : ReductionFails(c) \/ \E given \in SUBSET Offspring(c.work) : Reduce(c, given)
         \/ SkipBranch \/ Commit \/ NextGeneration \/ Shutdown
         \/ \E s \in Slots : Worker(s) \/ Terminate(s)
BY DEF CoordinatorNext, Coordinator, Idly

\* What a reduced result was, and what reducing it does to the pool.
LEMMA ReceiveEffect ==
  ASSUME NEW c \in book, Answered(c), PoolTypes, book \subseteq Leases
  PROVE  LET e == Head(answers) IN
         /\ answers # <<>> /\ e \in Events /\ e.task.work = c.work /\ e.slot = c.slot
         /\ expected[c.work] = e.task /\ c \in active
         /\ answers' = Tail(answers) /\ UNCHANGED <<inbox, running, alive>>
         /\ expected' = [expected EXCEPT ![c.work] = Nothing]
<1>1. answers # <<>> /\ answers \in Seq(Events) /\ Head(answers) \in Events
  BY HeadTailProperties DEF Answered, Pool!Receive, Pool!Take, PoolTypes
<1>2. Verdict(Head(answers)) = "reduced" /\ c \in Claimed(Head(answers))
  BY DEF Answered
<1>3. c.slot = Head(answers).slot /\ c \in active
  BY <1>2 DEF Verdict
<1>4. c.work = Head(answers).task.work
  BY <1>2 DEF Claimed
<1>5. QED
  BY <1>1, <1>3, <1>4 DEF Answered, Pool!Receive, Pool!Take, Pool!Accepted

\* A step keeps the types.
LEMMA TypesStep ==
  ASSUME CInv, [CoordinatorNext]_all
  PROVE  OwnTypes' /\ PoolTypes'
<1>0. OwnTypes /\ PoolTypes /\ active \subseteq Leases
  BY DEF CInv, IInv, CountersExact, TypeOK
<1>1. CASE Idly
  <2>1. OwnTypes'
    BY <1>0, <1>1, IdleEffect, SlotCount DEF OwnTypes
  <2>2. PoolTypes'
    BY <1>0, <1>1, IdleEffect DEF PoolTypes
  <2>3. QED
    BY <2>1, <2>2
<1>2. CASE ClaimNext
  <2>1. PICK s \in Slots : Claim(s) /\ turn' = TurnOf(s) /\ offer' = CHOOSE c \in active' : c \notin active
    BY <1>2 DEF ClaimNext, OnOffer
  <2>2. \E c \in active' : c \notin active /\ active' = active \union {c} /\ c \in Leases
    BY <2>1, ClaimEffect DEF CInv
  <2>3. offer' \in Leases
    BY <2>1, <2>2
  <2>4. OwnTypes'
    BY <1>0, <1>2, <2>1, <2>3, TurnsAreBounded DEF OwnTypes, ClaimNext
  <2>5. PoolTypes'
    BY <1>0, <1>2 DEF PoolTypes, ClaimNext, pool
  <2>6. QED
    BY <2>4, <2>5
<1>3. CASE SubmitOffer
  <2>1. offer \in Leases /\ offer.slot \in Slots /\ offer.work \in Work
    BY <1>0, <1>3 DEF OwnTypes, SubmitOffer, Leases
  <2>2. OwnTypes'
    BY <1>0, <1>3, <2>1 DEF OwnTypes, SubmitOffer
  <2>3. Append(inbox[offer.slot], offer) \in Seq(Leases \union {Stop})
    BY <1>0, <2>1, AppendProperties DEF PoolTypes
  <2>4. PoolTypes'
    BY <1>0, <1>3, <2>1, <2>3 DEF PoolTypes, SubmitOffer, Pool!Submit
  <2>5. QED
    BY <2>2, <2>4
<1>4. CASE SubmitRaises
  BY <1>0, <1>4 DEF SubmitRaises, OwnTypes, PoolTypes, pool, Raise, Places
<1>5. CASE AnswerRaises
  <2>1. answers # <<>> /\ Head(answers) \in Events /\ Tail(answers) \in Seq(Events)
    BY <1>0, <1>5, HeadTailProperties DEF PoolTypes, AnswerRaises, Pool!Discard, Pool!Take
  <2>2. OwnTypes'
    BY <1>0, <1>5 DEF OwnTypes, AnswerRaises, GoOn, Raise, Places, hands
  <2>3. PoolTypes'
    BY <1>0, <1>5, <2>1 DEF PoolTypes, AnswerRaises, Pool!Discard, Pool!Take
  <2>4. QED
    BY <2>2, <2>3
<1>6. ASSUME NEW c \in book, Answered(c)
      PROVE  PoolTypes'
  <2>1. answers # <<>> /\ Tail(answers) \in Seq(Events) /\ answers' = Tail(answers)
    BY <1>0, <1>6, HeadTailProperties, ReceiveEffect DEF PoolTypes, OwnTypes
  <2>2. UNCHANGED <<inbox, running, alive>> /\ expected' = [expected EXCEPT ![c.work] = Nothing]
    BY <1>0, <1>6, ReceiveEffect DEF OwnTypes
  <2>3. QED
    BY <1>0, <2>1, <2>2 DEF PoolTypes
<1>7. ASSUME NEW c \in book, ReductionFails(c)
      PROVE  OwnTypes' /\ PoolTypes'
  <2>1. OwnTypes'
    BY <1>0, <1>7 DEF OwnTypes, ReductionFails, Raise, Places
  <2>2. QED
    BY <1>6, <1>7, <2>1 DEF ReductionFails
<1>8. ASSUME NEW c \in book, NEW given \in SUBSET Offspring(c.work), Reduce(c, given)
      PROVE  OwnTypes' /\ PoolTypes'
  <2>1. Offspring(c.work) \subseteq Work /\ c.work \in Work
    BY <1>0 DEF Offspring, CInv, IInv, CountersExact, TypeOK, OwnTypes, Leases
  <2>2. OwnTypes'
    BY <1>0, <1>8, <2>1 DEF OwnTypes, Reduce, KeepingOnly, GoOn, Places
  <2>3. QED
    BY <1>6, <1>8, <2>2 DEF Reduce
<1>9. CASE SkipBranch
  <2>1. PICK w \in branches : branches' = (branches \ {w}) \union Offspring(w) /\ UNCHANGED at
    BY <1>9, SkipSucceeds DEF CInv
  <2>2. Offspring(w) \subseteq Work
    BY DEF Offspring, CInv, IInv, CountersExact, TypeOK
  <2>3. OwnTypes'
    BY <1>0, <1>9, <2>1, <2>2 DEF OwnTypes, SkipBranch
  <2>4. PoolTypes'
    BY <1>0, <1>9 DEF PoolTypes, SkipBranch, pool
  <2>5. QED
    BY <2>3, <2>4
<1>10. CASE Commit
  BY <1>0, <1>10 DEF Commit, OwnTypes, PoolTypes, pool
<1>11. CASE NextGeneration
  <2>1. PICK S \in SUBSET (Work \ registered) :
           Register(View1, generation + 1, S) /\ seeded' = seeded \union {w \in S : Deps[w] = {}}
    BY <1>11 DEF NextGeneration
  <2>2. generation + 1 \in Generations
    BY <1>0, <2>1, ConstructorAssumption DEF Register, OwnTypes, Generations
  <2>3. OwnTypes'
    BY <1>0, <1>11, <2>1, <2>2 DEF OwnTypes, NextGeneration, GoOn, Places
  <2>4. PoolTypes'
    BY <1>0, <1>11 DEF PoolTypes, NextGeneration, pool
  <2>5. QED
    BY <2>3, <2>4
<1>12. CASE Shutdown
  <2>1. OwnTypes'
    BY <1>0, <1>12 DEF OwnTypes, Shutdown, hands, GoOn, Places
  <2>2. \A s \in Slots : Append(inbox[s], Stop) \in Seq(Leases \union {Stop})
    BY <1>0, AppendProperties DEF PoolTypes
  <2>3. PoolTypes'
    BY <1>0, <1>12, <2>2 DEF PoolTypes, Shutdown, Pool!StopAll
  <2>4. QED
    BY <2>1, <2>3
<1>13. ASSUME NEW s \in Slots, Worker(s) \/ Terminate(s)
       PROVE  OwnTypes' /\ PoolTypes'
  <2>1. OwnTypes'
    BY <1>0, <1>13 DEF OwnTypes, Worker, Terminate, own, hands
  <2>2. CASE Pool!Terminate(s)
    BY <1>0, <2>1, <2>2 DEF PoolTypes, Pool!Terminate
  <2>3. CASE Pool!Start(s) \/ Pool!Leave(s)
    <3>1. inbox[s] # <<>> /\ Tail(inbox[s]) \in Seq(Leases \union {Stop}) /\ Head(inbox[s]) \in Leases \union {Stop}
      BY <1>0, <2>3, HeadTailProperties DEF PoolTypes, Pool!Start, Pool!Leave
    <3>2. QED
      BY <1>0, <2>1, <2>3, <3>1 DEF PoolTypes, Pool!Start, Pool!Leave
  <2>4. ASSUME NEW kind \in {"result", "error"}, Pool!Answer(s, kind)
        PROVE  PoolTypes'
    <3>1. [kind |-> kind, task |-> running[s], slot |-> s] \in Events
      BY <1>0, <2>4 DEF PoolTypes, Pool!Answer, Events
    <3>2. Append(answers, [kind |-> kind, task |-> running[s], slot |-> s]) \in Seq(Events)
      BY <1>0, <3>1, AppendProperties DEF PoolTypes
    <3>3. QED
      BY <1>0, <2>4, <3>2 DEF PoolTypes, Pool!Answer
  <2>5. QED
    BY <1>13, <2>1, <2>2, <2>3, <2>4 DEF Worker, Terminate, Pool!Child, Pool!Die
<1>14. QED
  BY <1>1, <1>2, <1>3, <1>4, <1>5, <1>7, <1>8, <1>9, <1>10, <1>11, <1>12, <1>13, CoordinatorCases

\* Such steps leave the windows alone.
LEMMA IdleKeeps ==
  ASSUME Idly
  PROVE  UNCHANGED <<registered, queue, waiting, active, result, dropped, committed>>
<1> USE DEF all, own, pool, hands, vars, plan, publication, views, faults
<1>1. CASE MarkReady \/ Dispatched \/ LeaseEnds \/ PollAgain \/ WorkerDied \/ Skipping \/ StartCommit
  BY <1>1 DEF MarkReady, Dispatched, LeaseEnds, PollAgain, WorkerDied, Skipping, StartCommit,
              MarkProjectionReady, ClaimCommittable
<1>2. CASE CommitRaises \/ Unsettled \/ SealNext \/ LastGeneration \/ ContinuationFails
  BY <1>2 DEF CommitRaises, Unsettled, SealNext, LastGeneration, ContinuationFails, FailCommit,
              SealGeneration, SealView
<1>3. CASE Joined \/ Project \/ Projected \/ UNCHANGED all
  BY <1>3 DEF Joined, Project, Projected, ClaimBackprojection, CompleteBackprojection, FailBackprojection
<1>4. QED
  BY <1>1, <1>2, <1>3 DEF Idly

\* What the other steps do to the windows and the marks of the views.
LEMMA WindowSteps ==
  ASSUME CInv
  PROVE  /\ ClaimNext => UNCHANGED <<plan, publication, views, faults, result, waiting>>
         /\ SubmitRaises => UNCHANGED <<plan, publication, views, result, waiting, dropped>>
         /\ SubmitOffer \/ AnswerRaises \/ Shutdown => UNCHANGED vars
         /\ \A c \in book : ReductionFails(c) => UNCHANGED vars
         /\ \A c, given : Reduce(c, given) => UNCHANGED <<plan, publication, views, faults>>
         /\ SkipBranch => UNCHANGED <<plan, publication, views, faults, active>>
         /\ Commit => UNCHANGED <<plan, queue, waiting, active, result, views, faults>>
         /\ \A s \in Slots : Worker(s) \/ Terminate(s) => UNCHANGED vars
<1>1. ClaimNext => UNCHANGED <<plan, publication, views, faults, result, waiting>>
  <2>1. ClaimNext => \E s \in Slots : Claim(s)
    BY DEF ClaimNext, OnOffer
  <2>2. QED
    BY <2>1, ClaimEffect DEF CInv
<1>2. SubmitRaises => UNCHANGED <<plan, publication, views, result, waiting, dropped>>
  BY DEF SubmitRaises, Fail
<1>3. SkipBranch => UNCHANGED <<plan, publication, views, faults, active>>
  <2>1. SkipBranch => \E w \in branches : Skip(w)
    BY SkipSucceeds DEF CInv
  <2>2. QED
    BY <2>1 DEF Skip
<1>4. Commit => UNCHANGED <<plan, queue, waiting, active, result, views, faults>>
  BY DEF Commit, CompleteCommit
<1>5. \A c, given : Reduce(c, given) => UNCHANGED <<plan, publication, views, faults>>
  BY DEF Reduce, Complete
<1>6. QED
  BY <1>1, <1>2, <1>3, <1>4, <1>5
     DEF SubmitOffer, AnswerRaises, Shutdown, ReductionFails, Worker, Terminate

\* A step keeps what goes with the place it leads to.
LEMMA PlacedStep ==
  ASSUME CInv, [CoordinatorNext]_all
  PROVE  Placed'
<1> USE DEF LoopPlaces, Raise, GoOn
<1>0. Placed /\ dropped = {} /\ AssertionsHold
  BY DEF CInv, Placed
<1>1. CASE Idly
  <2>1. UNCHANGED <<offer, branches, dropped>>
    BY <1>1, IdleEffect, IdleKeeps
  <2>2. CASE MarkReady
    <3>1. projectionReady \subseteq Views
      BY DEF CInv, IInv, CountersExact, TypeOK
    <3>2. projectionReady' = Views
      BY <2>2, <3>1, OneView DEF MarkReady, MarkProjectionReady
    <3>3. QED
      BY <1>0, <2>1, <2>2, <3>2 DEF MarkReady, Placed
  <2>3. CASE ~MarkReady
    <3>1. UNCHANGED projectionReady
      BY <1>1, <2>3 DEF Idly, Dispatched, LeaseEnds, PollAgain, WorkerDied, Skipping, StartCommit, CommitRaises,
            Unsettled, SealNext, LastGeneration, ContinuationFails, Joined, Project, Projected, all, vars, plan,
            ClaimCommittable, FailCommit, SealGeneration, SealView, ClaimBackprojection, CompleteBackprojection,
            FailBackprojection
    <3>2. CASE Dispatched \/ LeaseEnds \/ PollAgain \/ WorkerDied \/ Skipping \/ StartCommit
      BY <1>0, <2>1, <3>1, <3>2 DEF Placed, Dispatched, LeaseEnds, PollAgain, WorkerDied, Skipping, StartCommit, own, hands
    <3>3. CASE CommitRaises \/ Unsettled \/ SealNext \/ LastGeneration \/ ContinuationFails
      BY <1>0, <2>1, <3>1, <3>3 DEF Placed, CommitRaises, Unsettled, SealNext, LastGeneration, ContinuationFails, Published
    <3>4. CASE Joined \/ Project \/ Projected
      BY <1>0, <2>1, <3>1, <3>4 DEF Placed, Joined, Project, Projected
    <3>5. CASE UNCHANGED all
      BY <1>0, <2>1, <3>1, <3>5 DEF Placed, all, own
    <3>6. QED
      BY <1>1, <2>3, <3>2, <3>3, <3>4, <3>5 DEF Idly
  <2>4. QED
    BY <2>2, <2>3
<1>2. ~Idly => UNCHANGED <<projectionReady, dropped>>
  <2>1. CASE ClaimNext \/ SubmitRaises \/ SubmitOffer \/ AnswerRaises \/ Shutdown \/ SkipBranch \/ Commit
             \/ \E s \in Slots : Worker(s) \/ Terminate(s)
    BY <2>1, WindowSteps DEF vars, plan, faults
  <2>2. CASE \E c \in book : ReductionFails(c) \/ \E given \in SUBSET Offspring(c.work) : Reduce(c, given)
    BY <2>2, WindowSteps DEF vars, plan, faults
  <2>3. CASE NextGeneration
    BY <2>3 DEF NextGeneration, Register, faults
  <2>4. QED
    BY <2>1, <2>2, <2>3, CoordinatorCases
<1>3. CASE ~Idly
  <2>1. CASE ClaimNext \/ SubmitOffer \/ SubmitRaises
    BY <1>0, <1>2, <1>3, <2>1 DEF Placed, ClaimNext, SubmitOffer, SubmitRaises
  <2>2. CASE AnswerRaises
    <3>1. Verdict(Head(answers)) # "running"
      BY DEF Verdict
    <3>2. QED
      BY <1>0, <1>2, <1>3, <2>2, <3>1 DEF Placed, AnswerRaises, hands
  <2>3. CASE \E c \in book : ReductionFails(c) \/ \E given \in SUBSET Offspring(c.work) : Reduce(c, given)
    BY <1>0, <1>2, <1>3, <2>3 DEF Placed, ReductionFails, Reduce
  <2>4. CASE SkipBranch
    <3>1. at = "skip" /\ UNCHANGED <<at, outcome, offer>>
      BY <2>4, SkipSucceeds DEF SkipBranch, CInv
    <3>2. QED
      BY <1>0, <1>2, <1>3, <3>1 DEF Placed
  <2>5. CASE Commit \/ NextGeneration \/ Shutdown
    BY <1>0, <1>2, <1>3, <2>5 DEF Placed, Commit, NextGeneration, Shutdown, Published, hands
  <2>6. CASE \E s \in Slots : Worker(s) \/ Terminate(s)
    BY <1>0, <1>2, <1>3, <2>6 DEF Placed, Worker, Terminate, own, hands
  <2>7. QED
    BY <1>3, <2>1, <2>2, <2>3, <2>4, <2>5, <2>6, CoordinatorCases
<1>4. QED
  BY <1>1, <1>3

\* The next generation is planned when all before it is published, and is the only one
\* that is not sealed.
LEMMA PlannedStep ==
  ASSUME CInv, [CoordinatorNext]_all
  PROVE  Planned'
<1> DEFINE Frame == /\ UNCHANGED <<registered, generation>> /\ committed \subseteq committed'
                    /\ sealedGenerations \subseteq sealedGenerations'
<1>0. /\ Planned /\ OwnTypes /\ Placed /\ IInv /\ Initial \subseteq registered
      /\ generation \in Nat /\ \A w \in Work : Generation[w] \in Nat
      /\ committed \subseteq registered /\ registered \subseteq Work
  <2>1. Planned /\ OwnTypes /\ Placed /\ IInv /\ Initial \subseteq registered
    BY DEF CInv, Planned
  <2>2. committed \subseteq registered /\ registered \subseteq Work
    BY <2>1 DEF IInv, CountersExact, TypeOK, Frontier, Completed
  <2>3. MaxGeneration \in Nat /\ generation \in 0..MaxGeneration
    BY <2>1, ConstructorAssumption DEF OwnTypes, Generations
  <2>4. Generation \in [Work -> Nat]
    BY WorkAssumption
  <2>5. QED
    BY <2>1, <2>2, <2>3, <2>4
<1>1. ASSUME Frame, at # "seal"
      PROVE  Planned'
  BY <1>0, <1>1 DEF Planned
<1>2. CASE Idly /\ ~SealNext
  <2>1. UNCHANGED <<registered, generation, committed>>
    BY <1>2, IdleEffect, IdleKeeps
  <2>2. UNCHANGED sealedGenerations
    <3>1. CASE MarkReady \/ Dispatched \/ LeaseEnds \/ PollAgain \/ WorkerDied \/ Skipping \/ StartCommit
      BY <3>1 DEF MarkReady, Dispatched, LeaseEnds, PollAgain, WorkerDied, Skipping, StartCommit, vars, plan,
            MarkProjectionReady, ClaimCommittable
    <3>2. CASE CommitRaises \/ Unsettled \/ LastGeneration \/ ContinuationFails
      BY <3>2 DEF CommitRaises, Unsettled, LastGeneration, ContinuationFails, vars, plan, FailCommit, SealView
    <3>3. CASE Joined \/ Project \/ Projected \/ UNCHANGED all
      BY <3>3 DEF Joined, Project, Projected, ClaimBackprojection, CompleteBackprojection, FailBackprojection,
            all, vars, plan
    <3>4. QED
      BY <1>2, <3>1, <3>2, <3>3 DEF Idly
  <2>3. CASE at # "seal"
    BY <1>1, <2>1, <2>2, <2>3
  <2>4. CASE at = "seal"
    <3>1. UNCHANGED at
      BY <1>2, <2>4 DEF Idly, MarkReady, Dispatched, LeaseEnds, PollAgain, WorkerDied, Skipping, StartCommit,
            CommitRaises, Unsettled, LastGeneration, ContinuationFails, Published, Joined, Project, Projected, all, own
    <3>2. QED
      BY <1>0, <2>1, <2>2, <3>1 DEF Planned
  <2>5. QED
    BY <2>3, <2>4
<1>3. CASE SealNext
  <2>1. UNCHANGED <<registered, generation, committed>>
    BY <1>3, IdleEffect, IdleKeeps DEF Idly
  <2>2. sealedGenerations' = sealedGenerations \union {<<View1, generation>>}
    BY <1>3 DEF SealNext, SealGeneration
  <2>3. QED
    BY <1>0, <2>1, <2>2, OneView DEF Planned
<1>4. CASE NextGeneration
  <2>1. PICK S \in SUBSET (Work \ registered) : Register(View1, generation + 1, S)
    BY <1>4 DEF NextGeneration
  <2>2. registered' = registered \union S /\ UNCHANGED <<committed, sealedGenerations>>
        /\ \A w \in S : Generation[w] = generation + 1
    BY <2>1 DEF Register
  <2>3. at = "commit" /\ at' = "seal" /\ generation' = generation + 1
    BY <1>4 DEF NextGeneration, GoOn, Published
  <2>4. committed = registered
    BY <1>0, <1>4, SettledIsPublished DEF NextGeneration, OwnTypes
  <2>5. \A w \in registered' : /\ Generation[w] <= generation'
                               /\ Generation[w] < generation' => w \in committed'
    <3>1. \A w \in S : Generation[w] <= generation' /\ ~(Generation[w] < generation')
      BY <1>0, <2>2, <2>3
    <3>2. \A w \in registered : Generation[w] <= generation'
      BY <1>0, <2>3 DEF Planned
    <3>3. QED
      BY <2>2, <2>4, <3>1, <3>2
  <2>6. \A v \in Views, g \in 0..generation' :
           <<v, g>> \in sealedGenerations' \/ (at' = "seal" /\ g = generation')
    <3>1. \A g \in 0..generation' : g \in 0..generation \/ g = generation'
      BY <1>0, <2>3
    <3>2. QED
      BY <1>0, <2>2, <2>3, <3>1 DEF Planned
  <2>7. QED
    BY <1>0, <2>2, <2>5, <2>6 DEF Planned
<1>5. CASE Commit
  <2>1. Frame /\ at # "seal"
    BY <1>5, WindowSteps DEF Commit, CompleteCommit, plan
  <2>2. QED
    BY <1>1, <2>1
<1>6. CASE ClaimNext \/ SubmitRaises \/ SubmitOffer \/ AnswerRaises \/ Shutdown \/ SkipBranch
           \/ \E c \in book : ReductionFails(c) \/ \E given \in SUBSET Offspring(c.work) : Reduce(c, given)
  <2>1. UNCHANGED <<registered, committed, sealedGenerations>>
    BY <1>6, WindowSteps DEF vars, plan, publication
  <2>2. UNCHANGED generation /\ at # "seal"
    BY <1>0, <1>6 DEF ClaimNext, SubmitRaises, SubmitOffer, AnswerRaises, Shutdown, SkipBranch, ReductionFails, Reduce,
          hands, Placed
  <2>3. QED
    BY <1>1, <2>1, <2>2
<1>7. CASE \E s \in Slots : Worker(s) \/ Terminate(s)
  <2>1. UNCHANGED <<registered, committed, sealedGenerations>>
    BY <1>7, WindowSteps DEF vars, plan, publication
  <2>2. UNCHANGED <<generation, at>>
    BY <1>7 DEF Worker, Terminate, own, hands
  <2>3. QED
    BY <1>0, <2>1, <2>2 DEF Planned
<1>8. QED
  BY <1>2, <1>3, <1>4, <1>5, <1>6, <1>7, CoordinatorCases

\* Nothing is published that was not reduced or skipped.
LEMMA ReductionsStep ==
  ASSUME CInv, [CoordinatorNext]_all
  PROVE  Reductions'
<1>0. Reductions
  BY DEF CInv
<1>1. CASE Idly
  <2>1. UNCHANGED <<registered, result, committed, reduced>>
    BY <1>1, IdleEffect, IdleKeeps
  <2>2. QED
    BY <1>0, <2>1 DEF Reductions, Completed
<1>2. CASE ClaimNext \/ SubmitRaises \/ SubmitOffer \/ AnswerRaises \/ Shutdown \/ \E c \in book : ReductionFails(c)
  <2>1. UNCHANGED <<registered, result, committed>>
    BY <1>2, WindowSteps DEF vars, plan, publication
  <2>2. UNCHANGED reduced
    BY <1>2 DEF ClaimNext, SubmitRaises, SubmitOffer, AnswerRaises, Shutdown, ReductionFails, hands
  <2>3. QED
    BY <1>0, <2>1, <2>2 DEF Reductions, Completed
<1>3. ASSUME NEW c \in book, NEW given, Reduce(c, given)
      PROVE  Reductions'
  <2>1. c \in active /\ Complete(c) /\ reduced' = reduced \union {c.work} /\ UNCHANGED <<registered, committed>>
    BY <1>3 DEF Reduce, Complete, IsCurrent, plan, publication
  <2>2. Completed' = Completed \union {c.work}
    BY <2>1, CompletePlaces DEF CInv
  <2>3. \A w \in Completed : result[w] # Skipped \/ w = c.work \/ result'[w] = Skipped
    <3>1. result \in [Work -> Results] /\ registered \subseteq Work
      BY DEF CInv, IInv, CountersExact, TypeOK
    <3>2. result' = [result EXCEPT ![c.work] = c]
      BY <2>1 DEF Complete
    <3>3. QED
      BY <3>1, <3>2 DEF Completed
  <2>4. QED
    BY <1>0, <2>1, <2>2, <2>3 DEF Reductions
<1>4. CASE SkipBranch
  <2>1. PICK w \in branches : Skip(w)
    BY <1>4, SkipSucceeds DEF CInv
  <2>2. w \in registered /\ registered \subseteq Work
    BY QueuedAre DEF CInv, Seeds, Placed, IInv, CountersExact, TypeOK
  <2>3. Completed' = Completed \union {w} /\ UNCHANGED committed
    BY <2>1, <2>2, SkipPlaces DEF CInv, Skip, publication
  <2>4. result' = [result EXCEPT ![w] = Skipped] /\ result \in [Work -> Results]
    BY <2>1 DEF Skip, CInv, IInv, CountersExact, TypeOK
  <2>5. \A u \in Completed' : result'[u] # Skipped => u \in Completed /\ result[u] # Skipped
    BY <2>2, <2>3, <2>4 DEF Completed
  <2>6. UNCHANGED reduced
    BY <1>4 DEF SkipBranch
  <2>7. QED
    BY <1>0, <2>3, <2>5, <2>6 DEF Reductions
<1>5. CASE Commit
  <2>1. UNCHANGED <<registered, result>> /\ committed' = committed \union batch /\ reduced' = reduced \ batch
    BY <1>5, WindowSteps DEF Commit, CompleteCommit, plan
  <2>2. QED
    BY <1>0, <2>1 DEF Reductions, Completed
<1>6. CASE NextGeneration
  <2>1. PICK S \in SUBSET (Work \ registered) : Register(View1, generation + 1, S)
    BY <1>6 DEF NextGeneration
  <2>2. \A w \in S : result[w] = Pending
    BY DEF CInv, IInv, PlanSound
  <2>3. Completed' = Completed /\ UNCHANGED <<result, committed>>
    BY <2>1, <2>2 DEF Register, Completed
  <2>4. UNCHANGED reduced
    BY <1>6 DEF NextGeneration
  <2>5. QED
    BY <1>0, <2>3, <2>4 DEF Reductions
<1>7. CASE \E s \in Slots : Worker(s) \/ Terminate(s)
  <2>1. UNCHANGED <<registered, result, committed>>
    BY <1>7, WindowSteps DEF vars, plan, publication
  <2>2. UNCHANGED reduced
    BY <1>7 DEF Worker, Terminate, own, hands
  <2>3. QED
    BY <1>0, <2>1, <2>2 DEF Reductions, Completed
<1>8. QED
  BY <1>1, <1>2, <1>3, <1>4, <1>5, <1>6, <1>7, CoordinatorCases

-----------------------------------------------------------------------------
(* The seeds. *)

\* With the windows unchanged, the seeds are.
LEMMA SeedsKept ==
  ASSUME CInv, IInv', dropped' = {}, UNCHANGED <<registered, active, result, seeded, branches>>
  PROVE  Seeds'
<1>1. Leased' = Leased /\ Completed' = Completed /\ \A w \in Work : Open(w)' = Open(w)
  BY DEF Leased, Completed, Open
<1>2. registered \subseteq Work /\ Seeds /\ IInv /\ dropped = {}
  BY DEF CInv, IInv, CountersExact, TypeOK, Placed
<1>3. Queued' = Queued
  BY <1>1, <1>2, QueuedAre, QueuedWillBe
<1>4. QED
  BY <1>1, <1>2, <1>3 DEF Seeds, SeedsDecide

\* Settling w: its open children are those that wait for nothing else.
LEMMA SettlingOpens ==
  ASSUME CInv, IInv', dropped' = {}, NEW w \in registered, w \notin Completed, Open(w) = {}, NEW r,
         result' = [result EXCEPT ![w] = r], r # Pending, UNCHANGED registered
  PROVE  /\ Completed' = Completed \union {w}
         /\ \A u \in registered : Open(u)' = Open(u) \ {w}
         /\ \A u \in Offspring(w) : u \in registered /\ Open(u)' = {} /\ u \notin Leased \union Completed /\ u # w
         /\ \A u \in registered : w \in Open(u) => u \in Offspring(w)
         /\ Queued' \subseteq {u \in registered : u \notin Leased' \union Completed' /\ Open(u) \subseteq {w}}
<1>1. registered \subseteq Work /\ result \in [Work -> Results] /\ Deps \in [Work -> SUBSET Work] /\ IInv
      /\ dropped = {}
  BY WorkAssumption DEF CInv, IInv, CountersExact, TypeOK, Placed
<1>2. Completed' = Completed \union {w}
  BY <1>1 DEF Completed
<1>3. \A u \in registered : Open(u)' = Open(u) \ {w}
  BY <1>1 DEF Open
<1>4. ASSUME NEW u \in Offspring(w)
      PROVE  u \in registered /\ Open(u)' = {} /\ u \notin Leased \union Completed /\ u # w
  <2>1. u \in registered /\ Open(u) = {w} /\ u \notin Leased \union Completed
    BY <1>1, OffspringWaits
  <2>2. Open(u)' = Open(u) \ {w}
    BY <1>3, <2>1
  <2>3. QED
    BY <2>1, <2>2
<1>5. \A u \in registered : w \in Open(u) => u \in Offspring(w)
  BY DEF Open, Offspring
<1>6. Queued' \subseteq {u \in registered : u \notin Leased' \union Completed' /\ Open(u) \subseteq {w}}
  <2>1. Queued' = {u \in registered' : u \notin Leased' \union Completed' /\ Open(u)' = {}}
    BY QueuedWillBe
  <2>2. QED
    BY <1>3, <2>1
<1>7. QED
  BY <1>2, <1>3, <1>4, <1>5, <1>6

\* Seeded windows have a result before them that left a seed, whatever is settled in between.
LEMMA SeedsStep ==
  ASSUME CInv, [CoordinatorNext]_all, IInv', Placed'
  PROVE  Seeds'
<1>0. /\ Seeds /\ IInv /\ IInv' /\ dropped = {} /\ dropped' = {} /\ registered \subseteq Work
      /\ result \in [Work -> Results] /\ book \subseteq Leases /\ active \subseteq Leases
  BY DEF CInv, IInv, CountersExact, TypeOK, Placed, OwnTypes
<1>1. Queued = {w \in registered : w \notin Leased \union Completed /\ Open(w) = {}}
  BY <1>0, QueuedAre
<1>2. Queued' = {w \in registered' : w \notin Leased' \union Completed' /\ Open(w)' = {}}
  BY <1>0, QueuedWillBe
<1>3. CASE Idly
  <2>1. UNCHANGED <<registered, active, result, seeded, branches>>
    BY <1>3, IdleEffect, IdleKeeps
  <2>2. QED
    BY <1>0, <2>1, SeedsKept
<1>4. CASE SubmitOffer \/ AnswerRaises \/ Shutdown \/ Commit \/ \E c \in book : ReductionFails(c)
  <2>1. UNCHANGED <<registered, active, result>>
    BY <1>4, WindowSteps DEF vars, plan
  <2>2. UNCHANGED <<seeded, branches>>
    BY <1>4 DEF SubmitOffer, AnswerRaises, Shutdown, Commit, ReductionFails, hands
  <2>3. QED
    BY <1>0, <2>1, <2>2, SeedsKept
<1>5. CASE \E s \in Slots : Worker(s) \/ Terminate(s)
  <2>1. UNCHANGED <<registered, active, result>>
    BY <1>5, WindowSteps DEF vars, plan
  <2>2. UNCHANGED <<seeded, branches>>
    BY <1>5 DEF Worker, Terminate, own, hands
  <2>3. QED
    BY <1>0, <2>1, <2>2, SeedsKept
<1>6. CASE ClaimNext
  <2>1. PICK s \in Slots : Claim(s)
    BY <1>6 DEF ClaimNext, OnOffer
  <2>2. PICK c \in Leases : /\ c.work \in Queued /\ Leased' = Leased \union {c.work} /\ Completed' = Completed
                            /\ UNCHANGED <<plan, result>>
    BY <1>0, <2>1, ClaimEffect
  <2>3. UNCHANGED <<registered, result, seeded, branches>> /\ branches = {}
    BY <1>6, <2>2 DEF ClaimNext, plan, CInv, Placed
  <2>4. Queued' \subseteq Queued
    BY <1>1, <1>2, <2>2, <2>3 DEF Open
  <2>5. QED
    BY <1>0, <2>2, <2>3, <2>4 DEF Seeds, SeedsDecide
<1>7. CASE SubmitRaises
  <2>1. offer \in active /\ Fail(offer, TRUE)
    BY <1>7 DEF SubmitRaises, Fail, IsCurrent
  <2>2. Leased' = Leased \ {offer.work} /\ Completed' = Completed /\ offer.work \in Leased
    BY <1>0, <2>1, FailPlaces DEF Leased
  <2>3. UNCHANGED <<registered, result, seeded, branches>> /\ branches = {}
    BY <1>7, WindowSteps DEF SubmitRaises, plan, CInv, Placed
  <2>4. Queued' \subseteq Queued \union {offer.work}
    BY <1>1, <1>2, <2>2, <2>3 DEF Open
  <2>5. QED
    BY <1>0, <2>2, <2>3, <2>4 DEF Seeds, SeedsDecide
<1>8. ASSUME NEW c \in book, NEW given \in SUBSET Offspring(c.work), Reduce(c, given)
      PROVE  Seeds'
  <2> DEFINE w == c.work
  <2>1. /\ c \in active /\ Complete(c) /\ UNCHANGED registered /\ result' = [result EXCEPT ![w] = c]
        /\ seeded' = seeded \union given /\ branches' = Offspring(w) \ given /\ branches = {}
        /\ c \in Leases /\ given \subseteq Offspring(w)
    BY <1>0, <1>8 DEF Reduce, Complete, IsCurrent, plan, CInv, Placed, KeepingOnly
  <2>2. w \in registered /\ w \notin Completed /\ Leased' = Leased \ {w} /\ w \in Leased
    BY <1>0, <2>1, CompletePlaces DEF Leased
  <2>3. Open(w) = {} /\ c \notin {Pending, Skipped}
    BY <1>0, <2>1, <2>2, ResultAssumption DEF IInv, GenerationsInOrder, Open, Completed
  <2> HIDE DEF w
  <2>4. /\ Completed' = Completed \union {w}
        /\ \A u \in Offspring(w) : u \in registered /\ Open(u)' = {} /\ u \notin Leased \union Completed /\ u # w
        /\ \A u \in registered : w \in Open(u) => u \in Offspring(w)
        /\ Queued' \subseteq {u \in registered : u \notin Leased' \union Completed' /\ Open(u) \subseteq {w}}
    BY <1>0, <2>1, <2>2, <2>3, SettlingOpens
  <2>5. \A u \in Offspring(w) : u \notin seeded
    <3>1. \A u \in Offspring(w) : w \in Deps[u]
      BY DEF Offspring
    <3>2. result[w] = Pending
      BY <2>2 DEF Completed
    <3>3. QED
      BY <1>0, <3>1, <3>2 DEF Seeds
  <2>6. result'[w] = c /\ \A u \in Work : u # w => result'[u] = result[u]
    BY <1>0, <2>1, <2>2
  <2>7. SeedsDecide'
    <3>1. Leased' \subseteq seeded'
      BY <1>0, <2>1, <2>2 DEF Seeds, SeedsDecide
    <3>2. w \in seeded' /\ result'[w] # Skipped
      BY <1>0, <2>1, <2>2, <2>3, <2>6 DEF Seeds, SeedsDecide
    <3>3. \A u \in Completed : u \notin given /\ u # w /\ u \in Work
      BY <1>0, <2>1, <2>2, <2>4 DEF Completed
    <3>4. \A u \in Completed : result'[u] = Skipped <=> u \notin seeded'
      BY <1>0, <2>1, <2>6, <3>3 DEF Seeds, SeedsDecide
    <3>5. QED
      BY <2>4, <3>1, <3>2, <3>4 DEF SeedsDecide
  <2>8. \A u \in seeded' : u \in registered' /\ \A d \in Deps[u] : result'[d] \notin {Pending, Skipped}
    <3>1. ASSUME NEW u \in seeded
          PROVE  u \in registered' /\ \A d \in Deps[u] : result'[d] \notin {Pending, Skipped}
      <4>1. u \in registered /\ u \in Work /\ \A d \in Deps[u] : d \in Work /\ result[d] \notin {Pending, Skipped}
        BY <1>0, WorkAssumption DEF Seeds
      <4>2. QED
        BY <2>1, <2>3, <2>6, <4>1
    <3>2. ASSUME NEW u \in given
          PROVE  u \in registered' /\ \A d \in Deps[u] : result'[d] \notin {Pending, Skipped}
      <4>1. u \in Offspring(w)
        BY DEF w
      <4>2. u \in registered /\ Deps[u] = {w}
        BY <1>0, <2>2, <4>1, OffspringWaits
      <4>3. QED
        BY <2>1, <2>3, <2>6, <4>2
    <3>3. QED
      BY <2>1, <3>1, <3>2
  <2>9. Queued' \ branches' \subseteq seeded'
    <3>1. ASSUME NEW u \in Queued', u \notin branches'
          PROVE  u \in seeded'
      <4>1. u \in registered /\ u \notin Leased' \union Completed' /\ Open(u) \subseteq {w}
        BY <2>4
      <4>2. u # w /\ u \notin Leased \union Completed
        BY <2>2, <2>4, <4>1
      <4>3. CASE Open(u) = {}
        BY <1>0, <1>1, <2>1, <4>1, <4>2, <4>3 DEF Seeds
      <4>4. CASE w \in Open(u)
        BY <2>1, <2>4, <3>1, <4>1, <4>4
      <4>5. QED
        BY <4>1, <4>3, <4>4
    <3>2. QED
      BY <3>1
  <2>10. branches' \subseteq Queued' \ seeded'
    <3>1. ASSUME NEW u \in Offspring(w), u \notin given
          PROVE  u \in Queued' /\ u \notin seeded'
      <4>1. u \in registered' /\ u \notin Leased' \union Completed' /\ Open(u)' = {}
        BY <2>1, <2>2, <2>4
      <4>2. QED
        BY <1>2, <2>1, <2>5, <3>1, <4>1
    <3>2. QED
      BY <2>1, <3>1
  <2>11. QED
    BY <2>7, <2>8, <2>9, <2>10 DEF Seeds
<1>9. CASE SkipBranch
  <2>1. PICK w \in branches : Skip(w) /\ branches' = (branches \ {w}) \union Offspring(w)
    BY <1>9, SkipSucceeds DEF CInv
  <2>2. /\ w \in registered /\ w \notin Leased \union Completed /\ Open(w) = {} /\ w \notin seeded
        /\ UNCHANGED <<registered, seeded>> /\ result' = [result EXCEPT ![w] = Skipped]
    BY <1>0, <1>1, <1>9, <2>1 DEF Seeds, SkipBranch, Skip, plan
  <2>3. Leased' = Leased
    BY <1>0, <2>1, <2>2, SkipPlaces
  <2>4. /\ Completed' = Completed \union {w}
        /\ \A u \in registered : Open(u)' = Open(u) \ {w}
        /\ \A u \in Offspring(w) : u \in registered /\ Open(u)' = {} /\ u \notin Leased \union Completed /\ u # w
        /\ \A u \in registered : w \in Open(u) => u \in Offspring(w)
        /\ Queued' \subseteq {u \in registered : u \notin Leased' \union Completed' /\ Open(u) \subseteq {w}}
    BY <1>0, <2>2, SettlingOpens, ResultAssumption
  <2>5. result[w] = Pending /\ result'[w] = Skipped /\ \A u \in Work : u # w => result'[u] = result[u]
    BY <1>0, <2>2 DEF Completed
  <2>6. \A u \in seeded : u # w /\ u \notin Offspring(w) /\ w \notin Deps[u]
    BY <1>0, <2>2, <2>5 DEF Seeds, Offspring
  <2>7. SeedsDecide'
    <3>1. \A u \in Completed : u # w /\ u \in Work
      BY <1>0, <2>2 DEF Completed
    <3>2. \A u \in Completed : result'[u] = Skipped <=> u \notin seeded'
      BY <1>0, <2>2, <2>5, <3>1 DEF Seeds, SeedsDecide
    <3>3. Leased' \subseteq seeded' /\ w \notin seeded' /\ result'[w] = Skipped
      BY <1>0, <2>2, <2>3, <2>5 DEF Seeds, SeedsDecide
    <3>4. QED
      BY <2>4, <3>2, <3>3 DEF SeedsDecide
  <2>8. \A u \in seeded' : u \in registered' /\ \A d \in Deps[u] : result'[d] \notin {Pending, Skipped}
    <3>1. ASSUME NEW u \in seeded, NEW d \in Deps[u]
          PROVE  u \in registered /\ result'[d] \notin {Pending, Skipped}
      <4>1. u \in registered /\ d \in Work /\ d # w /\ result[d] \notin {Pending, Skipped}
        BY <1>0, <2>6, WorkAssumption DEF Seeds
      <4>2. QED
        BY <2>5, <4>1
    <3>2. \A u \in seeded : u \in registered
      BY <1>0 DEF Seeds
    <3>3. QED
      BY <2>2, <3>1, <3>2
  <2>9. Queued' \ branches' \subseteq seeded'
    <3>1. ASSUME NEW u \in Queued', u \notin branches'
          PROVE  u \in seeded'
      <4>1. u \in registered /\ u \notin Leased \union Completed /\ u # w /\ Open(u) \subseteq {w}
        BY <2>3, <2>4
      <4>2. u \notin Offspring(w) /\ u \notin branches
        BY <2>1, <3>1, <4>1
      <4>3. Open(u) = {}
        BY <2>4, <4>1, <4>2
      <4>4. QED
        BY <1>0, <1>1, <2>2, <4>1, <4>2, <4>3 DEF Seeds
    <3>2. QED
      BY <3>1
  <2>10. branches' \subseteq Queued' \ seeded'
    <3>1. ASSUME NEW u \in branches, u # w
          PROVE  u \in Queued' /\ u \notin seeded'
      <4>1. u \in registered /\ u \notin Leased \union Completed /\ Open(u) = {} /\ u \notin seeded
        BY <1>0, <1>1 DEF Seeds
      <4>2. u \notin Leased' \union Completed' /\ Open(u)' = {}
        BY <2>3, <2>4, <3>1, <4>1
      <4>3. QED
        BY <1>2, <2>2, <4>1, <4>2
    <3>2. ASSUME NEW u \in Offspring(w)
          PROVE  u \in Queued' /\ u \notin seeded'
      <4>1. u \in registered' /\ u \notin Leased' \union Completed' /\ Open(u)' = {}
        BY <2>2, <2>3, <2>4
      <4>2. QED
        BY <1>2, <2>2, <2>6, <4>1
    <3>3. QED
      BY <2>1, <3>1, <3>2
  <2>11. QED
    BY <2>7, <2>8, <2>9, <2>10 DEF Seeds
<1>10. CASE NextGeneration
  <2>1. PICK S \in SUBSET (Work \ registered) : /\ Register(View1, generation + 1, S)
                                                /\ seeded' = seeded \union {w \in S : Deps[w] = {}}
    BY <1>10 DEF NextGeneration
  <2>2. /\ registered' = registered \union S /\ UNCHANGED <<active, result, branches>> /\ branches = {}
        /\ \A w \in S : Generation[w] = generation + 1
        /\ \A w \in S : \A d \in Deps[w] : d \in registered \union S
    BY <1>10, <2>1 DEF Register, NextGeneration, CInv, Placed, Published, Dependable
  <2>3. \A w \in S : result[w] = Pending
    BY <1>0 DEF IInv, PlanSound
  <2>4. Leased' = Leased /\ Completed' = Completed
    BY <2>2, <2>3 DEF Leased, Completed
  <2>5. \A w \in S : \A d \in Deps[w] : d \in S
    <3>1. ASSUME NEW w \in S, NEW d \in Deps[w], d \in registered
          PROVE  FALSE
      <4>1. Generation[d] = generation + 1
        BY <2>2, CoordinatorAssumption
      <4>2. Generation[d] <= generation /\ generation \in Nat
        BY <3>1, ConstructorAssumption DEF CInv, Planned, OwnTypes, Generations
      <4>3. QED
        BY <4>1, <4>2
    <3>2. QED
      BY <2>2, <3>1
  <2>6. \A w \in S : w \notin Completed /\ w \notin Leased
    <3>1. Leased \subseteq registered
      BY <1>0 DEF IInv, CountersExact, InOnePlace
    <3>2. QED
      BY <3>1 DEF Completed
  <2>7. SeedsDecide'
    BY <1>0, <2>1, <2>2, <2>4, <2>6 DEF Seeds, SeedsDecide
  <2>8. \A u \in seeded' : u \in registered' /\ \A d \in Deps[u] : result'[d] \notin {Pending, Skipped}
    BY <1>0, <2>1, <2>2 DEF Seeds
  <2>9. Queued' \ branches' \subseteq seeded'
    <3>1. ASSUME NEW u \in Queued'
          PROVE  u \in seeded'
      <4>1. u \in registered \union S /\ u \notin Leased \union Completed /\ \A d \in Deps[u] : result[d] # Pending
        BY <1>2, <2>2, <2>4 DEF Open
      <4>2. CASE u \in registered
        BY <1>0, <1>1, <2>1, <2>2, <4>1, <4>2 DEF Seeds, Open
      <4>3. CASE u \in S
        <5>1. Deps[u] = {}
          BY <2>3, <2>5, <4>1, <4>3
        <5>2. QED
          BY <2>1, <4>3, <5>1
      <4>4. QED
        BY <4>1, <4>2, <4>3
    <3>2. QED
      BY <3>1
  <2>10. QED
    BY <2>2, <2>7, <2>8, <2>9 DEF Seeds
<1>11. QED
  BY <1>3, <1>4, <1>5, <1>6, <1>7, <1>8, <1>9, <1>10, CoordinatorCases

-----------------------------------------------------------------------------
(* The books. *)

\* With the books and the leases unchanged, they agree.
LEMMA BooksKept ==
  ASSUME Books, UNCHANGED <<active, book, offer, expected>>
  PROVE  Books'
BY DEF Books

\* While the loop runs, a result is of the open window that was submitted.
LEMMA EventIsBooked ==
  ASSUME CInv, outcome = "running", answers # <<>>
  PROVE  LET e == Head(answers) IN
         /\ e \in Range(answers) /\ e \in Events /\ e.task \in book /\ e.task.slot = e.slot
         /\ expected[e.task.work] = e.task /\ Claimed(e) = {e.task} /\ book \subseteq active
         /\ Verdict(e) \in {"worker error", "reduced"} /\ ~Pool!Stale(e)
<1> DEFINE e == Head(answers)
<1>0. Books /\ Carried /\ IInv /\ PoolTypes
  BY DEF CInv
<1>1. e \in Range(answers) /\ answers \in Seq(Events)
  BY <1>0, TailLoses DEF PoolTypes, Carried
<1>2. e \in Events
  BY <1>0, HeadTailProperties DEF PoolTypes
<1> HIDE DEF e
<1>3. e.task \in book /\ e.task.slot = e.slot
  BY <1>0, <1>1 DEF Carried
<1>4. expected[e.task.work] = e.task /\ book \subseteq active
  BY <1>0, <1>3 DEF Books
<1>5. \A b, c \in active : b.work = c.work => b = c
  BY <1>0 DEF IInv, CountersExact, InOnePlace
<1>6. Claimed(e) = {e.task}
  BY <1>3, <1>4, <1>5 DEF Claimed
<1>7. e.kind \in {"result", "error"}
  BY <1>2 DEF Events
<1>8. ~Pool!Stale(e)
  BY <1>4 DEF Pool!Stale
<1>9. e.kind = "result" => Pool!Accepted(e)
  BY <1>3, <1>4 DEF Pool!Accepted
<1>10. Verdict(e) \in {"worker error", "reduced"}
  BY <1>3, <1>4, <1>6, <1>7, <1>9 DEF Verdict
<1>11. QED
  BY <1>1, <1>2, <1>3, <1>4, <1>6, <1>8, <1>10 DEF e

\* What is reduced is the task of the result, and it leaves the books.
LEMMA ReduceEffect ==
  ASSUME CInv, outcome = "running", NEW c \in book, NEW given, Reduce(c, given)
  PROVE  /\ answers # <<>> /\ Head(answers) \in Range(answers) /\ Head(answers).task = c
         /\ answers' = Tail(answers) /\ UNCHANGED <<inbox, running, alive, offer>>
         /\ expected' = [expected EXCEPT ![c.work] = Nothing]
         /\ book' = book \ {c} /\ active' = active \ {c}
<1>1. Answered(c) /\ PoolTypes /\ book \subseteq Leases /\ c \in active
  BY DEF Reduce, Complete, IsCurrent, CInv, OwnTypes
<1>2. answers # <<>> /\ answers' = Tail(answers) /\ UNCHANGED <<inbox, running, alive>>
      /\ expected' = [expected EXCEPT ![c.work] = Nothing]
  BY <1>1, ReceiveEffect
<1>3. c \in Claimed(Head(answers))
  BY <1>1 DEF Answered
<1>4. Head(answers) \in Range(answers) /\ Claimed(Head(answers)) = {Head(answers).task}
  BY <1>2, EventIsBooked
<1>5. active' = active \ {c}
  <2>1. InOnePlace /\ OneUsePerDevice /\ active' = {b \in active : b.slot # c.slot}
    BY DEF CInv, IInv, CountersExact, Reduce, Complete
  <2>2. QED
    BY <1>1, <2>1, LeaseGivenUp
<1>6. book' = book \ {c} /\ UNCHANGED offer
  BY DEF Reduce
<1>7. QED
  BY <1>2, <1>3, <1>4, <1>5, <1>6

\* While the loop runs, a step keeps the three books together.
LEMMA BooksStep ==
  ASSUME CInv, [CoordinatorNext]_all, outcome = "running", outcome' = "running"
  PROVE  Books'
<1>0. /\ Books /\ active \subseteq Leases /\ Nothing \notin Leases /\ expected \in [Work -> Leases \union {Nothing}]
      /\ \A b, c \in active : b.work = c.work => b = c
  BY CoordinatorAssumption DEF CInv, PoolTypes, IInv, CountersExact, TypeOK, InOnePlace
<1>1. CASE Idly
  <2>1. UNCHANGED <<active, book, offer, expected>>
    BY <1>1, IdleEffect, IdleKeeps
  <2>2. QED
    BY <1>0, <2>1, BooksKept
<1>2. CASE ClaimNext
  <2>1. PICK s \in Slots : Claim(s) /\ offer' = CHOOSE c \in active' : c \notin active
    BY <1>2 DEF ClaimNext, OnOffer
  <2>2. PICK c \in Leases : active' = active \union {c} /\ c \notin active
    BY <2>1, ClaimEffect DEF CInv
  <2>3. offer' = c
    BY <2>1, <2>2
  <2>4. offer = Nothing /\ UNCHANGED <<book, expected>>
    BY <1>2 DEF ClaimNext, pool
  <2>5. QED
    BY <1>0, <2>2, <2>3, <2>4 DEF Books
<1>3. CASE SubmitOffer
  <2>1. /\ offer # Nothing /\ book' = book \union {offer} /\ offer' = Nothing /\ UNCHANGED active
        /\ expected' = [expected EXCEPT ![offer.work] = offer]
    BY <1>3 DEF SubmitOffer, Pool!Submit, vars
  <2>2. offer \in active /\ offer \notin book /\ book \subseteq active /\ offer.work \in Work
    BY <1>0, <2>1 DEF Books, Leases
  <2>3. \A c \in book : c.work # offer.work /\ c.work \in Work
    BY <1>0, <2>2 DEF Leases
  <2>4. active' = book' \union ({offer'} \ {Nothing}) /\ offer' \notin book'
    BY <1>0, <2>1, <2>2 DEF Books
  <2>5. \A w \in Work : expected'[w] # Nothing => expected'[w] \in book' /\ expected'[w].work = w
    BY <1>0, <2>1, <2>2 DEF Books
  <2>6. \A c \in book' : expected'[c.work] = c
    BY <1>0, <2>1, <2>2, <2>3 DEF Books
  <2>7. QED
    BY <2>4, <2>5, <2>6 DEF Books
<1>4. CASE AnswerRaises
  <2>1. answers # <<>>
    BY <1>4 DEF AnswerRaises, Pool!Discard, Pool!Take
  <2>2. ~Pool!Stale(Head(answers)) /\ Verdict(Head(answers)) \in {"worker error", "reduced"}
    BY <2>1, EventIsBooked
  <2>3. QED
    BY <1>4, <2>2 DEF AnswerRaises, Raise
<1>5. ASSUME NEW c \in book, NEW given, Reduce(c, given)
      PROVE  Books'
  <2>1. /\ expected' = [expected EXCEPT ![c.work] = Nothing] /\ UNCHANGED offer
        /\ book' = book \ {c} /\ active' = active \ {c}
    BY <1>5, ReduceEffect
  <2>2. book \subseteq active /\ c.work \in Work /\ offer # c
    BY <1>0 DEF Books, Leases
  <2>3. \A b \in book : b # c => b.work # c.work /\ b.work \in Work
    BY <1>0, <2>2 DEF Leases
  <2>4. active' = book' \union ({offer'} \ {Nothing}) /\ offer' \notin book'
    BY <1>0, <2>1, <2>2 DEF Books
  <2>5. \A w \in Work : expected'[w] # Nothing => w # c.work /\ expected'[w] = expected[w]
    BY <1>0, <2>1, <2>2
  <2>6. \A w \in Work : expected'[w] # Nothing => expected'[w] \in book' /\ expected'[w].work = w
    BY <1>0, <2>1, <2>5 DEF Books
  <2>7. \A b \in book' : expected'[b.work] = b
    BY <1>0, <2>1, <2>3 DEF Books
  <2>8. QED
    BY <2>4, <2>6, <2>7 DEF Books
<1>6. CASE SkipBranch \/ Commit \/ NextGeneration \/ Shutdown
  <2>1. UNCHANGED active
    BY <1>6, WindowSteps DEF NextGeneration, Register, vars
  <2>2. UNCHANGED <<book, offer, expected>>
    BY <1>6 DEF SkipBranch, Commit, NextGeneration, Shutdown, pool, hands, Pool!StopAll
  <2>3. QED
    BY <1>0, <2>1, <2>2, BooksKept
<1>7. ASSUME NEW s \in Slots, Worker(s) \/ Terminate(s)
      PROVE  Books'
  <2>1. UNCHANGED <<active, book, offer>>
    BY <1>7 DEF Worker, Terminate, vars, own, hands
  <2>2. UNCHANGED expected
    BY <1>7 DEF Worker, Terminate, Pool!Child, Pool!Start, Pool!Answer, Pool!Leave, Pool!Die, Pool!Terminate
  <2>3. QED
    BY <1>0, <2>1, <2>2, BooksKept
<1>8. ~SubmitRaises /\ \A c \in book : ~ReductionFails(c)
  BY DEF SubmitRaises, ReductionFails, Raise
<1>9. QED
  BY <1>1, <1>2, <1>3, <1>4, <1>5, <1>6, <1>7, <1>8, CoordinatorCases

-----------------------------------------------------------------------------
(* Where the tasks are. *)

\* While the loop runs, a task is handed on and never copied.
LEMMA CarriedStep ==
  ASSUME CInv, [CoordinatorNext]_all, outcome = "running", outcome' = "running"
  PROVE  Carried'
<1>0. /\ Books /\ Carried /\ PoolTypes /\ OwnTypes /\ Nothing \notin Leases /\ Stop \notin Leases
      /\ active \subseteq Leases /\ book \subseteq Leases
  BY CoordinatorAssumption DEF CInv, OwnTypes, IInv, CountersExact, TypeOK
<1>1. /\ inbox \in [Slots -> Seq(Leases \union {Stop})] /\ running \in [Slots -> Leases \union {Nothing}]
      /\ answers \in Seq(Events) /\ alive \subseteq Slots /\ IsInjective(answers)
      /\ \A s \in Slots : IsInjective(inbox[s])
  BY <1>0 DEF PoolTypes, Carried
<1>2. ASSUME UNCHANGED <<book, inbox, running, alive, answers>>
      PROVE  Carried'
  BY <1>0, <1>2 DEF Carried, Inside, Answering
<1>3. CASE Idly
  <2>1. UNCHANGED <<book, inbox, running, alive, answers>>
    BY <1>3, IdleEffect
  <2>2. QED
    BY <1>2, <2>1
<1>4. CASE ClaimNext \/ SkipBranch \/ Commit \/ NextGeneration
  <2>1. UNCHANGED <<book, inbox, running, alive, answers>>
    BY <1>4 DEF ClaimNext, SkipBranch, Commit, NextGeneration, pool
  <2>2. QED
    BY <1>2, <2>1
<1>5. CASE SubmitOffer
  <2>0. PICK t : t = offer.slot
    OBVIOUS
  <2>1. /\ offer # Nothing /\ book' = book \union {offer} /\ alive = Slots
        /\ inbox' = [inbox EXCEPT ![t] = Append(@, offer)] /\ UNCHANGED <<running, alive, answers>>
    BY <1>5, <2>0 DEF SubmitOffer, Pool!Submit, Pool!AllAlive
  <2>2. offer \in Leases /\ offer \notin book /\ t \in Slots
    BY <1>0, <2>0, <2>1 DEF OwnTypes, Books, Leases
  <2>3. offer \notin Inside(t) /\ \A s \in Slots : running[s] # offer /\ offer \notin Inside(s)
    BY <1>0, <2>1, <2>2 DEF Carried
  <2>4. Inside(t)' = Inside(t) \union {offer} /\ IsInjective(inbox'[t])
    <3>1. /\ Range(Append(inbox[t], offer)) = Range(inbox[t]) \union {offer}
          /\ IsInjective(Append(inbox[t], offer))
      BY <1>1, <2>2, <2>3, AppendAdds DEF Inside
    <3>2. inbox'[t] = Append(inbox[t], offer)
      BY <1>1, <2>1, <2>2
    <3>3. QED
      BY <3>1, <3>2 DEF Inside
  <2>5. \A s \in Slots : s # t => inbox'[s] = inbox[s] /\ Inside(s)' = Inside(s)
    BY <1>1, <2>1 DEF Inside
  <2>6. offer.slot = t
    BY <2>0
  <2>7. Answering' = Answering
    BY <2>1 DEF Answering
  <2>8. \A s \in Slots : /\ \A c \in Inside(s)' : c \in book' /\ c.slot = s /\ c # running'[s]
                         /\ running'[s] # Nothing => running'[s] \in book' /\ running'[s].slot = s
                         /\ IsInjective(inbox'[s])
    BY <1>0, <1>1, <2>1, <2>3, <2>4, <2>5, <2>6 DEF Carried
  <2>9. \A e \in Range(answers) : e.task # offer /\ e.slot \in Slots
    <3>1. Range(answers) \subseteq Events
      BY <1>1, RangeOfSeq
    <3>2. \A e \in Range(answers) : e.slot \in Slots /\ e.task \in book
      BY <1>0, <3>1 DEF Events, Carried
    <3>3. QED
      BY <2>2, <3>2
  <2>10. \A e \in Range(answers') : /\ e.task \in book' /\ e.task.slot = e.slot
                               /\ e.task \notin Inside(e.slot)' /\ running'[e.slot] # e.task
                               /\ \A f \in Range(answers') : f.task = e.task => f = e
    <3>1. \A e \in Range(answers) : Inside(e.slot)' \subseteq Inside(e.slot) \union {offer}
      BY <2>4, <2>5, <2>9
    <3>2. QED
      BY <1>0, <2>1, <2>9, <3>1 DEF Carried
  <2>11. \A c \in book' : c.slot \in alive' => c \in Inside(c.slot)' \/ c = running'[c.slot] \/ c \in Answering'
    <3>1. \A c \in book : c.slot \in Slots => Inside(c.slot) \subseteq Inside(c.slot)'
      BY <2>4, <2>5
    <3>2. \A c \in book : c.slot \in alive' => c \in Inside(c.slot)' \/ c = running'[c.slot] \/ c \in Answering'
      BY <1>0, <1>1, <2>1, <2>7, <3>1 DEF Carried
    <3>3. QED
      BY <2>1, <2>4, <2>6, <3>2
  <2>12. QED
    BY <1>1, <2>1, <2>8, <2>10, <2>11 DEF Carried
<1>6. CASE AnswerRaises
  <2>1. answers # <<>>
    BY <1>6 DEF AnswerRaises, Pool!Discard, Pool!Take
  <2>2. ~Pool!Stale(Head(answers)) /\ Verdict(Head(answers)) \in {"worker error", "reduced"}
    BY <2>1, EventIsBooked
  <2>3. QED
    BY <1>6, <2>2 DEF AnswerRaises, Raise
<1>7. ASSUME NEW c \in book, NEW given, Reduce(c, given)
      PROVE  Carried'
  <2> DEFINE a == Head(answers)
  <2>1. /\ answers # <<>> /\ a \in Range(answers) /\ a.task = c /\ answers' = Tail(answers)
        /\ UNCHANGED <<inbox, running, alive>> /\ book' = book \ {c}
    BY <1>7, ReduceEffect
  <2>2. Range(Tail(answers)) = Range(answers) \ {a} /\ IsInjective(Tail(answers))
    BY <1>1, <2>1, TailLoses
  <2> HIDE DEF a
  <2>3. /\ c.slot = a.slot /\ c \notin Inside(a.slot) /\ running[a.slot] # c
        /\ \A f \in Range(answers) : f.task = c => f = a
    BY <1>0, <2>1 DEF Carried
  <2>4. \A s \in Slots : /\ \A b \in Inside(s) : b \in book' /\ b.slot = s /\ b # running[s]
                         /\ running[s] # Nothing => running[s] \in book' /\ running[s].slot = s
                         /\ IsInjective(inbox[s])
    BY <1>0, <2>1, <2>3 DEF Carried
  <2>5. \A e \in Range(answers') : e \in Range(answers) /\ e.task # c
    BY <2>1, <2>2, <2>3
  <2>6. \A e \in Range(answers') : /\ e.task \in book' /\ e.task.slot = e.slot
                               /\ e.task \notin Inside(e.slot) /\ running[e.slot] # e.task
                               /\ \A f \in Range(answers') : f.task = e.task => f = e
    BY <1>0, <2>1, <2>5 DEF Carried
  <2>7. \A b \in Answering : b # c => b \in Answering'
    BY <2>1, <2>2, <2>3 DEF Answering
  <2>8. \A b \in book' : b.slot \in alive => b \in Inside(b.slot) \/ b = running[b.slot] \/ b \in Answering'
    BY <1>0, <2>1, <2>7 DEF Carried
  <2>9. UNCHANGED <<inbox, running, alive>> /\ \A s : Inside(s)' = Inside(s)
    BY <2>1 DEF Inside
  <2>10. QED
    BY <2>1, <2>2, <2>4, <2>6, <2>8, <2>9 DEF Carried
<1>8. ASSUME NEW s \in Slots, Pool!Start(s), UNCHANGED book
      PROVE  Carried'
  <2> DEFINE h == Head(inbox[s])
  <2>1. /\ running[s] = Nothing /\ inbox[s] # <<>> /\ running' = [running EXCEPT ![s] = h]
        /\ inbox' = [inbox EXCEPT ![s] = Tail(@)] /\ UNCHANGED <<alive, answers>>
    BY <1>8 DEF Pool!Start
  <2>2. h \in Inside(s) /\ Range(Tail(inbox[s])) = Inside(s) \ {h} /\ IsInjective(Tail(inbox[s]))
    BY <1>1, <2>1, TailLoses DEF Inside
  <2> HIDE DEF h
  <2>3. inbox'[s] = Tail(inbox[s]) /\ running'[s] = h
        /\ \A t \in Slots : t # s => inbox'[t] = inbox[t] /\ running'[t] = running[t]
    BY <1>1, <2>1
  <2>4. Inside(s)' = Inside(s) \ {h} /\ \A t \in Slots : t # s => Inside(t)' = Inside(t)
    BY <2>2, <2>3 DEF Inside
  <2>5. h \in book /\ h.slot = s
    BY <1>0, <2>2 DEF Carried
  <2>6. \A t \in Slots : /\ \A c \in Inside(t)' : c \in book /\ c.slot = t /\ c # running'[t]
                         /\ running'[t] # Nothing => running'[t] \in book /\ running'[t].slot = t
                         /\ IsInjective(inbox'[t])
    BY <1>0, <2>2, <2>3, <2>4, <2>5 DEF Carried
  <2>7. \A e \in Range(answers) : e.slot \in Slots
    <3>1. Range(answers) \subseteq Events
      BY <1>1, RangeOfSeq
    <3>2. QED
      BY <3>1 DEF Events
  <2>8. \A e \in Range(answers) : /\ e.task \in book /\ e.task.slot = e.slot
                               /\ e.task \notin Inside(e.slot)' /\ running'[e.slot] # e.task
                               /\ \A f \in Range(answers) : f.task = e.task => f = e
    BY <1>0, <2>2, <2>3, <2>4, <2>7 DEF Carried
  <2>9. \A c \in book : c.slot \in alive => c \in Inside(c.slot)' \/ c = running'[c.slot] \/ c \in Answering
    <3>1. ASSUME NEW c \in book, c.slot \in alive
          PROVE  c \in Inside(c.slot)' \/ c = running'[c.slot] \/ c \in Answering
      <4>1. c \in Inside(c.slot) \/ c = running[c.slot] \/ c \in Answering
        BY <1>0, <3>1 DEF Carried
      <4>2. CASE c.slot # s
        BY <1>1, <2>3, <2>4, <3>1, <4>1, <4>2
      <4>3. CASE c.slot = s
        BY <1>0, <2>1, <2>3, <2>4, <4>1, <4>3
      <4>4. QED
        BY <4>2, <4>3
    <3>2. QED
      BY <3>1
  <2>10. Answering' = Answering
    BY <2>1 DEF Answering
  <2>11. QED
    BY <1>1, <1>8, <2>1, <2>6, <2>8, <2>9, <2>10 DEF Carried
<1>9. ASSUME NEW s \in Slots, NEW kind \in {"result", "error"}, Pool!Answer(s, kind), UNCHANGED book
      PROVE  Carried'
  <2> DEFINE c == running[s]
             a == [kind |-> kind, task |-> c, slot |-> s]
  <2>1. /\ c # Nothing /\ answers' = Append(answers, a) /\ running' = [running EXCEPT ![s] = Nothing]
        /\ UNCHANGED <<inbox, alive>>
    BY <1>9 DEF Pool!Answer
  <2>2. a \in Events /\ a.task = c /\ a.slot = s
    BY <1>1, <2>1 DEF Events
  <2>3. c \in book /\ c.slot = s /\ c \notin Inside(s)
    BY <1>0, <2>1 DEF Carried
  <2>4. \A e \in Range(answers) : e.task # c
    <3>1. \A e \in Range(answers) : e.task.slot = e.slot /\ running[e.slot] # e.task
      BY <1>0 DEF Carried
    <3>2. QED
      BY <2>3, <3>1
  <2> HIDE DEF a
  <2>5. Range(Append(answers, a)) = Range(answers) \union {a} /\ IsInjective(Append(answers, a))
    <3>1. a \notin Range(answers)
      BY <2>2, <2>4
    <3> HIDE DEF c
    <3>2. QED
      BY <1>1, <2>2, <3>1, AppendAdds
  <2>6. running'[s] = Nothing /\ \A t \in Slots : t # s => running'[t] = running[t]
    BY <1>1, <2>1
  <2>7. Answering' = Answering \union {c}
    BY <2>1, <2>2, <2>5 DEF Answering
  <2>8. \A t \in Slots : /\ \A b \in Inside(t) : b \in book /\ b.slot = t /\ b # running'[t]
                         /\ running'[t] # Nothing => running'[t] \in book /\ running'[t].slot = t
                         /\ IsInjective(inbox[t])
    BY <1>0, <2>6 DEF Carried
  <2>9. Range(answers') = Range(answers) \union {a} /\ IsInjective(answers')
    BY <2>1, <2>5
  <2>10. \A e \in Range(answers) : e.slot \in Slots
    <3>1. Range(answers) \subseteq Events
      BY <1>1, RangeOfSeq
    <3>2. QED
      BY <3>1 DEF Events
  <2>11. ASSUME NEW e \in Range(answers')
         PROVE  /\ e.task \in book /\ e.task.slot = e.slot /\ e.task \notin Inside(e.slot) /\ running'[e.slot] # e.task
                /\ \A f \in Range(answers') : f.task = e.task => f = e
    <3>1. CASE e = a
      BY <1>0, <2>2, <2>3, <2>4, <2>6, <2>9, <3>1
    <3>2. CASE e \in Range(answers)
      <4>1. e.task \in book /\ e.task.slot = e.slot /\ e.task \notin Inside(e.slot) /\ running[e.slot] # e.task
            /\ \A f \in Range(answers) : f.task = e.task => f = e
        BY <1>0, <3>2 DEF Carried
      <4>2. running'[e.slot] # e.task
        BY <1>0, <2>6, <2>10, <3>2, <4>1
      <4>3. QED
        BY <2>2, <2>4, <2>9, <3>2, <4>1, <4>2
    <3>3. QED
      BY <2>9, <3>1, <3>2
  <2>12. \A b \in book : b.slot \in alive => b \in Inside(b.slot) \/ b = running'[b.slot] \/ b \in Answering'
    <3>1. ASSUME NEW b \in book, b.slot \in alive
          PROVE  b \in Inside(b.slot) \/ b = running'[b.slot] \/ b \in Answering'
      <4>1. b \in Inside(b.slot) \/ b = running[b.slot] \/ b \in Answering
        BY <1>0, <3>1 DEF Carried
      <4>2. b.slot \in Slots
        BY <1>1, <3>1
      <4>3. QED
        BY <2>6, <2>7, <4>1, <4>2
    <3>2. QED
      BY <3>1
  <2>13. \A t : Inside(t)' = Inside(t)
    BY <2>1 DEF Inside
  <2>14. QED
    BY <1>9, <2>1, <2>8, <2>9, <2>11, <2>12, <2>13 DEF Carried
<1>10. ASSUME NEW s \in Slots, Pool!Terminate(s), UNCHANGED book
       PROVE  Carried'
  <2>1. /\ alive' = alive \ {s} /\ running'[s] = Nothing /\ \A t \in Slots : t # s => running'[t] = running[t]
        /\ UNCHANGED <<inbox, answers>>
    BY <1>1, <1>10 DEF Pool!Terminate
  <2>2. Answering' = Answering /\ \A t : Inside(t)' = Inside(t)
    BY <2>1 DEF Answering, Inside
  <2>3. \A t \in Slots : /\ \A b \in Inside(t) : b \in book /\ b.slot = t /\ b # running'[t]
                         /\ running'[t] # Nothing => running'[t] \in book /\ running'[t].slot = t
                         /\ IsInjective(inbox[t])
    BY <1>0, <2>1 DEF Carried
  <2>4. \A e \in Range(answers) : e.slot \in Slots
    <3>1. Range(answers) \subseteq Events
      BY <1>1, RangeOfSeq
    <3>2. QED
      BY <3>1 DEF Events
  <2>5. \A e \in Range(answers) : running'[e.slot] # e.task
    <3>1. \A e \in Range(answers) : e.task \in book /\ running[e.slot] # e.task
      BY <1>0 DEF Carried
    <3>2. QED
      BY <1>0, <2>1, <2>4, <3>1
  <2>6. \A b \in book : b.slot \in alive' => b \in Inside(b.slot) \/ b = running'[b.slot] \/ b \in Answering
    BY <1>0, <1>1, <2>1 DEF Carried
  <2>7. QED
    BY <1>0, <1>10, <2>1, <2>2, <2>3, <2>5, <2>6 DEF Carried
<1>11. ASSUME NEW s \in Slots, Pool!Leave(s)
       PROVE  FALSE
  <2>1. inbox[s] # <<>> /\ Head(inbox[s]) = Stop
    BY <1>11 DEF Pool!Leave
  <2>2. Head(inbox[s]) \in Inside(s)
    BY <1>1, <2>1, TailLoses DEF Inside
  <2>3. QED
    BY <1>0, <2>1, <2>2 DEF Carried
<1>12. ASSUME NEW s \in Slots, Worker(s) \/ Terminate(s)
       PROVE  Carried'
  <2>1. UNCHANGED book
    BY <1>12 DEF Worker, Terminate, own, hands
  <2>2. Pool!Child(s) \/ Pool!Terminate(s)
    BY <1>12 DEF Worker, Terminate
  <2>3. QED
    BY <1>8, <1>9, <1>10, <1>11, <2>1, <2>2 DEF Pool!Child, Pool!Die
<1>13. ~SubmitRaises /\ ~Shutdown /\ \A c \in book : ~ReductionFails(c)
  BY DEF SubmitRaises, Shutdown, ReductionFails, Raise, CInv, Placed, LoopPlaces
<1>14. QED
  BY <1>3, <1>4, <1>5, <1>6, <1>7, <1>12, <1>13, CoordinatorCases

-----------------------------------------------------------------------------
(* The end of the run, and the loop's own checks. *)

\* When the last generation is settled nothing is open any more.
LEMMA LastIsSettled ==
  ASSUME CInv, LastGeneration
  PROVE  /\ committed = registered /\ active = {} /\ book = {}
         /\ outcome = "running" /\ outcome' = "finished" /\ sealedViews' = Views
<1>0. /\ IInv /\ Planned /\ OwnTypes /\ at = "commit" /\ sealedViews \subseteq Views
  BY DEF CInv, LastGeneration, Published, IInv, CountersExact, TypeOK
<1>1. committed = registered
  BY <1>0, SettledIsPublished DEF LastGeneration, OwnTypes
<1>2. Leased \subseteq registered /\ Leased \cap Completed = {} /\ committed \subseteq Completed
  BY <1>0 DEF IInv, CountersExact, InOnePlace, Frontier
<1>3. active = {}
  BY <1>1, <1>2 DEF Leased
<1>4. outcome = "running" /\ book = {}
  BY <1>0, <1>3 DEF CInv, Placed, LoopPlaces, Books
<1>5. sealedViews' = Views
  BY <1>0, OneView DEF LastGeneration, SealView
<1>6. QED
  BY <1>1, <1>3, <1>4, <1>5 DEF LastGeneration, Raise

\* In the loop nothing is projected, and only the last generation ends it well.
LEMMA LoopSteps ==
  ASSUME CInv, [CoordinatorNext]_all, at \in LoopPlaces
  PROVE  /\ UNCHANGED <<backprojecting, backprojected>>
         /\ at' \notin {"project", "ended"}
         /\ outcome' = "finished" => LastGeneration
<1>0. outcome = "running" /\ at \notin {"shutdown", "join", "project", "ended"}
  BY DEF CInv, Placed, LoopPlaces
<1> USE DEF GoOn, Raise, vars, views
<1>1. CASE MarkReady \/ Dispatched \/ LeaseEnds \/ PollAgain \/ WorkerDied \/ Skipping \/ StartCommit
  BY <1>0, <1>1 DEF MarkReady, Dispatched, LeaseEnds, PollAgain, WorkerDied, Skipping, StartCommit,
        MarkProjectionReady, ClaimCommittable, own
<1>2. CASE CommitRaises \/ Unsettled \/ SealNext \/ ContinuationFails
  BY <1>0, <1>2 DEF CommitRaises, Unsettled, SealNext, ContinuationFails, FailCommit, SealGeneration, Published
<1>3. CASE LastGeneration
  BY <1>0, <1>3 DEF LastGeneration, SealView
<1>4. CASE UNCHANGED all
  BY <1>0, <1>4 DEF all, own
<1>5. CASE ClaimNext \/ SubmitOffer \/ SubmitRaises \/ SkipBranch \/ Commit
  <2>1. UNCHANGED <<backprojecting, backprojected>>
    BY <1>5, WindowSteps
  <2>2. CASE ~SkipBranch
    BY <1>0, <1>5, <2>1, <2>2 DEF ClaimNext, SubmitOffer, SubmitRaises, Commit
  <2>3. CASE SkipBranch
    BY <1>0, <2>1, <2>3, SkipSucceeds DEF CInv
  <2>4. QED
    BY <2>2, <2>3
<1>6. CASE AnswerRaises
  <2>1. Verdict(Head(answers)) # "finished"
    BY DEF Verdict
  <2>2. QED
    BY <1>0, <1>6, <2>1 DEF AnswerRaises
<1>7. CASE \E c \in book : ReductionFails(c) \/ \E given \in SUBSET Offspring(c.work) : Reduce(c, given)
  BY <1>0, <1>7 DEF ReductionFails, Reduce, Complete
<1>8. CASE NextGeneration
  BY <1>0, <1>8 DEF NextGeneration, Register
<1>9. ~Shutdown /\ ~Joined /\ ~Project /\ ~Projected
  BY <1>0 DEF Shutdown, Joined, Project, Projected
<1>10. CASE \E s \in Slots : Worker(s) \/ Terminate(s)
  BY <1>0, <1>10 DEF Worker, Terminate, own
<1>11. QED
  BY <1>1, <1>2, <1>3, <1>4, <1>5, <1>6, <1>7, <1>8, <1>9, <1>10, CoordinatorCases DEF Idly

\* Behind the loop are the shutdown, the projection and what the workers still do.
LEMMA FinalSteps ==
  ASSUME CInv, [CoordinatorNext]_all, at \notin LoopPlaces
  PROVE  \/ Shutdown \/ Joined \/ Project \/ Projected \/ UNCHANGED all
         \/ \E s \in Slots : Worker(s) \/ Terminate(s)
<1>0. /\ at \notin {"open", "dispatch", "redispatch", "wait", "skip", "commit", "seal"}
      /\ offer = Nothing
  BY DEF CInv, Placed, LoopPlaces
<1>1. ~(MarkReady \/ Dispatched \/ LeaseEnds \/ PollAgain \/ WorkerDied \/ Skipping \/ StartCommit)
  BY <1>0 DEF MarkReady, Dispatched, LeaseEnds, PollAgain, WorkerDied, Skipping, StartCommit
<1>2. ~(CommitRaises \/ Unsettled \/ SealNext \/ LastGeneration \/ ContinuationFails \/ NextGeneration)
  BY <1>0 DEF CommitRaises, Unsettled, SealNext, LastGeneration, ContinuationFails, NextGeneration, Published
<1>3. ~(ClaimNext \/ SubmitOffer \/ SubmitRaises \/ SkipBranch \/ Commit \/ AnswerRaises)
  BY <1>0 DEF ClaimNext, SubmitOffer, SubmitRaises, SkipBranch, Commit, AnswerRaises
<1>4. \A c \in book : ~ReductionFails(c) /\ \A given : ~Reduce(c, given)
  BY <1>0 DEF ReductionFails, Reduce
<1>5. QED
  BY <1>1, <1>2, <1>3, <1>4, CoordinatorCases DEF Idly

\* What holds after the loop: only LastGeneration ends it well, and workers do not return.
LEMMA EndedStep ==
  ASSUME CInv, [CoordinatorNext]_all
  PROVE  Ended'
<1>0. Ended
  BY DEF CInv
<1>1. CASE at \in LoopPlaces
  <2>1. backprojecting' = {} /\ backprojected' = {} /\ at' \notin {"project", "ended"}
    BY <1>0, <1>1, LoopSteps DEF Ended, LoopPlaces
  <2>2. CASE LastGeneration
    <3>1. UNCHANGED <<registered, committed, active>>
      BY <2>2, IdleKeeps DEF Idly
    <3>2. QED
      BY <2>1, <2>2, <3>1, LastIsSettled DEF Ended, DevicesAreFreeForProjection
  <2>3. CASE ~LastGeneration
    <3>1. outcome' # "finished"
      BY <1>1, <2>3, LoopSteps
    <3>2. QED
      BY <2>1, <3>1 DEF Ended, DevicesAreFreeForProjection
  <2>4. QED
    BY <2>2, <2>3
<1>2. CASE at \notin LoopPlaces
  <2>1. CASE Shutdown
    BY <1>0, <2>1 DEF Shutdown, GoOn, vars, plan, publication, views, Ended, DevicesAreFreeForProjection, Pool!StopAll
  <2>2. CASE Joined
    BY <1>0, <2>2 DEF Joined, GoOn, vars, plan, publication, views, pool, Ended, DevicesAreFreeForProjection,
          Pool!WorkersSettled
  <2>3. CASE Project \/ Projected
    <3>1. /\ at = "project" /\ outcome = "finished" /\ alive = {} /\ backprojected = {}
          /\ sealedViews = Views /\ committed = registered /\ active = {}
      BY <1>0, <2>3 DEF Project, Projected, Ended
    <3>2. UNCHANGED <<alive, registered, committed, active, sealedViews>>
      BY <2>3 DEF Project, Projected, ClaimBackprojection, CompleteBackprojection, FailBackprojection,
            vars, plan, publication, pool
    <3>3. CASE Project
      BY <3>1, <3>2, <3>3 DEF Project, ClaimBackprojection, vars, views, Ended, DevicesAreFreeForProjection
    <3>4. CASE Projected
      BY <3>1, <3>2, <3>4 DEF Projected, Ended, DevicesAreFreeForProjection
    <3>5. QED
      BY <2>3, <3>3, <3>4
  <2>4. ASSUME NEW s \in Slots, Worker(s) \/ Terminate(s)
        PROVE  Ended'
    <3>1. UNCHANGED <<registered, committed, active, sealedViews, backprojecting, backprojected, at, outcome>>
      BY <2>4 DEF Worker, Terminate, vars, plan, publication, views, own
    <3>2. alive' \subseteq alive
      BY <2>4 DEF Worker, Terminate, Pool!Child, Pool!Start, Pool!Answer, Pool!Leave, Pool!Die, Pool!Terminate
    <3>3. QED
      BY <1>0, <3>1, <3>2 DEF Ended, DevicesAreFreeForProjection
  <2>5. CASE UNCHANGED all
    BY <1>0, <2>5 DEF all, vars, plan, publication, views, pool, own, Ended, DevicesAreFreeForProjection
  <2>6. QED
    BY <1>2, <2>1, <2>2, <2>3, <2>4, <2>5, FinalSteps
<1>3. QED
  BY <1>1, <1>2

\* The least window that is not published can be opened, unless its result is to be
\* published or it is open already.
LEMMA SomethingIsReady ==
  ASSUME CInv, at = "commit", ReadyPrefix = {}, active = {}, ~Settled(View1, generation)
  PROVE  ReadyCount > 0
<1> DEFINE U == registered \ committed
<1>0. /\ IInv /\ Planned /\ dropped = {} /\ projectionReady = Views /\ generation \in Generations
      /\ TypeOK /\ Frontier /\ PlanSound
  BY DEF CInv, OwnTypes, Placed, IInv, CountersExact
<1>1. U # {} /\ U \in SUBSET Work
  <2>1. <<View1, generation>> \in sealedGenerations
    <3>1. generation \in 0..generation
      BY <1>0, ConstructorAssumption DEF Generations
    <3>2. QED
      BY <1>0, <3>1, OneView DEF Planned
  <2>2. CountOf(View1, generation, U) # 0
    BY <1>0, <2>1, OneView DEF Settled, IInv, CountersExact
  <2>3. ASSUME U = {}
        PROVE  FALSE
    <3>1. {w \in U : View[w] = View1 /\ Generation[w] = generation} = {}
      BY <2>3
    <3>2. QED
      BY <2>2, <3>1, FS_EmptySet DEF CountOf
  <2>4. QED
    BY <1>0, <2>3 DEF TypeOK
<1>2. Ahead = U
  BY <1>0, AheadIsUnpublished
<1> HIDE DEF U
<1>3. PICK m \in U : \A u \in U : m <= u
  <2>1. IsFiniteSet(U) /\ \A u \in U : u \in Int
    BY <1>1, WorkSets, WorkAssumption
  <2>2. QED
    BY <1>1, <2>1, Least
<1>4. m \in registered /\ m \in Work /\ m \in Nat
  BY <1>1, WorkAssumption DEF U
<1>5. m \notin Completed
  <2>1. \A u \in U : u <= m => u = m
    BY <1>1, <1>3, <1>4, WorkAssumption
  <2>2. m \in Completed => m \in ReadyPrefix
    BY <1>2, <2>1 DEF ReadyPrefix
  <2>3. QED
    BY <2>2
<1>6. Open(m) = {}
  <2>1. ASSUME NEW d \in Deps[m]
        PROVE  result[d] # Pending
    <3>1. d \in registered /\ d < m /\ d \in Nat
      BY <1>0, <1>4, WorkAssumption DEF PlanSound, Dependable
    <3>2. d \notin U
      BY <1>3, <1>4, <3>1
    <3>3. QED
      BY <1>0, <3>1, <3>2 DEF U, Frontier, Completed
  <2>2. QED
    BY <2>1 DEF Open
<1>7. m \in Queued
  BY <1>0, <1>4, <1>5, <1>6, QueuedAre DEF Leased
<1>8. Claimable(m)
  <2>1. GenerationReady(m)
    BY <1>0, <1>7, QueuedIsReady
  <2>2. View[m] \in projectionReady
    BY <1>0, <1>4, OneView
  <2>3. QED
    BY <2>1, <2>2 DEF Claimable
<1>9. PICK o \in Devices : \E i \in DOMAIN queue[o] : queue[o][i] = m
  BY <1>7 DEF Queued, Range
<1>10. PICK i \in OwnPositions(o) : queue[o][i] = m
  BY <1>8, <1>9 DEF OwnPositions
<1> DEFINE R == UNION {{queue[d][j] : j \in OwnPositions(d)} : d \in Devices}
<1>11. m \in R
  BY <1>10
<1>12. R \in SUBSET Work
  <2>1. \A d \in Devices : \A j \in DOMAIN queue[d] : queue[d][j] \in Work
    BY <1>0 DEF TypeOK
  <2>2. QED
    BY <2>1 DEF OwnPositions
<1>13. ReadyCount = Cardinality(R)
  BY DEF ReadyCount
<1> HIDE DEF R
<1>14. IsFiniteSet(R) /\ Cardinality(R) \in Nat
  BY <1>12, WorkSets
<1>15. Cardinality(R) # 0
  BY <1>11, <1>14, FS_EmptySet
<1>16. QED
  BY <1>13, <1>14, <1>15

\* No step fails one of the checks of the loop.
LEMMA AssertionsStep ==
  ASSUME CInv, [CoordinatorNext]_all
  PROVE  AssertionsHold'
<1>0. AssertionsHold
  BY DEF CInv
<1>1. CASE at \in LoopPlaces
  <2>0. outcome = "running"
    BY <1>1 DEF CInv, Placed
  <2>1. CASE CommitRaises
    <3>1. batch \subseteq Completed \ committed
      BY DEF CInv, IInv, Frontier
    <3>2. Unreduced = {}
      BY <3>1 DEF Unreduced, CInv, Reductions
    <3>3. QED
      BY <2>1, <3>2 DEF CommitRaises, Raise, AssertionsHold
  <2>2. CASE Unsettled
    <3>1. at = "commit" /\ ReadyPrefix = {} /\ ~Settled(View1, generation)
      BY <2>2 DEF Unsettled, Published
    <3>2. offer = Nothing /\ active = book
      BY <2>0, <3>1 DEF CInv, Placed, Books
    <3>3. book = {} => ReadyCount > 0
      BY <3>1, <3>2, SomethingIsReady
    <3>4. QED
      BY <1>0, <2>2, <3>3 DEF Unsettled, GoOn, Raise, AssertionsHold
  <2>3. CASE LastGeneration
    BY <2>3, LastIsSettled DEF AssertionsHold
  <2>4. CASE AnswerRaises
    <3>1. answers # <<>>
      BY <2>4 DEF AnswerRaises, Pool!Discard, Pool!Take
    <3>2. Verdict(Head(answers)) \in {"worker error", "reduced"}
      BY <2>0, <3>1, EventIsBooked
    <3>3. QED
      BY <1>0, <2>4, <3>2 DEF AnswerRaises, Raise, GoOn, AssertionsHold
  <2>5. CASE SkipBranch
    <3>1. UNCHANGED outcome
      BY <2>5, SkipSucceeds DEF CInv
    <3>2. QED
      BY <1>0, <3>1 DEF AssertionsHold
  <2>6. CASE MarkReady \/ Dispatched \/ LeaseEnds \/ PollAgain \/ WorkerDied \/ Skipping \/ StartCommit
    BY <1>0, <2>6 DEF MarkReady, Dispatched, LeaseEnds, PollAgain, WorkerDied, Skipping, StartCommit, own, GoOn, Raise,
          AssertionsHold
  <2>7. CASE SealNext \/ ContinuationFails \/ NextGeneration \/ Commit
    BY <1>0, <2>7 DEF SealNext, ContinuationFails, NextGeneration, Commit, GoOn, Raise, AssertionsHold
  <2>8. CASE ClaimNext \/ SubmitOffer \/ SubmitRaises
    BY <1>0, <2>8 DEF ClaimNext, SubmitOffer, SubmitRaises, Raise, AssertionsHold
  <2>9. CASE \E c \in book : ReductionFails(c) \/ \E given \in SUBSET Offspring(c.work) : Reduce(c, given)
    BY <1>0, <2>9 DEF ReductionFails, Reduce, GoOn, Raise, AssertionsHold
  <2>10. CASE (\E s \in Slots : (Worker(s) \/ Terminate(s))) \/ UNCHANGED all
    BY <1>0, <2>10 DEF Worker, Terminate, all, own, AssertionsHold
  <2>11. ~Shutdown /\ ~Joined /\ ~Project /\ ~Projected
    BY <1>1 DEF LoopPlaces, Shutdown, Joined, Project, Projected
  <2>12. QED
    BY <2>1, <2>2, <2>3, <2>4, <2>5, <2>6, <2>7, <2>8, <2>9, <2>10, <2>11, CoordinatorCases DEF Idly
<1>2. CASE at \notin LoopPlaces
  <2>1. CASE Project
    <3>1. /\ outcome = "finished" /\ sealedViews = Views /\ committed = registered /\ active = {}
          /\ backprojecting = {} /\ backprojected = {} /\ Initial \subseteq registered
      BY <2>1 DEF Project, CInv, Ended, Planned
    <3>2. Of(View1, registered) # {}
      <4>1. PICK w \in Initial : View[w] = View1
        BY OneView DEF Views
      <4>2. QED
        BY <3>1, <4>1 DEF Of
    <3>3. Of(View1, registered) \subseteq committed
      BY <3>1 DEF Of
    <3>4. Projectable
      BY <3>1, <3>2, <3>3, OneView DEF Projectable, Returnable, BusyDevices, BusySlots
    <3>5. QED
      BY <1>0, <2>1, <3>4 DEF Project, AssertionsHold
  <2>2. CASE Shutdown \/ Joined \/ Projected
    BY <1>0, <2>2 DEF Shutdown, Joined, Projected, GoOn, AssertionsHold
  <2>3. CASE (\E s \in Slots : (Worker(s) \/ Terminate(s))) \/ UNCHANGED all
    BY <1>0, <2>3 DEF Worker, Terminate, all, own, AssertionsHold
  <2>4. QED
    BY <1>2, <2>1, <2>2, <2>3, FinalSteps
<1>3. QED
  BY <1>1, <1>2

-----------------------------------------------------------------------------
(* The invariant. *)

\* The invariant holds at the start ...
LEMMA CInit == CoordinatorInit => CInv
<1> SUFFICES ASSUME CoordinatorInit PROVE CInv
  OBVIOUS
<1>0. /\ Init /\ Pool!PoolInit /\ at = "open" /\ turn = 0 /\ offer = Nothing /\ book = {} /\ reduced = {}
      /\ branches = {} /\ seeded = {w \in Initial : Deps[w] = {}} /\ generation = 0 /\ forced = {}
      /\ outcome = "running"
  BY DEF CoordinatorInit
<1>1. IInv
  BY <1>0, InitIsSound
<1>2. /\ registered = Initial /\ committed = {} /\ active = {} /\ result = [w \in Work |-> Pending]
      /\ dropped = {} /\ backprojecting = {} /\ backprojected = {} /\ Initial \subseteq Work
      /\ sealedGenerations = {x \in Views \X Generations : x[2] \in GenerationsOf(x[1], Initial)}
  BY <1>0, WorkAssumption DEF Init
<1>3. Leased = {} /\ Completed = {}
  BY <1>2 DEF Leased, Completed
<1>4. OwnTypes
  <2>1. 0 \in Generations
    BY ConstructorAssumption DEF Generations
  <2>2. 0 \in 0..Cardinality(Slots)
    BY SlotCount
  <2>3. QED
    BY <1>0, <1>2, <2>1, <2>2 DEF OwnTypes, Places
<1>5. /\ inbox = [s \in Slots |-> <<>>] /\ running = [s \in Slots |-> Nothing] /\ alive = Slots /\ answers = <<>>
      /\ expected = [w \in Work |-> Nothing]
  BY <1>0 DEF Pool!PoolInit
<1>6. PoolTypes
  BY <1>5 DEF PoolTypes
<1>7. Placed
  BY <1>0, <1>2 DEF Placed, LoopPlaces
<1>8. Planned
  <2>1. \A w \in Initial : Generation[w] = 0
    BY CoordinatorAssumption
  <2>2. \A v \in Views : <<v, 0>> \in sealedGenerations
    <3>1. ASSUME NEW v \in Views
          PROVE  0 \in GenerationsOf(v, Initial) /\ 0 \in Generations
      <4>1. PICK w \in Initial : View[w] = v
        BY DEF Views
      <4>2. QED
        BY <2>1, <4>1, ConstructorAssumption DEF GenerationsOf, Generations
    <3>2. QED
      BY <1>2, <3>1
  <2>3. \A g \in 0..generation : g = 0
    BY <1>0
  <2>4. QED
    BY <1>0, <1>2, <2>1, <2>2, <2>3 DEF Planned
<1>9. Seeds
  <2>1. Queued \subseteq seeded
    <3>1. Queued = {w \in registered : w \notin Leased \union Completed /\ Open(w) = {}}
      BY <1>1, <1>2, QueuedAre
    <3>2. \A w \in registered : Open(w) = {} => Deps[w] = {}
      BY <1>2, WorkAssumption DEF Open
    <3>3. QED
      BY <1>0, <1>2, <3>1, <3>2
  <2>2. QED
    BY <1>0, <1>2, <1>3, <2>1 DEF Seeds, SeedsDecide
<1>10. Reductions
  BY <1>3 DEF Reductions
<1>11. Books
  BY <1>0, <1>2, <1>5 DEF Books
<1>12. Carried
  <2>1. \A s \in Slots : Inside(s) = {} /\ IsInjective(inbox[s])
    BY <1>5 DEF Inside, Range, IsInjective
  <2>2. Range(answers) = {} /\ IsInjective(answers)
    BY <1>5 DEF Range, IsInjective
  <2>3. QED
    BY <1>0, <1>5, <2>1, <2>2 DEF Carried
<1>13. Ended /\ AssertionsHold
  BY <1>0, <1>2 DEF Ended, DevicesAreFreeForProjection, AssertionsHold
<1>14. QED
  BY <1>1, <1>4, <1>6, <1>7, <1>8, <1>9, <1>10, <1>11, <1>12, <1>13 DEF CInv

\* ... is kept by every step ...
LEMMA CInvStep == CInv /\ [CoordinatorNext]_all => CInv'
<1> SUFFICES ASSUME CInv, [CoordinatorNext]_all PROVE CInv'
  OBVIOUS
<1>1. IInv'
  BY SchedulerStep, IInvStep DEF CInv
<1>2. Placed'
  BY PlacedStep
<1>3. Seeds'
  BY <1>1, <1>2, SeedsStep
<1>4. OwnTypes' /\ PoolTypes'
  BY TypesStep
<1>5. Planned' /\ Reductions' /\ Ended' /\ AssertionsHold'
  BY PlannedStep, ReductionsStep, EndedStep, AssertionsStep
<1>6. outcome' = "running" => outcome = "running"
  <2>1. CASE at \in LoopPlaces
    BY <2>1 DEF CInv, Placed
  <2>2. CASE at \notin LoopPlaces
    <3>1. outcome # "running"
      BY <2>2 DEF CInv, Placed
    <3>2. QED
      BY <2>2, <3>1, FinalSteps DEF Shutdown, Joined, Project, Projected, GoOn, Worker, Terminate, all, own
  <2>3. QED
    BY <2>1, <2>2
<1>7. outcome' = "running" => Books' /\ Carried'
  BY <1>6, BooksStep, CarriedStep
<1>8. QED
  BY <1>1, <1>2, <1>3, <1>4, <1>5, <1>7 DEF CInv

\* ... and so holds always.
LEMMA CInvIsInductive == CoordinatorSpec => []CInv
BY CInit, CInvStep, PTL DEF CoordinatorSpec

\* A task the pool has travels once: it is in its slot's queue or process, or among the
\* answers, or it was lost with its worker.
LEMMA TravelsOnce ==
  ASSUME CInv, outcome = "running", NEW c \in book
  PROVE  Travelling(c) = 1 \/ (Travelling(c) = 0 /\ c.slot \notin alive)
<1> DEFINE A == {s \in Slots : c = running[s]}
           I == {i \in DOMAIN inbox[c.slot] : inbox[c.slot][i] = c}
           B == {i \in DOMAIN answers : answers[i].task = c}
<1>0. Carried /\ Books /\ book \subseteq Leases /\ Nothing \notin Leases
  BY CoordinatorAssumption DEF CInv, OwnTypes
<1>1. c.slot \in Slots /\ c # Nothing
  BY <1>0 DEF Leases
<1>2. A = IF c = running[c.slot] THEN {c.slot} ELSE {}
  BY <1>0, <1>1 DEF Carried
<1>3. ASSUME c \in Inside(c.slot)
      PROVE  c # running[c.slot] /\ \E i : I = {i}
  <2>1. c # running[c.slot] /\ IsInjective(inbox[c.slot])
    BY <1>0, <1>1, <1>3 DEF Carried
  <2>2. PICK i \in DOMAIN inbox[c.slot] : inbox[c.slot][i] = c
    BY <1>3 DEF Inside, Range
  <2>3. \A j \in DOMAIN inbox[c.slot] : inbox[c.slot][j] = c => j = i
    BY <2>1, <2>2 DEF IsInjective
  <2>4. I = {i}
    BY <2>2, <2>3
  <2>5. QED
    BY <2>1, <2>4
<1>4. c \notin Inside(c.slot) => I = {}
  BY DEF Inside, Range
<1>5. c \in Answering => c \notin Inside(c.slot) /\ c # running[c.slot]
  BY <1>0 DEF Carried, Answering
<1>6. c \in Answering => \E i : B = {i}
  <2>1. ASSUME NEW i \in DOMAIN answers, NEW j \in DOMAIN answers, answers[i].task = c, answers[j].task = c
        PROVE  i = j
    <3>1. answers[i] \in Range(answers) /\ answers[j] \in Range(answers)
      BY DEF Range
    <3>2. answers[i] = answers[j]
      BY <1>0, <2>1, <3>1 DEF Carried
    <3>3. QED
      BY <1>0, <3>2 DEF Carried, IsInjective
  <2>2. ASSUME c \in Answering
        PROVE  \E i \in DOMAIN answers : answers[i].task = c
    BY <2>2 DEF Answering, Range
  <2>3. QED
    BY <2>1, <2>2
<1>7. c \notin Answering => B = {}
  BY DEF Answering, Range
<1>8. Travelling(c) = Cardinality(A \union I) + Cardinality(B)
  BY DEF Travelling
<1>9. c.slot \in alive => c \in Inside(c.slot) \/ c = running[c.slot] \/ c \in Answering
  BY <1>0 DEF Carried
<1> HIDE DEF A, I, B
<1>10. \A x : Cardinality({x}) = 1
  BY FS_Singleton
<1>11. Cardinality({}) = 0
  BY FS_EmptySet
<1>12. CASE c \in Answering
  <2>1. A \union I = {}
    BY <1>2, <1>4, <1>5, <1>12
  <2>2. Cardinality(B) = 1
    BY <1>6, <1>10, <1>12
  <2>3. QED
    BY <1>8, <1>11, <2>1, <2>2
<1>13. CASE c \notin Answering
  <2>1. Cardinality(B) = 0
    BY <1>7, <1>11, <1>13
  <2>2. CASE c \in Inside(c.slot)
    <3>1. \E i : A \union I = {i}
      BY <1>2, <1>3, <2>2
    <3>2. Cardinality(A \union I) = 1
      BY <1>10, <3>1
    <3>3. QED
      BY <1>8, <2>1, <3>2
  <2>3. CASE c \notin Inside(c.slot) /\ c = running[c.slot]
    <3>1. A \union I = {c.slot}
      BY <1>2, <1>4, <2>3
    <3>2. Cardinality(A \union I) = 1
      BY <1>10, <3>1
    <3>3. QED
      BY <1>8, <2>1, <3>2
  <2>4. CASE c \notin Inside(c.slot) /\ c # running[c.slot]
    <3>1. A \union I = {} /\ c.slot \notin alive
      BY <1>2, <1>4, <1>9, <1>13, <2>4
    <3>2. QED
      BY <1>8, <1>11, <2>1, <3>1
  <2>5. QED
    BY <2>2, <2>3, <2>4
<1>14. QED
  BY <1>12, <1>13

-----------------------------------------------------------------------------
(* The coordinator drives the scheduler only through the scheduler's own steps: whatever
   the workers do, its runs are runs of LtaScheduler, and what is proved of the scheduler
   holds in them (_drive_windows_with_coverage, lta_window_execution.py). *)
THEOREM CoordinatorUsesTheScheduler == CoordinatorSpec => Spec
<1>1. CoordinatorInit => Init
  BY DEF CoordinatorInit
<1>2. CInv /\ [CoordinatorNext]_all => [Next]_vars
  BY SchedulerStep
<1>3. QED
  BY <1>1, <1>2, CInvIsInductive, PTL DEF CoordinatorSpec, Spec

\* None of the loop's own checks ever fails, and while it runs the scheduler's leases, the
\* coordinator's `active` and the attempts the pool expects agree: each open window is in one
\* place, or was lost with its worker (_dispatch_available, _wait_for_result and the checks at
\* lta_window_execution.py:289-298, 376, 429-435).
THEOREM BooksStaySound == CoordinatorSpec => []BooksAreSound
<1>1. CInv => BooksAreSound
  <2> SUFFICES ASSUME CInv PROVE BooksAreSound
    OBVIOUS
  <2>1. AssertionsHold
    BY DEF CInv
  <2>2. ASSUME outcome = "running"
        PROVE  /\ CoordinatorTypeOK
               /\ active = book \union ({offer} \ {Nothing})
               /\ {expected[w] : w \in Work} \ {Nothing} = book
               /\ \A c \in book : Travelling(c) = 1 \/ (Travelling(c) = 0 /\ c.slot \notin alive)
               /\ \A s \in Slots : Range(inbox[s]) \union {running[s]} \subseteq book \union {Nothing}
               /\ \A i \in DOMAIN answers : answers[i].task \in book
    <3>0. Books /\ Carried /\ OwnTypes /\ Nothing \notin Leases
      BY <2>2, CoordinatorAssumption DEF CInv
    <3>1. CoordinatorTypeOK
      <4>1. TypeOK
        BY DEF CInv, IInv, CountersExact
      <4>2. QED
        BY <3>0, <4>1 DEF OwnTypes, CoordinatorTypeOK
    <3>2. active = book \union ({offer} \ {Nothing})
      BY <3>0 DEF Books
    <3>3. {expected[w] : w \in Work} \ {Nothing} = book
      <4>1. \A c \in book : c.work \in Work /\ expected[c.work] = c /\ c # Nothing
        BY <3>0 DEF Books, OwnTypes, Leases
      <4>2. \A w \in Work : expected[w] # Nothing => expected[w] \in book
        BY <3>0 DEF Books
      <4>3. QED
        BY <4>1, <4>2
    <3>4. \A s \in Slots : Range(inbox[s]) \union {running[s]} \subseteq book \union {Nothing}
      BY <3>0 DEF Carried, Inside
    <3>5. \A i \in DOMAIN answers : answers[i].task \in book
      BY <3>0 DEF Carried, Range
    <3>6. QED
      BY <2>2, <3>1, <3>2, <3>3, <3>4, <3>5, TravelsOnce
  <2>3. QED
    BY <2>1, <2>2 DEF BooksAreSound, BooksAgree
<1>2. QED
  BY <1>1, CInvIsInductive, PTL

\* A window is opened only from a seed its predecessor left and skipped only without one
\* (_reduce_result and skip_branch, lta_window_execution.py).
THEOREM SeedsAlwaysDecide == CoordinatorSpec => []SeedsDecide
<1>1. CInv => SeedsDecide
  BY DEF CInv, Seeds
<1>2. QED
  BY <1>1, CInvIsInductive, PTL

\* The view is projected back only when every worker process has gone and every planned
\* window is published (shutdown and the projection, lta_execution.py).
THEOREM DevicesAreFree == CoordinatorSpec => []DevicesAreFreeForProjection
<1>1. CInv => DevicesAreFreeForProjection
  BY DEF CInv, Ended
<1>2. QED
  BY <1>1, CInvIsInductive, PTL

\* What the coordinator publishes and returns is what the abstract publication allows.
THEOREM CoordinatorPublishesInOrder == CoordinatorSpec => ImplementsPublication
BY CoordinatorUsesTheScheduler, SchedulerPublishesInOrder

=============================================================================
