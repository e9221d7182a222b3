---------------------------- MODULE LtaScheduler ----------------------------
(***************************************************************************)
(* LtaViewAffinityScheduler of src/XTA/lta_scheduler.py: which GPU session *)
(* runs which window of which view, in what order the results are          *)
(* published, and when a view may be projected back.                       *)
(*                                                                         *)
(* One coordinator thread makes every call, so an action is one call that  *)
(* does not raise.  A work item is its plan_order, a natural number unique *)
(* by construction.  Claims are compared by identity in the code: a lease  *)
(* is a record whose `token` differs between two claims of the same work,  *)
(* because at least one failed lease lies between them.                    *)
(***************************************************************************)
EXTENDS Naturals, Sequences, FiniteSets, Functions, Totals

CONSTANTS
  Work,              \* every session the run may ever plan, by plan_order
  Initial,           \* those given to the constructor
  View, Generation, Cost, Deps, TailEligible,   \* fields of LtaSessionWork, functions
  Devices,
  Owner,             \* the device of each view (assign_view_owners)
  WorkersPerDevice, MaxGeneration, AllowTailAssist,
  HeadOrder,         \* helper_queue_order = "head"
  MaxFailures,       \* bound: failed leases, batches and backprojections
  Pending,           \* no result yet: the work is no key of _completed
  Skipped            \* the result given to skip_pending

Views == {View[w] : w \in Initial}
Generations == 0..MaxGeneration
GenerationsOf(v, S) == {Generation[w] : w \in {u \in S : View[u] = v}}

\* _validate_dependencies
Dependable(S, available) ==
  \A w \in S : \A d \in Deps[w] :
     d \in available /\ View[d] = View[w] /\ d < w /\ Generation[d] <= Generation[w]

ASSUME WorkAssumption ==
  /\ Work \subseteq Nat /\ IsFiniteSet(Work)
  /\ Initial \subseteq Work
  /\ {Generation, Cost} \subseteq [Work -> Nat]
  /\ DOMAIN View = Work
  /\ Deps \in [Work -> SUBSET Work]
  /\ TailEligible \in [Work -> BOOLEAN]

ASSUME ConstructorAssumption ==
  /\ IsFiniteSet(Devices) /\ Owner \in [Views -> Devices]
  /\ WorkersPerDevice \in 1..4
  /\ {MaxGeneration, MaxFailures} \subseteq Nat
  /\ {AllowTailAssist, HeadOrder} \subseteq BOOLEAN
  /\ Dependable(Initial, Initial)
  /\ \A v \in Views : \A w \in Initial : View[w] = v =>
       0..Generation[w] \subseteq GenerationsOf(v, Initial) \cap Generations

Slots == [device : Devices, index : 0..(WorkersPerDevice - 1)]
Leases == [work : Work, slot : Slots, token : Nat]
Results == Leases \union {Pending, Skipped}
ASSUME ResultAssumption == Pending # Skipped /\ {Pending, Skipped} \cap Leases = {}

VARIABLES
  registered,    \* work, as a set; its order is the plan order
  generations,   \* _generations_by_view
  sealedGenerations, sealedViews,
  queue,         \* _queues
  waiting,       \* _waiting_dependencies; its inverse is _dependency_children
  projectionReady,
  active,        \* the values of _active_by_slot
  result,        \* _completed: the lease whose completion was accepted
  uncommitted,   \* _generation_uncommitted
  cursor, committed,   \* _commit_cursor, _committed_ids
  batch,         \* entries of _active_commit_claim; {} when it is None
  backprojecting, backprojected,   \* _backprojection_claimed, _backprojected
  failedLeases,  \* claims the coordinator has given to fail
  dropped,       \* work failed without a retry
  failures       \* so many of MaxFailures are used up

plan == <<registered, generations, sealedGenerations, sealedViews, projectionReady>>
publication == <<uncommitted, cursor, committed, batch>>
views == <<backprojecting, backprojected>>
faults == <<failedLeases, dropped, failures>>
vars == <<plan, queue, waiting, active, result, publication, views, faults>>

Completed == {w \in registered : result[w] # Pending}
Leased == {c.work : c \in active}
BusySlots == {c.slot : c \in active}
BusyDevices == {s.device : s \in BusySlots}
Of(v, S) == {w \in S : View[w] = v}

\* The position of w in the sequence sorted by plan order.
Before(w, S) == Cardinality({u \in S : u < w})
InPlanOrder(S) == [i \in 1..Cardinality(S) |-> CHOOSE w \in S : Before(w, S) = i - 1]
Without(q, i) == SubSeq(q, 1, i - 1) \o SubSeq(q, i + 1, Len(q))

CountOf(v, g, S) == Cardinality({w \in S : View[w] = v /\ Generation[w] = g})

\* The dependencies a newly registered work still waits for.
Open(w) == {d \in Deps[w] : result[d] = Pending}
Runnable(v, S) == {w \in S : View[w] = v /\ Open(w) = {}}

Init ==
  /\ registered = Initial
  /\ generations = [v \in Views |-> GenerationsOf(v, Initial)]
  /\ sealedGenerations = {x \in Views \X Generations : x[2] \in GenerationsOf(x[1], Initial)}
  /\ sealedViews = {} /\ projectionReady = {}
  /\ queue = [d \in Devices |->
                InPlanOrder({w \in Initial : Owner[View[w]] = d /\ Deps[w] = {}})]
  /\ waiting = [w \in Work |-> IF w \in Initial THEN Deps[w] ELSE {}]
  /\ active = {}
  /\ result = [w \in Work |-> Pending]
  /\ uncommitted = [x \in Views \X Generations |-> CountOf(x[1], x[2], Initial)]
  /\ cursor = 0 /\ committed = {} /\ batch = {}
  /\ backprojecting = {} /\ backprojected = {}
  /\ failedLeases = {} /\ dropped = {} /\ failures = 0
-----------------------------------------------------------------------------
(* Generations.                                                            *)

SettledWhenSealed(v, g) == <<v, g>> \in sealedGenerations   \* mutant: published or not
Settled(v, g) == <<v, g>> \in sealedGenerations /\ uncommitted[<<v, g>>] = 0

Highest(v) == CHOOSE g \in generations[v] : \A h \in generations[v] : h <= g

\* The first call for a generation comes after the preceding one is settled.
Opens(v, g) == g \in generations[v] \/ (g = Highest(v) + 1 /\ Settled(v, Highest(v)))

Follows(S) == \A w \in S : \A u \in registered : u < w

\* register_generation: the work follows everything registered, joins the
\* view's queue or waits for its dependencies.
Register(v, g, S) ==
  /\ g <= MaxGeneration
  /\ v \notin sealedViews \union backprojecting \union backprojected
  /\ <<v, g>> \notin sealedGenerations
  /\ Opens(v, g)
  /\ \A w \in S : View[w] = v /\ Generation[w] = g
  /\ Follows(S)
  /\ Dependable(S, registered \union S)
  /\ generations' = [generations EXCEPT ![v] = @ \union {g}]
  /\ registered' = registered \union S
  /\ uncommitted' = [uncommitted EXCEPT ![<<v, g>>] = @ + Cardinality(S)]
  /\ waiting' = [w \in Work |-> IF w \in S THEN Open(w) ELSE waiting[w]]
  /\ queue' = [queue EXCEPT ![Owner[v]] = @ \o InPlanOrder(Runnable(v, S))]
  /\ UNCHANGED <<sealedGenerations, sealedViews, projectionReady, active, result,
                 cursor, committed, batch, views, faults>>

SealGeneration(v, g) ==
  /\ g \in generations[v] /\ <<v, g>> \notin sealedGenerations
  /\ sealedGenerations' = sealedGenerations \union {<<v, g>>}
  /\ UNCHANGED <<registered, generations, sealedViews, projectionReady, queue, waiting,
                 active, result, publication, views, faults>>

SealView(v) ==
  /\ v \notin sealedViews
  /\ \A g \in generations[v] : Settled(v, g)
  /\ sealedViews' = sealedViews \union {v}
  /\ UNCHANGED <<registered, generations, sealedGenerations, projectionReady, queue, waiting,
                 active, result, publication, views, faults>>

\* mark_projection_ready, by the view's owner.
MarkProjectionReady(v) ==
  /\ v \notin projectionReady
  /\ projectionReady' = projectionReady \union {v}
  /\ UNCHANGED <<registered, generations, sealedGenerations, sealedViews, queue, waiting,
                 active, result, publication, views, faults>>
-----------------------------------------------------------------------------
(* Sessions.                                                               *)

GenerationReady(w) ==
  /\ \A d \in Deps[w] : result[d] # Pending
  /\ <<View[w], Generation[w]>> \in sealedGenerations
  /\ \A g \in 0..(Generation[w] - 1) : Settled(View[w], g)

Claimable(w) == View[w] \in projectionReady /\ GenerationReady(w)

\* Positions of a queue its own device may open, and those a helper may.
OwnPositions(d) == {i \in DOMAIN queue[d] : Claimable(queue[d][i])}
HelpPositions(o) == {i \in OwnPositions(o) : TailEligible[queue[o][i]]}
Reached(i, I) == i \in I /\ \A j \in I : IF HeadOrder THEN i <= j ELSE j <= i

Remaining(o) == Total(Cost, Range(queue[o]))

\* The candidate of queue o precedes that of queue p: most work left, then the
\* view, then the device.
Prefers(o, i, p, j) ==
  \/ Remaining(o) > Remaining(p)
  \/ /\ Remaining(o) = Remaining(p)
     /\ \/ View[queue[o][i]] < View[queue[p][j]]
        \/ View[queue[o][i]] = View[queue[p][j]] /\ o < p

Free(slot) == slot \notin BusySlots /\ slot.device \notin {Owner[v] : v \in backprojecting}

Lease(slot, o, i) ==
  /\ active' = active \union {[work |-> queue[o][i], slot |-> slot, token |-> Cardinality(failedLeases)]}
  /\ queue' = [queue EXCEPT ![o] = Without(@, i)]
  /\ UNCHANGED <<plan, waiting, result, publication, views, faults>>

\* claim: the first open window of the device's own queue ...
ClaimOwn(slot) ==
  /\ Free(slot)
  /\ \E i \in OwnPositions(slot.device) :
       /\ \A j \in OwnPositions(slot.device) : i <= j
       /\ Lease(slot, slot.device, i)

\* ... or, when that queue is empty, one of the busiest other device.
ClaimHelp(slot) ==
  /\ Free(slot)
  /\ AllowTailAssist /\ queue[slot.device] = <<>>
  /\ \E o \in Devices \ {slot.device} : \E i \in HelpPositions(o) :
       /\ Reached(i, HelpPositions(o))
       /\ \A p \in Devices \ {slot.device, o} : \A j \in HelpPositions(p) :
            Reached(j, HelpPositions(p)) => Prefers(o, i, p, j)
       /\ Lease(slot, o, i)

\* The claim given to complete or fail is the very object in its slot.
LooksCurrent(c) == \E b \in active : b.work = c.work /\ b.slot = c.slot   \* mutant: by value
IsCurrent(c) == c \in active

\* _activate_dependents, after the result of w: children without another open
\* dependency join the queue of the view, which is sorted anew.
Children(w) == {c \in registered : w \in waiting[c]}
FreedEarly(w) == Children(w)   \* mutant: the first dependency frees
Freed(w) == {c \in Children(w) : waiting[c] = {w}}
Activated(q, w) ==
  IF Freed(w) = {} THEN q
  ELSE [q EXCEPT ![Owner[View[w]]] = InPlanOrder(Range(@) \union Freed(w))]

\* complete, for a lease held now or for a late answer of a failed one.
Complete(c) ==
  /\ IsCurrent(c)
  /\ active' = {b \in active : b.slot # c.slot}
  /\ result' = [result EXCEPT ![c.work] = c]
  /\ waiting' = [w \in Work |-> waiting[w] \ {c.work}]
  /\ queue' = Activated(queue, c.work)
  /\ UNCHANGED <<plan, publication, views, faults>>

Requeue(w) == queue' = [queue EXCEPT ![Owner[View[w]]] = <<w>> \o @]

Fail(c, retry) ==
  /\ IsCurrent(c) /\ failures < MaxFailures
  /\ active' = {b \in active : b.slot # c.slot}
  /\ IF retry THEN Requeue(c.work) /\ UNCHANGED dropped
              ELSE dropped' = dropped \union {c.work} /\ UNCHANGED queue
  /\ failedLeases' = failedLeases \union {c}
  /\ failures' = failures + 1
  /\ UNCHANGED <<plan, waiting, result, publication, views>>

\* skip_pending
Skip(w) ==
  /\ w \notin Leased \union Completed /\ GenerationReady(w)
  /\ \E d \in Devices : \E i \in DOMAIN queue[d] :
       /\ queue[d][i] = w
       /\ queue' = Activated([queue EXCEPT ![d] = Without(@, i)], w)
  /\ result' = [result EXCEPT ![w] = Skipped]
  /\ waiting' = [u \in Work |-> waiting[u] \ {w}]
  /\ UNCHANGED <<plan, active, publication, views, faults>>
-----------------------------------------------------------------------------
(* Publication, in plan order.                                             *)

Ahead == {w \in registered : Before(w, registered) >= cursor}
ReadyAnywhere == Ahead \cap Completed   \* mutant: gaps are not waited for
ReadyPrefix == {w \in Ahead : \A u \in Ahead : u <= w => u \in Completed}

ClaimCommittable ==
  /\ batch = {} /\ ReadyPrefix # {}
  /\ batch' = ReadyPrefix
  /\ UNCHANGED <<plan, queue, waiting, active, result, uncommitted, cursor, committed, views, faults>>

CompleteCommit ==
  /\ batch # {}
  /\ committed' = committed \union batch
  /\ cursor' = cursor + Cardinality(batch)
  /\ uncommitted' = [x \in Views \X Generations |-> uncommitted[x] - CountOf(x[1], x[2], batch)]
  /\ batch' = {}
  /\ UNCHANGED <<plan, queue, waiting, active, result, views, faults>>

FailCommit ==
  /\ batch # {} /\ failures < MaxFailures
  /\ batch' = {} /\ failures' = failures + 1
  /\ UNCHANGED <<plan, queue, waiting, active, result, uncommitted, cursor, committed, views,
                 failedLeases, dropped>>

\* claim_backprojection: a sealed view whose work is all published returns to its owner.
Returnable(v) ==
  /\ v \in sealedViews \ (backprojecting \union backprojected)
  /\ Of(v, registered) # {} /\ Of(v, registered) \subseteq committed

ClaimBackprojection(d) ==
  /\ d \notin BusyDevices
  /\ \A v \in backprojecting : Owner[v] # d
  /\ \E v \in Views :
       /\ Owner[v] = d /\ Returnable(v)
       /\ \A u \in Views : Owner[u] = d /\ Returnable(u) => v <= u
       /\ backprojecting' = backprojecting \union {v}
  /\ UNCHANGED <<plan, queue, waiting, active, result, publication, backprojected, faults>>

CompleteBackprojection(v) ==
  /\ v \in backprojecting
  /\ backprojecting' = backprojecting \ {v}
  /\ backprojected' = backprojected \union {v}
  /\ UNCHANGED <<plan, queue, waiting, active, result, publication, faults>>

FailBackprojection(v) ==
  /\ v \in backprojecting /\ failures < MaxFailures
  /\ backprojecting' = backprojecting \ {v} /\ failures' = failures + 1
  /\ UNCHANGED <<plan, queue, waiting, active, result, publication, backprojected,
                 failedLeases, dropped>>

Done ==
  /\ Completed = registered /\ committed = registered /\ batch = {} /\ active = {}
  /\ backprojecting = {} /\ sealedViews = Views /\ backprojected = Views
-----------------------------------------------------------------------------
Claim(slot) == ClaimOwn(slot) \/ ClaimHelp(slot)

Next ==
  \/ \E v \in Views, g \in Generations, S \in SUBSET (Work \ registered) : Register(v, g, S)
  \/ \E v \in Views, g \in Generations : SealGeneration(v, g)
  \/ \E v \in Views : SealView(v) \/ MarkProjectionReady(v)
                      \/ CompleteBackprojection(v) \/ FailBackprojection(v)
  \/ \E slot \in Slots : Claim(slot)
  \/ \E c \in active \union failedLeases : Complete(c) \/ \E retry \in BOOLEAN : Fail(c, retry)
  \/ \E w \in registered : Skip(w)
  \/ ClaimCommittable \/ CompleteCommit \/ FailCommit
  \/ \E d \in Devices : ClaimBackprojection(d)

Spec == Init /\ [][Next]_vars
-----------------------------------------------------------------------------
TypeOK ==
  /\ registered \in SUBSET Work
  /\ generations \in [Views -> SUBSET Generations]
  /\ sealedGenerations \subseteq Views \X Generations
  /\ {sealedViews, projectionReady, backprojecting, backprojected} \subseteq SUBSET Views
  /\ queue \in [Devices -> Seq(Work)]
  /\ waiting \in [Work -> SUBSET Work]
  /\ active \subseteq Leases /\ failedLeases \subseteq Leases
  /\ result \in [Work -> Results]
  /\ uncommitted \in [Views \X Generations -> Nat]
  /\ {cursor, failures} \subseteq Nat
  /\ {committed, batch, dropped} \subseteq SUBSET Work

Queued == UNION {Range(queue[d]) : d \in Devices}
Blocked == {w \in registered : waiting[w] # {}}

\* A registered window is in one place: at one position of its owner's queue,
\* blocked behind a dependency, leased to one slot, completed, or dropped by a
\* failure without retry.  This is the exactly-once bookkeeping that claim
\* guards with "scheduled more than once" (lta_scheduler.py:675).
InOnePlace ==
  /\ registered = Queued \union Blocked \union Leased \union Completed \union dropped
  /\ Queued \cap (Blocked \union Leased \union Completed \union dropped) = {}
  /\ Blocked \cap (Leased \union Completed \union dropped) = {}
  /\ Leased \cap (Completed \union dropped) = {}
  /\ Completed \cap dropped = {}
  /\ \A d \in Devices :
       /\ IsInjective(queue[d])
       /\ \A w \in Range(queue[d]) : Owner[View[w]] = d
  /\ \A b, c \in active : b.work = c.work => b = c

\* A slot runs one session, and a device that projects a view back runs none
\* and projects no other view (claim, claim_backprojection).
OneUsePerDevice ==
  /\ \A b, c \in active : b.slot = c.slot => b = c
  /\ \A v \in backprojecting : Owner[v] \notin BusyDevices
  /\ \A v, u \in backprojecting : Owner[v] = Owner[u] => v = u

\* A window is opened, or skipped, only after all its dependencies are
\* completed and every window of an earlier generation of its view is published.
GenerationsInOrder ==
  \A w \in Leased \union Completed :
    /\ Deps[w] \subseteq Completed
    /\ \A u \in registered :
         View[u] = View[w] /\ Generation[u] < Generation[w] => u \in committed

\* A window is in one place, and the counters by which a generation counts as
\* settled agree with what is registered and published.
CountersExact ==
  TypeOK /\ InOnePlace /\ \A v \in Views, g \in Generations :
    uncommitted[<<v, g>>] = CountOf(v, g, registered \ committed)

\* Both together: a window has one place, a device one use.
OnePlaceOneUse == CountersExact /\ OneUsePerDevice

\* A failed lease never settles its work, even when the work was leased again
\* to the same slot and the late answer looks like the current one (the ABA
\* case, lta_scheduler.py:694).
LateAnswersAreRefused ==
  \A c \in failedLeases : result[c.work] # c

\* The scheduler implements OrderedPublication.
Publication == INSTANCE OrderedPublication WITH
  offered <- registered, settled <- Completed, published <- committed,
  closed <- sealedViews, returned <- backprojected
ImplementsPublication == Publication!Spec
=============================================================================
