------------------------ MODULE ProjectionQueueProofs ------------------------
(***************************************************************************)
(* Theorems about ProjectionQueue, and about DeferredProjection, which     *)
(* extends it by its callers, for every set of jobs, every sizes and       *)
(* limits, steady or changing budgets.  IInv is the inductive invariant:   *)
(* the accounting (LedgerExact) and the bounds hold only together with     *)
(* where the two threads of a job may be relative to each other (Phases),  *)
(* and with the order of the tickets.  WInv extends it by who may be in    *)
(* Condition.wait (Sleepers) and by NoLostWakeup itself; then the queue is *)
(* shown to implement OwnershipHandoff, and the callers to keep its rules. *)
(***************************************************************************)
EXTENDS DeferredProjection, DataProofs

\* Where the producer and the executor thread of a job can be at the same time.
Phases ==
  \A j \in Jobs :
    /\ work[j] \in {"running", "succeeded"} => j \in granted /\ j \notin retired
    /\ work[j] \in {"none", "queued", "probing", "checking", "cancelled"} => j \notin granted
    /\ j \in revoked => j \in retired /\ j \notin granted
    /\ prod[j] \in {"idle", "submitting", "handoff"} => work[j] = "none" /\ j \notin retired
    /\ prod[j] = "raised" /\ work[j] # "none" => j \in granted \union retired

\* The tickets are totally ordered, and only the oldest has been bypassed.
TicketOrder ==
  /\ \A j, k \in waiting : j = k \/ (j \in ahead[k] /\ k \notin ahead[j])
                                 \/ (k \in ahead[j] /\ j \notin ahead[k])
  /\ \A j \in waiting : ahead[j] \subseteq waiting /\ (ahead[j] # {} => bypasses[j] = 0)
  /\ \A j \in waiting : j \notin ahead[j] /\ \A k \in ahead[j] : ahead[k] \subseteq ahead[j]

Order == TicketOrder /\ \A j \in Jobs \ waiting : ahead[j] = {}

\* What an input behind n tickets may still be overtaken pays for what the oldest ticket,
\* and then each of those behind it, may still let pass.
Patience ==
  /\ patience \in [Jobs -> Int]
  /\ \A j \in Jobs : patience[j] >= 0
  /\ \A j, o \in waiting :
       ahead[o] = {} => patience[j] + bypasses[o] >= MaxBypasses * (Cardinality(ahead[j]) + 1)

\* The limit is the constructor's while no other budget is probed.
SteadyLimit == Steady => maxWorking = MaxWorking

\* The inductive invariant.
IInv == /\ TypeOK /\ Phases /\ LedgerExact /\ Order /\ Patience /\ SteadyLimit
        /\ RetentionBounded /\ WorkingBounded

-----------------------------------------------------------------------------
(* What a step does to the inputs held and to the projections running. *)

Keeps == Held' = Held /\ UNCHANGED <<pending, source>>
Takes(j) == /\ j \in Jobs \ Held /\ Held' = Held \union {j} /\ HasRoom(j)
            /\ pending' = pending + 1 /\ source' = source + SourceBytes[j]
Drops(j) == /\ j \in Held /\ Held' = Held \ {j}
            /\ pending' = pending - 1 /\ source' = source - SourceBytes[j]

Idles == Running' = Running /\ UNCHANGED <<active, working, oversized, maxWorking>>
Measures == Running' = Running /\ UNCHANGED <<active, working, oversized>>
Starts(j) == /\ j \in Jobs \ Running /\ Running' = Running \union {j}
             /\ active < Workers /\ Fits(j, maxWorking')
             /\ active' = active + 1 /\ working' = working + WorkingBytes[j]
             /\ oversized' = (WorkingBytes[j] > maxWorking')
Stops(j) == /\ j \in Running /\ Running' = Running \ {j}
            /\ active' = active - 1 /\ working' = working - WorkingBytes[j]
            /\ oversized' = (oversized /\ active' # 0) /\ UNCHANGED maxWorking

\* Retiring a job that is held drops exactly that input.
LEMMA RetireDrops ==
  ASSUME IInv, NEW j \in Jobs, NEW e, j \in Admitted, Retire(j, e),
         Admitted' = Admitted \/ Admitted' = Admitted \ {j}, j \in retired'
  PROVE  Keeps \/ Drops(j)
  BY DEF Retire, Keeps, Drops, Held, ledger

\* Every step leaves the retained inputs alone, admits one, or retires one.
LEMMA RetentionStep ==
  ASSUME IInv, [Next]_vars
  PROVE  Keeps \/ \E j \in Jobs : Takes(j) \/ Drops(j)
<1> USE DEF Step, ledger, credit, control
<1>1. ASSUME NEW j \in Jobs, Submit(j) \/ TrySubmit(j)
      PROVE  Keeps \/ Takes(j)
  <2>0. prod[j] \in {"idle", "submitting"} /\ j \notin retired /\ j \notin granted
    BY <1>1 DEF Submit, TrySubmit, IInv, Phases
  <2>1. j \notin Held /\ granted' = granted /\ retired' = retired
    BY <1>1, <2>0 DEF Submit, TrySubmit, Held, Admitted
  <2>2. CASE Refuse(j) \/ Sleep(j)
    BY <1>1, <2>0, <2>1, <2>2 DEF Submit, TrySubmit, Refuse, Sleep, Keeps, Held, Admitted, IInv, TypeOK
  <2>3. CASE Admit(j)
    BY <1>1, <2>0, <2>1, <2>3 DEF Submit, TrySubmit, Admit, Takes, Held, Admitted, IInv, TypeOK
  <2>4. QED
    BY <1>1, <2>2, <2>3 DEF Submit, TrySubmit
<1>2. ASSUME NEW j \in Jobs, Enqueue(j) \/ EnqueueRaises(j)
      PROVE  Keeps
  BY <1>2 DEF Enqueue, EnqueueRaises, Keeps, Held, Admitted, IInv, TypeOK
<1>3. ASSUME NEW j \in Jobs, Revoke(j)
      PROVE  Keeps \/ Drops(j)
  <2>1. CASE j \in granted
    BY <1>3, <2>1 DEF Revoke, Keeps, Held, Admitted, IInv, TypeOK
  <2>2. CASE j \notin granted
    <3>1. Retire(j, NoError) /\ j \in Admitted
      BY <1>3, <2>2 DEF Revoke, Admitted
    <3>2. Admitted' = Admitted \ {j}
      BY <1>3, <2>2 DEF Revoke, Admitted, IInv, TypeOK
    <3>3. j \in retired'
      BY <3>1 DEF Retire
    <3>4. QED
      BY <3>1, <3>2, <3>3, RetireDrops
  <2>3. QED
    BY <2>1, <2>2
<1>4. ASSUME NEW j \in Jobs, Attach(j)
      PROVE  Keeps \/ Drops(j)
  <2>1. j \in Admitted /\ Admitted' = Admitted
    BY <1>4 DEF Attach, Admitted, IInv, TypeOK
  <2>2. CASE work[j] = "cancelled"
    <3>1. Retire(j, NoError) /\ j \in retired'
      BY <1>4, <2>2 DEF Attach, Retire
    <3>2. QED
      BY <2>1, <3>1, RetireDrops
  <2>3. CASE work[j] # "cancelled"
    BY <1>4, <2>1, <2>3 DEF Attach, Keeps, Held
  <2>4. QED
    BY <2>2, <2>3
<1>5. ASSUME NEW j \in Jobs, Start(j) \/ Probe(j) \/ Timeout(j) \/ Release(j)
      PROVE  Keeps
  BY <1>5 DEF Start, Probe, Timeout, Release, Keeps, Held, Admitted
<1>6. ASSUME NEW j \in Jobs, Check(j)
      PROVE  Keeps
  <2>1. CASE UNCHANGED <<granted, pending, source>>
    BY <1>6, <2>1 DEF Check, Keeps, Held, Admitted
  <2>2. CASE Grant(j)
    <3>1. j \in Held
      BY <2>2 DEF Grant, FittingWaiter, IInv, LedgerExact
    <3>2. granted' = granted \union {j} /\ UNCHANGED <<prod, retired, pending, source>>
      BY <1>6, <2>2 DEF Check, Grant
    <3>3. QED
      BY <3>1, <3>2 DEF Keeps, Held, Admitted
  <2>3. QED
    BY <1>6, <2>1, <2>2 DEF Check, Park
<1>7. ASSUME NEW j \in Jobs, Settle(j)
      PROVE  Keeps \/ Drops(j)
  <2>1. Admitted' = Admitted
    BY <1>7 DEF Settle, Admitted
  <2>2. j \in retired'
    BY <1>7 DEF Settle, Retire
  <2>3. CASE j \in Admitted
    BY <1>7, <2>1, <2>2, <2>3, RetireDrops DEF Settle
  <2>4. CASE j \notin Admitted
    <3>1. j \in retired
      BY <1>7, <2>4 DEF Settle, Admitted, IInv, TypeOK, Phases, ProducerStates
    <3>2. QED
      BY <1>7, <2>1, <3>1 DEF Settle, Retire, Keeps, Held
  <2>5. QED
    BY <2>3, <2>4
<1>8. ASSUME NEW j \in Jobs, Cancel(j)
      PROVE  Keeps \/ Drops(j)
  <2>1. Admitted' = Admitted
    BY <1>8 DEF Cancel, Admitted
  <2>2. CASE prod[j] = "returned"
    <3>1. Retire(j, NoError) /\ j \in retired' /\ j \in Admitted
      BY <1>8, <2>2 DEF Cancel, Retire, Admitted
    <3>2. QED
      BY <2>1, <3>1, RetireDrops
  <2>3. CASE prod[j] # "returned"
    BY <1>8, <2>1, <2>3 DEF Cancel, Keeps, Held
  <2>4. QED
    BY <2>2, <2>3
<1>9. CASE Owner
  BY <1>9 DEF Owner, Abort, Shutdown, StopExecutor, Keeps, Held, Admitted
<1>10. CASE UNCHANGED vars
  BY <1>10 DEF vars, Keeps, Held, Admitted
<1>11. QED
  BY <1>1, <1>2, <1>3, <1>4, <1>5, <1>6, <1>7, <1>8, <1>9, <1>10 DEF Next, Producer, Worker

\* Every step leaves the running projections alone, starts one that fits, or ends one.
LEMMA ProjectionStep ==
  ASSUME IInv, [Next]_vars
  PROVE  Measures \/ \E j \in Jobs : Starts(j) \/ Stops(j)
<1> USE DEF Step, ledger, credit, control
<1>1. ASSUME NEW j \in Jobs, Producer(j)
      PROVE  Measures
  <2>1. UNCHANGED credit
    BY <1>1 DEF Producer, Submit, TrySubmit, Enqueue, EnqueueRaises, Revoke, Attach
  <2>2. UNCHANGED work \/ (prod[j] = "handoff" /\ work' = [work EXCEPT ![j] = "queued"])
    BY <1>1 DEF Producer, Submit, TrySubmit, Enqueue, EnqueueRaises, Revoke, Attach
  <2>3. prod[j] = "handoff" => work[j] = "none"
    BY DEF IInv, Phases
  <2>4. Running' = Running
    BY <2>2, <2>3 DEF Running, IInv, TypeOK
  <2>5. QED
    BY <2>1, <2>4 DEF Measures
<1>2. ASSUME NEW j \in Jobs, Start(j) \/ Probe(j) \/ Timeout(j) \/ Settle(j) \/ Cancel(j)
      PROVE  Measures
  BY <1>2 DEF Start, Probe, Timeout, Settle, Cancel, Measures, Running, IInv, TypeOK
<1>3. ASSUME NEW j \in Jobs, Check(j)
      PROVE  Measures \/ Starts(j)
  <2>1. CASE j \in revoked \/ aborted
    BY <1>3, <2>1 DEF Check, Measures, Running, IInv, TypeOK
  <2>2. CASE Park(j)
    BY <1>3, <2>2 DEF Check, Park, Measures, Running, IInv, TypeOK
  <2>3. CASE Grant(j) /\ ~(j \in revoked \/ aborted)
    <3>1. maxWorking' = NewLimit(j)
      BY <1>3, <2>3 DEF Check
    <3>2. j \in Jobs \ Running /\ Running' = Running \union {j}
      BY <1>3, <2>3 DEF Check, Grant, Running, IInv, TypeOK
    <3>3. QED
      BY <2>3, <3>1, <3>2 DEF Grant, Starts, FittingWaiter
  <2>4. QED
    BY <1>3, <2>1, <2>2, <2>3 DEF Check
<1>4. ASSUME NEW j \in Jobs, Release(j)
      PROVE  Stops(j)
  BY <1>4 DEF Release, Stops, Running, IInv, TypeOK
<1>5. CASE Owner
  BY <1>5 DEF Owner, Abort, Shutdown, StopExecutor, Measures, Running
<1>6. CASE UNCHANGED vars
  BY <1>6 DEF vars, Measures, Running
<1>7. QED
  BY <1>1, <1>2, <1>3, <1>4, <1>5, <1>6 DEF Next, Worker

-----------------------------------------------------------------------------
(* The accounting. *)

\* Held and Running are sets of jobs, hence finite; their totals are natural.
LEMMA Finite ==
  ASSUME TypeOK
  PROVE  /\ Held \subseteq Jobs /\ Running \subseteq Jobs
         /\ \A S \in SUBSET Jobs : /\ IsFiniteSet(S) /\ Cardinality(S) \in Nat
                                   /\ Total(SourceBytes, S) \in Nat
                                   /\ Total(WorkingBytes, S) \in Nat
<1>1. Held \subseteq Jobs /\ Running \subseteq Jobs
  BY DEF TypeOK, Held, Admitted, Running
<1>2. ASSUME NEW S \in SUBSET Jobs
      PROVE  /\ IsFiniteSet(S) /\ Cardinality(S) \in Nat
             /\ Total(SourceBytes, S) \in Nat /\ Total(WorkingBytes, S) \in Nat
  <2>1. IsFiniteSet(S) /\ Cardinality(S) \in Nat
    BY QueueAssumption, FS_Subset, FS_CardinalityType
  <2>2. \A x \in S : SourceBytes[x] \in Nat /\ WorkingBytes[x] \in Nat
    BY QueueAssumption
  <2>3. QED
    BY <2>1, <2>2, TotalNat
<1>3. QED
  BY <1>1, <1>2

\* The same sets and totals when one job joins or leaves.
LEMMA OneJob ==
  ASSUME NEW S \in SUBSET Jobs, NEW j \in Jobs
  PROVE  /\ j \notin S => /\ Cardinality(S \union {j}) = Cardinality(S) + 1
                          /\ Total(SourceBytes, S \union {j}) = Total(SourceBytes, S) + SourceBytes[j]
                          /\ Total(WorkingBytes, S \union {j}) = Total(WorkingBytes, S) + WorkingBytes[j]
         /\ j \in S => /\ Cardinality(S \ {j}) = Cardinality(S) - 1
                       /\ Total(SourceBytes, S) = SourceBytes[j] + Total(SourceBytes, S \ {j})
                       /\ Total(WorkingBytes, S) = WorkingBytes[j] + Total(WorkingBytes, S \ {j})
<1>1. IsFiniteSet(S)
  BY QueueAssumption, FS_Subset
<1>2. \A x \in Jobs : SourceBytes[x] \in Nat /\ WorkingBytes[x] \in Nat
  BY QueueAssumption
<1>3. ASSUME j \notin S
      PROVE  /\ Cardinality(S \union {j}) = Cardinality(S) + 1
             /\ Total(SourceBytes, S \union {j}) = Total(SourceBytes, S) + SourceBytes[j]
             /\ Total(WorkingBytes, S \union {j}) = Total(WorkingBytes, S) + WorkingBytes[j]
  <2>1. \A x \in S \union {j} : SourceBytes[x] \in Nat /\ WorkingBytes[x] \in Nat
    BY <1>2
  <2>2. Cardinality(S \union {j}) = Cardinality(S) + 1
    BY <1>1, <1>3, FS_AddElement
  <2>3. Total(SourceBytes, S \union {j}) = Total(SourceBytes, S) + SourceBytes[j]
    BY <1>1, <1>3, <2>1, TotalAdd
  <2>4. Total(WorkingBytes, S \union {j}) = Total(WorkingBytes, S) + WorkingBytes[j]
    BY <1>1, <1>3, <2>1, TotalAdd
  <2>5. QED
    BY <2>2, <2>3, <2>4
<1>4. ASSUME j \in S
      PROVE  /\ Cardinality(S \ {j}) = Cardinality(S) - 1
             /\ Total(SourceBytes, S) = SourceBytes[j] + Total(SourceBytes, S \ {j})
             /\ Total(WorkingBytes, S) = WorkingBytes[j] + Total(WorkingBytes, S \ {j})
  <2>1. \A x \in S : SourceBytes[x] \in Nat /\ WorkingBytes[x] \in Nat
    BY <1>2
  <2>2. QED
    BY <1>1, <1>4, <2>1, FS_RemoveElement, TotalRemove
<1>5. QED
  BY <1>3, <1>4

Counters ==
  /\ pending = Cardinality(Held) /\ source = Total(SourceBytes, Held)
  /\ active = Cardinality(Running) /\ working = Total(WorkingBytes, Running)

\* The four counters keep counting exactly what is held and what runs.
LEMMA CountersStep == IInv /\ [Next]_vars => Counters'
<1> SUFFICES ASSUME IInv, [Next]_vars PROVE Counters'
  OBVIOUS
<1>1. Held \in SUBSET Jobs /\ Running \in SUBSET Jobs /\ Counters
  BY Finite DEF IInv, LedgerExact, Counters
<1>2. Cardinality(Held) \in Nat /\ Cardinality(Running) \in Nat
      /\ Total(SourceBytes, Held) \in Nat /\ Total(WorkingBytes, Running) \in Nat
  BY <1>1, Finite DEF IInv
<1>3. pending' = Cardinality(Held') /\ source' = Total(SourceBytes, Held')
  <2>1. CASE Keeps
    BY <1>1, <2>1 DEF Keeps, Counters
  <2>2. ASSUME NEW j \in Jobs, Takes(j)
        PROVE  pending' = Cardinality(Held') /\ source' = Total(SourceBytes, Held')
    BY <1>1, <2>2, OneJob DEF Takes, Counters
  <2>3. ASSUME NEW j \in Jobs, Drops(j)
        PROVE  pending' = Cardinality(Held') /\ source' = Total(SourceBytes, Held')
    <3>1. Total(SourceBytes, Held \ {j}) \in Nat /\ SourceBytes[j] \in Nat
      BY <1>1, Finite, QueueAssumption DEF IInv
    <3>2. /\ Cardinality(Held \ {j}) = Cardinality(Held) - 1
          /\ Total(SourceBytes, Held) = SourceBytes[j] + Total(SourceBytes, Held \ {j})
      BY <1>1, <2>3, OneJob DEF Drops
    <3>3. QED
      BY <1>1, <1>2, <2>3, <3>1, <3>2 DEF Drops, Counters
  <2>4. QED
    BY <2>1, <2>2, <2>3, RetentionStep
<1>4. active' = Cardinality(Running') /\ working' = Total(WorkingBytes, Running')
  <2>1. CASE Measures
    BY <1>1, <2>1 DEF Measures, Counters
  <2>2. ASSUME NEW j \in Jobs, Starts(j)
        PROVE  active' = Cardinality(Running') /\ working' = Total(WorkingBytes, Running')
    BY <1>1, <2>2, OneJob DEF Starts, Counters
  <2>3. ASSUME NEW j \in Jobs, Stops(j)
        PROVE  active' = Cardinality(Running') /\ working' = Total(WorkingBytes, Running')
    <3>1. Total(WorkingBytes, Running \ {j}) \in Nat /\ WorkingBytes[j] \in Nat
      BY <1>1, Finite, QueueAssumption DEF IInv
    <3>2. /\ Cardinality(Running \ {j}) = Cardinality(Running) - 1
          /\ Total(WorkingBytes, Running) = WorkingBytes[j] + Total(WorkingBytes, Running \ {j})
      BY <1>1, <2>3, OneJob DEF Stops
    <3>3. QED
      BY <1>1, <1>2, <2>3, <3>1, <3>2 DEF Stops, Counters
  <2>4. QED
    BY <2>1, <2>2, <2>3, ProjectionStep
<1>5. QED
  BY <1>3, <1>4 DEF Counters

\* At most MaxPending inputs are retained, and one over the byte limit only alone.
LEMMA RetentionBoundedStep == IInv /\ [Next]_vars => RetentionBounded'
<1> SUFFICES ASSUME IInv, [Next]_vars PROVE RetentionBounded'
  OBVIOUS
<1>1. MaxPending \in Nat \ {0} /\ MaxSource \in Nat \ {0} /\ pending \in Nat /\ source \in Nat
      /\ \A j \in Jobs : SourceBytes[j] \in Nat
  BY QueueAssumption DEF IInv, TypeOK
<1>2. CASE Keeps
  BY <1>2 DEF Keeps, RetentionBounded, IInv
<1>3. ASSUME NEW j \in Jobs, Takes(j)
      PROVE  RetentionBounded'
  BY <1>1, <1>3 DEF Takes, HasRoom, RetentionBounded, IInv
<1>4. ASSUME NEW j \in Jobs, Drops(j)
      PROVE  RetentionBounded'
  <2>1. Held \in SUBSET Jobs /\ pending = Cardinality(Held) /\ j \in Held /\ Held' = Held \ {j}
    BY <1>4, Finite DEF Drops, IInv, LedgerExact
  <2>2. CASE pending = 1
    <3>1. Held' = {}
      <4>0. Cardinality(Held \ {j}) = Cardinality(Held) - 1
        BY <2>1, OneJob
      <4>1. Cardinality(Held \ {j}) = 0
        BY <2>1, <2>2, <4>0
      <4>2. IsFiniteSet(Held \ {j})
        BY <2>1, Finite DEF IInv
      <4>3. QED
        BY <2>1, <4>1, <4>2, FS_EmptySet
    <3>2. source' = 0
      BY <3>1, CountersStep, TotalEmpty DEF Counters
    <3>3. QED
      BY <1>1, <1>4, <2>2, <3>2 DEF Drops, RetentionBounded, IInv
  <2>3. CASE pending # 1
    BY <1>1, <1>4, <2>3 DEF Drops, RetentionBounded, IInv
  <2>4. QED
    BY <2>2, <2>3
<1>5. QED
  BY <1>2, <1>3, <1>4, RetentionStep

\* The allowance in force is always a positive number of bytes.
LEMMA LimitPositive ==
  ASSUME TypeOK, [Next]_vars
  PROVE  maxWorking' \in Nat \ {0}
<1>1. ASSUME NEW j \in Jobs, Check(j)
      PROVE  maxWorking' \in Nat \ {0}
  BY <1>1, QueueAssumption DEF Check, NewLimit, TypeOK, Samples, credit
<1>2. (\E j \in Jobs : Check(j)) \/ UNCHANGED maxWorking
  BY DEF Next, Producer, Worker, Owner, Submit, TrySubmit, Enqueue, EnqueueRaises, Revoke,
         Attach, Start, Probe, Timeout, Release, Settle, Cancel, Abort, Shutdown,
         StopExecutor, credit, vars
<1>3. QED
  BY <1>1, <1>2 DEF TypeOK

\* The running projections stay within the workers and within the allowance.
LEMMA WorkingBoundedStep == IInv /\ [Next]_vars => WorkingBounded' /\ SteadyLimit'
<1> SUFFICES ASSUME IInv, [Next]_vars PROVE WorkingBounded' /\ SteadyLimit'
  OBVIOUS
<1>1. /\ Workers \in Nat \ {0} /\ MaxWorking \in Nat \ {0}
      /\ active \in Nat /\ working \in Nat /\ maxWorking \in Nat
      /\ \A j \in Jobs : WorkingBytes[j] \in Nat
  BY QueueAssumption DEF IInv, TypeOK
<1>2. SteadyLimit'
  <2>1. ASSUME NEW j \in Jobs, Check(j), Steady
        PROVE  maxWorking' = maxWorking
    <3>1. sample[j] \in {0, MaxWorking} /\ maxWorking = MaxWorking
      BY <2>1 DEF IInv, TypeOK, SteadyLimit, Samples, Steady
    <3>2. NewLimit(j) = maxWorking
      BY <3>1 DEF NewLimit
    <3>3. QED
      BY <2>1, <3>2 DEF Check, credit
  <2>2. (\E j \in Jobs : Check(j)) \/ UNCHANGED maxWorking
    BY DEF Next, Producer, Worker, Owner, Submit, TrySubmit, Enqueue, EnqueueRaises, Revoke,
           Attach, Start, Probe, Timeout, Release, Settle, Cancel, Abort, Shutdown,
           StopExecutor, credit, vars
  <2>3. QED
    BY <2>1, <2>2 DEF SteadyLimit, IInv
<1>3. WorkingBounded'
  <2>1. CASE Measures
    BY <2>1 DEF Measures, WorkingBounded, IInv
  <2>2. ASSUME NEW j \in Jobs, Starts(j)
        PROVE  WorkingBounded'
    <3>1. active' \in Nat /\ active' <= Workers /\ working' = working + WorkingBytes[j]
      BY <1>1, <2>2 DEF Starts
    <3>2. Steady => maxWorking' = MaxWorking
      BY <1>2 DEF SteadyLimit
    <3>3. CASE active = 0
      <4>1. Held \in SUBSET Jobs /\ Running \in SUBSET Jobs
        BY Finite DEF IInv
      <4>2. Running = {}
        BY <3>3, <4>1, Finite, FS_EmptySet DEF IInv, LedgerExact
      <4>3. working = 0
        BY <4>2, TotalEmpty DEF IInv, LedgerExact
      <4>4. active' = 1 /\ working' = WorkingBytes[j]
        BY <1>1, <2>2, <3>3, <4>3 DEF Starts
      <4>5. QED
        BY <1>1, <2>2, <3>1, <3>2, <4>4 DEF Starts, WorkingBounded
    <3>4. CASE active # 0
      <4>1. working + WorkingBytes[j] <= maxWorking'
        BY <2>2, <3>4 DEF Starts, Fits
      <4>2. maxWorking' \in Nat
        BY <1>1, LimitPositive DEF IInv
      <4>3. ~oversized'
        <5>1. ~(WorkingBytes[j] > maxWorking')
          BY <1>1, <4>1, <4>2
        <5>2. QED
          BY <2>2, <5>1 DEF Starts
      <4>4. QED
        BY <1>1, <3>1, <3>2, <4>1, <4>3 DEF WorkingBounded
    <3>5. QED
      BY <3>3, <3>4
  <2>3. ASSUME NEW j \in Jobs, Stops(j)
        PROVE  WorkingBounded'
    <3>1. Running \in SUBSET Jobs /\ j \in Running
      BY <2>3, Finite DEF Stops, IInv
    <3>2. Cardinality(Running \ {j}) = Cardinality(Running) - 1 /\ IsFiniteSet(Running \ {j})
      BY <3>1, OneJob, Finite DEF IInv
    <3>3. active = Cardinality(Running) /\ active' = active - 1 /\ active \in Nat
      BY <1>1, <2>3 DEF Stops, IInv, LedgerExact
    <3>4. CASE oversized
      <4>1. active = 1
        BY <3>4 DEF IInv, WorkingBounded
      <4>2. Running' = {}
        BY <2>3, <3>2, <3>3, <4>1, FS_EmptySet DEF Stops
      <4>3. working' = 0
        BY <4>2, CountersStep, TotalEmpty DEF Counters
      <4>4. active' = 0
        BY <3>3, <4>1
      <4>5. ~oversized'
        BY <2>3, <4>4 DEF Stops
      <4>6. QED
        BY <1>1, <4>3, <4>4, <4>5 DEF WorkingBounded
    <3>5. CASE ~oversized
      <4>1. working' = working - WorkingBytes[j] /\ active' = active - 1 /\ ~oversized'
        BY <2>3, <3>5 DEF Stops
      <4>2. (Steady => ~(working > MaxWorking)) /\ active <= Workers
        BY <3>5 DEF IInv, WorkingBounded
      <4>3. QED
        BY <1>1, <3>1, <4>1, <4>2 DEF WorkingBounded
    <3>6. QED
      BY <3>4, <3>5
  <2>4. QED
    BY <2>1, <2>2, <2>3, ProjectionStep
<1>4. QED
  BY <1>2, <1>3

-----------------------------------------------------------------------------
(* The threads of a job, and the tickets. *)

\* A step keeps the two threads of every job at compatible places.
LEMMA PhasesStep == IInv /\ [Next]_vars => Phases'
<1> SUFFICES ASSUME IInv, [Next]_vars PROVE Phases'
  OBVIOUS
<1> USE DEF Step, ledger, credit, control, IInv, TypeOK
<1>1. ASSUME NEW j \in Jobs, Submit(j) \/ TrySubmit(j)
      PROVE  Phases'
  BY <1>1 DEF Submit, TrySubmit, Refuse, Admit, Sleep, Phases
<1>2. ASSUME NEW j \in Jobs, Enqueue(j) \/ EnqueueRaises(j)
      PROVE  Phases'
  BY <1>2 DEF Enqueue, EnqueueRaises, Phases
<1>3. ASSUME NEW j \in Jobs, Revoke(j) \/ Attach(j) \/ Cancel(j)
      PROVE  Phases'
  BY <1>3 DEF Revoke, Attach, Cancel, Retire, Phases
<1>4. ASSUME NEW j \in Jobs, Start(j) \/ Probe(j) \/ Timeout(j) \/ Release(j)
      PROVE  Phases'
  BY <1>4 DEF Start, Probe, Timeout, Release, Phases
<1>5. ASSUME NEW j \in Jobs, Check(j)
      PROVE  Phases'
  <2>1. CASE j \in revoked \/ aborted
    BY <1>5, <2>1 DEF Check, Phases
  <2>2. CASE Park(j)
    BY <1>5, <2>2 DEF Check, Park, Phases
  <2>3. CASE Grant(j) /\ j \notin revoked
    <3>1. j \in Held /\ j \notin granted
      BY <2>3 DEF Grant, FittingWaiter, LedgerExact
    <3>2. j \notin retired
      BY <3>1 DEF Held
    <3>3. QED
      BY <1>5, <2>3, <3>1, <3>2 DEF Check, Grant, Phases
  <2>4. QED
    BY <1>5, <2>1, <2>2, <2>3 DEF Check
<1>6. ASSUME NEW j \in Jobs, Settle(j)
      PROVE  Phases'
  BY <1>6 DEF Settle, Retire, Phases
<1>7. CASE Owner \/ UNCHANGED vars
  BY <1>7 DEF Owner, Abort, Shutdown, StopExecutor, vars, Phases
<1>8. QED
  BY <1>1, <1>2, <1>3, <1>4, <1>5, <1>6, <1>7 DEF Next, Producer, Worker

\* A step leaves the tickets alone, appends one, or removes one.
LEMMA TicketStep ==
  ASSUME IInv, [Next]_vars
  PROVE  \/ UNCHANGED <<waiting, ahead, bypasses>>
         \/ \E j \in Jobs : Admit(j) /\ prod[j] \in {"idle", "submitting"}
         \/ \E j \in Jobs : Forget(j) /\ (UNCHANGED bypasses \/ Grant(j))
<1> USE DEF Step, ledger
<1>1. ASSUME NEW j \in Jobs, Producer(j)
      PROVE  \/ UNCHANGED <<waiting, ahead, bypasses>>
             \/ Admit(j) /\ prod[j] \in {"idle", "submitting"}
             \/ Forget(j) /\ UNCHANGED bypasses
  BY <1>1 DEF Producer, Submit, TrySubmit, Refuse, Sleep, Enqueue, EnqueueRaises, Revoke, Attach,
              Retire
<1>2. ASSUME NEW j \in Jobs, Worker(j) \/ Cancel(j)
      PROVE  \/ UNCHANGED <<waiting, ahead, bypasses>>
             \/ Forget(j) /\ (UNCHANGED bypasses \/ Grant(j))
  BY <1>2 DEF Worker, Cancel, Start, Probe, Check, Grant, Park, Timeout, Release, Settle, Retire
<1>3. CASE Owner \/ UNCHANGED vars
  BY <1>3 DEF Owner, Abort, Shutdown, StopExecutor, vars
<1>4. QED
  BY <1>1, <1>2, <1>3 DEF Next

\* The tickets stay totally ordered and only the oldest has been bypassed.
LEMMA OrderStep == IInv /\ [Next]_vars => Order' /\ bypasses' \in [Jobs -> 0..MaxBypasses]
                                         /\ ahead' \in [Jobs -> SUBSET Jobs] /\ waiting' \subseteq Jobs
<1> SUFFICES ASSUME IInv, [Next]_vars
             PROVE  Order' /\ bypasses' \in [Jobs -> 0..MaxBypasses]
                    /\ ahead' \in [Jobs -> SUBSET Jobs] /\ waiting' \subseteq Jobs
  OBVIOUS
<1> USE DEF IInv, TypeOK, Order, TicketOrder
<1>1. CASE UNCHANGED <<waiting, ahead, bypasses>>
  BY <1>1
<1>2. ASSUME NEW j \in Jobs, Admit(j), prod[j] \in {"idle", "submitting"}
      PROVE  Order' /\ bypasses' \in [Jobs -> 0..MaxBypasses]
             /\ ahead' \in [Jobs -> SUBSET Jobs] /\ waiting' \subseteq Jobs
  <2>1. j \notin waiting
    BY <1>2 DEF LedgerExact, Held, Admitted, Phases
  <2>2. bypasses' \in [Jobs -> 0..MaxBypasses] /\ ahead' \in [Jobs -> SUBSET Jobs]
        /\ waiting' \subseteq Jobs
    BY <1>2 DEF Admit, MaxBypasses
  <2>3. Order'
    BY <1>2, <2>1 DEF Admit
  <2>4. QED
    BY <2>2, <2>3
<1>3. ASSUME NEW j \in Jobs, Forget(j), UNCHANGED bypasses \/ Grant(j)
      PROVE  Order' /\ bypasses' \in [Jobs -> 0..MaxBypasses]
             /\ ahead' \in [Jobs -> SUBSET Jobs] /\ waiting' \subseteq Jobs
  <2>1. ahead' \in [Jobs -> SUBSET Jobs] /\ waiting' = waiting \ {j}
        /\ \A k \in Jobs : ahead'[k] = IF k = j THEN {} ELSE ahead[k] \ {j}
    BY <1>3 DEF Forget
  <2>2. bypasses' \in [Jobs -> 0..MaxBypasses]
        /\ \A k \in Jobs : bypasses'[k] = bypasses[k] \/ (k # j /\ k \in waiting /\ ahead[k] = {})
    <3>1. CASE UNCHANGED bypasses
      BY <3>1
    <3>2. CASE Grant(j)
      <4>1. ASSUME NEW k \in Jobs, k # j, Oldest(k), ~Oldest(j)
            PROVE  bypasses[k] < MaxBypasses
        BY <3>2, <4>1 DEF Grant, FittingWaiter, Oldest
      <4>2. \A k \in Jobs : bypasses'[k] = IF k # j /\ Oldest(k) /\ ~Oldest(j)
                                             THEN bypasses[k] + 1 ELSE bypasses[k]
        BY <3>2 DEF Grant
      <4>3. bypasses' \in [Jobs -> 0..MaxBypasses]
        BY <3>2, <4>1 DEF Grant, MaxBypasses
      <4>4. QED
        BY <4>2, <4>3 DEF Oldest
    <3>3. QED
      BY <1>3, <3>1, <3>2
  <2>3. Order'
    BY <2>1, <2>2
  <2>4. QED
    BY <2>1, <2>2, <2>3
<1>4. QED
  BY <1>1, <1>2, <1>3, TicketStep

\* While inputs wait, one of them is the oldest.
LEMMA OldestExists ==
  ASSUME IInv, waiting # {}
  PROVE  \E o \in waiting : ahead[o] = {}
<1> DEFINE C == {ahead[j] : j \in waiting}
<1> USE DEF IInv, TypeOK, Order, TicketOrder
<1>1. IsFiniteSet(Jobs) /\ C \in SUBSET SUBSET Jobs /\ C # {}
  BY QueueAssumption
<1> HIDE DEF C
<1>2. PICK T \in C : \A U \in C : ~(U \subseteq T /\ U # T)
  BY <1>1, MinimalSubset
<1>3. PICK o \in waiting : ahead[o] = T
  BY <1>2 DEF C
<1>4. ASSUME NEW k \in ahead[o]
      PROVE  FALSE
  <2>1. k \in waiting /\ ahead[k] \subseteq ahead[o] /\ k \notin ahead[k]
    BY <1>3, <1>4
  <2>2. ahead[k] \in C
    BY <2>1 DEF C
  <2>3. QED
    BY <1>2, <1>3, <1>4, <2>1, <2>2
<1>5. QED
  BY <1>3, <1>4

\* A step leaves the patience of the inputs alone, or is one of those that change it.
LEMMA PatienceMoves ==
  ASSUME IInv, [Next]_vars
  PROVE  \/ UNCHANGED <<waiting, ahead, bypasses, patience>>
         \/ \E j \in Jobs : Admit(j) /\ j \notin waiting
         \/ \E j \in Jobs : Forget(j) /\ UNCHANGED bypasses /\ patience' = Step(patience, j, 0)
         \/ \E j \in Jobs : Grant(j)
<1> USE DEF Step, ledger
<1>1. ASSUME NEW j \in Jobs, Producer(j)
      PROVE  \/ UNCHANGED <<waiting, ahead, bypasses, patience>>
             \/ Admit(j) /\ j \notin waiting
             \/ Forget(j) /\ UNCHANGED bypasses /\ patience' = Step(patience, j, 0)
  <2>1. prod[j] \in {"idle", "submitting"} => j \notin waiting
    BY DEF IInv, LedgerExact, Held, Admitted, Phases
  <2>2. QED
    BY <1>1, <2>1 DEF Producer, Submit, TrySubmit, Refuse, Sleep, Enqueue, EnqueueRaises, Revoke,
                      Attach, Retire
<1>2. ASSUME NEW j \in Jobs, Worker(j) \/ Cancel(j)
      PROVE  \/ UNCHANGED <<waiting, ahead, bypasses, patience>>
             \/ Forget(j) /\ UNCHANGED bypasses /\ patience' = Step(patience, j, 0)
             \/ Grant(j)
  BY <1>2 DEF Worker, Cancel, Start, Probe, Check, Park, Timeout, Release, Settle, Retire
<1>3. CASE Owner \/ UNCHANGED vars
  BY <1>3 DEF Owner, Abort, Shutdown, StopExecutor, vars
<1>4. QED
  BY <1>1, <1>2, <1>3 DEF Next

\* When a ticket goes, the input behind it has one less in front, and the oldest is the
\* same as before or the next one, which was never bypassed.
LEMMA Forgotten ==
  ASSUME IInv, NEW j \in Jobs, Forget(j), NEW k \in waiting, NEW o \in waiting, k # j, o # j,
         ahead'[o] = {}
  PROVE  /\ Cardinality(ahead[k]) \in Nat
         /\ Cardinality(ahead'[k]) = IF j \in ahead[k] THEN Cardinality(ahead[k]) - 1
                                                       ELSE Cardinality(ahead[k])
         /\ ahead[o] = {} \/ (j \in waiting /\ ahead[j] = {} /\ j \in ahead[k] /\ bypasses[o] = 0)
<1> USE DEF IInv, TypeOK, Order, TicketOrder
<1>1. k \in Jobs /\ o \in Jobs /\ ahead'[k] = ahead[k] \ {j} /\ ahead'[o] = ahead[o] \ {j}
  BY DEF Forget
<1>2. IsFiniteSet(ahead[k]) /\ Cardinality(ahead[k]) \in Nat
  BY <1>1, Finite
<1>3. Cardinality(ahead[k] \ {j}) = IF j \in ahead[k] THEN Cardinality(ahead[k]) - 1
                                                      ELSE Cardinality(ahead[k])
  BY <1>2, FS_RemoveElement
<1>4. ASSUME ahead[o] # {}
      PROVE  j \in waiting /\ ahead[j] = {} /\ j \in ahead[k] /\ bypasses[o] = 0
  <2>1. ahead[o] = {j}
    BY <1>1, <1>4
  <2>2. j \in waiting /\ ahead[j] = {}
    BY <2>1
  <2>3. QED
    BY <2>1, <2>2
<1>5. QED
  BY <1>1, <1>2, <1>3, <1>4

\* A new ticket is paid for every one in front of it; the others are where they were.
LEMMA PatienceAdmit ==
  ASSUME IInv, NEW j \in Jobs, Admit(j), j \notin waiting
  PROVE  Patience'
<1> USE DEF IInv, TypeOK, Order, TicketOrder, Patience, MaxBypasses
<1> DEFINE N == Cardinality(waiting)
<1>1. N \in Nat
  BY Finite
<1>2. /\ patience' = [patience EXCEPT ![j] = 2 * (N + 1)]
      /\ ahead' = [ahead EXCEPT ![j] = waiting] /\ waiting' = waiting \union {j}
      /\ bypasses' = [bypasses EXCEPT ![j] = 0]
  BY DEF Admit, Step
<1> HIDE DEF N
<1>3. patience' \in [Jobs -> Int] /\ patience'[j] = 2 * (N + 1)
      /\ \A k \in Jobs : k # j => patience'[k] = patience[k]
  BY <1>1, <1>2
<1>4. \A k \in Jobs : patience'[k] >= 0
  BY <1>1, <1>3
<1>5. ASSUME NEW k \in waiting', NEW o \in waiting', ahead'[o] = {}
      PROVE  patience'[k] + bypasses'[o] >= MaxBypasses * (Cardinality(ahead'[k]) + 1)
  <2>1. k \in Jobs /\ o \in Jobs /\ bypasses'[o] \in Nat
    BY <1>2
  <2>2. CASE k = j
    <3>1. Cardinality(ahead'[k]) = N
      BY <1>2, <2>2 DEF N
    <3>2. QED
      BY <1>1, <1>3, <2>1, <2>2, <3>1
  <2>3. CASE k # j
    <3>1. k \in waiting /\ o \in waiting /\ o # j /\ ahead[o] = {}
      BY <1>2, <1>5, <2>3
    <3>2. ahead'[k] = ahead[k] /\ bypasses'[o] = bypasses[o] /\ patience'[k] = patience[k]
      BY <1>2, <2>1, <2>3, <3>1
    <3>3. patience[k] + bypasses[o] >= MaxBypasses * (Cardinality(ahead[k]) + 1)
      BY <3>1
    <3>4. QED
      BY <3>2, <3>3
  <2>4. QED
    BY <2>2, <2>3
<1>6. QED
  BY <1>3, <1>4, <1>5

\* An input that leaves takes nothing from the others.
LEMMA PatienceForget ==
  ASSUME IInv, NEW j \in Jobs, Forget(j), UNCHANGED bypasses, patience' = Step(patience, j, 0)
  PROVE  Patience'
<1> USE DEF IInv, TypeOK, Order, Patience
<1>1. patience' \in [Jobs -> Int] /\ patience'[j] = 0
      /\ \A k \in Jobs : k # j => patience'[k] = patience[k]
  BY DEF Step
<1>2. \A k \in Jobs : patience'[k] >= 0
  BY <1>1
<1>3. ASSUME NEW k \in waiting', NEW o \in waiting', ahead'[o] = {}
      PROVE  patience'[k] + bypasses'[o] >= MaxBypasses * (Cardinality(ahead'[k]) + 1)
  <2>1. k \in waiting /\ o \in waiting /\ k # j /\ o # j /\ k \in Jobs /\ o \in Jobs
    BY <1>3 DEF Forget
  <2>2. /\ Cardinality(ahead[k]) \in Nat
        /\ Cardinality(ahead'[k]) = IF j \in ahead[k] THEN Cardinality(ahead[k]) - 1
                                                      ELSE Cardinality(ahead[k])
        /\ ahead[o] = {} \/ (j \in waiting /\ ahead[j] = {} /\ j \in ahead[k] /\ bypasses[o] = 0)
    BY <1>3, <2>1, Forgotten
  <2>3. patience'[k] = patience[k] /\ bypasses'[o] = bypasses[o]
        /\ patience[k] \in Int /\ bypasses[o] \in 0..MaxBypasses /\ bypasses[j] \in 0..MaxBypasses
    BY <1>1, <2>1
  <2>4. CASE ahead[o] = {}
    <3>1. patience[k] + bypasses[o] >= MaxBypasses * (Cardinality(ahead[k]) + 1)
      BY <2>1, <2>4
    <3>2. QED
      BY <2>2, <2>3, <3>1 DEF MaxBypasses
  <2>5. CASE j \in waiting /\ ahead[j] = {} /\ j \in ahead[k] /\ bypasses[o] = 0
    <3>1. patience[k] + bypasses[j] >= MaxBypasses * (Cardinality(ahead[k]) + 1)
      BY <2>1, <2>5
    <3>2. QED
      BY <2>2, <2>3, <2>5, <3>1 DEF MaxBypasses
  <2>6. QED
    BY <2>2, <2>4, <2>5
<1>4. QED
  BY <1>1, <1>2, <1>3

\* A grant takes one from each input in front, which the oldest has to let pass too.
LEMMA PatienceGrant ==
  ASSUME IInv, NEW j \in Jobs, Grant(j)
  PROVE  Patience'
<1> USE DEF IInv, TypeOK, Order, Patience
<1>1. Forget(j) /\ j \in waiting
  BY DEF Grant, FittingWaiter
<1>2. patience' \in [Jobs -> Int]
      /\ \A k \in Jobs : patience'[k] = IF k = j THEN 0
                           ELSE IF k \in ahead[j] THEN patience[k] - 1 ELSE patience[k]
  BY DEF Grant
<1>3. \A k \in Jobs : bypasses'[k] = IF k # j /\ Oldest(k) /\ ~Oldest(j)
                                       THEN bypasses[k] + 1 ELSE bypasses[k]
  BY DEF Grant
<1>4. \A k \in ahead[j] : k \in waiting /\ k # j /\ j \notin ahead[k]
  BY <1>1 DEF TicketOrder
<1>5. ASSUME NEW k \in ahead[j]
      PROVE  patience[k] >= 1
  <2>1. PICK o \in waiting : ahead[o] = {}
    BY <1>1, OldestExists
  <2>2. o \in ahead[j]
    <3>1. o # j
      BY <1>5, <2>1
    <3>2. QED
      BY <1>1, <2>1, <3>1 DEF TicketOrder
  <2>3. bypasses[o] < MaxBypasses
    BY <2>1, <2>2 DEF Grant, FittingWaiter, Oldest
  <2>4. patience[k] + bypasses[o] >= MaxBypasses * (Cardinality(ahead[k]) + 1)
    BY <1>4, <2>1
  <2>5. Cardinality(ahead[k]) \in Nat /\ patience[k] \in Int /\ bypasses[o] \in Nat
    BY <1>4, <2>1, Finite
  <2>6. QED
    BY <2>3, <2>4, <2>5 DEF MaxBypasses
<1>6. \A k \in Jobs : patience'[k] >= 0
  BY <1>2, <1>5
<1>7. ASSUME NEW k \in waiting', NEW o \in waiting', ahead'[o] = {}
      PROVE  patience'[k] + bypasses'[o] >= MaxBypasses * (Cardinality(ahead'[k]) + 1)
  <2>1. k \in waiting /\ o \in waiting /\ k # j /\ o # j /\ k \in Jobs /\ o \in Jobs
    BY <1>1, <1>7 DEF Forget
  <2>2. /\ Cardinality(ahead[k]) \in Nat
        /\ Cardinality(ahead'[k]) = IF j \in ahead[k] THEN Cardinality(ahead[k]) - 1
                                                      ELSE Cardinality(ahead[k])
        /\ ahead[o] = {} \/ (j \in waiting /\ ahead[j] = {} /\ j \in ahead[k] /\ bypasses[o] = 0)
    BY <1>1, <1>7, <2>1, Forgotten
  <2>3. patience[k] \in Int /\ bypasses[o] \in 0..MaxBypasses /\ bypasses[j] \in 0..MaxBypasses
    BY <2>1
  <2>4. CASE Oldest(j)
    <3>1. patience'[k] = patience[k] /\ bypasses'[o] = bypasses[o] /\ j \in ahead[k]
      BY <1>1, <1>2, <1>3, <2>1, <2>4 DEF Oldest, TicketOrder
    <3>2. patience[k] + bypasses[j] >= MaxBypasses * (Cardinality(ahead[k]) + 1)
      BY <1>1, <2>1, <2>4 DEF Oldest
    <3>3. QED
      BY <2>2, <2>3, <3>1, <3>2 DEF MaxBypasses
  <2>5. CASE ~Oldest(j)
    <3>1. ahead[j] # {} /\ ahead[o] = {}
      BY <1>1, <2>2, <2>5 DEF Oldest
    <3>2. bypasses'[o] = bypasses[o] + 1
      BY <1>3, <2>1, <2>5, <3>1 DEF Oldest
    <3>3. patience[k] + bypasses[o] >= MaxBypasses * (Cardinality(ahead[k]) + 1)
      BY <2>1, <3>1
    <3>4. CASE k \in ahead[j]
      <4>1. patience'[k] = patience[k] - 1 /\ j \notin ahead[k]
        BY <1>2, <1>4, <2>1, <3>4
      <4>2. QED
        BY <2>2, <2>3, <3>2, <3>3, <4>1 DEF MaxBypasses
    <3>5. CASE k \notin ahead[j]
      <4>1. patience'[k] = patience[k]
        BY <1>2, <2>1, <3>5
      <4>2. QED
        BY <2>2, <2>3, <3>2, <3>3, <4>1 DEF MaxBypasses
    <3>6. QED
      BY <3>4, <3>5
  <2>6. QED
    BY <2>4, <2>5
<1>8. QED
  BY <1>2, <1>6, <1>7

\* Every step keeps Patience.
LEMMA PatienceStep == IInv /\ [Next]_vars => Patience'
<1> SUFFICES ASSUME IInv, [Next]_vars PROVE Patience'
  OBVIOUS
<1>1. CASE UNCHANGED <<waiting, ahead, bypasses, patience>>
  BY <1>1 DEF IInv, Patience
<1>2. QED
  BY <1>1, PatienceMoves, PatienceAdmit, PatienceForget, PatienceGrant

\* The tickets are those of the inputs held that no thread projects yet.
LEMMA WaitingStep == IInv /\ [Next]_vars => (waiting = Held \ granted)'
<1> SUFFICES ASSUME IInv, [Next]_vars PROVE waiting' = Held' \ granted'
  OBVIOUS
<1> USE DEF Step, ledger, credit, control
<1>0. waiting = Held \ granted
  BY DEF IInv, LedgerExact
<1>1. ASSUME NEW j \in Jobs, Submit(j) \/ TrySubmit(j)
      PROVE  waiting' = Held' \ granted'
  BY <1>0, <1>1 DEF Submit, TrySubmit, Refuse, Admit, Sleep, Held, Admitted, IInv, TypeOK, Phases
<1>2. ASSUME NEW j \in Jobs, Enqueue(j) \/ EnqueueRaises(j)
      PROVE  waiting' = Held' \ granted'
  BY <1>0, <1>2 DEF Enqueue, EnqueueRaises, Held, Admitted, IInv, TypeOK
<1>3. ASSUME NEW j \in Jobs, Revoke(j) \/ Attach(j) \/ Cancel(j)
      PROVE  waiting' = Held' \ granted'
  BY <1>0, <1>3 DEF Revoke, Attach, Cancel, Retire, Forget, Held, Admitted, IInv, TypeOK
<1>4. ASSUME NEW j \in Jobs, Start(j) \/ Probe(j) \/ Timeout(j) \/ Release(j)
      PROVE  waiting' = Held' \ granted'
  BY <1>0, <1>4 DEF Start, Probe, Timeout, Release, Held, Admitted
<1>5. ASSUME NEW j \in Jobs, Check(j)
      PROVE  waiting' = Held' \ granted'
  BY <1>0, <1>5 DEF Check, Grant, Park, Forget, FittingWaiter, Held, Admitted
<1>6. ASSUME NEW j \in Jobs, Settle(j)
      PROVE  waiting' = Held' \ granted'
  BY <1>0, <1>6 DEF Settle, Retire, Forget, Held, Admitted
<1>7. CASE Owner \/ UNCHANGED vars
  BY <1>0, <1>7 DEF Owner, Abort, Shutdown, StopExecutor, vars, Held, Admitted
<1>8. QED
  BY <1>1, <1>2, <1>3, <1>4, <1>5, <1>6, <1>7 DEF Next, Producer, Worker

\* Everything but the counters keeps its type.
LEMMA TypeStep == IInv /\ [Next]_vars => TypeOK'
<1> SUFFICES ASSUME IInv, [Next]_vars PROVE TypeOK'
  OBVIOUS
<1>1. /\ bypasses' \in [Jobs -> 0..MaxBypasses] /\ ahead' \in [Jobs -> SUBSET Jobs]
      /\ waiting' \subseteq Jobs /\ maxWorking' \in Nat \ {0} /\ patience' \in [Jobs -> Int]
  BY OrderStep, PatienceStep, LimitPositive DEF IInv, Patience
<1>2. /\ prod' \in [Jobs -> ProducerStates] /\ work' \in [Jobs -> WorkStates]
      /\ sample' \in [Jobs -> Samples \union {0}]
  <2> USE DEF IInv, TypeOK, Step, ProducerStates, WorkStates
  <2>1. ASSUME NEW j \in Jobs, Producer(j)
        PROVE  prod' \in [Jobs -> ProducerStates] /\ work' \in [Jobs -> WorkStates] /\ sample' = sample
    BY <2>1 DEF Producer, Submit, TrySubmit, Refuse, Admit, Sleep, Enqueue, EnqueueRaises, Revoke,
                Attach
  <2>2. ASSUME NEW j \in Jobs, Worker(j) \/ Cancel(j)
        PROVE  prod' = prod /\ work' \in [Jobs -> WorkStates] /\ sample' \in [Jobs -> Samples \union {0}]
    BY <2>2 DEF Worker, Cancel, Start, Probe, Check, Grant, Park, Timeout, Release, Settle
  <2>3. CASE Owner \/ UNCHANGED vars
    BY <2>3 DEF Owner, Abort, Shutdown, StopExecutor, vars
  <2>4. QED
    BY <2>1, <2>2, <2>3 DEF Next
<1>3. /\ parked' \subseteq Jobs /\ granted' \subseteq Jobs /\ revoked' \subseteq Jobs
      /\ retired' \subseteq Jobs /\ error' \in Jobs \union {NoError}
  <2> USE DEF IInv, TypeOK, credit, NotifyAll
  <2>1. ASSUME NEW j \in Jobs, Producer(j)
        PROVE  /\ parked' \subseteq Jobs /\ granted' \subseteq Jobs /\ revoked' \subseteq Jobs
               /\ retired' \subseteq Jobs /\ error' \in Jobs \union {NoError}
    BY <2>1 DEF Producer, Submit, TrySubmit, Refuse, Admit, Sleep, Enqueue, EnqueueRaises, Revoke,
                Attach, Retire
  <2>2. ASSUME NEW j \in Jobs, Worker(j) \/ Cancel(j)
        PROVE  /\ parked' \subseteq Jobs /\ granted' \subseteq Jobs /\ revoked' \subseteq Jobs
               /\ retired' \subseteq Jobs /\ error' \in Jobs \union {NoError}
    BY <2>2 DEF Worker, Cancel, Start, Probe, Check, Grant, Park, Timeout, Release, Settle, Retire
  <2>3. CASE Owner \/ UNCHANGED vars
    BY <2>3 DEF Owner, Abort, Shutdown, StopExecutor, vars
  <2>4. QED
    BY <2>1, <2>2, <2>3 DEF Next
<1>4. pending' \in Nat /\ source' \in Nat /\ active' \in Nat /\ working' \in Nat
  <2>1. Held \in SUBSET Jobs /\ Running \in SUBSET Jobs
    BY Finite DEF IInv
  <2>2. Held' \in SUBSET Jobs
    BY <1>2, <1>3 DEF Held, Admitted
  <2>3. Running' \in SUBSET Jobs
    BY DEF Running
  <2>4. \A S \in SUBSET Jobs : Cardinality(S) \in Nat /\ Total(SourceBytes, S) \in Nat
                               /\ Total(WorkingBytes, S) \in Nat
    BY Finite DEF IInv
  <2>5. QED
    BY <2>2, <2>3, <2>4, CountersStep DEF Counters
<1>5. oversized' \in BOOLEAN /\ closed' \in BOOLEAN /\ aborted' \in BOOLEAN /\ executor' \in ExecutorStates
  <2> USE DEF IInv, TypeOK, credit, control, ExecutorStates
  <2>1. oversized' \in BOOLEAN
    <3>1. CASE Measures
      BY <3>1 DEF Measures
    <3>2. ASSUME NEW j \in Jobs, Starts(j)
          PROVE  oversized' \in BOOLEAN
      <4>1. oversized' = (WorkingBytes[j] > maxWorking')
        BY <3>2 DEF Starts
      <4>2. QED
        BY <4>1
    <3>3. ASSUME NEW j \in Jobs, Stops(j)
          PROVE  oversized' \in BOOLEAN
      <4>1. oversized' = (oversized /\ active' # 0)
        BY <3>3 DEF Stops
      <4>2. QED
        BY <4>1
    <3>4. QED
      BY <3>1, <3>2, <3>3, ProjectionStep
  <2>2. ASSUME NEW j \in Jobs, Producer(j) \/ Worker(j) \/ Cancel(j)
        PROVE  UNCHANGED control
    BY <2>2 DEF Producer, Submit, TrySubmit, Enqueue, EnqueueRaises, Revoke, Attach, Worker, Cancel,
                Start, Probe, Check, Timeout, Release, Settle
  <2>3. CASE Owner \/ UNCHANGED vars
    BY <2>1, <2>3 DEF Owner, Abort, Shutdown, StopExecutor, vars
  <2>4. QED
    BY <2>1, <2>2, <2>3 DEF Next
<1>6. QED
  BY <1>1, <1>2, <1>3, <1>4, <1>5 DEF TypeOK

-----------------------------------------------------------------------------
(* The inductive invariant and the theorems. *)

\* IInv holds initially.
LEMMA InitIInv == Init => IInv
<1> SUFFICES ASSUME Init PROVE IInv
  OBVIOUS
<1>1. TypeOK
  <2>1. MaxWorking \in Nat \ {0}
    BY QueueAssumption
  <2>2. /\ prod \in [Jobs -> ProducerStates] /\ work \in [Jobs -> WorkStates]
        /\ sample \in [Jobs -> Samples \union {0}] /\ ahead \in [Jobs -> SUBSET Jobs]
        /\ bypasses \in [Jobs -> 0..MaxBypasses] /\ executor \in ExecutorStates
        /\ patience \in [Jobs -> Int]
    BY DEF Init, ProducerStates, WorkStates, ExecutorStates, MaxBypasses
  <2>3. QED
    BY <2>1, <2>2 DEF Init, TypeOK
<1>2. Held = {} /\ Running = {}
  BY DEF Init, Held, Admitted, Running
<1>3. LedgerExact
  BY <1>2, FS_EmptySet, TotalEmpty DEF Init, LedgerExact
<1>4. Phases /\ Order /\ Patience /\ SteadyLimit
  BY DEF Init, Phases, Order, TicketOrder, Patience, SteadyLimit
<1>5. RetentionBounded /\ WorkingBounded
  BY QueueAssumption DEF Init, RetentionBounded, WorkingBounded
<1>6. QED
  BY <1>1, <1>3, <1>4, <1>5 DEF IInv

\* Every step preserves IInv.
LEMMA NextIInv == IInv /\ [Next]_vars => IInv'
<1> SUFFICES ASSUME IInv, [Next]_vars PROVE IInv'
  OBVIOUS
<1>1. LedgerExact'
  BY CountersStep, WaitingStep DEF LedgerExact, Counters
<1>2. QED
  BY <1>1, TypeStep, PhasesStep, OrderStep, PatienceStep, WorkingBoundedStep, RetentionBoundedStep DEF IInv

\* IInv is an invariant of the queue.
THEOREM Invariance == Spec => []IInv
  BY InitIInv, NextIInv, PTL DEF Spec

\* Every state of the queue is well typed; in particular no counter ever goes below zero.
THEOREM TypeCorrect == Spec => []TypeOK
<1>1. IInv => TypeOK
  BY DEF IInv
<1>2. QED
  BY <1>1, Invariance, PTL

\* The counters always equal what the threads hold, however the paths of submission,
\* cancellation, revocation, failure and completion interleave.
THEOREM LedgerIsExact == Spec => []LedgerExact
<1>1. IInv => LedgerExact
  BY DEF IInv
<1>2. QED
  BY <1>1, Invariance, PTL

\* The queue never retains more inputs than max_pending, nor more bytes than
\* max_source_bytes unless one input is alone.
THEOREM RetentionIsBounded == Spec => []RetentionBounded
<1>1. IInv => RetentionBounded
  BY DEF IInv
<1>2. QED
  BY <1>1, Invariance, PTL

\* No more than `workers` projections run, and with a steady allowance their bytes exceed
\* it only when one oversized projection runs alone.
THEOREM WorkIsBounded == Spec => []WorkingBounded
<1>1. IInv => WorkingBounded
  BY DEF IInv
<1>2. QED
  BY <1>1, Invariance, PTL

\* Both limits together, as the run checks them.
THEOREM LimitsAreKept == Spec => []LimitsHold
<1>1. IInv => LimitsHold
  BY DEF IInv, LimitsHold
<1>2. QED
  BY <1>1, Invariance, PTL

\* A revoked submission never projects: the race of Revoke with Check is decided by
\* `granted` under the lock.
THEOREM RevokedNeverProjects == Spec => []RevokedNeverRuns
<1>1. IInv => RevokedNeverRuns
  BY DEF IInv, TypeOK, Phases, RevokedNeverRuns
<1>2. QED
  BY <1>1, Invariance, PTL

\* No input is overtaken more often than MaxBypasses times for itself and for each ticket
\* that was in front of it, however grants, retirements and revocations interleave.
THEOREM BypassIsBounded == Spec => []OvertakingBounded
<1>1. IInv => OvertakingBounded
  BY DEF IInv, Patience, OvertakingBounded
<1>2. QED
  BY <1>1, Invariance, PTL

-----------------------------------------------------------------------------
(* No thread sleeps through the event it waits for. *)

\* Only a blocked submitter and a worker between two probes are ever in Condition.wait.
Sleepers == \A j \in parked : prod[j] = "submitting" \/ work[j] = "probing"

\* The inductive invariant of the wakeups.
WInv == IInv /\ Sleepers /\ NoLostWakeup

-----------------------------------------------------------------------------
(* What a step does to the threads that sleep. *)

\* A step that notifies nobody and that no sleeper can notice: nothing it waits for changes.
Unnoticed ==
  /\ parked' \subseteq parked
  /\ UNCHANGED <<waiting, ahead, bypasses, pending, source, active, working, oversized, error, closed>>
  /\ Steady => maxWorking' = maxWorking
  /\ \A j \in parked' : work'[j] = work[j] /\ (prod'[j] = prod[j] \/ "submitting" \notin {prod[j], prod'[j]})

\* A step that lets one more input in, without a notification.
LetsIn(j) ==
  /\ Admit(j) /\ j \in Jobs \ parked /\ prod[j] \in {"idle", "submitting"}
  /\ UNCHANGED <<credit, work, error, closed>>

\* A step that puts one more thread to sleep, which has just seen that it must wait.
FallsAsleep(j) ==
  /\ j \in Jobs /\ parked' = parked \union {j}
  /\ UNCHANGED <<waiting, ahead, bypasses, pending, source, active, working, oversized, error, closed>>
  /\ Steady => maxWorking' = maxWorking
  /\ \/ Sleep(j) /\ prod[j] \in {"idle", "submitting"} /\ UNCHANGED work
     \/ /\ work[j] = "checking" /\ work' = Step(work, j, "probing") /\ UNCHANGED prod
        /\ Steady => ~FittingWaiter(j, maxWorking)

\* With a steady allowance the probed limit is the one in force.
LEMMA SteadyProbe ==
  ASSUME IInv, Steady, NEW j \in Jobs
  PROVE  NewLimit(j) = maxWorking
<1>1. sample[j] \in {0, MaxWorking} /\ maxWorking = MaxWorking
  BY DEF IInv, TypeOK, SteadyLimit, Samples, Steady
<1>2. QED
  BY <1>1 DEF NewLimit

\* Retiring a job notifies every thread, or the job was retired before.
LEMMA RetireNotifies ==
  ASSUME NEW j, NEW e, Retire(j, e)
  PROVE  parked' = {} \/ UNCHANGED <<ledger, parked, error, retired>>
  BY DEF Retire, NotifyAll

\* Every step wakes all the threads, or changes nothing that a sleeper waits for.
LEMMA SleepStep ==
  ASSUME WInv, [Next]_vars
  PROVE  parked' = {} \/ Unnoticed \/ \E j \in Jobs : LetsIn(j) \/ FallsAsleep(j)
<1> USE DEF Step, ledger, credit, control
<1>0. TypeOK /\ Phases
  BY DEF WInv, IInv
<1>1. ASSUME NEW j \in Jobs, Submit(j) \/ TrySubmit(j)
      PROVE  Unnoticed \/ LetsIn(j) \/ FallsAsleep(j)
  <2>1. prod[j] \in {"idle", "submitting"} /\ j \notin parked /\ work[j] = "none"
    BY <1>0, <1>1 DEF Submit, TrySubmit, WInv, Sleepers, Phases
  <2>2. CASE Refuse(j)
    BY <1>0, <1>1, <2>1, <2>2 DEF Submit, TrySubmit, Refuse, Unnoticed, TypeOK
  <2>3. CASE Admit(j)
    BY <1>1, <2>1, <2>3 DEF Submit, TrySubmit, LetsIn
  <2>4. CASE Sleep(j)
    BY <1>1, <2>1, <2>4 DEF Submit, TrySubmit, Sleep, FallsAsleep
  <2>5. QED
    BY <1>1, <2>2, <2>3, <2>4 DEF Submit, TrySubmit
<1>2. ASSUME NEW j \in Jobs, Enqueue(j) \/ EnqueueRaises(j)
      PROVE  Unnoticed
  <2>1. j \notin parked
    BY <1>0, <1>2 DEF Enqueue, EnqueueRaises, WInv, Sleepers, Phases
  <2>2. QED
    BY <1>0, <1>2, <2>1 DEF Enqueue, EnqueueRaises, Unnoticed, TypeOK
<1>3. ASSUME NEW j \in Jobs, Revoke(j) \/ Attach(j)
      PROVE  parked' = {} \/ Unnoticed
  <2>1. parked' = {} \/ UNCHANGED <<ledger, parked, error, retired>>
    BY <1>3, RetireNotifies DEF Revoke, Attach
  <2>2. "submitting" \notin {prod[j], prod'[j]}
    BY <1>0, <1>3 DEF Revoke, Attach, TypeOK
  <2>3. \A k \in Jobs : k # j => prod'[k] = prod[k]
    BY <1>0, <1>3 DEF Revoke, Attach, TypeOK
  <2>4. UNCHANGED <<work, credit, control>>
    BY <1>3 DEF Revoke, Attach
  <2>5. QED
    BY <1>0, <2>1, <2>2, <2>3, <2>4 DEF Unnoticed, TypeOK
<1>4. ASSUME NEW j \in Jobs, Start(j) \/ Probe(j) \/ Timeout(j)
      PROVE  Unnoticed
  <2>1. j \notin parked'
    BY <1>0, <1>4 DEF Start, Probe, Timeout, WInv, Sleepers, Phases
  <2>2. QED
    BY <1>0, <1>4, <2>1 DEF Start, Probe, Timeout, Unnoticed, TypeOK
<1>5. ASSUME NEW j \in Jobs, Check(j)
      PROVE  parked' = {} \/ Unnoticed \/ FallsAsleep(j)
  <2>1. work[j] = "checking" /\ j \notin parked
    BY <1>0, <1>5 DEF Check, WInv, Sleepers, Phases
  <2>2. CASE j \in revoked \/ aborted
    BY <1>0, <1>5, <2>1, <2>2 DEF Check, Unnoticed, TypeOK
  <2>3. CASE Grant(j)
    BY <2>3 DEF Grant, NotifyAll
  <2>4. CASE Park(j) /\ ~(j \in revoked \/ aborted)
    <3>1. maxWorking' = NewLimit(j) /\ UNCHANGED <<prod, error, control>>
      BY <1>5, <2>4 DEF Check
    <3>2. Steady => maxWorking' = maxWorking /\ ~FittingWaiter(j, maxWorking)
      BY <2>4, <3>1, SteadyProbe DEF Park, WInv
    <3>3. QED
      BY <2>1, <2>4, <3>1, <3>2 DEF Park, FallsAsleep
  <2>5. QED
    BY <1>5, <2>2, <2>3, <2>4 DEF Check
<1>6. ASSUME NEW j \in Jobs, Release(j)
      PROVE  parked' = {}
  BY <1>6 DEF Release, NotifyAll
<1>7. ASSUME NEW j \in Jobs, Settle(j) \/ Cancel(j)
      PROVE  parked' = {} \/ Unnoticed
  <2>1. parked' = {} \/ UNCHANGED <<ledger, parked, error, retired>>
    BY <1>7, RetireNotifies DEF Settle, Cancel
  <2>2. j \notin parked
    BY <1>0, <1>7 DEF Settle, Cancel, WInv, Sleepers, Phases
  <2>3. \A k \in Jobs : k # j => work'[k] = work[k]
    BY <1>0, <1>7 DEF Settle, Cancel, TypeOK
  <2>4. UNCHANGED <<prod, credit, closed>>
    BY <1>0, <1>7, <2>1 DEF Settle, Cancel
  <2>5. QED
    BY <1>0, <2>1, <2>2, <2>3, <2>4 DEF Unnoticed, TypeOK
<1>8. CASE Owner
  BY <1>8 DEF Owner, Abort, Shutdown, StopExecutor, NotifyAll, Unnoticed
<1>9. CASE UNCHANGED vars
  BY <1>9 DEF vars, Unnoticed
<1>10. QED
  BY <1>1, <1>2, <1>3, <1>4, <1>5, <1>6, <1>7, <1>8, <1>9 DEF Next, Producer, Worker

-----------------------------------------------------------------------------
(* No wake-up is lost. *)

\* The threads asleep after a step are submitters and probing workers again, and none of
\* them could go on.
LEMMA WakeupStep == WInv /\ [Next]_vars => Sleepers' /\ NoLostWakeup'
<1> SUFFICES ASSUME WInv, [Next]_vars PROVE Sleepers' /\ NoLostWakeup'
  OBVIOUS
<1>0. TypeOK /\ Phases /\ LedgerExact /\ Order
  BY DEF WInv, IInv
<1>1. CASE parked' = {}
  BY <1>1 DEF Sleepers, NoLostWakeup
<1>2. CASE Unnoticed
  <2>1. Sleepers'
    BY <1>0, <1>2 DEF WInv, Sleepers, Unnoticed, TypeOK
  <2>2. NoLostWakeup'
    <3>1. \A j \in Jobs : HasRoom(j)' <=> HasRoom(j)
      BY <1>2 DEF Unnoticed, HasRoom
    <3>2. Steady => \A j \in parked' : FittingWaiter(j, maxWorking)' <=> FittingWaiter(j, maxWorking)
      BY <1>2 DEF Unnoticed, FittingWaiter, Fits, Oldest
    <3>3. QED
      BY <1>0, <1>2, <3>1, <3>2 DEF WInv, NoLostWakeup, Unnoticed
  <2>3. QED
    BY <2>1, <2>2
<1>3. ASSUME NEW i \in Jobs, LetsIn(i)
      PROVE  Sleepers' /\ NoLostWakeup'
  <2>1. i \notin waiting /\ \A j \in waiting : ahead[j] \subseteq waiting
    BY <1>0, <1>3 DEF LetsIn, LedgerExact, Held, Admitted, Phases, Order, TicketOrder
  <2>2. /\ parked' = parked /\ i \notin parked
        /\ \A j \in Jobs \ {i} : prod'[j] = prod[j] /\ ahead'[j] = ahead[j] /\ bypasses'[j] = bypasses[j]
        /\ waiting' = waiting \union {i} /\ pending' = pending + 1 /\ source' = source + SourceBytes[i]
        /\ UNCHANGED <<active, working, oversized, maxWorking, work, error, closed>>
    BY <1>0, <1>3 DEF LetsIn, Admit, TypeOK, Step, credit
  <2>3. Sleepers'
    BY <1>0, <2>2 DEF WInv, Sleepers, TypeOK
  <2>4. ASSUME NEW j \in Jobs \ {i}, ~HasRoom(j)
        PROVE  ~HasRoom(j)'
    BY <1>0, <2>2, <2>4, QueueAssumption DEF HasRoom, TypeOK
  <2>5. ASSUME NEW j \in parked, FittingWaiter(j, maxWorking)'
        PROVE  FittingWaiter(j, maxWorking)
    <3>1. j \in Jobs \ {i} /\ j \in waiting /\ ahead'[j] = ahead[j]
      BY <1>0, <2>2, <2>5 DEF TypeOK, FittingWaiter
    <3>2. \A k \in ahead[j] : k \in waiting /\ k \in Jobs \ {i}
      BY <1>0, <2>1, <3>1 DEF TypeOK
    <3>3. \A k : Fits(k, maxWorking)' <=> Fits(k, maxWorking)
      BY <2>2 DEF Fits
    <3>4. \A k \in ahead[j] : (Oldest(k)' <=> Oldest(k)) /\ bypasses'[k] = bypasses[k]
      BY <2>2, <3>2 DEF Oldest
    <3>5. QED
      BY <2>2, <2>5, <3>1, <3>3, <3>4 DEF FittingWaiter
  <2>6. QED
    BY <1>0, <2>2, <2>3, <2>4, <2>5 DEF WInv, NoLostWakeup, TypeOK
<1>4. ASSUME NEW i \in Jobs, FallsAsleep(i)
      PROVE  Sleepers' /\ NoLostWakeup'
  <2>1. \A j \in Jobs : HasRoom(j)' <=> HasRoom(j)
    BY <1>4 DEF FallsAsleep, HasRoom
  <2>2. Steady => \A j \in Jobs : FittingWaiter(j, maxWorking)' <=> FittingWaiter(j, maxWorking)
    BY <1>4 DEF FallsAsleep, FittingWaiter, Fits, Oldest
  <2>3. \A j \in Jobs \ {i} : prod'[j] = prod[j] /\ work'[j] = work[j]
    BY <1>0, <1>4 DEF FallsAsleep, Sleep, Step, TypeOK
  <2>4. CASE Sleep(i) /\ prod[i] \in {"idle", "submitting"} /\ UNCHANGED work
    <3>1. prod'[i] = "submitting" /\ error = NoError /\ ~closed /\ ~HasRoom(i)
      BY <1>0, <2>4 DEF Sleep, Step, TypeOK
    <3>2. i \notin waiting
      BY <1>0, <2>4 DEF LedgerExact, Held, Admitted, Phases, Sleep
    <3>3. QED
      BY <1>0, <1>4, <2>1, <2>2, <2>3, <3>1, <3>2 DEF WInv, Sleepers, NoLostWakeup, FallsAsleep,
         FittingWaiter, TypeOK
  <2>5. CASE /\ work[i] = "checking" /\ work' = Step(work, i, "probing") /\ UNCHANGED prod
             /\ Steady => ~FittingWaiter(i, maxWorking)
    <3>1. work'[i] = "probing" /\ prod'[i] # "submitting"
      BY <1>0, <2>5 DEF Step, TypeOK, Phases
    <3>2. QED
      BY <1>0, <1>4, <2>1, <2>2, <2>3, <2>5, <3>1 DEF WInv, Sleepers, NoLostWakeup, FallsAsleep, TypeOK
  <2>6. QED
    BY <1>4, <2>4, <2>5 DEF FallsAsleep
<1>5. QED
  BY <1>1, <1>2, <1>3, <1>4, SleepStep

\* WInv holds initially and after every step.
LEMMA WInvIsInductive ==
  /\ Init => WInv
  /\ WInv /\ [Next]_vars => WInv'
<1>1. Init => Sleepers /\ NoLostWakeup
  BY DEF Init, Sleepers, NoLostWakeup
<1>2. WInv /\ [Next]_vars => IInv'
  BY NextIInv DEF WInv
<1>3. QED
  BY <1>1, <1>2, InitIInv, WakeupStep DEF WInv

\* No thread sleeps through the event it waits for: no blocked submitter has room or a
\* refusal due, and with a steady allowance no parked worker is the one that fits.
THEOREM NoWakeupIsLost == Spec => []NoLostWakeup
<1>1. WInv => NoLostWakeup
  BY DEF WInv
<1>2. QED
  BY <1>1, WInvIsInductive, PTL DEF Spec

-----------------------------------------------------------------------------
(* What a grant is. *)

\* A job that is granted in a step starts in that step.
LEMMA GrantStarts ==
  ASSUME IInv, [Next]_vars, NEW j \in Jobs, j \in granted' \ granted
  PROVE  Starts(j)
<1> USE DEF Step, ledger, credit, control
<1>1. Check(j) /\ Grant(j) /\ ~(j \in revoked \/ aborted)
  <2>1. ASSUME NEW k \in Jobs, Producer(k)
        PROVE  UNCHANGED granted
    BY <2>1 DEF Producer, Submit, TrySubmit, Enqueue, EnqueueRaises, Revoke, Attach
  <2>2. ASSUME NEW k \in Jobs, Worker(k) \/ Cancel(k)
        PROVE  UNCHANGED granted \/ (Check(k) /\ Grant(k) /\ ~(k \in revoked \/ aborted))
    BY <2>2 DEF Worker, Cancel, Start, Probe, Check, Park, Timeout, Release, Settle
  <2>3. ASSUME NEW k \in Jobs, Grant(k)
        PROVE  k = j
    BY <2>3 DEF Grant
  <2>4. CASE Owner \/ UNCHANGED vars
    BY <2>4 DEF Owner, Abort, Shutdown, StopExecutor, vars
  <2>5. QED
    BY <2>1, <2>2, <2>3, <2>4 DEF Next
<1>2. maxWorking' = NewLimit(j)
  BY <1>1 DEF Check
<1>3. j \in Jobs \ Running /\ Running' = Running \union {j}
  BY <1>1 DEF Check, Grant, Running, IInv, TypeOK
<1>4. QED
  BY <1>1, <1>2, <1>3 DEF Grant, Starts, FittingWaiter

-----------------------------------------------------------------------------
(* The refinement of the abstract handoff: in every step one input changes *)
(* hands, in the way the abstract specification allows, or none does.      *)

\* The owner of each input in the abstract handoff.
Owners == [j \in Jobs |-> OwnerOf(j)]

\* In a step only j changes hands, from one of `from` to `to`.
Moves(j, from, to) == Owners[j] \in from /\ Owners' = [Owners EXCEPT ![j] = to]

\* What the refinement mapping says of each of the five owners.
Roles(j) ==
  /\ Owners[j] \in {"producer", "queue", "projector", "settling", "gone"}
  /\ Owners[j] = "producer" <=> j \notin Admitted \union retired
  /\ Owners[j] = "gone" <=> j \in retired
  /\ Owners[j] = "queue" <=> j \in Held \ granted
  /\ Owners[j] = "projector" <=> j \in Running
  /\ Owners[j] = "settling" <=> j \in (Held \intersect granted) \ Running

\* The guards of the mapping exclude each other and leave no case out.
LEMMA WhoOwns == IInv => \A j \in Jobs : Roles(j)
<1> SUFFICES ASSUME IInv, NEW j \in Jobs PROVE Roles(j)
  OBVIOUS
<1>1. granted \subseteq Admitted /\ (j \in Running <=> work[j] = "running")
  BY DEF Admitted, Running
<1>2. j \in Running => j \in granted /\ j \notin retired
  BY <1>1 DEF IInv, Phases
<1>3. Owners[j] = OwnerOf(j)
  BY DEF Owners
<1>4. QED
  BY <1>1, <1>2, <1>3 DEF OwnerOf, Held, Roles

\* The same after a step.
LEMMA WhoWillOwn == (IInv => \A j \in Jobs : Roles(j))'
  BY WhoOwns, PTL

\* What the abstract specification calls retained and projected is what the code's
\* counters count.
LEMMA OwnedSets ==
  ASSUME IInv
  PROVE  Handoff!Retained = Held /\ Handoff!OwnedBy({"projector"}) = Running
<1>1. Held \subseteq Jobs /\ Running \subseteq Jobs
  BY Finite DEF IInv
<1>2. Handoff!Retained = {j \in Jobs : Owners[j] \in {"queue", "projector", "settling"}}
      /\ Handoff!OwnedBy({"projector"}) = {j \in Jobs : Owners[j] = "projector"}
  BY DEF Handoff!Retained, Handoff!OwnedBy, Owners
<1>3. \A j \in Jobs : j \in Running => j \in Held /\ j \in granted
  BY DEF Running, Held, Admitted, IInv, Phases
<1>4. QED
  BY <1>1, <1>2, <1>3, WhoOwns DEF Roles

\* Jobs that keep their place in all the sets of the mapping keep their owner.
LEMMA SameOwner ==
  ASSUME NEW j, \A k \in Jobs : k # j => /\ k \in Admitted' <=> k \in Admitted
                                         /\ k \in retired' <=> k \in retired
                                         /\ k \in granted' <=> k \in granted
                                         /\ work'[k] = "running" <=> work[k] = "running"
  PROVE  \A k \in Jobs : k # j => Owners'[k] = Owners[k]
  BY DEF Owners, OwnerOf, Held

\* Every step moves one input along the chain of owners, or none.
LEMMA OwnerStep ==
  ASSUME IInv, [Next]_vars
  PROVE  \/ Owners' = Owners
         \/ \E j \in Jobs :
              \/ Moves(j, {"producer"}, "queue") /\ Takes(j) /\ UNCHANGED maxWorking
              \/ Moves(j, {"queue"}, "projector") /\ Starts(j)
              \/ Moves(j, {"projector"}, "settling") /\ UNCHANGED maxWorking
              \/ Moves(j, {"queue", "settling"}, "gone") /\ UNCHANGED maxWorking
<1> USE DEF Step, ledger, credit, control
<1>0. TypeOK /\ Phases /\ \A j \in Jobs : Roles(j) /\ Roles(j)'
  BY NextIInv, WhoOwns, WhoWillOwn DEF IInv
<1>1. ASSUME NEW j \in Jobs, \A k \in Jobs : k # j => /\ k \in Admitted' <=> k \in Admitted
                                                      /\ k \in retired' <=> k \in retired
                                                      /\ k \in granted' <=> k \in granted
                                                      /\ work'[k] = "running" <=> work[k] = "running"
      PROVE  Owners' = [Owners EXCEPT ![j] = Owners'[j]]
  <2>1. \A k \in Jobs : k # j => Owners'[k] = Owners[k]
    BY <1>1, SameOwner
  <2>2. QED
    BY <2>1 DEF Owners
<1>2. ASSUME NEW j \in Jobs
      PROVE  Owners[j] = Owners[j]' => Owners = [Owners EXCEPT ![j] = Owners'[j]]
  BY DEF Owners
<1>3. ASSUME NEW j \in Jobs, Submit(j) \/ TrySubmit(j)
      PROVE  \/ Owners' = Owners
             \/ Moves(j, {"producer"}, "queue") /\ Takes(j) /\ UNCHANGED maxWorking
  <2>0. prod[j] \in {"idle", "submitting"} /\ work[j] = "none" /\ j \notin Admitted \union retired
    BY <1>0, <1>3 DEF Submit, TrySubmit, Phases, Admitted
  <2>1. UNCHANGED <<work, granted, retired, maxWorking>>
        /\ \A k \in Jobs : k # j => prod'[k] = prod[k]
    BY <1>0, <1>3 DEF Submit, TrySubmit, Refuse, Admit, Sleep, TypeOK
  <2>2. \A k \in Jobs : k # j => (k \in Admitted' <=> k \in Admitted)
    BY <2>1 DEF Admitted
  <2>3. Owners' = [Owners EXCEPT ![j] = Owners'[j]] /\ Owners[j] = "producer"
    BY <1>0, <1>1, <2>0, <2>1, <2>2 DEF Roles
  <2>4. CASE Refuse(j) \/ Sleep(j)
    <3>1. j \notin (Admitted \union retired)'
      BY <1>0, <2>0, <2>1, <2>4 DEF Refuse, Sleep, Admitted, TypeOK
    <3>2. Owners'[j] = "producer"
      BY <1>0, <3>1 DEF Roles
    <3>3. QED
      BY <1>2, <2>3, <3>2
  <2>5. CASE Admit(j)
    <3>1. j \in (Held \ granted)' /\ Takes(j)
      BY <1>0, <2>0, <2>1, <2>5 DEF Admit, Held, Admitted, Takes, TypeOK
    <3>2. QED
      BY <1>0, <2>1, <2>3, <3>1 DEF Moves, Roles
  <2>6. QED
    BY <1>3, <2>4, <2>5 DEF Submit, TrySubmit
<1>4. ASSUME NEW j \in Jobs, UNCHANGED <<granted, retired>>,
             \A k \in Jobs : k \in Admitted' <=> k \in Admitted,
             \A k \in Jobs : work'[k] = "running" <=> work[k] = "running"
      PROVE  Owners' = Owners
  BY <1>4 DEF Owners, OwnerOf, Held
<1>5. ASSUME NEW j \in Jobs, Enqueue(j) \/ EnqueueRaises(j)
      PROVE  Owners' = Owners
  <2>1. work[j] = "none" /\ \A k \in Jobs : work'[k] = "running" <=> work[k] = "running"
    BY <1>0, <1>5 DEF Enqueue, EnqueueRaises, Phases, TypeOK
  <2>2. UNCHANGED <<granted, retired>> /\ \A k \in Jobs : k \in Admitted' <=> k \in Admitted
    BY <1>0, <1>5 DEF Enqueue, EnqueueRaises, Admitted, TypeOK
  <2>3. QED
    BY <1>4, <2>1, <2>2
<1>6. ASSUME NEW j \in Jobs, j \in Held \ Running, NEW e, Retire(j, e), granted' = granted,
             \A k \in Jobs : k # j => (k \in Admitted' <=> k \in Admitted),
             \A k \in Jobs : work'[k] = "running" <=> work[k] = "running"
      PROVE  Moves(j, {"queue", "settling"}, "gone")
  <2>1. retired' = retired \union {j}
    BY <1>6 DEF Retire, Held
  <2>2. Owners' = [Owners EXCEPT ![j] = Owners'[j]]
    BY <1>1, <1>6, <2>1
  <2>3. Owners[j] \in {"queue", "settling"} /\ Owners'[j] = "gone"
    BY <1>0, <1>6, <2>1 DEF Roles
  <2>4. QED
    BY <2>2, <2>3 DEF Moves
<1>7. ASSUME NEW j \in Jobs, Revoke(j)
      PROVE  \/ Owners' = Owners
             \/ Moves(j, {"queue", "settling"}, "gone") /\ UNCHANGED maxWorking
  <2>1. UNCHANGED <<work, granted, maxWorking>> /\ j \in Admitted
        /\ \A k \in Jobs : k # j => (k \in Admitted' <=> k \in Admitted)
    BY <1>0, <1>7 DEF Revoke, Admitted, TypeOK
  <2>2. CASE j \in granted
    BY <1>4, <1>7, <2>1, <2>2 DEF Revoke, Admitted
  <2>3. CASE j \in Held \ granted
    <3>1. j \notin Running /\ Retire(j, NoError)
      BY <1>0, <1>7, <2>3 DEF Revoke, Running, Phases
    <3>2. QED
      BY <1>6, <2>1, <2>3, <3>1
  <2>4. CASE j \in retired /\ j \notin granted
    <3>1. retired' = retired
      BY <1>7, <2>4 DEF Revoke, Retire
    <3>2. Owners' = [Owners EXCEPT ![j] = Owners'[j]] /\ Owners'[j] = Owners[j]
      BY <1>0, <1>1, <2>1, <2>4, <3>1 DEF Roles
    <3>3. QED
      BY <1>2, <3>2
  <2>5. QED
    BY <2>1, <2>2, <2>3, <2>4 DEF Held
<1>8. ASSUME NEW j \in Jobs, Attach(j) \/ Cancel(j) \/ Settle(j)
      PROVE  \/ Owners' = Owners
             \/ Moves(j, {"queue", "settling"}, "gone") /\ UNCHANGED maxWorking
  <2>1. /\ UNCHANGED <<granted, maxWorking>>
        /\ \A k \in Jobs : k \in Admitted' <=> k \in Admitted
        /\ \A k \in Jobs : work'[k] = "running" <=> work[k] = "running"
    BY <1>0, <1>8 DEF Attach, Cancel, Settle, Admitted, TypeOK
  <2>2. retired' = retired \/ \E e : Retire(j, e)
    BY <1>8 DEF Attach, Cancel, Settle
  <2>3. CASE retired' = retired
    BY <1>4, <2>1, <2>3
  <2>4. CASE \E e : Retire(j, e) /\ retired' # retired
    <3>1. j \notin retired
      BY <2>4 DEF Retire
    <3>2. j \in Admitted
      <4>1. CASE prod[j] \in {"attaching", "returned"}
        BY <4>1 DEF Admitted
      <4>2. CASE Settle(j)
        BY <1>0, <3>1, <4>2 DEF Settle, Phases, Admitted, TypeOK, ProducerStates
      <4>3. CASE Attach(j) \/ Cancel(j)
        BY <1>8, <2>4, <4>3 DEF Attach, Cancel, Admitted
      <4>4. QED
        BY <1>8, <4>2, <4>3
    <3>3. j \notin Running
      BY <1>8, <2>4 DEF Attach, Cancel, Settle, Running
    <3>4. QED
      BY <1>6, <2>1, <2>4, <3>1, <3>2, <3>3 DEF Held
  <2>5. QED
    BY <2>2, <2>3, <2>4
<1>9. ASSUME NEW j \in Jobs, Start(j) \/ Probe(j) \/ Timeout(j)
      PROVE  Owners' = Owners
  <2>1. \A k \in Jobs : work'[k] = "running" <=> work[k] = "running"
    BY <1>0, <1>9 DEF Start, Probe, Timeout, TypeOK
  <2>2. UNCHANGED <<granted, retired>> /\ \A k \in Jobs : k \in Admitted' <=> k \in Admitted
    BY <1>9 DEF Start, Probe, Timeout, Admitted
  <2>3. QED
    BY <1>4, <2>1, <2>2
<1>10. ASSUME NEW j \in Jobs, Check(j)
       PROVE  Owners' = Owners \/ (Moves(j, {"queue"}, "projector") /\ Starts(j))
  <2>1. CASE j \in granted'
    <3>1. j \notin granted /\ Starts(j)
      BY <1>0, <1>10, <2>1, GrantStarts DEF Check, Phases
    <3>2. granted' = granted \union {j} /\ UNCHANGED <<prod, retired>>
          /\ \A k \in Jobs : k # j => work'[k] = work[k]
      BY <1>0, <1>10, <2>1, <3>1 DEF Check, Grant, Park, TypeOK
    <3>3. Owners' = [Owners EXCEPT ![j] = Owners'[j]]
      BY <1>1, <3>2 DEF Admitted
    <3>4. j \in Running' /\ j \in waiting
      BY <1>10, <2>1, <3>1 DEF Starts, Check, Grant, Park, FittingWaiter
    <3>5. Owners[j] = "queue" /\ Owners'[j] = "projector"
      BY <1>0, <3>4 DEF Roles, IInv, LedgerExact
    <3>6. QED
      BY <3>1, <3>3, <3>5 DEF Moves
  <2>2. CASE j \notin granted'
    <3>1. UNCHANGED <<granted, retired, prod>>
      BY <1>10, <2>2 DEF Check, Grant, Park
    <3>2. \A k \in Jobs : work'[k] = "running" <=> work[k] = "running"
      BY <1>0, <1>10, <2>2 DEF Check, Grant, Park, TypeOK
    <3>3. QED
      BY <1>4, <3>1, <3>2 DEF Admitted
  <2>3. QED
    BY <2>1, <2>2
<1>11. ASSUME NEW j \in Jobs, Release(j)
       PROVE  Moves(j, {"projector"}, "settling") /\ UNCHANGED maxWorking
  <2>1. UNCHANGED <<prod, granted, retired, maxWorking>> /\ j \in Running
        /\ work'[j] # "running" /\ \A k \in Jobs : k # j => work'[k] = work[k]
    BY <1>0, <1>11 DEF Release, Running, TypeOK
  <2>2. Owners' = [Owners EXCEPT ![j] = Owners'[j]]
    BY <1>1, <2>1 DEF Admitted
  <2>3. j \in (Held \intersect granted)' /\ j \notin Running'
    BY <1>0, <2>1 DEF Held, Admitted, Running, Phases
  <2>4. Owners[j] = "projector" /\ Owners'[j] = "settling"
    BY <1>0, <2>1, <2>3 DEF Roles
  <2>5. QED
    BY <2>1, <2>2, <2>4 DEF Moves
<1>12. CASE Owner \/ UNCHANGED vars
  BY <1>12 DEF Owner, Abort, Shutdown, StopExecutor, vars, Owners, OwnerOf, Held, Admitted
<1>13. QED
  BY <1>3, <1>5, <1>7, <1>8, <1>9, <1>10, <1>11, <1>12 DEF Next, Producer, Worker

\* A budget in force is the one before or one that was probed.
LEMMA BudgetStep ==
  ASSUME IInv, [Next]_vars
  PROVE  maxWorking' \in Budgets \union {maxWorking}
<1>1. ASSUME NEW j \in Jobs, Check(j)
      PROVE  maxWorking' \in Budgets \union {maxWorking}
  BY <1>1 DEF Check, NewLimit, IInv, TypeOK, Samples, credit
<1>2. (\E j \in Jobs : Check(j)) \/ UNCHANGED maxWorking
  BY DEF Next, Producer, Worker, Owner, Submit, TrySubmit, Enqueue, EnqueueRaises, Revoke,
         Attach, Start, Probe, Timeout, Release, Settle, Cancel, Abort, Shutdown,
         StopExecutor, credit, vars
<1>3. QED
  BY <1>1, <1>2

\* The instance counts and sums as this module does.
LEMMA SameCounting ==
  /\ \A S : Handoff!Cardinality(S) = Cardinality(S)
  /\ \A amount, S : Handoff!Total(amount, S) = Total(amount, S)
<1>1. \A S : Handoff!Cardinality(S) = Cardinality(S)
  BY DEF Handoff!Cardinality, Cardinality
<1>2. \A amount, S : Handoff!Total(amount, S) = Total(amount, S)
  BY DEF Handoff!Total, Handoff!MapThenSumSet, Handoff!MapThenFoldSet, Total, MapThenSumSet, MapThenFoldSet
<1>3. QED
  BY <1>1, <1>2

\* Every step of the queue is a step of the abstract handoff, or one it does not see.
LEMMA HandoffStep == IInv /\ [Next]_vars => [Handoff!Next]_(Handoff!vars)
<1> SUFFICES ASSUME IInv, [Next]_vars PROVE [Handoff!Next]_(Handoff!vars)
  OBVIOUS
<1>1. /\ Handoff!Retained = Held /\ Handoff!OwnedBy({"projector"}) = Running
      /\ Held \in SUBSET Jobs /\ Running \in SUBSET Jobs /\ LedgerExact
  BY OwnedSets, Finite DEF IInv
<1>2. maxWorking' \in Budgets \union {maxWorking}
  BY BudgetStep
<1>3. ASSUME NEW j \in Jobs, NEW from, NEW to, Moves(j, from, to)
      PROVE  Handoff!Pass(j, from, to)
  BY <1>3 DEF Moves, Owners, Handoff!Pass
<1>4. CASE Owners' = Owners
  <2>1. UNCHANGED [j \in Jobs |-> OwnerOf(j)]
    BY <1>4 DEF Owners
  <2>2. QED
    BY <1>2, <2>1 DEF Handoff!Next, Handoff!Measure, Handoff!vars
<1>5. ASSUME NEW j \in Jobs, Moves(j, {"producer"}, "queue"), Takes(j), UNCHANGED maxWorking
      PROVE  Handoff!Accept(j)
  <2>1. Cardinality(Held) < MaxPending /\ (Cardinality(Held) = 0 \/ source + SourceBytes[j] <= MaxSource)
    BY <1>1, <1>5 DEF Takes, HasRoom, LedgerExact
  <2>2. Total(SourceBytes, Held \union {j}) = source + SourceBytes[j]
    BY <1>1, <1>5, OneJob DEF Takes, LedgerExact
  <2>3. Cardinality(Held) = 0 => Held = {}
    BY <1>1, Finite, FS_EmptySet DEF IInv
  <2>4. QED
    BY <1>1, <1>3, <1>5, <2>1, <2>2, <2>3, SameCounting DEF Handoff!Accept
<1>6. ASSUME NEW j \in Jobs, Moves(j, {"queue"}, "projector"), Starts(j)
      PROVE  Handoff!Project(j)
  <2>1. Cardinality(Running) < Workers /\ Fits(j, maxWorking')
    BY <1>1, <1>6 DEF Starts, LedgerExact
  <2>2. Total(WorkingBytes, Running \union {j}) = working + WorkingBytes[j]
    BY <1>1, <1>6, OneJob DEF Starts, LedgerExact
  <2>3. active = 0 => Running = {}
    BY <1>1, Finite, FS_EmptySet DEF IInv, LedgerExact
  <2>4. QED
    BY <1>1, <1>2, <1>3, <1>6, <2>1, <2>2, <2>3, SameCounting DEF Fits, Handoff!Project
<1>7. ASSUME NEW j \in Jobs, UNCHANGED maxWorking,
             Moves(j, {"projector"}, "settling") \/ Moves(j, {"queue", "settling"}, "gone")
      PROVE  Handoff!Finish(j) \/ Handoff!Drop(j)
  BY <1>3, <1>7 DEF Handoff!Finish, Handoff!Drop
<1>8. QED
  BY <1>4, <1>5, <1>6, <1>7, OwnerStep DEF Handoff!Next

\* The counters, tickets and flags of the code implement the handoff its docstring
\* promises: one owner at a time, and limits over the inputs themselves.
THEOREM QueueImplementsHandoff == Spec => ImplementsHandoff
<1>1. Init => Handoff!Init
  <2> SUFFICES ASSUME Init PROVE Handoff!Init
    OBVIOUS
  <2>1. \A j \in Jobs : j \notin Admitted \union retired
    BY DEF Init, Admitted
  <2>2. \A j \in Jobs : OwnerOf(j) = "producer"
    BY <2>1 DEF OwnerOf, Held
  <2>3. QED
    BY <2>2 DEF Init, Handoff!Init
<1>2. QED
  BY <1>1, HandoffStep, Invariance, PTL DEF Spec, ImplementsHandoff, Handoff!Spec

-----------------------------------------------------------------------------
(***************************************************************************)
(* DeferredProjection, for any jobs and any publications among them: the   *)
(* preparation, the scheduler loop, the other views and the teardown only  *)
(* take steps of the queue, so that all the theorems above hold there too. *)
(* DInv adds which futures may be in which state while the queue does what *)
(* it does.  Nothing above cites an assumption of DeferredProjection.      *)
(***************************************************************************)

\* The states of the future a view waits for, and those in which it has not been given
\* to the queue.
ChildStates == {"unmade", "held", "cancelled", "taken", "resolved", "rejected"}
Untouched == {"unmade", "held", "cancelled"}

\* A future that still has its request, or never gives it to the queue, is a job the queue
\* has not seen; one that has given it up is in the queue's hands or was answered.
Futures ==
  /\ child \in [ChildJobs -> ChildStates]
  /\ \A c \in ChildJobs : child[c] \in Untouched <=> prod[c] = "idle"
  /\ \A c \in Is("resolved") : work[c] = "resolved"

\* The futures are made together and withdrawn together: while one is held, the others are
\* held or given up, and what is given up stands in front of what is held.
Line ==
  /\ parent = "preparing" => Is("unmade") = ChildJobs
  /\ Is("held") # {} => Is("unmade") = {} /\ Is("cancelled") = {}
  /\ \A i, k \in DOMAIN Children :
       i < k /\ prod[Children[k]] # "idle" => prod[Children[i]] # "idle"

\* Layers are registered only when every projection has succeeded.
Layers == main \in {"registered", "closing"} => Is("resolved") = ChildJobs

\* The inductive invariant.
DInv == IInv /\ Futures /\ Line /\ Layers

-----------------------------------------------------------------------------
(* What the queue does to jobs behind the back of their futures. *)

\* Nothing is submitted, and what is resolved stays so.
Quiet == /\ \A j \in Jobs : prod'[j] = "idle" <=> prod[j] = "idle"
         /\ \A j \in Jobs : work[j] = "resolved" => work'[j] = "resolved"

\* The job that is being submitted is answered or sleeps; the others are left alone.
Submitted(j) == /\ \A k \in Jobs \ {j} : prod'[k] = prod[k]
                /\ work' = work /\ prod'[j] # "idle"

\* A submission changes the producer's side of its own job only.
LEMMA SubmitStep ==
  ASSUME IInv, NEW j \in Jobs, Submit(j) \/ TrySubmit(j)
  PROVE  Submitted(j)
BY DEF Submit, TrySubmit, Refuse, Admit, Sleep, Step, IInv, TypeOK, Submitted

\* The queue's other steps never touch an input that was not submitted, nor a projection
\* that has succeeded.
LEMMA QuietStep ==
  ASSUME IInv, NEW j \in Jobs, PassOn(j) \/ Worker(j) \/ Cancel(j)
  PROVE  Quiet
<1> USE DEF Step, IInv, TypeOK, Quiet
<1>1. CASE Enqueue(j) \/ EnqueueRaises(j)
  BY <1>1 DEF Enqueue, EnqueueRaises, Phases
<1>2. CASE Revoke(j) \/ Attach(j)
  BY <1>2 DEF Revoke, Attach
<1>3. CASE Cancel(j)
  BY <1>3 DEF Cancel
<1>4. CASE Start(j) \/ Probe(j) \/ Timeout(j) \/ Release(j)
  BY <1>4 DEF Start, Probe, Timeout, Release
<1>5. CASE Check(j)
  BY <1>5 DEF Check, Grant, Park
<1>6. CASE Settle(j)
  BY <1>6 DEF Settle
<1>7. QED
  BY <1>1, <1>2, <1>3, <1>4, <1>5, <1>6 DEF PassOn, Worker

\* Abort, shutdown and the end of the executor are quiet as well.
LEMMA OwnerIsQuiet ==
  ASSUME Abort \/ Shutdown \/ StopExecutor \/ UNCHANGED vars
  PROVE  Quiet
BY DEF Abort, Shutdown, StopExecutor, vars, Quiet

-----------------------------------------------------------------------------
(* The publications, their view and the run around it take the queue's steps. *)

\* The children are jobs of the queue, in one order.
LEMMA ChildrenAreJobs ==
  /\ ChildJobs \subseteq Jobs
  /\ \A i \in DOMAIN Children : Children[i] \in ChildJobs
  /\ \A i, k \in DOMAIN Children : Children[i] = Children[k] => i = k
<1>1. Children \in Seq(Jobs) /\ Len(Children) \in Nat /\ DOMAIN Children = 1..Len(Children)
  BY ChildrenAssumption
<1>2. Children \in Surjection(1..Len(Children), ChildJobs)
  BY <1>1 DEF Surjection, ChildJobs
<1>3. IsFiniteSet(1..Len(Children)) /\ Cardinality(1..Len(Children)) = Cardinality(ChildJobs)
  <2>1. IsFiniteSet(1..Len(Children)) /\ Cardinality(1..Len(Children)) = Len(Children)
    BY <1>1, FS_Interval
  <2>2. QED
    BY <2>1, ChildrenAssumption
<1>4. Children \in Injection(1..Len(Children), ChildJobs)
  BY <1>2, <1>3, FS_Surjection
<1>5. \A i, k \in DOMAIN Children : Children[i] = Children[k] => i = k
  BY <1>1, <1>4 DEF Injection, IsInjective
<1>6. ChildJobs \subseteq Jobs /\ \A i \in DOMAIN Children : Children[i] \in ChildJobs
  BY <1>1 DEF ChildJobs
<1>7. QED
  BY <1>5, <1>6

\* Every step is one of the queue or leaves it alone.
LEMMA QueueStep == [DeferredNext]_all => [Next]_vars
<1> SUFFICES ASSUME [DeferredNext]_all PROVE [Next]_vars
  OBVIOUS
<1> USE ChildrenAreJobs
<1>1. ASSUME NEW j \in Jobs, OtherSubmit(j) \/ CancelQueued(j) \/ PassOn(j) \/ Worker(j)
      PROVE  Next
  BY <1>1 DEF OtherSubmit, CancelQueued, PassOn, Next, Producer
<1>2. ASSUME NEW c \in ChildJobs, TryAdmit(c)
      PROVE  Next
  BY <1>2 DEF TryAdmit, Next, Producer
<1>3. CASE Callback
  BY <1>3 DEF Callback, Reject, Deliver
<1>4. CASE Preparation
  BY <1>2, <1>4 DEF Preparation, Prepare, Flush, Flushed
<1>5. CASE Loop \/ Fail
  BY <1>2, <1>5 DEF Loop, Poll, Register, Surface, Fail
<1>6. CASE Finish \/ Teardown \/ StopExecutor
  BY <1>6 DEF Finish, Teardown, CancelPublications, AbortQueue, Join, ShutdownQueue, Next, Owner
<1>7. CASE UNCHANGED all
  BY <1>7 DEF all
<1>8. QED
  BY <1>1, <1>3, <1>4, <1>5, <1>6, <1>7 DEF DeferredNext

\* Deferred publications are a client of the queue: whatever the view, the loop and the
\* teardown do, the queue only takes its own steps (projection_queue.py:301).
THEOREM DeferralUsesTheQueue == DeferredSpec => Spec
BY QueueStep, PTL DEF DeferredSpec, DeferredInit, Spec

-----------------------------------------------------------------------------
(* The invariant of the publications. *)

\* The invariant holds at the start ...
LEMMA DeferredInitial == DeferredInit => DInv
<1> SUFFICES ASSUME DeferredInit PROVE DInv
  OBVIOUS
<1>1. IInv
  BY InitIInv DEF DeferredInit
<1>2. QED
  BY <1>1, ChildrenAreJobs DEF DeferredInit, Init, DInv, Futures, Line, Layers, ChildStates, Untouched, Is

\* A quiet step of the queue that leaves the futures alone.
LEMMA QuietKeeps ==
  ASSUME DInv, Quiet, UNCHANGED <<child, parent>>, main' \in {"registered", "closing"} => Is("resolved") = ChildJobs
  PROVE  Futures' /\ Line' /\ Layers'
<1>1. Futures'
  BY ChildrenAreJobs DEF DInv, Futures, Quiet, Is
<1>2. Line'
  BY ChildrenAreJobs DEF DInv, Line, Quiet, Is
<1>3. Layers'
  BY DEF DInv, Layers, Is
<1>4. QED
  BY <1>1, <1>2, <1>3

\* Publications are admitted in component order.
LEMMA TryAdmitKeeps ==
  ASSUME DInv, NEW c \in ChildJobs, FirstHeld(c), TryAdmit(c), UNCHANGED main, parent' # "preparing"
  PROVE  Futures' /\ Line' /\ Layers'
<1>1. c \in Jobs /\ Submitted(c)
  BY SubmitStep, ChildrenAreJobs DEF DInv, TryAdmit
<1>2. child' = [child EXCEPT ![c] = "taken"] /\ child[c] = "held"
  BY DEF TryAdmit, FirstHeld
<1>3. Futures'
  BY <1>1, <1>2, ChildrenAreJobs DEF DInv, Futures, Submitted, Is, ChildStates, Untouched
<1>4. Is("unmade") = {} /\ Is("cancelled") = {}
  BY <1>2 DEF DInv, Line, Is
<1>5. Is("held")' \subseteq Is("held") /\ Is("unmade")' = {} /\ Is("cancelled")' = {}
  BY <1>2, <1>4 DEF DInv, Futures, Is
<1>6. ASSUME NEW i \in DOMAIN Children, NEW k \in DOMAIN Children, i < k, prod'[Children[k]] # "idle"
      PROVE  prod'[Children[i]] # "idle"
  <2>1. CASE Children[k] # c
    BY <1>1, <1>6, <2>1, ChildrenAreJobs DEF DInv, Line, Submitted
  <2>2. CASE Children[k] = c
    <3>1. child[Children[i]] # "held"
      BY <1>6, <2>2, ChildrenAreJobs, ChildrenAssumption DEF FirstHeld
    <3>2. Children[i] \in ChildJobs /\ child[Children[i]] \notin Untouched
      BY <1>4, <3>1, ChildrenAreJobs DEF Untouched, Is
    <3>3. QED
      BY <1>1, <3>2, ChildrenAreJobs DEF DInv, Futures, Submitted
  <2>3. QED
    BY <2>1, <2>2
<1>7. Line'
  BY <1>5, <1>6 DEF Line
<1>8. Layers'
  BY <1>2 DEF DInv, Layers, Is
<1>9. QED
  BY <1>3, <1>7, <1>8

\* The futures are withdrawn together or left alone.
LEMMA WithdrawalKeeps ==
  ASSUME DInv, UNCHANGED vars, child' \in {child, Withdrawn},
         main' \in {"registered", "closing"} => main' = main, parent' # "preparing", parent # "preparing"
  PROVE  Futures' /\ Line' /\ Layers'
<1>1. Futures'
  BY ChildrenAreJobs DEF DInv, vars, Futures, Is, Withdrawn, ChildStates, Untouched
<1>2. Line'
  BY ChildrenAreJobs DEF DInv, vars, Futures, Line, Is, Withdrawn
<1>3. Layers'
  BY DEF DInv, Layers, Futures, Is, Withdrawn
<1>4. QED
  BY <1>1, <1>2, <1>3

\* ... and is kept by every step.
LEMMA DeferredStep == DInv /\ [DeferredNext]_all => Futures' /\ Line' /\ Layers'
<1> SUFFICES ASSUME DInv, [DeferredNext]_all PROVE Futures' /\ Line' /\ Layers'
  OBVIOUS
<1>1. ASSUME NEW j \in Jobs, OtherSubmit(j)
      PROVE  Futures' /\ Line' /\ Layers'
  <2>1. Submitted(j) /\ j \notin ChildJobs /\ UNCHANGED deferred
    BY <1>1, SubmitStep DEF DInv, OtherSubmit, Others
  <2>2. \A c \in ChildJobs : prod'[c] = prod[c] /\ work'[c] = work[c]
    BY <2>1, ChildrenAreJobs DEF Submitted
  <2>3. Futures'
    BY <2>1, <2>2 DEF DInv, Futures, deferred, Is
  <2>4. Line'
    BY <2>1, <2>2, ChildrenAreJobs DEF DInv, Line, deferred, Is
  <2>5. Layers'
    BY <2>1 DEF DInv, Layers, deferred, Is
  <2>6. QED
    BY <2>3, <2>4, <2>5
<1>2. ASSUME NEW j \in Jobs, CancelQueued(j) \/ ((PassOn(j) \/ Worker(j)) /\ UNCHANGED deferred)
      PROVE  Futures' /\ Line' /\ Layers'
  <2>1. Quiet /\ UNCHANGED deferred
    BY <1>2, QuietStep DEF DInv, CancelQueued
  <2>2. QED
    BY <2>1, QuietKeeps DEF DInv, Layers, deferred
<1>3. ASSUME NEW c \in ChildJobs, Reject(c) \/ Deliver(c)
      PROVE  Futures' /\ Line' /\ Layers'
  <2>1. PICK s \in {"resolved", "rejected"} :
          child' = [child EXCEPT ![c] = s] /\ (s = "resolved" => work[c] = "resolved")
    BY <1>3 DEF Reject, Deliver
  <2>2. child[c] = "taken" /\ UNCHANGED <<vars, parent, main>>
    BY <1>3 DEF Reject, Deliver
  <2>3. Futures'
    BY <2>1, <2>2, ChildrenAreJobs DEF DInv, Futures, vars, Is, ChildStates, Untouched
  <2>4. Line'
    BY <2>1, <2>2 DEF DInv, Futures, Line, vars, Is
  <2>5. Layers'
    BY <2>1, <2>2 DEF DInv, Futures, Layers, Is
  <2>6. QED
    BY <2>3, <2>4, <2>5
<1>4. CASE Prepare
  <2>1. /\ parent = "preparing" /\ parent' # "preparing" /\ UNCHANGED <<vars, main>>
        /\ \E s \in {"held", "cancelled"} : child' = [c \in ChildJobs |-> s]
    BY <1>4 DEF Prepare
  <2>2. \A c \in ChildJobs : child[c] = "unmade" /\ prod[c] = "idle"
    BY <2>1 DEF DInv, Line, Futures, Is, Untouched
  <2>3. Futures'
    BY <2>1, <2>2 DEF DInv, Futures, vars, Is, ChildStates, Untouched
  <2>4. Line'
    BY <2>1, <2>2 DEF DInv, Line, vars, Is
  <2>5. main' \in {"registered", "closing"} => ChildJobs = {}
    BY <2>1, <2>2 DEF DInv, Layers, Is
  <2>6. Layers'
    BY <2>5 DEF Layers, Is
  <2>7. QED
    BY <2>3, <2>4, <2>6
<1>5. CASE Flush
  <2>1. ASSUME UNCHANGED vars, End("raised") \/ End("returned")
        PROVE  Futures' /\ Line' /\ Layers'
    BY <1>5, <2>1, WithdrawalKeeps DEF Flush, End
  <2>2. ASSUME NEW c \in ChildJobs, FirstHeld(c), TryAdmit(c), parent' = "checking"
        PROVE  Futures' /\ Line' /\ Layers'
    BY <1>5, <2>2, TryAdmitKeeps DEF Flush
  <2>3. QED
    BY <1>5, <2>1, <2>2 DEF Flush
<1>6. CASE Flushed
  <2>1. child' \in {child, Withdrawn} /\ parent' # "preparing" /\ parent # "preparing" /\ main' = main
        /\ UNCHANGED vars
    BY <1>6 DEF Flushed, End
  <2>2. QED
    BY <2>1, WithdrawalKeeps
<1>7. CASE Poll
  BY <1>7, TryAdmitKeeps DEF Poll
<1>8. CASE Register \/ Fail \/ Join \/ UNCHANGED all
  <2>1. Quiet /\ UNCHANGED <<child, parent>>
    BY <1>8, OwnerIsQuiet DEF Register, Fail, Join, all, deferred
  <2>2. main' \in {"registered", "closing"} => Is("resolved") = ChildJobs
    BY <1>8 DEF DInv, Layers, Register, Fail, Join, all, deferred
  <2>3. QED
    BY <2>1, <2>2, QuietKeeps
<1>9. CASE Finish \/ AbortQueue \/ ShutdownQueue \/ (StopExecutor /\ UNCHANGED deferred)
  <2>1. Quiet /\ UNCHANGED <<child, parent>>
    BY <1>9, OwnerIsQuiet DEF Finish, AbortQueue, ShutdownQueue, deferred
  <2>2. main' \in {"registered", "closing"} => Is("resolved") = ChildJobs
    BY <1>9 DEF DInv, Layers, Finish, AbortQueue, ShutdownQueue, deferred
  <2>3. QED
    BY <2>1, <2>2, QuietKeeps
<1>10. CASE CancelPublications
  <2>1. CASE parent = "returned"
    BY <1>10, <2>1, WithdrawalKeeps DEF CancelPublications
  <2>2. CASE parent # "returned"
    BY <1>10, <2>2, OwnerIsQuiet, QuietKeeps DEF CancelPublications
  <2>3. QED
    BY <2>1, <2>2
<1>11. QED
  BY <1>1, <1>2, <1>3, <1>4, <1>5, <1>6, <1>7, <1>8, <1>9, <1>10
     DEF DeferredNext, Callback, Preparation, Loop, Surface, Teardown

\* DInv is an invariant of the publications and their queue.
LEMMA DInvIsInductive == DeferredSpec => []DInv
<1>1. DInv /\ [DeferredNext]_all => DInv'
  BY QueueStep, NextIInv, DeferredStep DEF DInv
<1>2. QED
  BY <1>1, DeferredInitial, PTL DEF DeferredSpec

\* A publication has one owner, publications leave the view in component order, also
\* when they met a full queue and are tried again by the loop (projection_queue.py:301),
\* and layers are registered only when every projection has succeeded.
THEOREM PublicationsStayInOrder == DeferredSpec => []OneOwnerInOrder
<1>1. DInv => OneOwnerInOrder
  <2> SUFFICES ASSUME DInv PROVE OneOwnerInOrder
    OBVIOUS
  <2>1. \A c \in Is("held") \union Is("cancelled") : prod[c] = "idle" /\ work[c] = "none"
    BY ChildrenAreJobs DEF DInv, Futures, Untouched, Is, IInv, Phases
  <2>2. QED
    BY <2>1 DEF DInv, Futures, Line, Layers, Is, OneOwnerInOrder
<1>2. QED
  BY <1>1, DInvIsInductive, PTL
=============================================================================
