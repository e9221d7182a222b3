-------------------------- MODULE PublicationProofs --------------------------
(***************************************************************************)
(* Theorems about PublicationTask for any batches, sizes, limits, capacity *)
(* and any number of failures: the books of both queues are exact and      *)
(* bounded, and a task that ends leaves nothing behind in either executor. *)
(* The two need each other: the books of the host queue are its own only   *)
(* while it has one collector, and it has one because a closed GPU queue   *)
(* was emptied by the collector that closed it.  The third theorem is      *)
(* about the outcome: batches leave a queue in the order they came, so its *)
(* error is the first, and a host queue is closed before the task comes to *)
(* it only by a consumer that gives up its encoder or whose GPU batch then *)
(* fails, so that a task whose closes both succeed has lost nothing while  *)
(* it keeps its encoder.                                                   *)
(***************************************************************************)
EXTENDS PublicationTask, DataProofs

Threads == {"task", "consumer"}

-----------------------------------------------------------------------------
(* One queue. *)

Content(q) == Range(q.pending) \union q.reserved

Fields(q) ==
  q = [pending |-> q.pending, reserved |-> q.reserved, bytes |-> q.bytes,
       error |-> q.error, charge |-> q.charge, closed |-> q.closed]

\* A batch is in a queue once, submitted or reserved.
IsQueue(q) ==
  /\ Fields(q)
  /\ q.pending \in Seq(Batches) /\ IsInjective(q.pending)
  /\ q.reserved \in SUBSET Batches /\ Range(q.pending) \cap q.reserved = {}
  /\ q.charge \in [Batches -> Nat] /\ q.closed \in BOOLEAN

\* Its books.
Sound(q, limit) ==
  /\ IsQueue(q)
  /\ q.bytes = Total(q.charge, Content(q))
  /\ Retained(q) <= Capacity
  /\ q.bytes <= limit \/ Retained(q) = 1
  /\ q.closed => q.reserved = {}

-----------------------------------------------------------------------------
(* The inductive invariant. *)

IsCall(c) ==
  c = [pc |-> c.pc, op |-> c.op, pipe |-> c.pipe, batch |-> c.batch, bytes |-> c.bytes]

Calls == call = [t \in Threads |-> call[t]] /\ \A t \in Threads : IsCall(call[t])

IsProducer(r) == r = [stage |-> r.stage, batch |-> r.batch, failed |-> r.failed]
IsConsumer(r) ==
  r = [stage |-> r.stage, batch |-> r.batch, op |-> r.op, failed |-> r.failed, codec |-> r.codec]

Shapes ==
  /\ queue = [p \in Pipes |-> queue[p]]
  /\ \A p \in Pipes : Sound(queue[p], Limit[p])
  /\ inbox \in [Pipes -> Seq(Batches)]
  /\ state \in [Batches -> {"new", "queued", "done", "failed"}]
  /\ Calls
  /\ IsProducer(producer) /\ IsConsumer(consumer)
  /\ producer.batch \in Nat \ {0} /\ consumer.op \in Nat \ {0}

\* What an executor has not finished waits in its queue, unanswered.
Inboxes ==
  /\ \A p \in Pipes :
       /\ IsInjective(inbox[p])
       /\ \A b \in Range(inbox[p]) : b \in Range(queue[p].pending) /\ state[b] = "queued"
  /\ consumer.stage # "idle" =>
       inbox["gpu"] # <<>> /\ Head(inbox["gpu"]) = <<consumer.batch>>

\* The batches of each queue are those of its producer, none of them to come again.
Contents ==
  /\ Content(queue["gpu"]) \subseteq GpuBatches /\ Content(queue["host"]) \subseteq HostBatches
  /\ \A p \in Pipes : \A b \in Range(queue[p].pending) : state[b] # "new"
  /\ \A b \in GpuBatches : b[1] >= producer.batch => state[b] = "new"
  /\ \A b \in Range(queue["host"].pending) :
       \/ Settled(<<b[1]>>)
       \/ consumer.stage # "idle" /\ b[1] = consumer.batch /\ b[2] < consumer.op

Collects == {"sweep", "admit", "fail", "returned", "raised"}
Closes == {"drain", "fail", "returned", "raised"}

\* Where the call of the task thread is while the task is somewhere, and what it has
\* reserved.
TaskCalls ==
  LET c == call["task"]
  IN  /\ \/ producer.stage \in {"next", "policy", "close", "ended"} /\ c.pc = "none"
         \/ /\ producer.stage = "reserving" /\ c.pc \in Collects /\ c.op = "reserve"
            /\ c.batch = Batch /\ c.bytes = GpuBytes[producer.batch] /\ c.pipe = "gpu"
         \/ producer.stage = "submitting" /\ c.pc \in {"refused", "raised"} /\ c.pipe = "gpu"
         \/ producer.stage = "closing gpu" /\ c.pc \in Closes /\ c.op = "close" /\ c.pipe = "gpu"
         \/ producer.stage = "closing host" /\ c.pc \in Closes /\ c.op = "close" /\ c.pipe = "host"
      /\ producer.stage \in {"reserving", "policy"} => producer.batch <= Len(GpuBytes)
      /\ queue["gpu"].reserved =
           IF producer.stage = "policy" \/ (producer.stage = "reserving" /\ c.pc = "returned")
           THEN {Batch} ELSE {}

\* The same for the GPU consumer and the host queue; a resize that failed has lost its
\* reservation or not.
ConsumerCalls ==
  LET c == call["consumer"]
      leased == \/ consumer.stage \in {"encode", "submit"}
                \/ consumer.stage = "reserving" /\ c.pc = "returned"
                \/ consumer.stage = "resizing" /\ c.pc \in {"sweep", "admit", "returned"}
  IN  /\ \/ consumer.stage \in {"idle", "work", "encode", "submit", "fence"} /\ c.pc = "none"
         \/ /\ consumer.stage \in {"reserving", "resizing"} /\ c.pc \in Collects
            /\ c.op = IF consumer.stage = "reserving" THEN "reserve" ELSE "resize"
            /\ c.batch = HostBatch /\ c.bytes \in Nat /\ c.pipe = "host"
         \/ consumer.stage = "submitting" /\ c.pc \in {"refused", "raised"} /\ c.pipe = "host"
      /\ consumer.stage # "idle" => consumer.batch \in DOMAIN GpuBytes
      /\ consumer.stage \in {"reserving", "encode", "resizing", "submit", "submitting"} =>
           consumer.op <= Len(Work)
      /\ leased => queue["host"].reserved = {HostBatch}
      /\ ~leased => \/ queue["host"].reserved = {}
                    \/ /\ queue["host"].reserved = {HostBatch}
                       /\ consumer.stage = "resizing" /\ c.pc = "raised"

\* Whoever closes a queue empties it; nobody waits to be admitted to a closed one.
Closings ==
  /\ \A p \in Pipes : queue[p].closed /\ queue[p].pending # <<>> =>
       \E t \in Threads : call[t].pipe = p /\ call[t].pc = "fail"
  /\ \A t \in Threads : call[t].pc = "fail" => queue[call[t].pipe].closed
  /\ \A t \in Threads : call[t].pc \in {"sweep", "admit"} => ~queue[call[t].pipe].closed
  /\ \A p \in Pipes : queue[p].error # NoError =>
       queue[p].closed \/ \E t \in Threads : call[t].pipe = p /\ call[t].pc = "refused"

Emptied(p) == queue[p].closed /\ queue[p].pending = <<>>

\* The task thread has closed one queue, then the other.
Endings ==
  LET closed == call["task"].pc \in {"returned", "raised"}
  IN  /\ \/ producer.stage \in {"closing host", "ended"}
         \/ producer.stage = "closing gpu" /\ closed
         => Emptied("gpu")
      /\ producer.stage = "ended" \/ (producer.stage = "closing host" /\ closed) =>
           Emptied("host")

IInv == Shapes /\ Inboxes /\ Contents /\ TaskCalls /\ ConsumerCalls /\ Closings /\ Endings

-----------------------------------------------------------------------------
(* The operators of one queue. *)

\* The image of a finite set is finite.
LEMMA ImageFinite ==
  ASSUME NEW S, IsFiniteSet(S), NEW f, f = [x \in S |-> f[x]]
  PROVE  IsFiniteSet({f[x] : x \in S})
<1> DEFINE T == {f[x] : x \in S}
<1>1. f \in [S -> T]
  OBVIOUS
<1>2. f \in Surjection(S, T)
  BY <1>1 DEF Surjection
<1>3. QED
  BY <1>2, FS_Surjection

LEMMA BatchesFinite == IsFiniteSet(Batches)
<1>1. IsFiniteSet(DOMAIN GpuBytes) /\ \A b \in DOMAIN HostWork : IsFiniteSet(DOMAIN HostWork[b])
  <2>1. \A T : \A s \in Seq(T) : IsFiniteSet(DOMAIN s)
    <3>1. \A T : \A s \in Seq(T) : DOMAIN s = 1 .. Len(s) /\ Len(s) \in Nat
      OBVIOUS
    <3>2. QED
      BY <3>1, FS_Interval
  <2>2. GpuBytes \in Seq(Nat) /\ HostWork \in Seq(Seq([bytes : Nat, sized : BOOLEAN]))
    BY WorkAssumption
  <2>3. \A b \in DOMAIN HostWork : HostWork[b] \in Seq([bytes : Nat, sized : BOOLEAN])
    BY <2>2
  <2>4. QED
    BY <2>1, <2>2, <2>3
<1>2. IsFiniteSet(GpuBatches)
  <2> DEFINE f == [b \in DOMAIN GpuBytes |-> <<b>>]
  <2>1. GpuBatches = {f[b] : b \in DOMAIN GpuBytes} /\ f = [b \in DOMAIN GpuBytes |-> f[b]]
    BY DEF GpuBatches
  <2> HIDE DEF f
  <2>2. QED
    BY <1>1, <2>1, ImageFinite
<1>3. IsFiniteSet(DOMAIN HostWork)
  <2>1. DOMAIN HostWork = 1 .. Len(HostWork) /\ Len(HostWork) \in Nat
    BY WorkAssumption
  <2>2. QED
    BY <2>1, FS_Interval
<1>4. IsFiniteSet(HostBatches)
  <2> DEFINE of(b) == {<<b, k>> : k \in DOMAIN HostWork[b]}
             f == [b \in DOMAIN HostWork |-> of(b)]
  <2>1. ASSUME NEW b \in DOMAIN HostWork PROVE IsFiniteSet(of(b))
    <3> DEFINE g == [k \in DOMAIN HostWork[b] |-> <<b, k>>]
    <3>1. of(b) = {g[k] : k \in DOMAIN HostWork[b]} /\ g = [k \in DOMAIN HostWork[b] |-> g[k]]
      OBVIOUS
    <3> HIDE DEF g, of
    <3>2. QED
      BY <1>1, <3>1, ImageFinite
  <2>2. HostBatches = UNION {of(b) : b \in DOMAIN HostWork}
    BY DEF HostBatches
  <2>3. /\ {of(b) : b \in DOMAIN HostWork} = {f[b] : b \in DOMAIN HostWork}
        /\ f = [b \in DOMAIN HostWork |-> f[b]]
    OBVIOUS
  <2>4. \A T \in {of(b) : b \in DOMAIN HostWork} : IsFiniteSet(T)
    BY <2>1
  <2> HIDE DEF f
  <2>5. IsFiniteSet({f[b] : b \in DOMAIN HostWork})
    BY <1>3, <2>3, ImageFinite
  <2> HIDE DEF of
  <2>6. IsFiniteSet({of(b) : b \in DOMAIN HostWork})
    BY <2>3, <2>5
  <2>7. QED
    BY <2>2, <2>4, <2>6, FS_UNION
<1>5. QED
  BY <1>2, <1>4, FS_Union DEF Batches

\* What the content of a queue amounts to.
LEMMA ContentFacts ==
  ASSUME NEW q, IsQueue(q)
  PROVE  /\ Content(q) \in SUBSET Batches /\ IsFiniteSet(Content(q))
         /\ \A b \in Content(q) : q.charge[b] \in Nat
         /\ Total(q.charge, Content(q)) \in Nat
         /\ IsFiniteSet(q.reserved) /\ Cardinality(q.reserved) \in Nat /\ Len(q.pending) \in Nat
         /\ Retained(q) \in Nat /\ (Retained(q) = 0 => Content(q) = {})
<1>1. Range(q.pending) \in SUBSET Batches /\ Len(q.pending) \in Nat
      /\ (Len(q.pending) = 0 => Range(q.pending) = {})
  BY DEF IsQueue, Range
<1>2. Content(q) \in SUBSET Batches
  BY <1>1 DEF IsQueue, Content
<1>3. IsFiniteSet(Content(q)) /\ IsFiniteSet(q.reserved)
  BY <1>2, BatchesFinite, FS_Subset DEF IsQueue
<1>4. \A b \in Content(q) : q.charge[b] \in Nat
  BY <1>2 DEF IsQueue
<1>5. Total(q.charge, Content(q)) \in Nat
  BY <1>3, <1>4, TotalNat
<1>6. Cardinality(q.reserved) \in Nat /\ (Cardinality(q.reserved) = 0 => q.reserved = {})
  BY <1>3, FS_CardinalityType, FS_EmptySet
<1>7. Retained(q) \in Nat
  BY <1>1, <1>6 DEF Retained
<1>8. Retained(q) = 0 => Content(q) = {}
  BY <1>1, <1>6 DEF Retained, Content
<1>9. QED
  BY <1>1, <1>2, <1>3, <1>4, <1>5, <1>6, <1>7, <1>8

\* A queue that holds less, at the same charges, is as sound as it was.
LEMMA LessIsSound ==
  ASSUME NEW limit \in Nat, NEW q, Sound(q, limit), NEW r, IsQueue(r), r.charge = q.charge,
         Content(r) \subseteq Content(q), r.bytes = Total(r.charge, Content(r)),
         Retained(r) <= Retained(q), Retained(r) = Retained(q) => Content(r) = Content(q),
         r.closed => r.reserved = {}
  PROVE  Sound(r, limit)
<1> DEFINE lost == Content(q) \ Content(r)
<1>1. IsQueue(q) /\ q.bytes = Total(q.charge, Content(q)) /\ Retained(q) <= Capacity
      /\ (q.bytes <= limit \/ Retained(q) = 1)
  BY DEF Sound
<1>2. /\ IsFiniteSet(Content(q)) /\ \A b \in Content(q) : q.charge[b] \in Nat
      /\ Retained(q) \in Nat /\ Total(q.charge, Content(q)) \in Nat
  BY <1>1, ContentFacts
<1>3. Retained(r) \in Nat /\ (Retained(r) = 0 => Content(r) = {})
  BY ContentFacts
<1>4. Total(q.charge, Content(q)) = Total(q.charge, Content(r)) + Total(q.charge, lost)
  BY <1>2, TotalSplit
<1>5. Total(q.charge, Content(r)) \in Nat /\ Total(q.charge, lost) \in Nat
  <2>1. IsFiniteSet(Content(r)) /\ IsFiniteSet(lost)
    BY <1>2, FS_Subset
  <2>2. \A b \in lost : q.charge[b] \in Nat
    BY <1>2
  <2>3. \A b \in Content(r) : q.charge[b] \in Nat
    BY <1>2
  <2> HIDE DEF lost
  <2>4. QED
    BY <2>1, <2>2, <2>3, TotalNat
<1>6. r.bytes <= limit \/ Retained(r) = 1
  <2>1. CASE q.bytes <= limit
    <3> HIDE DEF lost
    <3>1. QED
      BY <1>1, <1>4, <1>5, <2>1
  <2>2. CASE Retained(q) = 1 /\ Retained(r) = 0
    <3>1. r.bytes = 0
      BY <1>3, <2>2, TotalEmpty
    <3>2. QED
      BY <3>1
  <2>3. QED
    BY <1>1, <1>2, <1>3, <2>1, <2>2
<1>7. Retained(r) <= Capacity
  BY <1>1, <1>2, <1>3, CapacityAssumption
<1>8. QED
  BY <1>6, <1>7 DEF Sound

LEMMA NewIsSound ==
  ASSUME NEW limit \in Nat
  PROVE  Sound(NewQueue(Batches), limit)
<1> DEFINE q == NewQueue(Batches)
<1>1. /\ Fields(q)
      /\ q.pending = <<>> /\ q.reserved = {} /\ q.bytes = 0 /\ q.closed = FALSE
      /\ q.charge \in [Batches -> Nat]
  BY DEF NewQueue, Fields
<1> HIDE DEF q
<1>2. Range(q.pending) = {} /\ q.pending \in Seq(Batches) /\ Len(q.pending) = 0
  BY <1>1 DEF Range
<1>3. IsInjective(q.pending)
  BY <1>1 DEF IsInjective
<1>4. Content(q) = {} /\ Retained(q) = 0
  BY <1>1, <1>2, FS_EmptySet DEF Content, Retained
<1>5. IsQueue(q)
  BY <1>1, <1>2, <1>3 DEF IsQueue
<1>6. Sound(q, limit)
  BY <1>1, <1>4, <1>5, TotalEmpty, CapacityAssumption DEF Sound
<1>7. QED
  BY <1>6 DEF q

\* A batch that fits is reserved.
LEMMA ReserveIsSound ==
  ASSUME NEW limit \in Nat, NEW q, Sound(q, limit), NEW b \in Batches, b \notin Content(q),
         NEW n \in Nat, Fits(q, n, limit), ~q.closed,
         NEW r, r = Reserve(q, b, n)
  PROVE  /\ Sound(r, limit) /\ r.pending = q.pending /\ r.reserved = q.reserved \union {b}
         /\ r.error = q.error /\ r.closed = q.closed
<1>1. IsQueue(q) /\ q.bytes = Total(q.charge, Content(q))
  BY DEF Sound
<1>2. /\ Fields(r)
      /\ r.pending = q.pending /\ r.reserved = q.reserved \union {b} /\ r.bytes = q.bytes + n
      /\ r.error = q.error /\ r.charge = [q.charge EXCEPT ![b] = n] /\ r.closed = q.closed
  BY <1>1 DEF IsQueue, Fields, Reserve
<1>3. IsQueue(r)
  BY <1>1, <1>2 DEF IsQueue, Content
<1>4. Content(r) = Content(q) \union {b}
  BY <1>2 DEF Content
<1>5. /\ IsFiniteSet(Content(q)) /\ Content(q) \in SUBSET Batches
      /\ \A x \in Content(q) : q.charge[x] \in Nat
      /\ IsFiniteSet(q.reserved) /\ Cardinality(q.reserved) \in Nat /\ Len(q.pending) \in Nat
      /\ Retained(q) \in Nat /\ Total(q.charge, Content(q)) \in Nat
      /\ (Retained(q) = 0 => Content(q) = {})
  BY <1>1, ContentFacts
<1>6. r.bytes = Total(r.charge, Content(r))
  <2>1. \A x \in Content(q) : r.charge[x] = q.charge[x]
    BY <1>1, <1>2, <1>5 DEF IsQueue
  <2>2. Total(r.charge, Content(q)) = Total(q.charge, Content(q))
    BY <1>5, <2>1, TotalSame
  <2>3. r.charge[b] = n
    BY <1>1, <1>2 DEF IsQueue
  <2>4. \A x \in Content(q) \union {b} : r.charge[x] \in Nat
    BY <1>5, <2>1, <2>3
  <2>5. Total(r.charge, Content(q) \union {b}) = Total(r.charge, Content(q)) + r.charge[b]
    <3> DEFINE S == Content(q)
               amount == r.charge
    <3>1. IsFiniteSet(S) /\ b \notin S /\ \A x \in S \union {b} : amount[x] \in Nat
      BY <1>5, <2>4
    <3> HIDE DEF S, amount
    <3>2. Total(amount, S \union {b}) = Total(amount, S) + amount[b]
      BY <3>1, TotalAdd
    <3>3. QED
      BY <3>2 DEF S, amount
  <2>6. QED
    BY <1>1, <1>2, <1>4, <2>2, <2>3, <2>5
<1>7. Retained(r) = Retained(q) + 1
  <2>1. Cardinality(q.reserved \union {b}) = Cardinality(q.reserved) + 1
    BY <1>5, FS_AddElement DEF Content
  <2>2. QED
    BY <1>2, <1>5, <2>1 DEF Retained
<1>8. Retained(r) <= Capacity
  BY <1>5, <1>7, CapacityAssumption DEF Fits
<1>9. r.bytes <= limit \/ Retained(r) = 1
  BY <1>2, <1>5, <1>7 DEF Fits
<1>10. Sound(r, limit)
  BY <1>2, <1>3, <1>6, <1>8, <1>9 DEF Sound
<1>11. QED
  BY <1>2, <1>10

\* A reservation takes the bytes it turned out to need.
LEMMA ResizeIsSound ==
  ASSUME NEW limit \in Nat, NEW q, Sound(q, limit), NEW b \in q.reserved,
         NEW n \in Nat, FitsResized(q, b, n, limit),
         NEW r, r = Resize(q, b, n)
  PROVE  /\ Sound(r, limit) /\ r.pending = q.pending /\ r.reserved = q.reserved
         /\ r.error = q.error /\ r.closed = q.closed
<1>1. /\ IsQueue(q) /\ q.bytes = Total(q.charge, Content(q)) /\ Retained(q) <= Capacity
      /\ (q.closed => q.reserved = {})
  BY DEF Sound
<1>2. /\ Fields(r)
      /\ r.pending = q.pending /\ r.reserved = q.reserved
      /\ r.bytes = q.bytes - q.charge[b] + n
      /\ r.error = q.error /\ r.charge = [q.charge EXCEPT ![b] = n] /\ r.closed = q.closed
  BY <1>1 DEF IsQueue, Fields, Resize
<1>3. IsQueue(r)
  BY <1>1, <1>2 DEF IsQueue
<1>4. Content(r) = Content(q) /\ Retained(r) = Retained(q) /\ b \in Content(q)
  BY <1>2 DEF Content, Retained
<1>5. /\ IsFiniteSet(Content(q)) /\ Content(q) \in SUBSET Batches
      /\ \A x \in Content(q) : q.charge[x] \in Nat
      /\ Total(q.charge, Content(q)) \in Nat
  BY <1>1, ContentFacts
<1>6. r.bytes = Total(r.charge, Content(r))
  <2>1. r.charge[b] = n /\ \A x \in Content(q) \ {b} : r.charge[x] = q.charge[x]
    BY <1>1, <1>2, <1>4, <1>5 DEF IsQueue
  <2>2. \A x \in Content(q) : q.charge[x] \in Nat /\ r.charge[x] \in Nat
    BY <1>5, <2>1
  <2>3. Total(r.charge, Content(q)) + q.charge[b] = Total(q.charge, Content(q)) + r.charge[b]
    BY <1>4, <1>5, <2>1, <2>2, TotalChange
  <2>4. Total(r.charge, Content(q)) \in Nat /\ q.charge[b] \in Nat
    BY <1>4, <1>5, <2>2, TotalNat
  <2>5. QED
    BY <1>1, <1>2, <1>4, <1>5, <2>1, <2>3, <2>4
<1>7. r.bytes <= limit \/ Retained(r) = 1
  BY <1>2, <1>4 DEF FitsResized
<1>8. Sound(r, limit)
  BY <1>1, <1>2, <1>3, <1>4, <1>6, <1>7 DEF Sound
<1>9. QED
  BY <1>2, <1>8

\* A reserved batch is submitted.
LEMMA SubmitIsSound ==
  ASSUME NEW limit \in Nat, NEW q, Sound(q, limit), NEW b \in q.reserved,
         NEW r, r = Submit(q, b)
  PROVE  /\ Sound(r, limit) /\ r.reserved = q.reserved \ {b} /\ b \notin Range(q.pending)
         /\ Range(r.pending) = Range(q.pending) \union {b}
         /\ r.error = q.error /\ r.closed = q.closed
<1>1. IsQueue(q) /\ q.bytes = Total(q.charge, Content(q)) /\ (q.closed => q.reserved = {})
  BY DEF Sound
<1>2. /\ Fields(r)
      /\ r.pending = Append(q.pending, b) /\ r.reserved = q.reserved \ {b}
      /\ r.bytes = q.bytes
      /\ r.error = q.error /\ r.charge = q.charge /\ r.closed = q.closed
  BY <1>1 DEF IsQueue, Fields, Submit
<1>3. b \in Batches /\ b \notin Range(q.pending)
  BY <1>1 DEF IsQueue
<1>4. /\ r.pending \in Seq(Batches) /\ IsInjective(r.pending)
      /\ Range(r.pending) = Range(q.pending) \union {b}
  BY <1>1, <1>2, <1>3, AppendAdds DEF IsQueue
<1>5. IsQueue(r)
  BY <1>1, <1>2, <1>3, <1>4 DEF IsQueue
<1>6. Content(r) = Content(q)
  BY <1>2, <1>4 DEF Content
<1>7. Retained(r) = Retained(q)
  <2>1. IsFiniteSet(q.reserved) /\ Cardinality(q.reserved) \in Nat /\ Len(q.pending) \in Nat
    BY <1>1, ContentFacts
  <2>2. Cardinality(r.reserved) = Cardinality(q.reserved) - 1
    <3>1. Cardinality(q.reserved \ {b}) = Cardinality(q.reserved) - 1
      BY <2>1, FS_RemoveElement
    <3>2. QED
      BY <1>2, <3>1
  <2>3. Len(r.pending) = Len(q.pending) + 1
    BY <1>1, <1>2, <1>3 DEF IsQueue
  <2>4. QED
    BY <2>1, <2>2, <2>3 DEF Retained
<1>8. Sound(r, limit)
  <2>1. Retained(q) \in Nat
    BY <1>1, ContentFacts
  <2>2. Retained(r) <= Retained(q) /\ Content(r) \subseteq Content(q)
    BY <1>6, <1>7, <2>1
  <2>3. /\ r.charge = q.charge /\ r.bytes = Total(r.charge, Content(r))
        /\ (r.closed => r.reserved = {})
    BY <1>1, <1>2, <1>6
  <2>4. QED
    BY <1>5, <1>6, <2>2, <2>3, LessIsSound
<1>9. QED
  BY <1>2, <1>3, <1>4, <1>8

\* A reservation is returned, if it is one.
LEMMA CancelIsSound ==
  ASSUME NEW limit \in Nat, NEW q, Sound(q, limit), NEW b, NEW r, r = Cancel(q, b)
  PROVE  /\ Sound(r, limit) /\ r.reserved = q.reserved \ {b} /\ r.pending = q.pending
         /\ r.error = q.error /\ r.closed = q.closed
<1>1. IsQueue(q) /\ q.bytes = Total(q.charge, Content(q)) /\ (q.closed => q.reserved = {})
  BY DEF Sound
<1>2. CASE b \notin q.reserved
  <2>1. r = q /\ q.reserved = q.reserved \ {b}
    BY <1>2 DEF Cancel
  <2>2. QED
    BY <2>1
<1>3. CASE b \in q.reserved
  <2>1. /\ Fields(r)
        /\ r.pending = q.pending /\ r.reserved = q.reserved \ {b}
        /\ r.bytes = q.bytes - q.charge[b]
        /\ r.error = q.error /\ r.charge = q.charge /\ r.closed = q.closed
    BY <1>1, <1>3 DEF IsQueue, Fields, Cancel
  <2>2. IsQueue(r)
    BY <1>1, <2>1 DEF IsQueue
  <2>3. Content(r) = Content(q) \ {b} /\ b \in Content(q)
    BY <1>1, <1>3, <2>1 DEF Content, IsQueue
  <2>4. /\ IsFiniteSet(Content(q)) /\ \A x \in Content(q) : q.charge[x] \in Nat
        /\ IsFiniteSet(q.reserved) /\ Cardinality(q.reserved) \in Nat /\ Len(q.pending) \in Nat
        /\ Total(q.charge, Content(q)) \in Nat
    BY <1>1, ContentFacts
  <2>5. r.bytes = Total(r.charge, Content(r))
    <3>1. Total(q.charge, Content(q)) = q.charge[b] + Total(q.charge, Content(q) \ {b})
      BY <2>3, <2>4, TotalRemove
    <3>2. Total(q.charge, Content(q) \ {b}) \in Nat /\ q.charge[b] \in Nat
      <4>1. IsFiniteSet(Content(r)) /\ Total(r.charge, Content(r)) \in Nat
        BY <2>2, ContentFacts
      <4>2. QED
        BY <2>1, <2>3, <2>4, <4>1
    <3>3. QED
      BY <1>1, <2>1, <2>3, <2>4, <3>1, <3>2
  <2>6. Retained(r) = Retained(q) - 1 /\ Retained(q) \in Nat
    <3>1. Cardinality(r.reserved) = Cardinality(q.reserved) - 1
      <4>1. Cardinality(q.reserved \ {b}) = Cardinality(q.reserved) - 1
        BY <1>3, <2>4, FS_RemoveElement
      <4>2. QED
        BY <2>1, <4>1
    <3>2. Len(r.pending) = Len(q.pending)
      BY <2>1
    <3>3. QED
      BY <2>4, <3>1, <3>2 DEF Retained
  <2>7. Retained(r) <= Retained(q) /\ Retained(r) # Retained(q) /\ Content(r) \subseteq Content(q)
    BY <2>3, <2>6
  <2>8. r.closed => r.reserved = {}
    BY <1>1, <2>1
  <2>9. Sound(r, limit)
    BY <2>1, <2>2, <2>5, <2>7, <2>8, LessIsSound
  <2>10. QED
    BY <2>1, <2>9
<1>4. QED
  BY <1>2, <1>3

\* An error is kept, and it is the first.
LEMMA RememberIsSound ==
  ASSUME NEW limit \in Nat, NEW q, Sound(q, limit), NEW e, NEW r, r = Remember(q, e)
  PROVE  /\ Sound(r, limit) /\ r.reserved = q.reserved /\ r.pending = q.pending
         /\ r.closed = q.closed
<1>1. /\ IsQueue(q) /\ q.bytes = Total(q.charge, Content(q)) /\ Retained(q) <= Capacity
      /\ (q.bytes <= limit \/ Retained(q) = 1) /\ (q.closed => q.reserved = {})
  BY DEF Sound
<1>2. /\ Fields(r)
      /\ r.pending = q.pending /\ r.reserved = q.reserved
      /\ r.bytes = q.bytes /\ r.charge = q.charge /\ r.closed = q.closed
  BY <1>1 DEF IsQueue, Fields, Remember
<1>3. IsQueue(r)
  BY <1>1, <1>2 DEF IsQueue
<1>4. Content(r) = Content(q) /\ Retained(r) = Retained(q)
  BY <1>2 DEF Content, Retained
<1>5. QED
  BY <1>1, <1>2, <1>3, <1>4 DEF Sound

\* The oldest batch is collected.
LEMMA CollectedIsSound ==
  ASSUME NEW limit \in Nat, NEW q, Sound(q, limit), q.pending # <<>>,
         NEW raised \in BOOLEAN, NEW r, r = Collected(q, raised)
  PROVE  /\ Sound(r, limit) /\ r.reserved = q.reserved /\ r.closed = q.closed
         /\ Head(q.pending) \in Range(q.pending)
         /\ Range(r.pending) = Range(q.pending) \ {Head(q.pending)}
<1> DEFINE b == Head(q.pending)
<1>1. IsQueue(q) /\ q.bytes = Total(q.charge, Content(q)) /\ (q.closed => q.reserved = {})
  BY DEF Sound
<1>2. PICK s : s = [q EXCEPT !.pending = Tail(@), !.bytes = @ - q.charge[b]]
  OBVIOUS
<1>3. r = s \/ r = Remember(s, b)
  BY <1>2 DEF Collected
<1>4. /\ b \in Range(q.pending) /\ Tail(q.pending) \in Seq(Batches)
      /\ Range(Tail(q.pending)) = Range(q.pending) \ {b} /\ IsInjective(Tail(q.pending))
  BY <1>1, TailLoses DEF IsQueue
<1> HIDE DEF b
<1>5. /\ Fields(s)
      /\ s.pending = Tail(q.pending) /\ s.reserved = q.reserved
      /\ s.bytes = q.bytes - q.charge[b]
      /\ s.error = q.error /\ s.charge = q.charge /\ s.closed = q.closed
  BY <1>1, <1>2 DEF IsQueue, Fields
<1>6. IsQueue(s)
  BY <1>1, <1>4, <1>5 DEF IsQueue
<1>7. Content(s) = Content(q) \ {b} /\ b \in Content(q)
  BY <1>1, <1>4, <1>5 DEF Content, IsQueue
<1>8. /\ IsFiniteSet(Content(q)) /\ \A x \in Content(q) : q.charge[x] \in Nat
      /\ Cardinality(q.reserved) \in Nat /\ Len(q.pending) \in Nat
      /\ Total(q.charge, Content(q)) \in Nat
  BY <1>1, ContentFacts
<1>9. s.bytes = Total(s.charge, Content(s))
  <2>1. Total(q.charge, Content(q)) = q.charge[b] + Total(q.charge, Content(q) \ {b})
    BY <1>7, <1>8, TotalRemove
  <2>2. Total(q.charge, Content(q) \ {b}) \in Nat /\ q.charge[b] \in Nat
    <3>1. Total(s.charge, Content(s)) \in Nat
      BY <1>6, ContentFacts
    <3>2. QED
      BY <1>5, <1>7, <1>8, <3>1
  <2>3. QED
    BY <1>1, <1>5, <1>7, <1>8, <2>1, <2>2
<1>10. Retained(s) = Retained(q) - 1 /\ Retained(q) \in Nat
  <2>1. Len(s.pending) = Len(q.pending) - 1
    BY <1>1, <1>5 DEF IsQueue
  <2>2. QED
    BY <1>5, <1>8, <2>1 DEF Retained
<1>11. Sound(s, limit)
  <2>1. Retained(s) <= Retained(q) /\ Retained(s) # Retained(q) /\ Content(s) \subseteq Content(q)
    BY <1>7, <1>10
  <2>2. s.closed => s.reserved = {}
    BY <1>1, <1>5
  <2>3. QED
    BY <1>5, <1>6, <1>9, <2>1, <2>2, LessIsSound
<1>12. /\ Sound(r, limit) /\ r.reserved = s.reserved /\ r.pending = s.pending
       /\ r.closed = s.closed
  BY <1>3, <1>11, RememberIsSound
<1>13. QED
  BY <1>4, <1>5, <1>12 DEF b

\* The queue is shut.
LEMMA ShutIsSound ==
  ASSUME NEW limit \in Nat, NEW q, Sound(q, limit), NEW r, r = Shut(q)
  PROVE  /\ Sound(r, limit) /\ r.reserved = {} /\ r.closed = TRUE
         /\ r.pending = q.pending /\ r.error = q.error
<1>1. IsQueue(q) /\ q.bytes = Total(q.charge, Content(q))
  BY DEF Sound
<1>2. /\ Fields(r)
      /\ r.pending = q.pending /\ r.reserved = {}
      /\ r.bytes = q.bytes - Total(q.charge, q.reserved)
      /\ r.error = q.error /\ r.charge = q.charge /\ r.closed = TRUE
  BY <1>1 DEF IsQueue, Fields, Shut
<1>3. IsQueue(r)
  BY <1>1, <1>2 DEF IsQueue
<1>4. Content(r) = Content(q) \ q.reserved /\ q.reserved \subseteq Content(q)
  BY <1>1, <1>2 DEF Content, IsQueue
<1>5. /\ IsFiniteSet(Content(q)) /\ \A x \in Content(q) : q.charge[x] \in Nat
      /\ IsFiniteSet(q.reserved) /\ Cardinality(q.reserved) \in Nat /\ Len(q.pending) \in Nat
      /\ Total(q.charge, Content(q)) \in Nat
  BY <1>1, ContentFacts
<1>6. r.bytes = Total(r.charge, Content(r))
  <2>1. Total(q.charge, Content(q)) =
          Total(q.charge, q.reserved) + Total(q.charge, Content(q) \ q.reserved)
    BY <1>4, <1>5, TotalSplit
  <2>2. Total(q.charge, q.reserved) \in Nat
    BY <1>4, <1>5, TotalNat
  <2>3. Total(r.charge, Content(r)) \in Nat
    BY <1>3, ContentFacts
  <2>4. QED
    BY <1>1, <1>2, <1>4, <1>5, <2>1, <2>2, <2>3
<1>7. Retained(r) <= Retained(q) /\ (Retained(r) = Retained(q) => Content(r) = Content(q))
  <2>1. Cardinality(r.reserved) = 0
    BY <1>2, FS_EmptySet
  <2>2. Retained(r) = Len(q.pending) + 0
    BY <1>2, <2>1 DEF Retained
  <2>3. Cardinality(q.reserved) = 0 => q.reserved = {}
    BY <1>5, FS_EmptySet
  <2>4. q.reserved = {} => Content(r) = Content(q)
    BY <1>4
  <2>5. QED
    BY <1>5, <2>2, <2>3, <2>4 DEF Retained
<1>8. Sound(r, limit)
  <2>1. Content(r) \subseteq Content(q)
    BY <1>4
  <2>2. QED
    BY <1>2, <1>3, <1>6, <1>7, <2>1, LessIsSound
<1>9. QED
  BY <1>2, <1>8

-----------------------------------------------------------------------------
(* Batches, calls and who is where. *)

LEMMA BatchKinds ==
  /\ Batches = GpuBatches \union HostBatches /\ GpuBatches \cap HostBatches = {}
  /\ DOMAIN GpuBytes = 1 .. Len(GpuBytes) /\ Len(GpuBytes) \in Nat
  /\ \A b \in GpuBatches : b[1] \in 1 .. Len(GpuBytes) /\ b = <<b[1]>>
  /\ \A i \in 1 .. Len(GpuBytes) : <<i>> \in GpuBatches /\ GpuBytes[i] \in Nat
  /\ \A i \in 1 .. Len(GpuBytes) :
       /\ Len(HostWork[i]) \in Nat /\ DOMAIN HostWork[i] = 1 .. Len(HostWork[i])
       /\ \A k \in 1 .. Len(HostWork[i]) : <<i, k>> \in HostBatches /\ HostWork[i][k].bytes \in Nat
  /\ \A b \in HostBatches : /\ b[1] \in 1 .. Len(GpuBytes) /\ b[2] \in 1 .. Len(HostWork[b[1]])
                            /\ b = <<b[1], b[2]>>
<1>1. GpuBytes \in Seq(Nat) /\ HostWork \in Seq(Seq([bytes : Nat, sized : BOOLEAN]))
      /\ Len(GpuBytes) = Len(HostWork)
  BY WorkAssumption
<1>2. /\ DOMAIN GpuBytes = 1 .. Len(GpuBytes) /\ Len(GpuBytes) \in Nat
      /\ \A i \in 1 .. Len(GpuBytes) : GpuBytes[i] \in Nat
  BY <1>1
<1>3. /\ DOMAIN HostWork = 1 .. Len(GpuBytes)
      /\ \A i \in 1 .. Len(GpuBytes) : HostWork[i] \in Seq([bytes : Nat, sized : BOOLEAN])
  BY <1>1
<1>4. \A i \in 1 .. Len(GpuBytes) :
        /\ Len(HostWork[i]) \in Nat /\ DOMAIN HostWork[i] = 1 .. Len(HostWork[i])
        /\ \A k \in 1 .. Len(HostWork[i]) : HostWork[i][k].bytes \in Nat
  <2> SUFFICES ASSUME NEW i \in 1 .. Len(GpuBytes)
               PROVE  /\ Len(HostWork[i]) \in Nat /\ DOMAIN HostWork[i] = 1 .. Len(HostWork[i])
                      /\ \A k \in 1 .. Len(HostWork[i]) : HostWork[i][k].bytes \in Nat
    OBVIOUS
  <2> DEFINE T == [bytes : Nat, sized : BOOLEAN]
             s == HostWork[i]
  <2>1. \A x \in T : x.bytes \in Nat
    OBVIOUS
  <2>2. s \in Seq(T)
    BY <1>3
  <2> HIDE DEF s, T
  <2>3. Len(s) \in Nat /\ DOMAIN s = 1 .. Len(s) /\ \A k \in 1 .. Len(s) : s[k] \in T
    BY <2>2
  <2>4. QED
    BY <2>1, <2>3 DEF s
<1>5. \A b \in GpuBatches : b[1] \in 1 .. Len(GpuBytes) /\ b = <<b[1]>>
  BY <1>2 DEF GpuBatches
<1>6. \A i \in 1 .. Len(GpuBytes) : <<i>> \in GpuBatches
  BY <1>2 DEF GpuBatches
<1>7. \A b : b \in HostBatches <=>
        \E i \in DOMAIN HostWork : \E k \in DOMAIN HostWork[i] : b = <<i, k>>
  BY DEF HostBatches
<1>8. \A b \in HostBatches : /\ b[1] \in 1 .. Len(GpuBytes) /\ b[2] \in 1 .. Len(HostWork[b[1]])
                             /\ b = <<b[1], b[2]>>
  BY <1>3, <1>4, <1>7
<1>9. \A i \in 1 .. Len(GpuBytes) : \A k \in 1 .. Len(HostWork[i]) : <<i, k>> \in HostBatches
  BY <1>3, <1>4, <1>7
<1>10. GpuBatches \cap HostBatches = {}
  <2> SUFFICES ASSUME NEW b \in GpuBatches, b \in HostBatches PROVE FALSE
    OBVIOUS
  <2>1. b = <<b[1]>> /\ b = <<b[1], b[2]>>
    BY <1>5, <1>8
  <2>2. Len(b) = 1 /\ Len(b) = 2
    <3>1. Len(<<b[1]>>) = 1 /\ Len(<<b[1], b[2]>>) = 2
      OBVIOUS
    <3>2. QED
      BY <2>1, <3>1
  <2>3. QED
    BY <2>2
<1>11. QED
  BY <1>2, <1>4, <1>5, <1>6, <1>8, <1>9, <1>10 DEF Batches

\* What the calls are after one has been entered, has moved on, or was left.
CallIsEntered(t, op, p, b, n) ==
  /\ Calls' /\ \A u \in Threads \ {t} : call'[u] = call[u]
  /\ call'[t].op = op /\ call'[t].pipe = p /\ call'[t].batch = b /\ call'[t].bytes = n
  /\ op = "close" /\ queue[p].closed = TRUE => call'[t].pc = "returned"
  /\ op = "close" /\ queue[p].closed = FALSE => call'[t].pc = "drain"
  /\ op # "close" /\ queue[p].closed = TRUE => call'[t].pc = "raised"
  /\ op # "close" /\ queue[p].closed = FALSE => call'[t].pc = "sweep"

LEMMA Entered ==
  ASSUME Calls, NEW t \in Threads, NEW op, NEW p, NEW b, NEW n, Enter(t, op, p, b, n)
  PROVE  CallIsEntered(t, op, p, b, n)
<1>1. PICK c : /\ call' = [call EXCEPT ![t] = c]
               /\ c = [op |-> op, pipe |-> p, batch |-> b, bytes |-> n,
                       pc |-> CASE queue[p].closed -> IF op = "close" THEN "returned" ELSE "raised"
                                [] ~queue[p].closed /\ op = "close" -> "drain"
                                [] OTHER -> "sweep"]
  BY DEF Enter
<1>2. c.op = op /\ c.pipe = p /\ c.batch = b /\ c.bytes = n /\ IsCall(c)
  BY <1>1 DEF IsCall
<1>3. /\ op = "close" /\ queue[p].closed = TRUE => c.pc = "returned"
      /\ op = "close" /\ queue[p].closed = FALSE => c.pc = "drain"
      /\ op # "close" /\ queue[p].closed = TRUE => c.pc = "raised"
      /\ op # "close" /\ queue[p].closed = FALSE => c.pc = "sweep"
  BY <1>1
<1>4. call'[t] = c /\ (\A u \in Threads \ {t} : call'[u] = call[u])
      /\ call' = [u \in Threads |-> call'[u]]
  BY <1>1 DEF Calls
<1>5. Calls'
  BY <1>2, <1>4 DEF Calls
<1>6. QED
  BY <1>2, <1>3, <1>4, <1>5 DEF CallIsEntered

CallIsAt(t, pc) ==
  /\ Calls' /\ \A u \in Threads \ {t} : call'[u] = call[u]
  /\ call'[t].pc = pc /\ call'[t].op = call[t].op /\ call'[t].pipe = call[t].pipe
  /\ call'[t].batch = call[t].batch /\ call'[t].bytes = call[t].bytes

LEMMA Moved ==
  ASSUME Calls, NEW t \in Threads, NEW pc, call' = [call EXCEPT ![t].pc = pc]
  PROVE  CallIsAt(t, pc)
<1>1. PICK c : call' = [call EXCEPT ![t] = c] /\ c = [call[t] EXCEPT !.pc = pc]
  OBVIOUS
<1>2. /\ c.pc = pc /\ c.op = call[t].op /\ c.pipe = call[t].pipe
      /\ c.batch = call[t].batch /\ c.bytes = call[t].bytes /\ IsCall(c)
  BY <1>1 DEF Calls, IsCall
<1>3. call'[t] = c /\ (\A u \in Threads \ {t} : call'[u] = call[u])
      /\ call' = [u \in Threads |-> call'[u]]
  BY <1>1 DEF Calls
<1>4. Calls'
  BY <1>2, <1>3 DEF Calls
<1>5. QED
  BY <1>2, <1>3, <1>4 DEF CallIsAt

CallIsLeft(t) ==
  /\ Calls' /\ \A u \in Threads \ {t} : call'[u] = call[u]
  /\ call'[t].pc = "none"

LEMMA Left ==
  ASSUME Calls, NEW t \in Threads, Leave(t)
  PROVE  CallIsLeft(t)
<1>1. NoCall.pc = "none" /\ IsCall(NoCall)
  BY DEF NoCall, IsCall
<1>2. call'[t] = NoCall /\ (\A u \in Threads \ {t} : call'[u] = call[u])
      /\ call' = [u \in Threads |-> call'[u]]
  BY DEF Calls, Leave
<1>3. Calls'
  BY <1>1, <1>2 DEF Calls
<1>4. QED
  BY <1>1, <1>2, <1>3 DEF CallIsLeft

LEMMA Limits == \A p \in Pipes : Limit[p] \in Nat
  BY LimitAssumption DEF Limit, Pipes

\* What a sound queue is, in the words of the control.
LEMMA QueueFacts ==
  ASSUME Shapes, NEW p \in Pipes
  PROVE  /\ Limit[p] \in Nat /\ Sound(queue[p], Limit[p])
         /\ queue[p].closed \in BOOLEAN /\ (queue[p].closed => queue[p].reserved = {})
         /\ queue[p].pending \in Seq(Batches)
         /\ queue[p].reserved \in SUBSET Batches
         /\ Range(queue[p].pending) \cap queue[p].reserved = {}
  BY Limits DEF Shapes, Sound, IsQueue

LEMMA NothingIn == \A T : \A s \in Seq(T) : s = <<>> <=> Range(s) = {}
<1> SUFFICES ASSUME NEW T, NEW s \in Seq(T) PROVE s = <<>> <=> Range(s) = {}
  OBVIOUS
<1>1. s = <<>> => Range(s) = {}
  BY DEF Range
<1>2. s # <<>> => s[1] \in Range(s)
  BY DEF Range
<1>3. QED
  BY <1>1, <1>2

\* While the GPU queue is empty the consumer has nothing to do.
LEMMA IdleConsumer ==
  ASSUME Shapes, Inboxes, ConsumerCalls, queue["gpu"].pending = <<>>
  PROVE  inbox["gpu"] = <<>> /\ consumer.stage = "idle" /\ call["consumer"].pc = "none"
<1>1. "gpu" \in Pipes /\ inbox["gpu"] \in Seq(Batches) /\ queue["gpu"].pending \in Seq(Batches)
  BY QueueFacts DEF Shapes, Pipes
<1>2. Range(inbox["gpu"]) \subseteq Range(queue["gpu"].pending)
  BY <1>1 DEF Inboxes
<1>3. inbox["gpu"] = <<>>
  <2>1. Range(queue["gpu"].pending) = {}
    BY <1>1, NothingIn
  <2>2. Range(inbox["gpu"]) = {}
    BY <1>2, <2>1
  <2>3. QED
    BY <1>1, <2>2, NothingIn
<1>4. consumer.stage = "idle"
  BY <1>3 DEF Inboxes
<1>5. QED
  BY <1>3, <1>4 DEF ConsumerCalls

\* Each queue has one caller.
LEMMA OneCaller ==
  ASSUME IInv, NEW t \in Threads, call[t].pc # "none"
  PROVE  /\ call[t].pipe \in Pipes
         /\ \A u \in Threads \ {t} : call[u].pc = "none" \/ call[u].pipe # call[t].pipe
         /\ call[t].pipe = "host" /\ t = "task" =>
              /\ producer.stage = "closing host" /\ inbox["gpu"] = <<>>
              /\ consumer.stage = "idle" /\ call["consumer"].pc = "none"
         /\ t = "consumer" => call[t].pipe = "host" /\ consumer.stage # "idle"
<1>1. t = "consumer" => call[t].pipe = "host" /\ consumer.stage # "idle"
  BY DEF IInv, ConsumerCalls
<1>2. t = "task" => \/ call[t].pipe = "gpu"
                    \/ call[t].pipe = "host" /\ producer.stage = "closing host"
  BY DEF IInv, TaskCalls
<1>3. producer.stage = "closing host" =>
        inbox["gpu"] = <<>> /\ consumer.stage = "idle" /\ call["consumer"].pc = "none"
  <2>1. producer.stage = "closing host" => queue["gpu"].pending = <<>>
    BY DEF IInv, Endings, Emptied
  <2>2. QED
    BY <2>1, IdleConsumer DEF IInv
<1>4. \A u \in Threads \ {t} : call[u].pc = "none" \/ call[u].pipe # call[t].pipe
  <2>1. CASE t = "task"
    <3>1. call["consumer"].pc # "none" => call["consumer"].pipe = "host"
      BY DEF IInv, ConsumerCalls
    <3>2. QED
      BY <1>2, <1>3, <2>1, <3>1 DEF Threads
  <2>2. CASE t = "consumer"
    <3>1. call["task"].pc # "none" =>
            \/ call["task"].pipe = "gpu"
            \/ call["task"].pipe = "host" /\ producer.stage = "closing host"
      BY DEF IInv, TaskCalls
    <3>2. QED
      BY <1>1, <1>3, <2>2, <3>1 DEF Threads
  <2>3. QED
    BY <2>1, <2>2 DEF Threads
<1>5. QED
  BY <1>1, <1>2, <1>3, <1>4 DEF Pipes, Threads

LEMMA InitIInv == Init => IInv
<1> SUFFICES ASSUME Init PROVE IInv
  OBVIOUS
<1>1. /\ \A p \in Pipes : queue[p] = NewQueue(Batches)
      /\ queue = [p \in Pipes |-> queue[p]]
  BY DEF Init
<1>2. \A p \in Pipes : Sound(queue[p], Limit[p])
  BY <1>1, Limits, NewIsSound
<1>3. \A p \in Pipes : /\ queue[p].pending = <<>> /\ queue[p].reserved = {}
                       /\ queue[p].closed = FALSE /\ queue[p].error = NoError
  BY <1>1 DEF NewQueue
<1>4. "gpu" \in Pipes /\ "host" \in Pipes /\ "task" \in Threads /\ "consumer" \in Threads
  BY DEF Pipes, Threads
<1>5. Calls /\ \A t \in Threads : call[t].pc = "none"
  <2>1. call = [t \in Threads |-> NoCall]
    BY DEF Init, Threads
  <2>2. IsCall(NoCall) /\ NoCall.pc = "none"
    BY DEF IsCall, NoCall
  <2>3. QED
    BY <2>1, <2>2 DEF Calls
<1>6. /\ producer.stage = "next" /\ producer.batch = 1 /\ IsProducer(producer)
      /\ consumer.stage = "idle" /\ consumer.op = 1 /\ IsConsumer(consumer)
  <2>1. PICK c \in Codecs :
          consumer = [stage |-> "idle", batch |-> 0, op |-> 1, failed |-> FALSE, codec |-> c]
    BY DEF Init
  <2>2. consumer.stage = "idle" /\ consumer.op = 1 /\ IsConsumer(consumer)
    BY <2>1 DEF IsConsumer
  <2>3. QED
    BY <2>2 DEF Init, IsProducer
<1>7. /\ inbox \in [Pipes -> Seq(Batches)] /\ \A p \in Pipes : inbox[p] = <<>>
      /\ state \in [Batches -> {"new", "queued", "done", "failed"}]
      /\ \A b \in Batches : state[b] = "new"
  BY DEF Init
<1>8. Shapes
  BY <1>1, <1>2, <1>5, <1>6, <1>7 DEF Shapes
<1>9. \A p \in Pipes : Range(inbox[p]) = {} /\ IsInjective(inbox[p]) /\ Range(queue[p].pending) = {}
  BY <1>3, <1>7 DEF Range, IsInjective
<1>10. Inboxes
  BY <1>6, <1>9 DEF Inboxes
<1>11. Contents
  BY <1>3, <1>4, <1>7, <1>9, BatchKinds DEF Contents, Content
<1>12. TaskCalls /\ ConsumerCalls
  BY <1>3, <1>4, <1>5, <1>6 DEF TaskCalls, ConsumerCalls
<1>13. Closings
  BY <1>3, <1>5 DEF Closings
<1>14. Endings
  BY <1>5, <1>6 DEF Endings
<1>15. QED
  BY <1>8, <1>10, <1>11, <1>12, <1>13, <1>14 DEF IInv

-----------------------------------------------------------------------------
(* The steps that only move a thread. *)

\* Where the threads are says nothing about what is in the queues.
LEMMA DataKept ==
  ASSUME IInv, UNCHANGED <<queue, inbox, state>>, Calls',
         IsProducer(producer'), producer'.batch = producer.batch,
         IsConsumer(consumer'), consumer'.batch = consumer.batch, consumer'.op = consumer.op,
         consumer'.stage = "idle" <=> consumer.stage = "idle"
  PROVE  Shapes' /\ Inboxes' /\ Contents'
<1>1. Shapes'
  BY DEF IInv, Shapes
<1>2. Inboxes'
  BY DEF IInv, Inboxes
<1>3. Contents'
  BY DEF IInv, Contents, Settled
<1>4. QED
  BY <1>1, <1>2, <1>3

\* Closings only cares for calls that fail, were refused or wait to be admitted.
LEMMA ClosingsKept ==
  ASSUME IInv, queue' = queue, NEW t \in Threads,
         \A u \in Threads \ {t} : call'[u] = call[u],
         call[t].pc \notin {"fail", "refused"}, call'[t].pc \notin {"fail", "refused"},
         call'[t].pc \in {"sweep", "admit"} => ~queue[call'[t].pipe].closed
  PROVE  Closings'
  BY DEF IInv, Closings

LEMMA TaskMoves ==
  ASSUME IInv, TaskReserve \/ TaskReserved \/ TaskRefused \/ TaskDone \/ CloseGpu \/ CloseHost
               \/ TaskEnd
  PROVE  IInv'
<1>1. "gpu" \in Pipes /\ "host" \in Pipes /\ "task" \in Threads /\ "consumer" \in Threads
  BY DEF Pipes, Threads
<1>2. Shapes /\ Inboxes /\ Contents /\ TaskCalls /\ ConsumerCalls /\ Closings /\ Endings
  BY DEF IInv
<1>3. Calls /\ IsProducer(producer) /\ IsConsumer(consumer)
  BY <1>2 DEF Shapes
<1>4. \A p \in Pipes : queue[p].closed \in BOOLEAN /\ (queue[p].closed => queue[p].reserved = {})
  BY <1>2, QueueFacts
<1>5. UNCHANGED <<queue, inbox, state, consumer>>
  BY DEF TaskReserve, TaskReserved, TaskRefused, TaskDone, CloseGpu, CloseHost, TaskEnd
<1>6. producer'.batch = producer.batch /\ IsProducer(producer')
  BY <1>3 DEF TaskReserve, TaskReserved, TaskRefused, TaskDone, CloseGpu, CloseHost, TaskEnd,
              Closing, IsProducer
\* What each of them does to the call and the stage.
<1>7. CASE TaskReserve
  <2>1. CASE poisoned
    <3>1. call' = call /\ producer'.stage = "close" /\ producer.stage = "next"
      BY <1>3, <1>7, <2>1 DEF TaskReserve, Closing, IsProducer
    <3>2. Calls'
      BY <1>3, <3>1 DEF Calls
    <3>3. Shapes' /\ Inboxes' /\ Contents'
      BY <1>2, <1>3, <1>5, <1>6, <3>2, DataKept DEF IInv
    <3>4. TaskCalls'
      BY <1>2, <1>5, <1>6, <3>1 DEF TaskCalls, Batch
    <3>5. ConsumerCalls'
      BY <1>2, <1>5, <3>1 DEF ConsumerCalls, HostBatch, Work
    <3>6. Closings' /\ Endings'
      BY <1>2, <1>5, <3>1 DEF Closings, Endings, Emptied
    <3>7. QED
      BY <3>3, <3>4, <3>5, <3>6 DEF IInv
  <2>2. CASE ~poisoned
    <3>1. /\ Enter("task", "reserve", "gpu", Batch, GpuBytes[producer.batch])
          /\ producer'.stage = "reserving" /\ producer.stage = "next"
          /\ producer.batch <= Len(GpuBytes)
      BY <1>3, <1>7, <2>2 DEF TaskReserve, IsProducer
    <3>2. /\ Calls' /\ call'["consumer"] = call["consumer"]
          /\ call'["task"].op = "reserve" /\ call'["task"].pipe = "gpu"
          /\ call'["task"].batch = Batch /\ call'["task"].bytes = GpuBytes[producer.batch]
          /\ call'["task"].pc \in {"raised", "sweep"}
          /\ call'["task"].pc = "sweep" => ~queue["gpu"].closed
      <4>1. /\ Calls' /\ \A u \in Threads \ {"task"} : call'[u] = call[u]
            /\ call'["task"].op = "reserve" /\ call'["task"].pipe = "gpu"
            /\ call'["task"].batch = Batch /\ call'["task"].bytes = GpuBytes[producer.batch]
            /\ queue["gpu"].closed = TRUE => call'["task"].pc = "raised"
            /\ queue["gpu"].closed = FALSE => call'["task"].pc = "sweep"
        <5>1. CallIsEntered("task", "reserve", "gpu", Batch, GpuBytes[producer.batch])
          BY <1>1, <1>3, <3>1, Entered
        <5>2. QED
          BY <5>1 DEF CallIsEntered
      <4>2. /\ call'["consumer"] = call["consumer"] /\ call'["task"].pc \in {"raised", "sweep"}
            /\ call'["task"].pc = "sweep" => ~queue["gpu"].closed
        <5>1. queue["gpu"].closed = TRUE \/ queue["gpu"].closed = FALSE
          BY <1>1, <1>4
        <5>2. QED
          BY <4>1, <5>1 DEF Threads
      <4>3. QED
        BY <4>1, <4>2
    <3>3. call["task"].pc = "none"
      BY <1>2, <3>1 DEF TaskCalls
    <3>4. Shapes' /\ Inboxes' /\ Contents'
      BY <1>2, <1>3, <1>5, <1>6, <3>2, DataKept DEF IInv
    <3>5. TaskCalls'
      BY <1>2, <1>5, <1>6, <3>1, <3>2 DEF TaskCalls, Batch, Collects
    <3>6. ConsumerCalls'
      BY <1>2, <1>5, <3>2 DEF ConsumerCalls, HostBatch, Work
    <3>7. Closings'
      BY <1>1, <1>5, <3>2, <3>3, ClosingsKept DEF Threads
    <3>8. Endings'
      BY <1>2, <1>5, <3>1 DEF Endings, Emptied
    <3>9. QED
      BY <3>4, <3>5, <3>6, <3>7, <3>8 DEF IInv
  <2>3. QED
    BY <2>1, <2>2
<1>8. CASE TaskReserved \/ TaskRefused \/ TaskEnd
  <2>1. Leave("task") /\ call["task"].pc \in {"returned", "raised"}
    BY <1>8 DEF TaskReserved, TaskRefused, TaskEnd, Raised, Returned
  <2>2. Calls' /\ call'["consumer"] = call["consumer"] /\ call'["task"].pc = "none"
    <3>1. CallIsLeft("task")
      BY <1>1, <1>3, <2>1, Left
    <3>2. QED
      BY <1>1, <3>1 DEF CallIsLeft, Threads
  <2>3. \/ producer.stage = "reserving" /\ call["task"].pc = "raised" /\ producer'.stage = "close"
        \/ /\ producer.stage = "reserving" /\ call["task"].pc = "returned"
           /\ producer'.stage = "policy"
        \/ producer.stage = "submitting" /\ producer'.stage = "close"
        \/ producer.stage = "closing host" /\ producer'.stage = "ended"
    BY <1>3, <1>8 DEF TaskReserved, TaskRefused, TaskEnd, Closing, IsProducer, Raised, Returned
  <2>4. Shapes' /\ Inboxes' /\ Contents'
    BY <1>2, <1>3, <1>5, <1>6, <2>2, DataKept DEF IInv
  <2>5. TaskCalls'
    BY <1>2, <1>5, <1>6, <2>2, <2>3 DEF TaskCalls, Batch
  <2>6. ConsumerCalls'
    BY <1>2, <1>5, <2>2 DEF ConsumerCalls, HostBatch, Work
  <2>7. Closings'
    BY <1>1, <1>5, <2>1, <2>2, ClosingsKept DEF Threads
  <2>8. Endings'
    BY <1>2, <1>5, <2>1, <2>2, <2>3 DEF Endings, Emptied
  <2>9. QED
    BY <2>4, <2>5, <2>6, <2>7, <2>8 DEF IInv
<1>9. CASE TaskDone
  <2>1. call' = call /\ producer'.stage = "close" /\ producer.stage = "next"
    BY <1>3, <1>9 DEF TaskDone, Closing, IsProducer
  <2>2. Calls'
    BY <1>3, <2>1 DEF Calls
  <2>3. Shapes' /\ Inboxes' /\ Contents'
    BY <1>2, <1>3, <1>5, <1>6, <2>2, DataKept DEF IInv
  <2>4. TaskCalls'
    BY <1>2, <1>5, <1>6, <2>1 DEF TaskCalls, Batch
  <2>5. ConsumerCalls'
    BY <1>2, <1>5, <2>1 DEF ConsumerCalls, HostBatch, Work
  <2>6. Closings' /\ Endings'
    BY <1>2, <1>5, <2>1 DEF Closings, Endings, Emptied
  <2>7. QED
    BY <2>3, <2>4, <2>5, <2>6 DEF IInv
<1>10. CASE CloseGpu \/ CloseHost
  <2>1. PICK p \in Pipes :
          /\ Enter("task", "close", p, NoError, 0)
          /\ \/ p = "gpu" /\ producer.stage = "close" /\ producer'.stage = "closing gpu"
             \/ /\ p = "host" /\ producer.stage = "closing gpu"
                /\ call["task"].pc \in {"returned", "raised"}
                /\ producer'.stage = "closing host"
    BY <1>1, <1>3, <1>10 DEF CloseGpu, CloseHost, SkipsHost, IsProducer, Raised, Returned
  <2>2. /\ Calls' /\ call'["consumer"] = call["consumer"]
        /\ call'["task"].op = "close" /\ call'["task"].pipe = p
        /\ queue[p].closed => call'["task"].pc = "returned"
        /\ ~queue[p].closed => call'["task"].pc = "drain"
    <3>1. /\ Calls' /\ \A u \in Threads \ {"task"} : call'[u] = call[u]
          /\ call'["task"].op = "close" /\ call'["task"].pipe = p
          /\ queue[p].closed = TRUE => call'["task"].pc = "returned"
          /\ queue[p].closed = FALSE => call'["task"].pc = "drain"
      <4>1. CallIsEntered("task", "close", p, NoError, 0)
        BY <1>1, <1>3, <2>1, Entered
      <4>2. QED
        BY <4>1 DEF CallIsEntered
    <3>2. call'["consumer"] = call["consumer"]
      BY <3>1 DEF Threads
    <3>3. QED
      BY <1>4, <3>1, <3>2
  <2>3. /\ call["task"].pc \in {"none", "returned", "raised"}
        /\ call'["task"].pc \in {"returned", "drain"}
    BY <1>2, <2>1, <2>2 DEF TaskCalls
  <2>4. queue[p].closed => queue[p].pending = <<>>
    <3>1. call["consumer"].pc = "none" \/ (p = "gpu" /\ call["consumer"].pipe = "host")
      <4>1. CASE p = "host"
        <5>1. queue["gpu"].pending = <<>>
          BY <1>2, <2>1, <4>1 DEF Endings, Emptied
        <5>2. QED
          BY <1>2, <5>1, IdleConsumer
      <4>2. CASE p = "gpu"
        BY <1>2, <4>2 DEF ConsumerCalls
      <4>3. QED
        BY <4>1, <4>2 DEF Pipes
    <3>2. \A t \in Threads : call[t].pipe # p \/ call[t].pc # "fail"
      BY <2>3, <3>1 DEF Threads
    <3>3. QED
      BY <1>2, <3>2 DEF Closings
  <2>5. Shapes' /\ Inboxes' /\ Contents'
    BY <1>2, <1>3, <1>5, <1>6, <2>2, DataKept DEF IInv
  <2>6. TaskCalls'
    BY <1>2, <1>5, <1>6, <2>1, <2>2, <2>3 DEF TaskCalls, Batch, Closes
  <2>7. ConsumerCalls'
    BY <1>2, <1>5, <2>2 DEF ConsumerCalls, HostBatch, Work
  <2>8. Closings'
    BY <1>1, <1>5, <2>2, <2>3, ClosingsKept DEF Threads
  <2>9. Endings'
    BY <1>2, <1>5, <2>1, <2>2, <2>3, <2>4 DEF Endings, Emptied
  <2>10. QED
    BY <2>5, <2>6, <2>7, <2>8, <2>9 DEF IInv
<1>11. QED
  BY <1>7, <1>8, <1>9, <1>10


LEMMA ConsumerMoves ==
  ASSUME IInv, HostReserve \/ HostReserved \/ Encode \/ HostResized
  PROVE  IInv'
<1>1. "gpu" \in Pipes /\ "host" \in Pipes /\ "task" \in Threads /\ "consumer" \in Threads
  BY DEF Pipes, Threads
<1>2. Shapes /\ Inboxes /\ Contents /\ TaskCalls /\ ConsumerCalls /\ Closings /\ Endings
  BY DEF IInv
<1>3. Calls /\ IsProducer(producer) /\ IsConsumer(consumer)
  BY <1>2 DEF Shapes
<1>4. UNCHANGED <<queue, inbox, state, producer>>
  BY DEF HostReserve, HostReserved, Encode, HostResized
<1>5. /\ consumer'.batch = consumer.batch /\ consumer'.op = consumer.op /\ IsConsumer(consumer')
      /\ consumer.stage # "idle" /\ consumer'.stage # "idle"
  BY <1>3 DEF HostReserve, HostReserved, Encode, HostResized, At, IsConsumer
<1>6. IsProducer(producer') /\ producer'.batch = producer.batch
  BY <1>3, <1>4
<1>7. SUFFICES ASSUME Calls' /\ call'["task"] = call["task"], ConsumerCalls',
                      call["consumer"].pc \notin {"fail", "refused"},
                      call'["consumer"].pc \notin {"fail", "refused"},
                      call'["consumer"].pc \in {"sweep", "admit"} =>
                        ~queue[call'["consumer"].pipe].closed
               PROVE  IInv'
  <2>1. CASE HostReserve \/ Encode
    <3>1. PICK op \in {"reserve", "resize"}, n \in Nat :
            /\ Enter("consumer", op, "host", HostBatch, n)
            /\ \/ op = "reserve" /\ consumer.stage = "work" /\ consumer'.stage = "reserving"
               \/ op = "resize" /\ consumer.stage = "encode" /\ consumer'.stage = "resizing"
            /\ consumer.op <= Len(Work)
      <4>1. consumer.op \in 1 .. Len(Work) => Work[consumer.op].bytes \in Nat
        BY <1>2, <1>5, BatchKinds DEF ConsumerCalls, Work
      <4>2. consumer.op \in Nat \ {0} /\ Len(Work) \in Nat
        BY <1>2, <1>5, BatchKinds DEF ConsumerCalls, Work, Shapes
      <4>3. CASE HostReserve
        BY <1>3, <4>1, <4>2, <4>3 DEF HostReserve, At, IsConsumer
      <4>4. CASE Encode
        <5>1. consumer.op <= Len(Work)
          BY <1>2, <4>4 DEF Encode, ConsumerCalls
        <5>2. QED
          BY <1>3, <4>1, <4>2, <4>4, <5>1 DEF Encode, At, IsConsumer
      <4>5. QED
        BY <2>1, <4>3, <4>4
    <3>2. CallIsEntered("consumer", op, "host", HostBatch, n)
      BY <1>1, <1>3, <3>1, Entered
    <3>3. /\ Calls' /\ call'["task"] = call["task"] /\ call'["consumer"].op = op
          /\ call'["consumer"].pipe = "host" /\ call'["consumer"].batch = HostBatch
          /\ call'["consumer"].bytes = n /\ call'["consumer"].pc \in {"raised", "sweep"}
          /\ call'["consumer"].pc = "sweep" => ~queue["host"].closed
      <4>1. queue["host"].closed = TRUE \/ queue["host"].closed = FALSE
        BY <1>1, <1>2, QueueFacts
      <4>2. QED
        BY <3>1, <3>2, <4>1 DEF CallIsEntered, Threads
    <3>4. call["consumer"].pc = "none"
      BY <1>2, <3>1 DEF ConsumerCalls
    <3>5. ConsumerCalls'
      BY <1>2, <1>4, <1>5, <3>1, <3>3 DEF ConsumerCalls, HostBatch, Work, Collects
    <3>6. QED
      BY <1>7, <3>3, <3>4, <3>5
  <2>2. CASE HostReserved \/ HostResized
    <3>1. Leave("consumer") /\ call["consumer"].pc = "returned"
      BY <2>2 DEF HostReserved, HostResized, Returned
    <3>2. \/ consumer.stage = "reserving" /\ consumer'.stage \in {"encode", "submit"}
          \/ consumer.stage = "resizing" /\ consumer'.stage = "submit"
      BY <1>3, <2>2 DEF HostReserved, HostResized, At, IsConsumer
    <3>3. Calls' /\ call'["task"] = call["task"] /\ call'["consumer"].pc = "none"
      <4>1. CallIsLeft("consumer")
        BY <1>1, <1>3, <3>1, Left
      <4>2. QED
        BY <4>1 DEF CallIsLeft, Threads
    <3>4. ConsumerCalls'
      BY <1>2, <1>4, <1>5, <3>1, <3>2, <3>3 DEF ConsumerCalls, HostBatch, Work
    <3>5. QED
      BY <1>7, <3>1, <3>3, <3>4
  <2>3. QED
    BY <2>1, <2>2
<1>8. Shapes' /\ Inboxes' /\ Contents'
  BY <1>4, <1>5, <1>6, <1>7, DataKept
<1>9. TaskCalls'
  BY <1>2, <1>4, <1>7 DEF TaskCalls, Batch
<1>10. Closings'
  BY <1>1, <1>4, <1>7, ClosingsKept DEF Threads
<1>11. Endings'
  BY <1>2, <1>4, <1>7 DEF Endings, Emptied
<1>12. QED
  BY <1>7, <1>8, <1>9, <1>10, <1>11 DEF IInv

-----------------------------------------------------------------------------
(* A queue that loses batches, or reservations, or changes one. *)

QueueIsMoved(p, r) ==
  /\ Shapes' /\ Inboxes' /\ Contents'
  /\ queue'[p] = r /\ \A o \in Pipes \ {p} : queue'[o] = queue[o]

LEMMA QueueMoved ==
  ASSUME IInv, NEW p \in Pipes, NEW r, queue' = [queue EXCEPT ![p] = r],
         Sound(r, Limit[p]), Range(r.pending) \subseteq Range(queue[p].pending),
         \A b \in Range(inbox[p]) : b \in Range(r.pending),
         \A b \in Content(r) \ Content(queue[p]) :
           b \in IF p = "gpu" THEN GpuBatches ELSE HostBatches,
         UNCHANGED <<inbox, state>>, Calls',
         IsProducer(producer'), producer'.batch = producer.batch,
         IsConsumer(consumer'), consumer'.batch = consumer.batch, consumer'.op = consumer.op,
         consumer'.stage = "idle" <=> consumer.stage = "idle"
  PROVE  QueueIsMoved(p, r)
<1>1. Shapes /\ Inboxes /\ Contents
  BY DEF IInv
<1>2. queue = [o \in Pipes |-> queue[o]]
  BY <1>1 DEF Shapes
<1>3. queue' = [o \in Pipes |-> queue'[o]] /\ queue'[p] = r
      /\ \A o \in Pipes \ {p} : queue'[o] = queue[o]
  BY <1>2
<1>4. \A o \in Pipes : Sound(queue'[o], Limit[o])
  BY <1>1, <1>3 DEF Shapes
<1>5. Shapes'
  BY <1>1, <1>3, <1>4 DEF Shapes
<1>6. \A o \in Pipes : /\ Range(queue'[o].pending) \subseteq Range(queue[o].pending)
                       /\ \A b \in Range(inbox[o]) : b \in Range(queue'[o].pending)
  BY <1>1, <1>3 DEF Inboxes
<1>7. Inboxes'
  BY <1>1, <1>6 DEF Inboxes
<1>8. /\ Content(queue'["gpu"]) \subseteq GpuBatches
      /\ Content(queue'["host"]) \subseteq HostBatches
  <2>1. Pipes = {"gpu", "host"} /\ "gpu" # "host"
    BY DEF Pipes
  <2>2. CASE p = "gpu"
    BY <1>1, <1>3, <2>1, <2>2 DEF Contents
  <2>3. CASE p = "host"
    BY <1>1, <1>3, <2>1, <2>3 DEF Contents
  <2>4. QED
    BY <2>1, <2>2, <2>3
<1>9. Contents'
  <2>1. "host" \in Pipes
    BY DEF Pipes
  <2>2. QED
    BY <1>1, <1>6, <1>8, <2>1 DEF Contents, Settled
<1>10. QED
  BY <1>3, <1>5, <1>7, <1>9 DEF QueueIsMoved

\* What such a step owes to Closings.
LEMMA ClosingsMoved ==
  ASSUME IInv, NEW p \in Pipes, NEW t \in Threads,
         \A o \in Pipes \ {p} : queue'[o] = queue[o],
         \A u \in Threads \ {t} : call'[u] = call[u] /\ (call[u].pc = "none" \/ call[u].pipe # p),
         call[t].pc # "none" => call[t].pipe = p, call'[t].pc # "none" => call'[t].pipe = p,
         queue'[p].closed /\ queue'[p].pending # <<>> => call'[t].pc = "fail",
         call'[t].pc = "fail" => queue'[p].closed,
         call'[t].pc \in {"sweep", "admit"} => ~queue'[p].closed,
         queue'[p].error # NoError => queue'[p].closed \/ call'[t].pc = "refused"
  PROVE  Closings'
<1>1. Closings /\ \A u \in Threads : call[u].pc # "none" => call[u].pipe \in Pipes
  <2>1. \A u \in Threads : call[u].pc # "none" => call[u].pipe \in Pipes
    BY OneCaller
  <2>2. QED
    BY <2>1 DEF IInv
<1>2. \A o \in Pipes : queue'[o].closed /\ queue'[o].pending # <<>> =>
        \E u \in Threads : call'[u].pipe = o /\ call'[u].pc = "fail"
  <2>1. SUFFICES ASSUME NEW o \in Pipes, queue'[o].closed, queue'[o].pending # <<>>
                 PROVE  \E u \in Threads : call'[u].pipe = o /\ call'[u].pc = "fail"
    OBVIOUS
  <2>2. CASE o = p
    BY <2>1, <2>2
  <2>3. CASE o # p
    <3>1. PICK u \in Threads : call[u].pipe = o /\ call[u].pc = "fail"
      BY <1>1, <2>1, <2>3 DEF Closings
    <3>2. u # t
      BY <2>3, <3>1
    <3>3. QED
      BY <3>1, <3>2
  <2>4. QED
    BY <2>2, <2>3
<1>3. \A o \in Pipes : queue'[o].error # NoError =>
        queue'[o].closed \/ \E u \in Threads : call'[u].pipe = o /\ call'[u].pc = "refused"
  <2>1. SUFFICES ASSUME NEW o \in Pipes, queue'[o].error # NoError, ~queue'[o].closed
                 PROVE  \E u \in Threads : call'[u].pipe = o /\ call'[u].pc = "refused"
    OBVIOUS
  <2>2. CASE o = p
    BY <2>1, <2>2
  <2>3. CASE o # p
    <3>1. PICK u \in Threads : call[u].pipe = o /\ call[u].pc = "refused"
      BY <1>1, <2>1, <2>3 DEF Closings
    <3>2. u # t
      BY <2>3, <3>1
    <3>3. QED
      BY <3>1, <3>2
  <2>4. QED
    BY <2>2, <2>3
<1>4. \A u \in Threads \ {t} : call[u].pc # "none" => queue'[call[u].pipe] = queue[call[u].pipe]
  BY <1>1
<1>5. \A u \in Threads : call'[u].pc = "fail" => queue'[call'[u].pipe].closed
  <2>1. SUFFICES ASSUME NEW u \in Threads, call'[u].pc = "fail"
                 PROVE  queue'[call'[u].pipe].closed
    OBVIOUS
  <2>2. CASE u = t
    BY <2>1, <2>2
  <2>3. CASE u # t
    BY <1>1, <1>4, <2>1, <2>3 DEF Closings
  <2>4. QED
    BY <2>2, <2>3
<1>6. \A u \in Threads : call'[u].pc \in {"sweep", "admit"} => ~queue'[call'[u].pipe].closed
  <2>1. SUFFICES ASSUME NEW u \in Threads, call'[u].pc \in {"sweep", "admit"}
                 PROVE  ~queue'[call'[u].pipe].closed
    OBVIOUS
  <2>2. CASE u = t
    BY <2>1, <2>2
  <2>3. CASE u # t
    BY <1>1, <1>4, <2>1, <2>3 DEF Closings
  <2>4. QED
    BY <2>2, <2>3
<1>7. QED
  BY <1>2, <1>3, <1>5, <1>6 DEF Closings

-----------------------------------------------------------------------------
(* The steps of a call. *)

\* Neither thread moves and the inboxes wait.
CallKeeps == UNCHANGED <<inbox, state, producer, consumer>>

\* A call that only goes on, or is told that it cannot.
LEMMA CallGoesOn ==
  ASSUME IInv, NEW t \in Threads, NEW pc, CallKeeps, queue' = queue,
         call' = [call EXCEPT ![t].pc = pc],
         \/ call[t].pc = "sweep" /\ pc = "admit"
         \/ call[t].pc = "admit" /\ pc = "raised"
  PROVE  IInv'
<1>1. Shapes /\ Inboxes /\ Contents /\ TaskCalls /\ ConsumerCalls /\ Closings /\ Endings
  BY DEF IInv
<1>2. Calls /\ IsProducer(producer) /\ IsConsumer(consumer)
  BY <1>1 DEF Shapes
<1>3. /\ Calls' /\ \A u \in Threads \ {t} : call'[u] = call[u]
      /\ call'[t].pc = pc /\ call'[t].op = call[t].op /\ call'[t].pipe = call[t].pipe
      /\ call'[t].batch = call[t].batch /\ call'[t].bytes = call[t].bytes
  <2>1. CallIsAt(t, pc)
    BY <1>2, Moved
  <2>2. QED
    BY <2>1 DEF CallIsAt
<1>4. Shapes' /\ Inboxes' /\ Contents'
  BY <1>2, <1>3, DataKept DEF CallKeeps
<1>5. TaskCalls'
  <2>1. CASE t = "task"
    BY <1>1, <1>3, <2>1 DEF TaskCalls, CallKeeps, Batch, Collects, Closes
  <2>2. CASE t # "task"
    <3>1. call'["task"] = call["task"]
      BY <1>3, <2>2 DEF Threads
    <3>2. QED
      BY <1>1, <3>1 DEF TaskCalls, CallKeeps, Batch
  <2>3. QED
    BY <2>1, <2>2
<1>6. ConsumerCalls'
  <2>1. CASE t = "consumer"
    BY <1>1, <1>3, <2>1 DEF ConsumerCalls, CallKeeps, HostBatch, Work, Collects
  <2>2. CASE t # "consumer"
    <3>1. call'["consumer"] = call["consumer"]
      BY <1>3, <2>2 DEF Threads
    <3>2. QED
      BY <1>1, <3>1 DEF ConsumerCalls, CallKeeps, HostBatch, Work
  <2>3. QED
    BY <2>1, <2>2
<1>7. Closings'
  <2>1. call'[t].pc \in {"sweep", "admit"} => ~queue[call'[t].pipe].closed
    BY <1>1, <1>3 DEF Closings
  <2>2. QED
    BY <1>3, <2>1, ClosingsKept
<1>8. Endings'
  <2>1. CASE t = "task"
    <3>1. producer.stage \notin {"closing gpu", "closing host"}
      BY <1>1, <2>1 DEF TaskCalls, Closes
    <3>2. QED
      BY <1>1, <3>1 DEF Endings, Emptied, CallKeeps
  <2>2. CASE t # "task"
    <3>1. call'["task"] = call["task"]
      BY <1>3, <2>2 DEF Threads
    <3>2. QED
      BY <1>1, <3>1 DEF Endings, Emptied, CallKeeps
  <2>3. QED
    BY <2>1, <2>2
<1>9. QED
  BY <1>4, <1>5, <1>6, <1>7, <1>8 DEF IInv

LEMMA SweepMoves ==
  ASSUME IInv, NEW t \in Threads, SweepEnds(t)
  PROVE  IInv'
  BY CallGoesOn DEF SweepEnds, Goto, CallKeeps

\* A batch is new to its queue when its reservation is admitted.
LEMMA NewBatch ==
  ASSUME IInv, NEW t \in Threads, call[t].pc \in {"sweep", "admit"}, call[t].op = "reserve"
  PROVE  /\ call[t].batch \in IF call[t].pipe = "gpu" THEN GpuBatches ELSE HostBatches
         /\ call[t].batch \notin Content(queue[call[t].pipe])
         /\ call[t].bytes \in Nat
         /\ queue[call[t].pipe].reserved = {} /\ ~queue[call[t].pipe].closed
<1>1. Shapes /\ Inboxes /\ Contents /\ TaskCalls /\ ConsumerCalls /\ Closings
  BY DEF IInv
<1>2. ~queue[call[t].pipe].closed
  BY <1>1 DEF Closings
<1>3. "gpu" \in Pipes /\ "host" \in Pipes
  BY DEF Pipes
<1>4. CASE t = "task"
  <2>1. /\ producer.stage = "reserving" /\ call[t].batch = Batch /\ call[t].pipe = "gpu"
        /\ call[t].bytes = GpuBytes[producer.batch] /\ producer.batch <= Len(GpuBytes)
        /\ queue["gpu"].reserved = {}
    BY <1>1, <1>4 DEF TaskCalls, Closes
  <2>2. producer.batch \in 1 .. Len(GpuBytes)
    BY <1>1, <2>1, BatchKinds DEF Shapes
  <2>3. Batch \in GpuBatches /\ GpuBytes[producer.batch] \in Nat /\ Batch[1] = producer.batch
    BY <2>2, BatchKinds DEF Batch
  <2>4. state[Batch] = "new"
    BY <1>1, <2>2, <2>3 DEF Contents
  <2>5. Batch \notin Range(queue["gpu"].pending)
    BY <1>1, <1>3, <2>4 DEF Contents
  <2>6. QED
    BY <1>2, <2>1, <2>3, <2>5 DEF Content
<1>5. CASE t = "consumer"
  <2>1. /\ consumer.stage = "reserving" /\ call[t].batch = HostBatch /\ call[t].pipe = "host"
        /\ call[t].bytes \in Nat
        /\ consumer.batch \in DOMAIN GpuBytes /\ consumer.op <= Len(Work)
    BY <1>1, <1>5 DEF ConsumerCalls
  <2>2. queue["host"].reserved = {}
    BY <1>1, <1>5, <2>1 DEF ConsumerCalls
  <2>3. consumer.op \in Nat \ {0} /\ Len(Work) \in Nat
    BY <1>1, <2>1, BatchKinds DEF Shapes, Work
  <2>4. HostBatch \in HostBatches /\ HostBatch[1] = consumer.batch /\ HostBatch[2] = consumer.op
    BY <2>1, <2>3, BatchKinds DEF HostBatch, Work
  <2>5. HostBatch \notin Range(queue["host"].pending)
    <3>1. SUFFICES ASSUME HostBatch \in Range(queue["host"].pending) PROVE FALSE
      OBVIOUS
    <3>2. ~(HostBatch[2] < consumer.op)
      BY <2>3, <2>4
    <3>3. Settled(<<consumer.batch>>)
      BY <1>1, <2>4, <3>1, <3>2 DEF Contents
    <3>4. <<consumer.batch>> \in Range(inbox["gpu"])
      <4>1. inbox["gpu"] \in Seq(Batches) /\ inbox["gpu"] # <<>>
            /\ Head(inbox["gpu"]) = <<consumer.batch>>
        BY <1>1, <1>3, <2>1 DEF Inboxes, Shapes
      <4>2. 1 \in DOMAIN inbox["gpu"] /\ inbox["gpu"][1] = <<consumer.batch>>
        BY <4>1
      <4>3. QED
        BY <4>2 DEF Range
    <3>5. state[<<consumer.batch>>] = "queued"
      BY <1>1, <1>3, <3>4 DEF Inboxes
    <3>6. QED
      BY <3>3, <3>5 DEF Settled
  <2>6. QED
    BY <1>2, <2>1, <2>2, <2>4, <2>5 DEF Content
<1>6. QED
  BY <1>4, <1>5 DEF Threads

LEMMA AdmitMoves ==
  ASSUME IInv, NEW t \in Threads, Admit(t)
  PROVE  IInv'
<1>1. Shapes /\ Inboxes /\ Contents /\ TaskCalls /\ ConsumerCalls /\ Closings /\ Endings
  BY DEF IInv
<1>2. Calls /\ IsProducer(producer) /\ IsConsumer(consumer) /\ CallKeeps
  BY <1>1 DEF Shapes, Admit, CallKeeps
<1>3. call[t].pc = "admit"
  BY DEF Admit
<1>4. CASE ~Admits(call[t])
  BY <1>2, <1>3, <1>4, CallGoesOn DEF Admit, Goto
<1>5. CASE Admits(call[t])
  <2> DEFINE p == call[t].pipe
             q == queue[call[t].pipe]
  <2>1. p \in Pipes /\ \A u \in Threads \ {t} : call[u].pc = "none" \/ call[u].pipe # p
    BY <1>3, OneCaller
  <2>2. PICK r : /\ queue' = [queue EXCEPT ![p] = r]
                 /\ r = IF call[t].op = "reserve" THEN Reserve(q, call[t].batch, call[t].bytes)
                                                  ELSE Resize(q, call[t].batch, call[t].bytes)
    BY <1>5 DEF Admit
  <2>3. /\ Calls' /\ \A u \in Threads \ {t} : call'[u] = call[u]
        /\ call'[t].pc = "returned" /\ call'[t].op = call[t].op /\ call'[t].pipe = call[t].pipe
        /\ call'[t].batch = call[t].batch /\ call'[t].bytes = call[t].bytes
    <3>1. call' = [call EXCEPT ![t].pc = "returned"]
      BY <1>5 DEF Admit, Goto
    <3>2. CallIsAt(t, "returned")
      BY <1>2, <3>1, Moved
    <3>3. QED
      BY <3>2 DEF CallIsAt
  <2>4. Limit[p] \in Nat /\ Sound(q, Limit[p]) /\ ~q.closed
    BY <1>1, <1>3, <2>1, QueueFacts DEF Closings
  <2>5. \/ t = "task" /\ call[t].op = "reserve" /\ p = "gpu" /\ producer.stage = "reserving"
           /\ call[t].batch = Batch
        \/ t = "consumer" /\ call[t].op = "reserve" /\ p = "host" /\ consumer.stage = "reserving"
           /\ call[t].batch = HostBatch
        \/ t = "consumer" /\ call[t].op = "resize" /\ p = "host" /\ consumer.stage = "resizing"
           /\ call[t].batch = HostBatch /\ q.reserved = {HostBatch} /\ call[t].bytes \in Nat
    <3>1. CASE t = "task"
      BY <1>1, <1>3, <3>1 DEF TaskCalls, Closes
    <3>2. CASE t = "consumer"
      BY <1>1, <1>3, <3>2 DEF ConsumerCalls
    <3>3. QED
      BY <3>1, <3>2 DEF Threads
  <2>6. /\ Sound(r, Limit[p]) /\ r.pending = q.pending /\ r.error = q.error
        /\ r.closed = q.closed /\ r.reserved = {call[t].batch}
        /\ \A b \in Content(r) \ Content(q) : b \in IF p = "gpu" THEN GpuBatches ELSE HostBatches
    <3>1. CASE call[t].op = "reserve"
      <4>1. /\ call[t].batch \in IF p = "gpu" THEN GpuBatches ELSE HostBatches
            /\ call[t].batch \notin Content(q) /\ call[t].bytes \in Nat /\ q.reserved = {}
        BY <1>3, <3>1, NewBatch
      <4>2. call[t].batch \in Batches
        BY <4>1, BatchKinds
      <4>3. Fits(q, call[t].bytes, Limit[p]) /\ r = Reserve(q, call[t].batch, call[t].bytes)
        BY <1>5, <2>2, <3>1 DEF Admits
      <4> HIDE DEF p, q
      <4>4. /\ Sound(r, Limit[p]) /\ r.pending = q.pending
            /\ r.reserved = q.reserved \union {call[t].batch}
            /\ r.error = q.error /\ r.closed = q.closed
        BY <2>4, <4>1, <4>2, <4>3, ReserveIsSound
      <4>5. QED
        BY <4>1, <4>4 DEF Content
    <3>2. CASE call[t].op = "resize"
      <4>1. call[t].batch \in q.reserved /\ call[t].bytes \in Nat /\ q.reserved = {call[t].batch}
        BY <2>5, <3>2
      <4>2. /\ FitsResized(q, call[t].batch, call[t].bytes, Limit[p])
            /\ r = Resize(q, call[t].batch, call[t].bytes)
        BY <1>5, <2>2, <3>2 DEF Admits
      <4> HIDE DEF p, q
      <4>3. /\ Sound(r, Limit[p]) /\ r.pending = q.pending /\ r.reserved = q.reserved
            /\ r.error = q.error /\ r.closed = q.closed
        BY <2>4, <4>1, <4>2, ResizeIsSound
      <4>4. QED
        BY <4>1, <4>3 DEF Content
    <3>3. QED
      BY <2>5, <3>1, <3>2
  <2>7. \A b \in Range(inbox[p]) : b \in Range(r.pending)
    BY <1>1, <2>1, <2>6 DEF Inboxes
  <2>8. /\ Shapes' /\ Inboxes' /\ Contents'
        /\ queue'[p] = r /\ \A o \in Pipes \ {p} : queue'[o] = queue[o]
    <3>1. /\ queue' = [queue EXCEPT ![p] = r] /\ Sound(r, Limit[p])
          /\ Range(r.pending) \subseteq Range(queue[p].pending)
          /\ \A b \in Content(r) \ Content(queue[p]) :
               b \in IF p = "gpu" THEN GpuBatches ELSE HostBatches
          /\ \A b \in Range(inbox[p]) : b \in Range(r.pending)
      BY <2>2, <2>6, <2>7
    <3> HIDE DEF p, q
    <3>2. /\ UNCHANGED <<inbox, state>> /\ Calls'
          /\ IsProducer(producer') /\ producer'.batch = producer.batch
          /\ IsConsumer(consumer') /\ consumer'.batch = consumer.batch
          /\ consumer'.op = consumer.op
          /\ (consumer'.stage = "idle" <=> consumer.stage = "idle")
      BY <1>2, <2>3 DEF CallKeeps
    <3>3. QueueIsMoved(p, r)
      BY <2>1, <3>1, <3>2, QueueMoved
    <3>4. QED
      BY <3>3 DEF QueueIsMoved
  <2>9. "gpu" \in Pipes /\ "host" \in Pipes
    BY DEF Pipes
  <2>10. TaskCalls'
    <3>1. CASE t = "task"
      BY <1>1, <1>2, <2>3, <2>5, <2>6, <2>8, <3>1
         DEF TaskCalls, CallKeeps, Batch, Collects
    <3>2. CASE t = "consumer"
      <4>1. call'["task"] = call["task"] /\ queue'["gpu"] = queue["gpu"]
        BY <2>3, <2>5, <2>8, <2>9, <3>2 DEF Threads
      <4>2. QED
        BY <1>1, <1>2, <4>1 DEF TaskCalls, CallKeeps, Batch
    <3>3. QED
      BY <3>1, <3>2 DEF Threads
  <2>11. ConsumerCalls'
    <3>1. CASE t = "consumer"
      BY <1>1, <1>2, <2>3, <2>5, <2>6, <2>8, <3>1
         DEF ConsumerCalls, CallKeeps, HostBatch, Work, Collects
    <3>2. CASE t = "task"
      <4>1. call'["consumer"] = call["consumer"] /\ queue'["host"] = queue["host"]
        BY <2>3, <2>5, <2>8, <2>9, <3>2 DEF Threads
      <4>2. QED
        BY <1>1, <1>2, <4>1 DEF ConsumerCalls, CallKeeps, HostBatch, Work
    <3>3. QED
      BY <3>1, <3>2 DEF Threads
  <2>12. Closings'
    <3>1. ~queue'[p].closed
      BY <2>4, <2>6, <2>8
    <3>2. queue'[p].error = NoError
      <4>1. \A u \in Threads : call[u].pipe = p => call[u].pc # "refused"
        BY <1>3, <2>1
      <4>2. QED
        BY <1>1, <2>1, <2>4, <2>6, <2>8, <4>1 DEF Closings
    <3> HIDE DEF p
    <3>3. call'[t].pipe = p /\ call[t].pipe = p
      BY <2>3 DEF p
    <3>4. QED
      BY <2>1, <2>3, <2>8, <3>1, <3>2, <3>3, ClosingsMoved
  <2>13. Endings'
    <3>1. CASE t = "task"
      BY <1>2, <2>5, <3>1 DEF Endings, CallKeeps
    <3>2. CASE t = "consumer"
      <4>1. call'["task"] = call["task"] /\ queue'["gpu"] = queue["gpu"]
        BY <2>3, <2>5, <2>8, <2>9, <3>2 DEF Threads
      <4>2. ~Emptied("host")
        BY <2>4, <2>5, <3>2 DEF Emptied
      <4>3. QED
        BY <1>1, <1>2, <4>1, <4>2 DEF Endings, Emptied, CallKeeps
    <3>3. QED
      BY <3>1, <3>2 DEF Threads
  <2>14. QED
    BY <2>8, <2>10, <2>11, <2>12, <2>13 DEF IInv
<1>6. QED
  BY <1>4, <1>5

LEMMA CollectMoves ==
  ASSUME IInv, NEW t \in Threads, Collect(t)
  PROVE  IInv'
<1> DEFINE p == call[t].pipe
           q == queue[call[t].pipe]
<1>1. Shapes /\ Inboxes /\ Contents /\ TaskCalls /\ ConsumerCalls /\ Closings /\ Endings
  BY DEF IInv
<1>2. Calls /\ IsProducer(producer) /\ IsConsumer(consumer) /\ CallKeeps
  BY <1>1 DEF Shapes, Collect, CallKeeps
<1>3. /\ call[t].pc \in {"sweep", "drain", "refused", "fail", "admit"}
      /\ q.pending # <<>> /\ Settled(Head(q.pending))
  BY DEF Collect, Collecting, HeadSettled
<1>4. p \in Pipes /\ \A u \in Threads \ {t} : call[u].pc = "none" \/ call[u].pipe # p
  BY <1>3, OneCaller
<1>5. Limit[p] \in Nat /\ Sound(q, Limit[p]) /\ q.closed \in BOOLEAN
  BY <1>1, <1>4, QueueFacts
<1>6. PICK raised \in BOOLEAN : Resume(t, Collected(q, raised))
  BY DEF Collect
<1>7. PICK c : c = Collected(q, raised)
  OBVIOUS
<1> DEFINE fails == c.error # NoError /\ call[t].pc \notin {"refused", "fail"}
<1>8. PICK r : queue' = [queue EXCEPT ![p] = r] /\ r = IF fails THEN Shut(c) ELSE c
  BY <1>7, <1>6 DEF Resume
<1>9. \E pc : /\ call' = [call EXCEPT ![t].pc = pc]
              /\ pc = IF fails THEN "fail" ELSE call[t].pc
  <2>1. call' = [call EXCEPT ![t].pc = IF fails THEN "fail" ELSE @]
    BY <1>7, <1>6 DEF Resume
  <2>2. QED
    BY <2>1
<1>10. PICK pc : /\ call' = [call EXCEPT ![t].pc = pc]
                /\ pc = IF fails THEN "fail" ELSE call[t].pc
  BY <1>9
\* What is left of the queue.
<1>11. /\ Sound(r, Limit[p]) /\ Head(q.pending) \in Range(q.pending)
       /\ Range(r.pending) = Range(q.pending) \ {Head(q.pending)}
       /\ \/ /\ r.closed = TRUE /\ r.reserved = {} /\ pc = "fail"
             /\ call[t].pc \notin {"refused", "fail"}
          \/ /\ r.closed = q.closed /\ r.reserved = q.reserved /\ pc = call[t].pc
             /\ r.error = NoError \/ pc \in {"refused", "fail"}
  <2> HIDE DEF p, q, fails
  <2>1. /\ Sound(c, Limit[p]) /\ c.reserved = q.reserved /\ c.closed = q.closed
        /\ Head(q.pending) \in Range(q.pending)
        /\ Range(c.pending) = Range(q.pending) \ {Head(q.pending)}
    <3>1. PICK limit \in Nat : limit = Limit[p]
      BY <1>5
    <3>2. Sound(q, limit) /\ q.pending # <<>>
      BY <1>3, <1>5, <3>1
    <3>3. /\ Sound(c, limit) /\ c.reserved = q.reserved /\ c.closed = q.closed
          /\ Head(q.pending) \in Range(q.pending)
          /\ Range(c.pending) = Range(q.pending) \ {Head(q.pending)}
      BY <1>7, <3>2, CollectedIsSound
    <3>4. QED
      BY <3>1, <3>3
  <2>2. CASE fails
    <3>1. r = Shut(c)
      BY <1>8, <2>2
    <3>2. /\ Sound(r, Limit[p]) /\ r.reserved = {} /\ r.closed = TRUE /\ r.pending = c.pending
      <4>1. Sound(c, Limit[p]) /\ Limit[p] \in Nat
        BY <1>5, <2>1
      <4>2. \A m \in Nat : Sound(c, m) =>
              Sound(r, m) /\ r.reserved = {} /\ r.closed = TRUE /\ r.pending = c.pending
        BY <3>1, ShutIsSound
      <4>3. QED
        BY <4>1, <4>2
    <3>3. QED
      BY <1>10, <2>1, <2>2, <3>2 DEF fails
  <2>3. CASE ~fails
    <3>1. r = c /\ pc = call[t].pc
      BY <1>8, <1>10, <2>3
    <3>2. c.error = NoError \/ pc \in {"refused", "fail"}
      BY <2>3, <3>1 DEF fails
    <3>3. QED
      BY <2>1, <3>1, <3>2
  <2>4. QED
    BY <2>2, <2>3
<1> HIDE DEF fails
<1>12. /\ Calls' /\ \A u \in Threads \ {t} : call'[u] = call[u]
       /\ call'[t].pc = pc /\ call'[t].op = call[t].op /\ call'[t].pipe = call[t].pipe
       /\ call'[t].batch = call[t].batch /\ call'[t].bytes = call[t].bytes
  <2>1. CallIsAt(t, pc)
    BY <1>2, <1>10, Moved
  <2>2. QED
    BY <2>1 DEF CallIsAt
<1>13. /\ Shapes' /\ Inboxes' /\ Contents'
       /\ queue'[p] = r /\ \A o \in Pipes \ {p} : queue'[o] = queue[o]
  <2>1. /\ queue' = [queue EXCEPT ![p] = r] /\ Sound(r, Limit[p])
        /\ Range(r.pending) \subseteq Range(queue[p].pending)
    BY <1>8, <1>11
  <2>2. \A b \in Content(r) \ Content(queue[p]) :
          b \in IF p = "gpu" THEN GpuBatches ELSE HostBatches
    <3>1. r.reserved \subseteq q.reserved
      BY <1>11
    <3>2. QED
      BY <2>1, <3>1 DEF Content
  <2>3. \A b \in Range(inbox[p]) : b \in Range(r.pending)
    <3>1. SUFFICES ASSUME NEW b \in Range(inbox[p]) PROVE b \in Range(r.pending)
      OBVIOUS
    <3>2. b \in Range(q.pending) /\ state[b] = "queued"
      BY <1>1, <1>4, <3>1 DEF Inboxes
    <3>3. b # Head(q.pending)
      BY <1>3, <3>2 DEF Settled
    <3>4. QED
      BY <1>11, <3>2, <3>3
  <2> HIDE DEF p, q
  <2>4. /\ UNCHANGED <<inbox, state>> /\ Calls'
        /\ IsProducer(producer') /\ producer'.batch = producer.batch
        /\ IsConsumer(consumer') /\ consumer'.batch = consumer.batch
        /\ consumer'.op = consumer.op
        /\ (consumer'.stage = "idle" <=> consumer.stage = "idle")
    BY <1>2, <1>12 DEF CallKeeps
  <2>5. QueueIsMoved(p, r)
    BY <1>4, <2>1, <2>2, <2>3, <2>4, QueueMoved
  <2>6. QED
    BY <2>5 DEF QueueIsMoved
<1>14. "gpu" \in Pipes /\ "host" \in Pipes
  BY DEF Pipes
<1>15. TaskCalls'
  <2>1. CASE t = "task" /\ p = "gpu"
    <3>1. queue["gpu"].reserved = {} /\ queue'["gpu"].reserved = {}
      <4>1. queue["gpu"].reserved = {}
        BY <1>1, <1>3, <2>1 DEF TaskCalls
      <4>2. QED
        BY <1>11, <1>13, <2>1, <4>1
    <3>2. /\ call["task"].pc \in {"sweep", "drain", "refused", "fail", "admit"}
          /\ \/ call'["task"].pc = "fail" /\ call["task"].pc # "refused"
             \/ call'["task"].pc = call["task"].pc
          /\ call'["task"].op = call["task"].op /\ call'["task"].pipe = call["task"].pipe
          /\ call'["task"].batch = call["task"].batch
          /\ call'["task"].bytes = call["task"].bytes
      BY <1>3, <1>11, <1>12, <2>1
    <3>3. QED
      BY <1>1, <1>2, <3>1, <3>2 DEF TaskCalls, CallKeeps, Batch, Collects, Closes
  <2>2. CASE t = "task" /\ p = "host"
    <3>1. queue'["gpu"] = queue["gpu"]
      BY <1>13, <1>14, <2>2
    <3>2. QED
      BY <1>1, <1>2, <1>3, <1>11, <1>12, <2>2, <3>1
         DEF TaskCalls, CallKeeps, Batch, Collects, Closes
  <2>3. CASE t = "consumer"
    <3>1. call'["task"] = call["task"] /\ queue'["gpu"] = queue["gpu"]
      <4>1. p = "host"
        BY <1>3, <2>3, OneCaller
      <4>2. QED
        BY <1>12, <1>13, <1>14, <2>3, <4>1 DEF Threads
    <3>2. QED
      BY <1>1, <1>2, <3>1 DEF TaskCalls, CallKeeps, Batch
  <2>4. QED
    BY <1>4, <2>1, <2>2, <2>3 DEF Threads, Pipes
<1>16. ConsumerCalls'
  <2>1. CASE t = "consumer"
    <3>1. p = "host"
      BY <1>3, <2>1, OneCaller
    <3>2. queue'["host"] = r
      BY <1>13, <3>1
    <3>3. /\ call["consumer"].pc \in {"sweep", "drain", "refused", "fail", "admit"}
          /\ \/ /\ queue'["host"].reserved = {} /\ call'["consumer"].pc = "fail"
                /\ call["consumer"].pc # "refused"
             \/ /\ queue'["host"].reserved = queue["host"].reserved
                /\ call'["consumer"].pc = call["consumer"].pc
          /\ call'["consumer"].op = call["consumer"].op
          /\ call'["consumer"].pipe = call["consumer"].pipe
          /\ call'["consumer"].batch = call["consumer"].batch
          /\ call'["consumer"].bytes = call["consumer"].bytes
      BY <1>3, <1>11, <1>12, <2>1, <3>1, <3>2
    <3>4. QED
      BY <1>1, <1>2, <3>3 DEF ConsumerCalls, CallKeeps, HostBatch, Work, Collects
  <2>2. CASE t = "task"
    <3>1. call'["consumer"] = call["consumer"]
      BY <1>12, <2>2 DEF Threads
    <3>2. CASE p = "gpu"
      <4>1. queue'["host"] = queue["host"]
        BY <1>13, <1>14, <3>2
      <4>2. QED
        BY <1>1, <1>2, <3>1, <4>1 DEF ConsumerCalls, CallKeeps, HostBatch, Work
    <3>3. CASE p = "host"
      <4>1. consumer.stage = "idle" /\ call["consumer"].pc = "none"
        BY <1>3, <2>2, <3>3, OneCaller
      <4>2. queue["host"].reserved = {} /\ queue'["host"].reserved = {}
        BY <1>1, <1>11, <1>13, <3>3, <4>1 DEF ConsumerCalls
      <4>3. QED
        BY <1>1, <1>2, <3>1, <4>1, <4>2 DEF ConsumerCalls, CallKeeps
    <3>4. QED
      BY <1>4, <3>2, <3>3 DEF Pipes
  <2>3. QED
    BY <2>1, <2>2 DEF Threads
<1>17. Closings'
  <2>1. q.closed => call[t].pc = "fail"
    <3>1. \A u \in Threads : call[u].pipe = p /\ call[u].pc = "fail" => u = t
      BY <1>4
    <3>2. QED
      BY <1>1, <1>3, <1>4, <3>1 DEF Closings
  <2>2. call[t].pc = "fail" => q.closed
    BY <1>1 DEF Closings
  <2>3. /\ queue'[p].closed => call'[t].pc = "fail"
        /\ call'[t].pc = "fail" => queue'[p].closed
        /\ queue'[p].error # NoError => queue'[p].closed \/ call'[t].pc = "refused"
    <3>1. queue'[p] = r /\ call'[t].pc = pc
      BY <1>12, <1>13
    <3> HIDE DEF p, q
    <3>2. QED
      BY <1>5, <1>11, <2>1, <2>2, <3>1
  <2>4. call'[t].pipe = p /\ call[t].pipe = p
    BY <1>12
  <2> HIDE DEF p, q
  <2>5. call'[t].pc \in {"sweep", "admit"} => ~queue'[p].closed
    BY <2>3
  <2>6. QED
    BY <1>4, <1>12, <1>13, <2>3, <2>4, <2>5, ClosingsMoved
<1>18. Endings'
  <2>1. ~Emptied(p) /\ (t = "task" => call'[t].pc \notin {"returned", "raised"})
    BY <1>3, <1>11, <1>12 DEF Emptied
  <2>2. \A o \in Pipes \ {p} : Emptied(o) => queue'[o].closed /\ queue'[o].pending = <<>>
    BY <1>13 DEF Emptied
  <2>3. t = "consumer" => call'["task"] = call["task"]
    BY <1>12 DEF Threads
  <2> HIDE DEF p, q
  <2>4. QED
    BY <1>1, <1>2, <1>14, <2>1, <2>2, <2>3 DEF Endings, Emptied, CallKeeps, Threads
<1>19. QED
  BY <1>13, <1>15, <1>16, <1>17, <1>18 DEF IInv

LEMMA FinishMoves ==
  ASSUME IInv, NEW t \in Threads, Finish(t)
  PROVE  IInv'
<1> DEFINE p == call[t].pipe
           q == queue[call[t].pipe]
<1>1. Shapes /\ Inboxes /\ Contents /\ TaskCalls /\ ConsumerCalls /\ Closings /\ Endings
  BY DEF IInv
<1>2. Calls /\ IsProducer(producer) /\ IsConsumer(consumer) /\ CallKeeps
  BY <1>1 DEF Shapes, Finish, CallKeeps
<1>3. call[t].pc \in {"drain", "refused", "fail"} /\ q.pending = <<>>
  BY DEF Finish, Collapsed
<1>4. p \in Pipes /\ \A u \in Threads \ {t} : call[u].pc = "none" \/ call[u].pipe # p
  BY <1>3, OneCaller
<1>5. Limit[p] \in Nat /\ Sound(q, Limit[p])
  BY <1>1, <1>4, QueueFacts
<1>6. PICK s : s = IF call[t].pc = "refused" THEN Remember(q, call[t].batch) ELSE q
  OBVIOUS
<1>7. PICK r : queue' = [queue EXCEPT ![p] = r] /\ r = Shut(s)
  BY <1>6 DEF Finish
<1>8. PICK pc : /\ call' = [call EXCEPT ![t].pc = pc]
                /\ pc = IF call[t].pc = "drain" THEN "returned" ELSE "raised"
  BY DEF Finish, Goto
<1>9. Sound(r, Limit[p]) /\ r.reserved = {} /\ r.closed = TRUE /\ r.pending = <<>>
  <2> HIDE DEF p, q
  <2>1. Sound(s, Limit[p]) /\ s.pending = q.pending
    <3>1. CASE call[t].pc = "refused"
      BY <1>5, <1>6, <3>1, RememberIsSound
    <3>2. CASE call[t].pc # "refused"
      BY <1>5, <1>6, <3>2
    <3>3. QED
      BY <3>1, <3>2
  <2>2. QED
    BY <1>3, <1>5, <1>7, <2>1, ShutIsSound
<1>10. /\ Calls' /\ \A u \in Threads \ {t} : call'[u] = call[u]
       /\ call'[t].pc = pc /\ call'[t].op = call[t].op /\ call'[t].pipe = call[t].pipe
       /\ call'[t].batch = call[t].batch /\ call'[t].bytes = call[t].bytes
  <2>1. CallIsAt(t, pc)
    BY <1>2, <1>8, Moved
  <2>2. QED
    BY <2>1 DEF CallIsAt
<1>11. /\ Shapes' /\ Inboxes' /\ Contents'
       /\ queue'[p] = r /\ \A o \in Pipes \ {p} : queue'[o] = queue[o]
  <2>1. /\ queue' = [queue EXCEPT ![p] = r] /\ Sound(r, Limit[p])
        /\ Range(r.pending) \subseteq Range(queue[p].pending)
        /\ Range(r.pending) = Range(q.pending)
    BY <1>3, <1>7, <1>9
  <2>2. Content(r) \subseteq Content(queue[p])
    BY <1>9, <2>1 DEF Content
  <2>3. \A b \in Range(inbox[p]) : b \in Range(r.pending)
    BY <1>1, <1>4, <2>1 DEF Inboxes
  <2> HIDE DEF p, q
  <2>4. /\ UNCHANGED <<inbox, state>> /\ Calls'
        /\ IsProducer(producer') /\ producer'.batch = producer.batch
        /\ IsConsumer(consumer') /\ consumer'.batch = consumer.batch
        /\ consumer'.op = consumer.op
        /\ (consumer'.stage = "idle" <=> consumer.stage = "idle")
    BY <1>2, <1>10 DEF CallKeeps
  <2>5. \A b \in Content(r) \ Content(queue[p]) :
          b \in IF p = "gpu" THEN GpuBatches ELSE HostBatches
    BY <2>2
  <2>6. QueueIsMoved(p, r)
    BY <1>4, <2>1, <2>3, <2>4, <2>5, QueueMoved
  <2>7. QED
    BY <2>6 DEF QueueIsMoved
<1>12. "gpu" \in Pipes /\ "host" \in Pipes
  BY DEF Pipes
<1>13. TaskCalls'
  <2>1. CASE t = "task" /\ p = "gpu"
    <3>1. queue'["gpu"].reserved = {}
      BY <1>9, <1>11, <2>1
    <3>2. /\ call["task"].pc \in {"drain", "refused", "fail"}
          /\ call'["task"].pc = IF call["task"].pc = "drain" THEN "returned" ELSE "raised"
          /\ call'["task"].op = call["task"].op /\ call'["task"].pipe = call["task"].pipe
          /\ call'["task"].batch = call["task"].batch
          /\ call'["task"].bytes = call["task"].bytes
      BY <1>3, <1>8, <1>10, <2>1
    <3>3. QED
      BY <1>1, <1>2, <3>1, <3>2 DEF TaskCalls, CallKeeps, Batch, Collects, Closes
  <2>2. CASE t = "task" /\ p = "host"
    <3>1. queue'["gpu"] = queue["gpu"]
      BY <1>11, <1>12, <2>2
    <3>2. QED
      BY <1>1, <1>2, <1>3, <1>8, <1>10, <2>2, <3>1
         DEF TaskCalls, CallKeeps, Batch, Collects, Closes
  <2>3. CASE t = "consumer"
    <3>1. call'["task"] = call["task"] /\ queue'["gpu"] = queue["gpu"]
      <4>1. p = "host"
        BY <1>3, <2>3, OneCaller
      <4>2. QED
        BY <1>10, <1>11, <1>12, <2>3, <4>1 DEF Threads
    <3>2. QED
      BY <1>1, <1>2, <3>1 DEF TaskCalls, CallKeeps, Batch
  <2>4. QED
    BY <1>4, <2>1, <2>2, <2>3 DEF Threads, Pipes
<1>14. ConsumerCalls'
  <2>1. CASE t = "consumer"
    <3>1. p = "host"
      BY <1>3, <2>1, OneCaller
    <3>2. QED
      BY <1>1, <1>2, <1>3, <1>8, <1>9, <1>10, <1>11, <2>1, <3>1
         DEF ConsumerCalls, CallKeeps, HostBatch, Work, Collects
  <2>2. CASE t = "task"
    <3>1. call'["consumer"] = call["consumer"]
      BY <1>10, <2>2 DEF Threads
    <3>2. CASE p = "gpu"
      <4>1. queue'["host"] = queue["host"]
        BY <1>11, <1>12, <3>2
      <4>2. QED
        BY <1>1, <1>2, <3>1, <4>1 DEF ConsumerCalls, CallKeeps, HostBatch, Work
    <3>3. CASE p = "host"
      <4>1. consumer.stage = "idle" /\ call["consumer"].pc = "none"
        BY <1>3, <2>2, <3>3, OneCaller
      <4>2. queue'["host"].reserved = {}
        BY <1>9, <1>11, <3>3
      <4>3. QED
        BY <1>1, <1>2, <3>1, <4>1, <4>2 DEF ConsumerCalls, CallKeeps
    <3>4. QED
      BY <1>4, <3>2, <3>3 DEF Pipes
  <2>3. QED
    BY <2>1, <2>2 DEF Threads
<1>15. Closings'
  <2>1. call'[t].pipe = p /\ call[t].pipe = p
    BY <1>10
  <2>2. queue'[p].closed /\ queue'[p].pending = <<>>
    BY <1>9, <1>11
  <2>3. call'[t].pc \in {"returned", "raised"}
    BY <1>8, <1>10
  <2> HIDE DEF p, q
  <2>4. QED
    BY <1>4, <1>10, <1>11, <2>1, <2>2, <2>3, ClosingsMoved
<1>16. Endings'
  <2>1. queue'[p].closed /\ queue'[p].pending = <<>>
    BY <1>9, <1>11
  <2>2. \A o \in Pipes : Emptied(o) => queue'[o].closed /\ queue'[o].pending = <<>>
    BY <1>11, <2>1 DEF Emptied
  <2>3. t = "task" => \/ p = "gpu" /\ producer.stage \notin {"closing host", "ended"}
                      \/ p = "host" /\ producer.stage = "closing host"
    BY <1>1, <1>3 DEF TaskCalls
  <2>4. t = "consumer" => call'["task"] = call["task"]
    BY <1>10 DEF Threads
  <2> HIDE DEF p, q
  <2>5. QED
    BY <1>1, <1>2, <1>12, <2>1, <2>2, <2>3, <2>4 DEF Endings, Emptied, CallKeeps, Threads
<1>17. QED
  BY <1>11, <1>13, <1>14, <1>15, <1>16 DEF IInv

-----------------------------------------------------------------------------
(* Reservations that are returned. *)

ReservationIsReturned(p, b) ==
  /\ QueueIsMoved(p, queue'[p])
  /\ queue'[p].reserved = queue[p].reserved \ {b} /\ queue'[p].pending = queue[p].pending
  /\ queue'[p].error = queue[p].error /\ queue'[p].closed = queue[p].closed

LEMMA ReservationReturned ==
  ASSUME IInv, NEW p \in Pipes, NEW b, queue' = [queue EXCEPT ![p] = Cancel(@, b)],
         UNCHANGED <<inbox, state>>, Calls',
         IsProducer(producer'), producer'.batch = producer.batch,
         IsConsumer(consumer'), consumer'.batch = consumer.batch, consumer'.op = consumer.op,
         consumer'.stage = "idle" <=> consumer.stage = "idle"
  PROVE  ReservationIsReturned(p, b)
<1>1. PICK r : queue' = [queue EXCEPT ![p] = r] /\ r = Cancel(queue[p], b)
  OBVIOUS
<1>2. Limit[p] \in Nat /\ Sound(queue[p], Limit[p])
  BY QueueFacts DEF IInv
<1>3. PICK q : q = queue[p]
  OBVIOUS
<1>4. /\ Sound(r, Limit[p]) /\ r.reserved = q.reserved \ {b} /\ r.pending = q.pending
      /\ r.error = q.error /\ r.closed = q.closed
  BY <1>1, <1>2, <1>3, CancelIsSound
<1>5. /\ Range(r.pending) \subseteq Range(queue[p].pending)
      /\ Content(r) \subseteq Content(queue[p])
  BY <1>3, <1>4 DEF Content
<1>6. \A x \in Range(inbox[p]) : x \in Range(r.pending)
  BY <1>3, <1>4 DEF IInv, Inboxes
<1>7. \A x \in Content(r) \ Content(queue[p]) :
        x \in IF p = "gpu" THEN GpuBatches ELSE HostBatches
  BY <1>5
<1>8. QueueIsMoved(p, r)
  BY <1>1, <1>4, <1>5, <1>6, <1>7, QueueMoved
<1>9. queue'[p] = r
  BY <1>8 DEF QueueIsMoved
<1>10. QED
  BY <1>3, <1>4, <1>8, <1>9 DEF ReservationIsReturned

CallIsRefused(t, p) ==
  /\ Calls' /\ \A u \in Threads \ {t} : call'[u] = call[u]
  /\ call'[t].pc = "refused" /\ call'[t].pipe = p

LEMMA Refused ==
  ASSUME Calls, NEW t \in Threads, NEW p, NEW b, RefusedBy(t, p, b)
  PROVE  CallIsRefused(t, p)
<1>1. PICK c : /\ call' = [call EXCEPT ![t] = c]
               /\ c = [NoCall EXCEPT !.pc = "refused", !.pipe = p, !.batch = b]
  BY DEF RefusedBy
<1>2. c.pc = "refused" /\ c.pipe = p /\ IsCall(c)
  BY <1>1 DEF NoCall, IsCall
<1>3. call'[t] = c /\ (\A u \in Threads \ {t} : call'[u] = call[u])
      /\ call' = [u \in Threads |-> call'[u]]
  BY <1>1 DEF Calls
<1>4. Calls'
  BY <1>2, <1>3 DEF Calls
<1>5. QED
  BY <1>2, <1>3, <1>4 DEF CallIsRefused

\* The policy call failed, or the executor refused its batch.
LEMMA BatchReturned ==
  ASSUME IInv, PolicyFails \/ (TaskSubmit /\ RefusedBy("task", "gpu", Batch)
                               /\ producer' = [producer EXCEPT !.stage = "submitting"])
  PROVE  IInv'
<1>1. "gpu" \in Pipes /\ "host" \in Pipes /\ "task" \in Threads /\ "consumer" \in Threads
      /\ Pipes = {"gpu", "host"} /\ Threads = {"task", "consumer"}
  BY DEF Pipes, Threads
<1>2. Shapes /\ Inboxes /\ Contents /\ TaskCalls /\ ConsumerCalls /\ Closings /\ Endings
  BY DEF IInv
<1>3. Calls /\ IsProducer(producer) /\ IsConsumer(consumer)
  BY <1>2 DEF Shapes
<1>4. /\ queue' = [queue EXCEPT !["gpu"] = Cancel(@, Batch)]
      /\ UNCHANGED <<inbox, state, consumer>> /\ producer.stage = "policy"
  BY DEF PolicyFails, TaskSubmit, RefusedBy
<1>5. call["task"].pc = "none" /\ queue["gpu"].reserved = {Batch}
  BY <1>2, <1>4 DEF TaskCalls
<1>6. /\ Calls' /\ call'["consumer"] = call["consumer"]
      /\ IsProducer(producer') /\ producer'.batch = producer.batch
      /\ \/ call'["task"].pc = "none" /\ producer'.stage \in {"next", "close"}
         \/ /\ call'["task"].pc = "refused" /\ call'["task"].pipe = "gpu"
            /\ producer'.stage = "submitting"
  <2>1. CASE PolicyFails
    <3>1. call' = call /\ Calls'
      BY <1>3, <2>1 DEF PolicyFails, Calls
    <3>2. /\ IsProducer(producer') /\ producer'.batch = producer.batch
          /\ producer'.stage \in {"next", "close"}
      BY <1>3, <2>1 DEF PolicyFails, Closing, IsProducer
    <3>3. QED
      BY <1>5, <3>1, <3>2
  <2>2. CASE /\ TaskSubmit /\ RefusedBy("task", "gpu", Batch)
             /\ producer' = [producer EXCEPT !.stage = "submitting"]
    <3>1. CallIsRefused("task", "gpu")
      BY <1>1, <1>3, <2>2, Refused
    <3>2. IsProducer(producer') /\ producer'.batch = producer.batch
          /\ producer'.stage = "submitting"
      BY <1>3, <2>2 DEF IsProducer
    <3>3. QED
      BY <1>1, <3>1, <3>2 DEF CallIsRefused
  <2>3. QED
    BY <2>1, <2>2
<1>7. ReservationIsReturned("gpu", Batch)
  BY <1>1, <1>3, <1>4, <1>6, ReservationReturned
<1>8. /\ QueueIsMoved("gpu", queue'["gpu"])
      /\ queue'["gpu"].reserved = queue["gpu"].reserved \ {Batch}
      /\ queue'["gpu"].pending = queue["gpu"].pending
      /\ queue'["gpu"].error = queue["gpu"].error /\ queue'["gpu"].closed = queue["gpu"].closed
  BY <1>7 DEF ReservationIsReturned
<1>9. /\ Shapes' /\ Inboxes' /\ Contents' /\ queue'["host"] = queue["host"]
      /\ \A o \in Pipes \ {"gpu"} : queue'[o] = queue[o]
  BY <1>1, <1>8 DEF QueueIsMoved
<1>10. queue'["gpu"].reserved = {}
  BY <1>5, <1>8
<1>11. TaskCalls'
  BY <1>6, <1>10 DEF TaskCalls
<1>12. ConsumerCalls'
  BY <1>2, <1>4, <1>6, <1>9 DEF ConsumerCalls, HostBatch, Work
<1>13. Closings'
  <2>1. ~queue["gpu"].closed
    BY <1>1, <1>2, <1>5, QueueFacts
  <2>2. call["consumer"].pc = "none" \/ call["consumer"].pipe # "gpu"
    BY <1>2 DEF ConsumerCalls
  <2>3. queue'["gpu"].error = NoError
    <3>1. \A u \in Threads : call[u].pipe = "gpu" => call[u].pc # "refused"
      BY <1>1, <1>5, <2>2
    <3>2. QED
      BY <1>1, <1>2, <1>8, <2>1, <3>1 DEF Closings
  <2>4. QED
    BY <1>1, <1>5, <1>6, <1>8, <1>9, <2>1, <2>2, <2>3, ClosingsMoved
<1>14. Endings'
  BY <1>6 DEF Endings
<1>15. QED
  BY <1>9, <1>11, <1>12, <1>13, <1>14 DEF IInv

\* The same for a host batch, the GPU consumer going on to its fence or without its encoder.
LEMMA HostBatchReturned ==
  ASSUME IInv, HostRaised \/ ConsumeFails
               \/ (HostSubmit /\ RefusedBy("consumer", "host", HostBatch) /\ At("submitting"))
  PROVE  IInv'
<1>1. "gpu" \in Pipes /\ "host" \in Pipes /\ "task" \in Threads /\ "consumer" \in Threads
      /\ Pipes = {"gpu", "host"} /\ Threads = {"task", "consumer"}
  BY DEF Pipes, Threads
<1>2. Shapes /\ Inboxes /\ Contents /\ TaskCalls /\ ConsumerCalls /\ Closings /\ Endings
  BY DEF IInv
<1>3. Calls /\ IsProducer(producer) /\ IsConsumer(consumer)
  BY <1>2 DEF Shapes
<1>4. /\ queue' = [queue EXCEPT !["host"] = Cancel(@, HostBatch)]
      /\ UNCHANGED <<inbox, state, producer>> /\ consumer.stage # "idle"
  BY DEF HostRaised, ConsumeFails, HostSubmit, RefusedBy, Break, FallBack, Unwind
<1>5. /\ IsConsumer(consumer') /\ consumer'.batch = consumer.batch /\ consumer'.op = consumer.op
      /\ consumer'.stage \in {"fence", "work", "submitting"}
      /\ HostRaised \/ ConsumeFails => consumer'.stage \in {"fence", "work"}
  BY <1>3 DEF HostRaised, ConsumeFails, HostSubmit, Break, FallBack, At, IsConsumer
<1>6. /\ Calls' /\ call'["task"] = call["task"]
      /\ \/ /\ consumer'.stage \in {"fence", "work"} /\ call'["consumer"].pc = "none"
            /\ call["consumer"].pc \in {"none", "raised"}
         \/ /\ consumer'.stage = "submitting" /\ call'["consumer"].pc = "refused"
            /\ call'["consumer"].pipe = "host" /\ consumer.stage = "submit"
            /\ call["consumer"].pc = "none"
  <2>1. CASE HostRaised
    <3>1. /\ Leave("consumer") /\ call["consumer"].pc = "raised"
          /\ consumer'.stage \in {"fence", "work"}
      BY <1>5, <2>1 DEF HostRaised, Raised
    <3>2. CallIsLeft("consumer")
      BY <1>1, <1>3, <3>1, Left
    <3>3. QED
      BY <1>1, <3>1, <3>2 DEF CallIsLeft
  <2>2. CASE ConsumeFails
    <3>1. call["consumer"].pc = "none"
      BY <1>2, <2>2 DEF ConsumerCalls, ConsumeFails
    <3>2. call' = call /\ Calls' /\ consumer'.stage \in {"fence", "work"}
      BY <1>3, <1>5, <2>2 DEF ConsumeFails, Calls
    <3>3. QED
      BY <3>1, <3>2
  <2>3. CASE HostSubmit /\ RefusedBy("consumer", "host", HostBatch) /\ At("submitting")
    <3>1. consumer.stage = "submit" /\ call["consumer"].pc = "none"
      BY <1>2, <2>3 DEF HostSubmit, ConsumerCalls
    <3>2. CallIsRefused("consumer", "host") /\ consumer'.stage = "submitting"
      BY <1>1, <1>3, <2>3, Refused DEF At, IsConsumer
    <3>3. QED
      BY <1>1, <3>1, <3>2 DEF CallIsRefused
  <2>4. QED
    BY <2>1, <2>2, <2>3
<1>7. ReservationIsReturned("host", HostBatch)
  <2>1. /\ IsProducer(producer') /\ producer'.batch = producer.batch
        /\ (consumer'.stage = "idle" <=> consumer.stage = "idle")
    BY <1>3, <1>4, <1>5
  <2>2. QED
    BY <1>1, <1>3, <1>4, <1>5, <1>6, <2>1, ReservationReturned
<1>8. /\ QueueIsMoved("host", queue'["host"])
      /\ queue'["host"].reserved = queue["host"].reserved \ {HostBatch}
      /\ queue'["host"].pending = queue["host"].pending
      /\ queue'["host"].error = queue["host"].error
      /\ queue'["host"].closed = queue["host"].closed
  BY <1>7 DEF ReservationIsReturned
<1>9. /\ Shapes' /\ Inboxes' /\ Contents' /\ queue'["gpu"] = queue["gpu"]
      /\ \A o \in Pipes \ {"host"} : queue'[o] = queue[o]
  BY <1>1, <1>8 DEF QueueIsMoved
<1>10. queue'["host"].reserved = {}
  <2>1. queue["host"].reserved \subseteq {HostBatch}
    BY <1>2 DEF ConsumerCalls
  <2>2. QED
    BY <1>8, <2>1
<1>11. TaskCalls'
  BY <1>2, <1>4, <1>6, <1>9 DEF TaskCalls, Batch
<1>12. ConsumerCalls'
  <2>1. HostBatch' = HostBatch /\ Work' = Work
    BY <1>5 DEF HostBatch, Work
  <2>2. consumer.stage = "submit" => consumer.op <= Len(Work)
    BY <1>2 DEF ConsumerCalls
  <2>3. consumer.batch \in DOMAIN GpuBytes
    BY <1>2, <1>4 DEF ConsumerCalls
  <2>4. QED
    BY <1>5, <1>6, <1>10, <2>1, <2>2, <2>3 DEF ConsumerCalls
<1>13. call["task"].pc = "none" \/ call["task"].pipe # "host"
  BY <1>1, <1>4, OneCaller
<1>14. Closings'
  <2>1. \A u \in Threads : call[u].pipe = "host" => call[u].pc \notin {"fail", "refused"}
    BY <1>1, <1>6, <1>13
  <2>2. /\ ~(queue'["host"].closed /\ queue'["host"].pending # <<>>)
        /\ queue'["host"].error # NoError => queue'["host"].closed
    BY <1>1, <1>2, <1>8, <2>1 DEF Closings
  <2>3. call["consumer"].pc # "none" => call["consumer"].pipe = "host"
    BY <1>1, OneCaller
  <2>4. QED
    BY <1>1, <1>6, <1>9, <1>13, <2>2, <2>3, ClosingsMoved
<1>15. Endings'
  BY <1>2, <1>4, <1>6, <1>8, <1>9 DEF Endings, Emptied
<1>16. QED
  BY <1>9, <1>11, <1>12, <1>14, <1>15 DEF IInv

-----------------------------------------------------------------------------
(* Batches that are submitted, taken and answered. *)

BatchIsSubmitted(p, b) ==
  /\ Shapes' /\ Inboxes' /\ Contents'
  /\ queue'[p].reserved = queue[p].reserved \ {b} /\ queue'[p].pending # <<>>
  /\ queue'[p].error = queue[p].error /\ queue'[p].closed = queue[p].closed
  /\ \A o \in Pipes \ {p} : queue'[o] = queue[o]

LEMMA BatchSubmitted ==
  ASSUME IInv, NEW t, NEW p \in Pipes, NEW b \in queue[p].reserved, SubmitTo(t, p, b),
         IsProducer(producer'), producer'.batch \in Nat \ {0}, producer'.batch >= producer.batch,
         IsConsumer(consumer'), consumer'.batch = consumer.batch, consumer'.op \in Nat \ {0},
         consumer'.op >= consumer.op, consumer'.stage = "idle" <=> consumer.stage = "idle",
         p = "gpu" => state[b] = "new" /\ b[1] < producer'.batch,
         p = "host" => /\ consumer.stage # "idle" /\ b[1] = consumer.batch
                       /\ b[2] \in Nat /\ b[2] < consumer'.op
  PROVE  BatchIsSubmitted(p, b)
<1>1. Shapes /\ Inboxes /\ Contents
  BY DEF IInv
<1>2. PICK q : q = queue[p]
  OBVIOUS
<1>3. PICK r : queue' = [queue EXCEPT ![p] = r] /\ r = Submit(q, b)
  BY <1>2 DEF SubmitTo
<1>4. PICK limit \in Nat : limit = Limit[p] /\ Sound(q, limit)
  BY <1>1, <1>2, QueueFacts
<1>5. /\ Sound(r, limit) /\ r.reserved = q.reserved \ {b} /\ b \notin Range(q.pending)
      /\ Range(r.pending) = Range(q.pending) \union {b}
      /\ r.error = q.error /\ r.closed = q.closed
  <2>1. PICK c \in q.reserved : c = b
    BY <1>2
  <2>2. Sound(q, limit) /\ r = Submit(q, c)
    BY <1>3, <1>4, <2>1
  <2>3. /\ Sound(r, limit) /\ r.reserved = q.reserved \ {c} /\ c \notin Range(q.pending)
        /\ Range(r.pending) = Range(q.pending) \union {c}
        /\ r.error = q.error /\ r.closed = q.closed
    BY <2>2, SubmitIsSound
  <2>4. QED
    BY <2>1, <2>3
<1>6. queue' = [o \in Pipes |-> queue'[o]] /\ queue'[p] = r
      /\ \A o \in Pipes \ {p} : queue'[o] = queue[o]
  BY <1>1, <1>3 DEF Shapes
<1>7. b \in Batches /\ b \in Content(q) /\ b \in Content(queue[p])
  BY <1>1, <1>2, QueueFacts DEF Content
<1>8. /\ inbox \in [Pipes -> Seq(Batches)] /\ IsInjective(inbox[p]) /\ b \notin Range(inbox[p])
      /\ Range(inbox[p]) \subseteq Range(q.pending)
  BY <1>1, <1>2, <1>5 DEF Shapes, Inboxes
<1>9. PICK s : s = Append(inbox[p], b) /\ inbox' = [inbox EXCEPT ![p] = s]
  BY DEF SubmitTo
<1>10. s \in Seq(Batches) /\ IsInjective(s) /\ Range(s) = Range(inbox[p]) \union {b}
       /\ (inbox[p] # <<>> => Head(s) = Head(inbox[p])) /\ s # <<>>
  <2>1. inbox[p] \in Seq(Batches)
    BY <1>8
  <2>2. PICK i \in Seq(Batches) : i = inbox[p]
    BY <2>1
  <2>3. Append(i, b) \in Seq(Batches) /\ Append(i, b) # <<>>
        /\ (i # <<>> => Head(Append(i, b)) = Head(i))
    BY <1>7
  <2>4. IsInjective(Append(i, b)) /\ Range(Append(i, b)) = Range(i) \union {b}
    BY <1>7, <1>8, <2>2, AppendAdds
  <2>5. QED
    BY <1>9, <2>2, <2>3, <2>4
<1>11. /\ inbox' \in [Pipes -> Seq(Batches)] /\ inbox'[p] = s
       /\ \A o \in Pipes \ {p} : inbox'[o] = inbox[o]
  BY <1>8, <1>9, <1>10
<1>12. /\ state' \in [Batches -> {"new", "queued", "done", "failed"}]
       /\ state'[b] = "queued" /\ \A x \in Batches \ {b} : state'[x] = state[x]
  BY <1>1, <1>7 DEF Shapes, SubmitTo
<1>13. call' = call /\ Calls'
  BY <1>1 DEF Shapes, Calls, SubmitTo
<1>14. Shapes'
  <2>1. \A o \in Pipes : Sound(queue'[o], Limit[o])
    BY <1>1, <1>4, <1>5, <1>6 DEF Shapes
  <2>2. QED
    BY <1>1, <1>6, <1>11, <1>12, <1>13, <2>1 DEF Shapes
\* The batch is in no other queue.
<1>15. /\ Pipes = {"gpu", "host"} /\ "gpu" \in Pipes /\ "host" \in Pipes
       /\ p = "gpu" => b \in GpuBatches /\ b \notin Content(queue["host"])
       /\ p = "host" => b \in HostBatches /\ b \notin Content(queue["gpu"])
  <2>1. Pipes = {"gpu", "host"}
    BY DEF Pipes
  <2>2. p = "gpu" => b \in GpuBatches
    BY <1>1, <1>7 DEF Contents
  <2>3. p = "host" => b \in HostBatches
    BY <1>1, <1>7 DEF Contents
  <2>4. QED
    BY <1>1, <2>1, <2>2, <2>3, BatchKinds DEF Contents
<1>16. \A o \in Pipes \ {p} : b \notin Range(queue[o].pending)
  BY <1>15 DEF Content
<1>17. Inboxes'
  <2>1. \A o \in Pipes : IsInjective(inbox'[o])
    BY <1>1, <1>10, <1>11 DEF Inboxes
  <2>2. \A o \in Pipes : \A x \in Range(inbox'[o]) :
          x \in Range(queue'[o].pending) /\ state'[x] = "queued"
    <3>1. SUFFICES ASSUME NEW o \in Pipes, NEW x \in Range(inbox'[o])
                   PROVE  x \in Range(queue'[o].pending) /\ state'[x] = "queued"
      OBVIOUS
    <3>2. CASE o = p
      <4>1. x = b \/ x \in Range(inbox[p])
        BY <1>10, <1>11, <3>1, <3>2
      <4>2. CASE x = b
        BY <1>5, <1>6, <1>12, <3>2, <4>2
      <4>3. CASE x \in Range(inbox[p])
        <5>1. x \in Range(q.pending) /\ state[x] = "queued" /\ x # b
          BY <1>1, <1>2, <1>8, <4>3 DEF Inboxes
        <5>2. x \in Batches
          <6>1. q.pending \in Seq(Batches)
            BY <1>1, <1>2, QueueFacts
          <6>2. QED
            BY <5>1, <6>1 DEF Range
        <5>3. QED
          BY <1>5, <1>6, <1>12, <3>2, <5>1, <5>2
      <4>4. QED
        BY <4>1, <4>2, <4>3
    <3>3. CASE o # p
      <4>1. x \in Range(queue[o].pending) /\ state[x] = "queued" /\ x # b
        BY <1>1, <1>11, <1>16, <3>1, <3>3 DEF Inboxes
      <4>2. x \in Batches
        <5>1. queue[o].pending \in Seq(Batches)
          BY <1>1, <3>1, QueueFacts
        <5>2. QED
          BY <4>1, <5>1 DEF Range
      <4>3. QED
        BY <1>6, <1>12, <3>3, <4>1, <4>2
    <3>4. QED
      BY <3>2, <3>3
  <2>3. consumer'.stage # "idle" =>
          inbox'["gpu"] # <<>> /\ Head(inbox'["gpu"]) = <<consumer'.batch>>
    BY <1>1, <1>10, <1>11, <1>15 DEF Inboxes
  <2>4. QED
    BY <2>1, <2>2, <2>3 DEF Inboxes
<1>18. Contents'
  <2>1. Content(r) = Content(q)
    BY <1>2, <1>5, <1>7 DEF Content
  <2>2. Content(queue'["gpu"]) \subseteq GpuBatches /\ Content(queue'["host"]) \subseteq HostBatches
    BY <1>1, <1>2, <1>6, <1>15, <2>1 DEF Contents
  <2>3. \A o \in Pipes : \A x \in Range(queue'[o].pending) : state'[x] # "new"
    <3>1. SUFFICES ASSUME NEW o \in Pipes, NEW x \in Range(queue'[o].pending), x # b
                   PROVE  state'[x] # "new"
      BY <1>12
    <3>2. x \in Range(queue[o].pending)
      BY <1>2, <1>5, <1>6, <3>1
    <3>3. x \in Batches
      <4>1. queue[o].pending \in Seq(Batches)
        BY <1>1, <3>1, QueueFacts
      <4>2. QED
        BY <3>2, <4>1 DEF Range
    <3>4. QED
      BY <1>1, <1>12, <3>1, <3>2, <3>3 DEF Contents
  <2>4. \A x \in GpuBatches : x[1] >= producer'.batch => state'[x] = "new"
    <3>1. SUFFICES ASSUME NEW x \in GpuBatches, x[1] >= producer'.batch PROVE state'[x] = "new"
      OBVIOUS
    <3>2. x[1] \in Nat /\ x \in Batches /\ producer.batch \in Nat
      BY <1>1, BatchKinds DEF Shapes
    <3>3. state[x] = "new"
      BY <1>1, <3>1, <3>2 DEF Contents
    <3>4. x # b
      <4>1. CASE p = "gpu"
        <5>1. b[1] < producer'.batch
          BY <4>1
        <5>2. QED
          BY <3>1, <3>2, <5>1
      <4>2. CASE p = "host"
        BY <1>15, <4>2, BatchKinds
      <4>3. QED
        BY <1>15, <4>1, <4>2
    <3>5. QED
      BY <1>12, <3>2, <3>3, <3>4
  <2>5. \A x \in HostBatches : Settled(<<x[1]>>) => Settled(<<x[1]>>)'
    <3>1. SUFFICES ASSUME NEW x \in HostBatches, Settled(<<x[1]>>)
                   PROVE  state'[<<x[1]>>] \in {"done", "failed"}
      BY DEF Settled
    <3>2. <<x[1]>> \in GpuBatches /\ <<x[1]>> \in Batches
      BY BatchKinds
    <3>3. <<x[1]>> # b
      <4>1. CASE p = "gpu"
        BY <3>1, <4>1 DEF Settled
      <4>2. CASE p = "host"
        BY <1>15, <3>2, <4>2, BatchKinds
      <4>3. QED
        BY <1>15, <4>1, <4>2
    <3>4. QED
      BY <1>12, <3>1, <3>2, <3>3 DEF Settled
  <2>6. \A x \in Range(queue'["host"].pending) :
          \/ Settled(<<x[1]>>)'
          \/ consumer'.stage # "idle" /\ x[1] = consumer'.batch /\ x[2] < consumer'.op
    <3>1. SUFFICES ASSUME NEW x \in Range(queue'["host"].pending)
                   PROVE  \/ Settled(<<x[1]>>)'
                          \/ /\ consumer'.stage # "idle" /\ x[1] = consumer'.batch
                             /\ x[2] < consumer'.op
      OBVIOUS
    <3>2. CASE x \in Range(queue["host"].pending)
      <4>1. x \in HostBatches /\ x[2] \in Nat
        <5>1. x \in HostBatches
          BY <1>1, <3>2 DEF Contents, Content
        <5>2. QED
          BY <5>1, BatchKinds
      <4>2. CASE Settled(<<x[1]>>)
        BY <2>5, <4>1, <4>2
      <4>3. CASE consumer.stage # "idle" /\ x[1] = consumer.batch /\ x[2] < consumer.op
        <5>1. consumer.op \in Nat
          BY <1>1 DEF Shapes
        <5>2. QED
          BY <4>1, <4>3, <5>1
      <4>4. QED
        BY <1>1, <3>2, <4>2, <4>3 DEF Contents
    <3>3. CASE x \notin Range(queue["host"].pending)
      <4>1. p = "host" /\ x = b
        BY <1>2, <1>5, <1>6, <1>15, <3>1, <3>3
      <4>2. QED
        BY <4>1
    <3>4. QED
      BY <3>2, <3>3
  <2>7. QED
    BY <2>2, <2>3, <2>4, <2>6 DEF Contents
<1>19. queue'[p].pending # <<>>
  <2>1. r.pending \in Seq(Batches) /\ Range(r.pending) # {}
    BY <1>5 DEF Sound, IsQueue
  <2>2. QED
    BY <1>6, <2>1, NothingIn
<1>20. QED
  BY <1>2, <1>5, <1>6, <1>14, <1>17, <1>18, <1>19 DEF BatchIsSubmitted

LEMMA TaskSubmits ==
  ASSUME IInv, TaskSubmit, SubmitTo("task", "gpu", Batch),
         producer' = [producer EXCEPT !.stage = "next", !.batch = @ + 1]
  PROVE  IInv'
<1>1. "gpu" \in Pipes /\ "host" \in Pipes /\ "task" \in Threads /\ "consumer" \in Threads
      /\ Pipes = {"gpu", "host"} /\ Threads = {"task", "consumer"}
  BY DEF Pipes, Threads
<1>2. Shapes /\ Inboxes /\ Contents /\ TaskCalls /\ ConsumerCalls /\ Closings /\ Endings
  BY DEF IInv
<1>3. /\ Calls /\ IsProducer(producer) /\ IsConsumer(consumer)
      /\ producer.batch \in Nat \ {0} /\ consumer.op \in Nat \ {0}
  BY <1>2 DEF Shapes
<1>4. producer.stage = "policy" /\ UNCHANGED <<consumer, call>>
  BY DEF TaskSubmit, SubmitTo
<1>5. /\ call["task"].pc = "none" /\ queue["gpu"].reserved = {Batch}
      /\ producer.batch \in 1 .. Len(GpuBytes)
  BY <1>2, <1>3, <1>4, BatchKinds DEF TaskCalls
<1>6. /\ Batch \in GpuBatches /\ Batch[1] = producer.batch /\ state[Batch] = "new"
  BY <1>2, <1>3, <1>5, BatchKinds DEF Contents, Batch
<1>7. /\ IsProducer(producer') /\ producer'.batch = producer.batch + 1
      /\ producer'.stage = "next"
  BY <1>3 DEF IsProducer
<1>8. BatchIsSubmitted("gpu", Batch)
  <2>1. Batch \in queue["gpu"].reserved
    BY <1>5
  <2>2. /\ producer'.batch \in Nat \ {0} /\ producer'.batch >= producer.batch
        /\ Batch[1] < producer'.batch
    BY <1>3, <1>6, <1>7
  <2>3. /\ IsConsumer(consumer') /\ consumer'.batch = consumer.batch
        /\ consumer'.op \in Nat \ {0} /\ consumer'.op >= consumer.op
        /\ (consumer'.stage = "idle" <=> consumer.stage = "idle")
    BY <1>3, <1>4
  <2>4. QED
    BY <1>1, <1>6, <1>7, <2>1, <2>2, <2>3, BatchSubmitted
<1>9. /\ Shapes' /\ Inboxes' /\ Contents'
      /\ queue'["gpu"].reserved = {} /\ queue'["host"] = queue["host"]
      /\ queue'["gpu"].error = queue["gpu"].error /\ queue'["gpu"].closed = queue["gpu"].closed
      /\ \A o \in Pipes \ {"gpu"} : queue'[o] = queue[o]
  BY <1>1, <1>5, <1>8 DEF BatchIsSubmitted
<1>10. TaskCalls'
  BY <1>4, <1>5, <1>7, <1>9 DEF TaskCalls
<1>11. ConsumerCalls'
  BY <1>2, <1>4, <1>9 DEF ConsumerCalls, HostBatch, Work
<1>12. Closings'
  <2>1. ~queue["gpu"].closed
    BY <1>1, <1>2, <1>5, QueueFacts
  <2>2. call["consumer"].pc = "none" \/ call["consumer"].pipe # "gpu"
    BY <1>2 DEF ConsumerCalls
  <2>3. queue'["gpu"].error = NoError
    <3>1. \A u \in Threads : call[u].pipe = "gpu" => call[u].pc # "refused"
      BY <1>1, <1>5, <2>2
    <3>2. QED
      BY <1>1, <1>2, <1>9, <2>1, <3>1 DEF Closings
  <2>4. QED
    BY <1>1, <1>4, <1>5, <1>9, <2>1, <2>2, <2>3, ClosingsMoved
<1>13. Endings'
  BY <1>7 DEF Endings
<1>14. QED
  BY <1>9, <1>10, <1>11, <1>12, <1>13 DEF IInv

LEMMA HostSubmits ==
  ASSUME IInv, HostSubmit, SubmitTo("consumer", "host", HostBatch),
         consumer' = [consumer EXCEPT !.stage = "work", !.op = @ + 1]
  PROVE  IInv'
<1>1. "gpu" \in Pipes /\ "host" \in Pipes /\ "task" \in Threads /\ "consumer" \in Threads
      /\ Pipes = {"gpu", "host"} /\ Threads = {"task", "consumer"}
  BY DEF Pipes, Threads
<1>2. Shapes /\ Inboxes /\ Contents /\ TaskCalls /\ ConsumerCalls /\ Closings /\ Endings
  BY DEF IInv
<1>3. /\ Calls /\ IsProducer(producer) /\ IsConsumer(consumer)
      /\ producer.batch \in Nat \ {0} /\ consumer.op \in Nat \ {0}
  BY <1>2 DEF Shapes
<1>4. consumer.stage = "submit" /\ UNCHANGED <<producer, call>>
  BY DEF HostSubmit, SubmitTo
<1>5. /\ call["consumer"].pc = "none" /\ queue["host"].reserved = {HostBatch}
      /\ consumer.batch \in DOMAIN GpuBytes
  BY <1>2, <1>4 DEF ConsumerCalls
<1>6. /\ IsConsumer(consumer') /\ consumer'.batch = consumer.batch
      /\ consumer'.op = consumer.op + 1 /\ consumer'.stage = "work"
  BY <1>3 DEF IsConsumer
<1>7. BatchIsSubmitted("host", HostBatch)
  <2>1. HostBatch \in queue["host"].reserved
    BY <1>5
  <2>2. HostBatch[1] = consumer.batch /\ HostBatch[2] = consumer.op
    BY DEF HostBatch
  <2>3. /\ consumer'.op \in Nat \ {0} /\ consumer'.op >= consumer.op
        /\ HostBatch[2] \in Nat /\ HostBatch[2] < consumer'.op
        /\ (consumer'.stage = "idle" <=> consumer.stage = "idle") /\ consumer.stage # "idle"
    BY <1>3, <1>4, <1>6, <2>2
  <2>4. /\ IsProducer(producer') /\ producer'.batch \in Nat \ {0}
        /\ producer'.batch >= producer.batch
    BY <1>3, <1>4
  <2>5. QED
    BY <1>1, <1>6, <2>1, <2>2, <2>3, <2>4, BatchSubmitted
<1>8. /\ Shapes' /\ Inboxes' /\ Contents'
      /\ queue'["host"].reserved = {} /\ queue'["gpu"] = queue["gpu"]
      /\ queue'["host"].pending # <<>>
      /\ queue'["host"].error = queue["host"].error
      /\ queue'["host"].closed = queue["host"].closed
      /\ \A o \in Pipes \ {"host"} : queue'[o] = queue[o]
  BY <1>1, <1>5, <1>7 DEF BatchIsSubmitted
<1>9. TaskCalls'
  BY <1>2, <1>4, <1>8 DEF TaskCalls, Batch
<1>10. ConsumerCalls'
  BY <1>4, <1>5, <1>6, <1>8 DEF ConsumerCalls
<1>11. ~queue["host"].closed
  BY <1>1, <1>2, <1>5, QueueFacts
<1>12. Closings'
  <2>1. call["task"].pc = "none" \/ call["task"].pipe # "host"
    BY <1>1, <1>4, OneCaller
  <2>2. queue'["host"].error = NoError
    <3>1. \A u \in Threads : call[u].pipe = "host" => call[u].pc # "refused"
      BY <1>1, <1>5, <2>1
    <3>2. QED
      BY <1>1, <1>2, <1>8, <1>11, <3>1 DEF Closings
  <2>3. QED
    BY <1>1, <1>4, <1>5, <1>8, <1>11, <2>1, <2>2, ClosingsMoved
<1>13. Endings'
  BY <1>2, <1>4, <1>8, <1>11 DEF Endings, Emptied
<1>14. QED
  BY <1>8, <1>9, <1>10, <1>12, <1>13 DEF IInv

\* The oldest batch of an executor gets its answer and leaves it.
Answers(p) ==
  /\ inbox[p] # <<>>
  /\ \E answer \in {"done", "failed"} : state' = [state EXCEPT ![Head(inbox[p])] = answer]
  /\ inbox' = [inbox EXCEPT ![p] = Tail(@)]
  /\ UNCHANGED <<queue, call, producer>>

LEMMA BatchAnswered ==
  ASSUME IInv, NEW p \in Pipes, Answers(p),
         IsConsumer(consumer'), consumer'.batch = consumer.batch, consumer'.op = consumer.op,
         p = "gpu" => consumer'.stage = "idle", p = "host" => consumer' = consumer
  PROVE  Shapes' /\ Inboxes' /\ Contents'
<1>1. Shapes /\ Inboxes /\ Contents
  BY DEF IInv
<1>2. PICK i \in Seq(Batches) : i = inbox[p] /\ i # <<>> /\ IsInjective(i)
  BY <1>1 DEF Shapes, Inboxes, Answers
<1>3. PICK b : b = Head(i)
  OBVIOUS
<1>4. /\ Tail(i) \in Seq(Batches) /\ b \in Range(i) /\ b \in Batches
      /\ Range(Tail(i)) = Range(i) \ {b} /\ IsInjective(Tail(i))
  <2>1. Len(i) \in Nat \ {0} /\ DOMAIN i = 1 .. Len(i) /\ b = i[1]
    BY <1>2, <1>3
  <2>2. /\ Tail(i) \in Seq(Batches) /\ DOMAIN Tail(i) = 1 .. (Len(i) - 1)
        /\ \A k \in 1 .. (Len(i) - 1) : Tail(i)[k] = i[k + 1]
    BY <1>2
  <2>3. \A k \in 1 .. Len(i) : i[k] \in Batches
    BY <1>2
  <2>4. b \in Range(i) /\ b \in Batches
    BY <2>1, <2>3 DEF Range
  <2>5. \A k, m \in 1 .. Len(i) : i[k] = i[m] => k = m
    BY <1>2, <2>1 DEF IsInjective
  <2>6. IsInjective(Tail(i))
    BY <2>1, <2>2, <2>5 DEF IsInjective
  <2>7. \A x \in Range(Tail(i)) : x \in Range(i) /\ x # b
    <3>1. SUFFICES ASSUME NEW k \in 1 .. (Len(i) - 1)
                   PROVE  Tail(i)[k] \in Range(i) /\ Tail(i)[k] # b
      BY <2>2 DEF Range
    <3>2. k + 1 \in 1 .. Len(i) /\ k + 1 # 1 /\ 1 \in 1 .. Len(i)
      BY <2>1, <3>1
    <3>3. i[k + 1] \in Range(i) /\ i[k + 1] # i[1]
      BY <2>1, <2>5, <3>2 DEF Range
    <3>4. QED
      BY <2>1, <2>2, <3>1, <3>3
  <2>8. \A x \in Range(i) : x # b => x \in Range(Tail(i))
    <3>1. SUFFICES ASSUME NEW k \in 1 .. Len(i), i[k] # b PROVE i[k] \in Range(Tail(i))
      BY <2>1 DEF Range
    <3>2. k - 1 \in 1 .. (Len(i) - 1) /\ (k - 1) + 1 = k
      BY <2>1, <3>1
    <3>3. Tail(i)[k - 1] = i[k]
      BY <2>2, <3>2
    <3>4. QED
      BY <2>2, <3>2, <3>3 DEF Range
  <2>9. QED
    BY <2>2, <2>4, <2>6, <2>7, <2>8
<1>5. /\ inbox' \in [Pipes -> Seq(Batches)] /\ inbox'[p] = Tail(i)
      /\ \A o \in Pipes \ {p} : inbox'[o] = inbox[o]
  BY <1>1, <1>2, <1>4 DEF Answers, Shapes
<1>6. /\ state' \in [Batches -> {"new", "queued", "done", "failed"}]
      /\ state'[b] \in {"done", "failed"} /\ \A x \in Batches \ {b} : state'[x] = state[x]
  BY <1>1, <1>2, <1>3, <1>4 DEF Shapes, Answers
<1>7. queue' = queue /\ call' = call /\ Calls' /\ producer' = producer
  BY <1>1 DEF Answers, Shapes, Calls
<1>8. Shapes'
  BY <1>1, <1>5, <1>6, <1>7 DEF Shapes
<1>9. /\ Pipes = {"gpu", "host"} /\ "gpu" \in Pipes /\ "host" \in Pipes
      /\ \A o \in Pipes : /\ Range(inbox[o]) \subseteq Range(queue[o].pending)
                          /\ Range(queue[o].pending) \subseteq Batches
      /\ Range(inbox["gpu"]) \subseteq GpuBatches /\ Range(inbox["host"]) \subseteq HostBatches
  <2>1. Pipes = {"gpu", "host"}
    BY DEF Pipes
  <2>2. \A o \in Pipes : /\ Range(inbox[o]) \subseteq Range(queue[o].pending)
                         /\ Range(queue[o].pending) \subseteq Batches
    <3>1. SUFFICES ASSUME NEW o \in Pipes
                   PROVE  /\ Range(inbox[o]) \subseteq Range(queue[o].pending)
                          /\ Range(queue[o].pending) \subseteq Batches
      OBVIOUS
    <3>2. queue[o].pending \in Seq(Batches)
      BY <1>1, QueueFacts
    <3>3. Range(queue[o].pending) \subseteq Batches
      BY <3>2 DEF Range
    <3>4. QED
      BY <1>1, <3>3 DEF Inboxes
  <2>3. QED
    BY <1>1, <2>1, <2>2 DEF Contents, Content
<1>10. p = "gpu" => b \in GpuBatches
  BY <1>2, <1>4, <1>9
<1>11. p = "host" => b \in HostBatches
  BY <1>2, <1>4, <1>9
<1>12. \A o \in Pipes : \A x \in Range(inbox'[o]) : x \in Range(inbox[o]) /\ x # b
  <2>1. SUFFICES ASSUME NEW o \in Pipes, NEW x \in Range(inbox'[o])
                 PROVE  x \in Range(inbox[o]) /\ x # b
    OBVIOUS
  <2>2. CASE o = p
    BY <1>2, <1>4, <1>5, <2>1, <2>2
  <2>3. CASE o # p
    BY <1>5, <1>9, <1>10, <1>11, <2>1, <2>3, BatchKinds
  <2>4. QED
    BY <2>2, <2>3
<1>13. Inboxes'
  <2>1. \A o \in Pipes : IsInjective(inbox'[o])
    BY <1>1, <1>4, <1>5 DEF Inboxes
  <2>2. \A o \in Pipes : \A x \in Range(inbox'[o]) :
          x \in Range(queue'[o].pending) /\ state'[x] = "queued"
    BY <1>1, <1>6, <1>7, <1>9, <1>12 DEF Inboxes
  <2>3. consumer'.stage # "idle" =>
          inbox'["gpu"] # <<>> /\ Head(inbox'["gpu"]) = <<consumer'.batch>>
    BY <1>1, <1>5, <1>9 DEF Inboxes
  <2>4. QED
    BY <2>1, <2>2, <2>3 DEF Inboxes
<1>14. Contents'
  <2>1. state[b] = "queued"
    BY <1>1, <1>2, <1>4 DEF Inboxes
  <2>2. \A x \in Batches : /\ state'[x] = "new" <=> state[x] = "new"
                           /\ Settled(x) => Settled(x)'
    BY <1>6, <2>1 DEF Settled
  <2>3. \A o \in Pipes : \A x \in Range(queue'[o].pending) : state'[x] # "new"
    BY <1>1, <1>7, <1>9, <2>2 DEF Contents
  <2>4. \A x \in GpuBatches : x[1] >= producer'.batch => state'[x] = "new"
    BY <1>1, <1>7, <2>2, BatchKinds DEF Contents
  <2>5. \A x \in Range(queue'["host"].pending) :
          \/ Settled(<<x[1]>>)'
          \/ consumer'.stage # "idle" /\ x[1] = consumer'.batch /\ x[2] < consumer'.op
    <3>1. SUFFICES ASSUME NEW x \in Range(queue["host"].pending)
                   PROVE  \/ Settled(<<x[1]>>)'
                          \/ /\ consumer'.stage # "idle" /\ x[1] = consumer'.batch
                             /\ x[2] < consumer'.op
      BY <1>7
    <3>2. <<x[1]>> \in Batches
      <4>1. x \in HostBatches
        BY <1>1, <3>1 DEF Contents, Content
      <4>2. QED
        BY <4>1, BatchKinds
    <3>3. CASE Settled(<<x[1]>>)
      BY <2>2, <3>2, <3>3
    <3>4. CASE consumer.stage # "idle" /\ x[1] = consumer.batch /\ x[2] < consumer.op
      <4>1. CASE p = "gpu"
        <5>1. b = <<x[1]>>
          BY <1>1, <1>2, <1>3, <3>4, <4>1 DEF Inboxes
        <5>2. QED
          BY <1>6, <5>1 DEF Settled
      <4>2. CASE p = "host"
        BY <3>4, <4>2
      <4>3. QED
        BY <1>9, <4>1, <4>2
    <3>5. QED
      BY <1>1, <3>1, <3>3, <3>4 DEF Contents
  <2>6. Content(queue'["gpu"]) \subseteq GpuBatches /\ Content(queue'["host"]) \subseteq HostBatches
    BY <1>1, <1>7 DEF Contents
  <2>7. QED
    BY <2>3, <2>4, <2>5, <2>6 DEF Contents
<1>15. QED
  BY <1>8, <1>13, <1>14

\* The consumer between two batches, or none of its business.
LEMMA AnswersMove ==
  ASSUME IInv, UNCHANGED <<queue, call, producer>>, Shapes', Inboxes', Contents',
         \/ consumer' = consumer
         \/ /\ consumer.stage \in {"idle", "work", "fence"}
            /\ consumer'.stage \in {"idle", "work"} /\ consumer'.batch \in DOMAIN GpuBytes
  PROVE  IInv'
<1>1. TaskCalls /\ ConsumerCalls /\ Closings /\ Endings
  BY DEF IInv
<1>2. TaskCalls'
  BY <1>1 DEF TaskCalls, Batch
<1>3. ConsumerCalls'
  BY <1>1 DEF ConsumerCalls, HostBatch, Work
<1>4. Closings'
  BY <1>1 DEF Closings
<1>5. Endings'
  BY <1>1 DEF Endings, Emptied
<1>6. QED
  BY <1>2, <1>3, <1>4, <1>5 DEF IInv

LEMMA WriteMoves ==
  ASSUME IInv, Write
  PROVE  IInv'
<1>1. Answers("host") /\ consumer' = consumer /\ IsConsumer(consumer') /\ "host" \in Pipes
      /\ UNCHANGED <<queue, call, producer>>
  <2>1. \E answer \in {"done", "failed"} : state' = [state EXCEPT ![Head(inbox["host"])] = answer]
    BY DEF Write
  <2>2. IsConsumer(consumer)
    BY DEF IInv, Shapes
  <2>3. QED
    BY <2>1, <2>2 DEF Write, Answers, Pipes
<1>2. Shapes' /\ Inboxes' /\ Contents'
  BY <1>1, BatchAnswered
<1>3. QED
  BY <1>1, <1>2, AnswersMove

LEMMA ImagesMove ==
  ASSUME IInv, WriteImages
  PROVE  IInv'
<1>1. /\ Shapes /\ Inboxes /\ Contents /\ ConsumerCalls /\ Calls /\ IsConsumer(consumer)
      /\ consumer.op \in Nat \ {0} /\ "gpu" \in Pipes /\ "host" \in Pipes /\ Pipes = {"gpu", "host"}
  BY DEF IInv, Shapes, Pipes
<1>2. /\ consumer.stage = "work" /\ consumer.op <= Len(Work)
      /\ UNCHANGED <<queue, inbox, call, producer>>
      /\ state' = [state EXCEPT ![HostBatch] = "done"]
      /\ consumer' = [consumer EXCEPT !.op = @ + 1]
  BY DEF WriteImages, WithoutEncoder, Images
<1>3. consumer.batch \in DOMAIN GpuBytes
  BY <1>1, <1>2 DEF ConsumerCalls
<1>4. PICK h \in HostBatches : h = HostBatch /\ h[1] = consumer.batch /\ h[2] = consumer.op
  <2>1. PICK i \in 1 .. Len(GpuBytes) : i = consumer.batch
    BY <1>3, BatchKinds
  <2>2. PICK k \in 1 .. Len(HostWork[i]) : k = consumer.op
    BY <1>1, <1>2, <2>1, BatchKinds DEF Work
  <2>3. <<i, k>> \in HostBatches /\ <<i, k>> = HostBatch
    BY <2>1, <2>2, BatchKinds DEF HostBatch
  <2>4. HostBatch[1] = i /\ HostBatch[2] = k
    BY <2>3
  <2>5. QED
    BY <2>1, <2>2, <2>3, <2>4
<1>5. /\ consumer'.stage = "work" /\ consumer'.batch = consumer.batch
      /\ consumer'.op = consumer.op + 1 /\ IsConsumer(consumer')
  BY <1>1, <1>2 DEF IsConsumer
<1>6. h \in Batches /\ h \notin GpuBatches /\ \A b \in GpuBatches : b \in Batches
  BY <1>4, BatchKinds
<1>7. /\ state' \in [Batches -> {"new", "queued", "done", "failed"}] /\ state'[h] = "done"
      /\ \A b \in Batches \ {h} : state'[b] = state[b]
      /\ \A b \in GpuBatches : state'[b] = state[b]
  BY <1>1, <1>2, <1>4, <1>6 DEF Shapes
\* It is not in the queue: its GPU batch is not settled, and it was not submitted.
<1>8. h \notin Range(queue["host"].pending)
  <2>1. SUFFICES ASSUME h \in Range(queue["host"].pending) PROVE FALSE
    OBVIOUS
  <2>2. Settled(<<consumer.batch>>)
    <3>1. Settled(<<h[1]>>) \/ h[2] < consumer.op
      BY <1>1, <2>1 DEF Contents
    <3>2. QED
      BY <1>1, <1>4, <3>1
  <2>3. inbox["gpu"] # <<>> /\ Head(inbox["gpu"]) = <<consumer.batch>>
    BY <1>1, <1>2 DEF Inboxes
  <2>4. <<consumer.batch>> \in Range(inbox["gpu"])
    <3>1. PICK i \in Seq(Batches) : i = inbox["gpu"]
      BY <1>1 DEF Shapes
    <3>2. 1 \in DOMAIN i /\ i[1] = <<consumer.batch>>
      BY <2>3, <3>1
    <3>3. QED
      BY <3>1, <3>2 DEF Range
  <2>5. QED
    BY <1>1, <2>2, <2>4 DEF Inboxes, Settled
<1>9. Shapes'
  <2>1. Calls' /\ consumer'.op \in Nat \ {0}
    BY <1>1, <1>2, <1>5 DEF Calls
  <2>2. QED
    BY <1>1, <1>2, <1>5, <1>7, <2>1 DEF Shapes
<1>10. Inboxes'
  <2>1. ASSUME NEW p \in Pipes, NEW b \in Range(inbox[p])
        PROVE  b \in Range(queue[p].pending) /\ state'[b] = "queued"
    <3>1. b \in Range(queue[p].pending) /\ state[b] = "queued"
      BY <1>1, <2>1 DEF Inboxes
    <3>2. b \in Batches /\ b # h
      BY <1>1, <1>6, <1>8, <3>1, BatchKinds DEF Contents, Content
    <3>3. QED
      BY <1>7, <3>1, <3>2
  <2>2. QED
    BY <1>1, <1>2, <1>5, <2>1 DEF Inboxes
<1>11. Contents'
  <2>1. \A p \in Pipes : \A b \in Range(queue[p].pending) : b \in Batches
    BY <1>1, BatchKinds DEF Contents, Content
  <2>2. \A p \in Pipes : \A b \in Range(queue[p].pending) : state'[b] # "new"
    BY <1>1, <1>7, <2>1 DEF Contents
  <2>3. ASSUME NEW b \in Range(queue["host"].pending)
        PROVE  \/ Settled(<<b[1]>>)'
               \/ consumer'.stage # "idle" /\ b[1] = consumer'.batch /\ b[2] < consumer'.op
    <3>1. /\ b \in HostBatches /\ <<b[1]>> \in GpuBatches /\ b[2] \in Nat
      BY <1>1, <2>3, BatchKinds DEF Contents, Content
    <3>2. CASE Settled(<<b[1]>>)
      BY <1>7, <3>1, <3>2 DEF Settled
    <3>3. CASE b[1] = consumer.batch /\ b[2] < consumer.op
      BY <1>1, <1>5, <3>1, <3>3
    <3>4. QED
      BY <1>1, <2>3, <3>2, <3>3 DEF Contents
  <2>4. QED
    BY <1>1, <1>2, <1>7, <2>2, <2>3 DEF Contents
<1>12. QED
  BY <1>2, <1>3, <1>5, <1>9, <1>10, <1>11, AnswersMove

LEMMA FenceMoves ==
  ASSUME IInv, Fence
  PROVE  IInv'
<1>1. "gpu" \in Pipes /\ IsConsumer(consumer) /\ ConsumerCalls
  BY DEF IInv, Shapes, Pipes
<1>2. consumer.stage \in {"fence", "work"}
  BY DEF Fence
<1>3. /\ IsConsumer(consumer') /\ consumer'.stage = "idle"
      /\ consumer'.batch = consumer.batch /\ consumer'.op = consumer.op
  BY <1>1 DEF Fence, At, IsConsumer
<1>4. inbox["gpu"] # <<>> /\ Head(inbox["gpu"]) = <<consumer.batch>>
  BY <1>2 DEF IInv, Inboxes
<1>5. Answers("gpu") /\ UNCHANGED <<queue, call, producer>>
  <2>1. \E answer \in {"done", "failed"} : state' = [state EXCEPT ![<<consumer.batch>>] = answer]
    BY DEF Fence
  <2>2. QED
    BY <1>4, <2>1 DEF Fence, Answers
<1>6. Shapes' /\ Inboxes' /\ Contents'
  BY <1>1, <1>3, <1>5, BatchAnswered
<1>7. consumer.batch \in DOMAIN GpuBytes
  BY <1>1, <1>2 DEF ConsumerCalls
<1>8. QED
  BY <1>2, <1>3, <1>5, <1>6, <1>7, AnswersMove

LEMMA TakeMoves ==
  ASSUME IInv, Take
  PROVE  IInv'
<1>1. "gpu" \in Pipes /\ Shapes /\ Inboxes /\ Contents /\ IsConsumer(consumer)
  BY DEF IInv, Shapes, Pipes
<1>2. /\ consumer.stage = "idle" /\ inbox["gpu"] # <<>>
      /\ UNCHANGED <<queue, call, producer>>
  BY DEF Take
<1>3. CASE poisoned
  <2>1. Answers("gpu") /\ consumer' = consumer
    <3>1. \E answer \in {"done", "failed"} : state' = [state EXCEPT ![Head(inbox["gpu"])] = answer]
      BY <1>3 DEF Take
    <3>2. QED
      BY <1>3, <3>1 DEF Take, Answers
  <2>2. Shapes' /\ Inboxes' /\ Contents'
    BY <1>1, <1>2, <2>1, BatchAnswered
  <2>3. QED
    BY <1>2, <2>1, <2>2, AnswersMove
<1>4. CASE ~poisoned
  <2>1. PICK b : b = Head(inbox["gpu"])
    OBVIOUS
  <2>2. /\ consumer' = [consumer EXCEPT !.stage = "work", !.batch = b[1], !.op = 1,
                                         !.failed = FALSE]
        /\ UNCHANGED <<state, inbox>>
    BY <1>4, <2>1 DEF Take
  <2>3. /\ consumer'.stage = "work" /\ consumer'.batch = b[1] /\ consumer'.op = 1
        /\ IsConsumer(consumer')
    BY <1>1, <2>2 DEF IsConsumer
  <2>4. b \in Range(inbox["gpu"]) /\ b \in GpuBatches
    <3>1. inbox["gpu"] \in Seq(Batches)
      BY <1>1 DEF Shapes
    <3>2. 1 \in DOMAIN inbox["gpu"] /\ inbox["gpu"][1] = b
      BY <1>2, <2>1, <3>1
    <3>3. b \in Range(inbox["gpu"])
      BY <3>2 DEF Range
    <3>4. b \in Range(queue["gpu"].pending)
      BY <1>1, <3>3 DEF Inboxes
    <3>5. QED
      BY <1>1, <3>3, <3>4 DEF Contents, Content
  <2>5. b = <<b[1]>> /\ b[1] \in DOMAIN GpuBytes
    BY <2>4, BatchKinds
  <2>6. Shapes'
    <3>1. Calls'
      BY <1>1, <1>2 DEF Shapes, Calls
    <3>2. QED
      BY <1>1, <1>2, <2>2, <2>3, <3>1 DEF Shapes
  <2>7. Inboxes'
    BY <1>1, <1>2, <2>1, <2>2, <2>3, <2>5 DEF Inboxes
  <2>8. Contents'
    BY <1>1, <1>2, <2>2 DEF Contents, Settled
  <2>9. QED
    BY <1>2, <2>3, <2>5, <2>6, <2>7, <2>8, AnswersMove
<1>5. QED
  BY <1>3, <1>4

-----------------------------------------------------------------------------
(* The theorems. *)

LEMMA IInvKept ==
  ASSUME IInv, [Next]_vars
  PROVE  IInv'
<1>1. "task" \in Threads /\ "consumer" \in Threads
  BY DEF Threads
<1>2. ASSUME NEW t \in Threads, CallStep(t) PROVE IInv'
  BY <1>2, CollectMoves, SweepMoves, AdmitMoves, FinishMoves DEF CallStep
<1>3. CASE TaskSubmit
  BY <1>3, TaskSubmits, BatchReturned DEF TaskSubmit
<1>4. CASE TaskStep
  BY <1>1, <1>2, <1>3, <1>4, TaskMoves, BatchReturned DEF TaskStep
<1>5. CASE HostSubmit
  BY <1>5, HostSubmits, HostBatchReturned DEF HostSubmit
<1>6. CASE ConsumerStep
  BY <1>1, <1>2, <1>5, <1>6, ConsumerMoves, TakeMoves, FenceMoves, HostBatchReturned,
     ImagesMove DEF ConsumerStep
<1>7. CASE Write
  BY <1>7, WriteMoves
<1>8. CASE UNCHANGED vars
  <2>1. Shapes /\ Inboxes /\ Contents /\ TaskCalls /\ ConsumerCalls /\ Closings /\ Endings
        /\ UNCHANGED <<queue, inbox, state, call, producer, consumer>>
    BY <1>8 DEF IInv, vars
  <2>2. Calls'
    BY <2>1 DEF Shapes, Calls
  <2>3. Shapes'
    BY <2>1, <2>2 DEF Shapes
  <2>4. Inboxes' /\ Contents'
    BY <2>1 DEF Inboxes, Contents, Settled
  <2>5. TaskCalls'
    BY <2>1 DEF TaskCalls, Batch
  <2>6. ConsumerCalls'
    BY <2>1 DEF ConsumerCalls, HostBatch, Work
  <2>7. Closings'
    BY <2>1 DEF Closings
  <2>8. Endings'
    BY <2>1 DEF Endings, Emptied
  <2>9. QED
    BY <2>3, <2>4, <2>5, <2>6, <2>7, <2>8 DEF IInv
<1>9. QED
  BY <1>4, <1>6, <1>7, <1>8 DEF Next, Stopped

LEMMA IInvIsInvariant == Spec => []IInv
<1>1. Init => IInv
  BY InitIInv
<1>2. IInv /\ [Next]_vars => IInv'
  BY IInvKept
<1>3. QED
  BY <1>1, <1>2, PTL DEF Spec

LEMMA BooksFollow == IInv => BooksExact
<1> SUFFICES ASSUME IInv, NEW p \in Pipes
             PROVE  /\ queue[p].bytes = Total(queue[p].charge, Held(p))
                    /\ Retained(queue[p]) <= Capacity
                    /\ queue[p].bytes <= Limit[p] \/ Exclusive(p)
                    /\ queue[p].closed => queue[p].reserved = {}
                    /\ queue[p].error # NoError =>
                         \/ queue[p].closed
                         \/ \E t \in DOMAIN call : call[t].pipe = p /\ call[t].pc = "refused"
  BY DEF BooksExact
<1>1. Sound(queue[p], Limit[p]) /\ Limit[p] \in Nat
  BY QueueFacts DEF IInv
<1>2. Held(p) = Content(queue[p])
  BY DEF Held, Content, ToSet, Range
<1>3. queue[p].bytes \in Nat
  BY <1>1, ContentFacts DEF Sound
<1>4. queue[p].bytes <= Limit[p] \/ Exclusive(p)
  BY <1>1, <1>3 DEF Sound, Exclusive
<1>5. DOMAIN call = Threads
  BY DEF IInv, Shapes, Calls
<1>6. queue[p].error # NoError =>
        queue[p].closed \/ \E t \in DOMAIN call : call[t].pipe = p /\ call[t].pc = "refused"
  BY <1>5 DEF IInv, Closings
<1>7. QED
  BY <1>1, <1>2, <1>4, <1>6 DEF Sound

LEMMA JoinFollows == IInv => TaskJoined
<1> SUFFICES ASSUME IInv PROVE TaskJoined
  OBVIOUS
<1>1. "task" \in Threads /\ "gpu" \in Pipes /\ "host" \in Pipes /\ Pipes = {"gpu", "host"}
  BY DEF Threads, Pipes
<1>2. call["task"].pc # "none" /\ call["task"].pipe = "host" =>
        consumer.stage = "idle" /\ inbox["gpu"] = <<>>
  BY <1>1, OneCaller
<1>3. ASSUME producer.stage = "ended", NEW p \in Pipes
      PROVE  inbox[p] = <<>> /\ Held(p) = {} /\ queue[p].closed
  <2>1. Emptied(p)
    BY <1>1, <1>3 DEF IInv, Endings
  <2>2. queue[p].closed /\ queue[p].reserved = {} /\ queue[p].pending = <<>>
        /\ queue[p].pending \in Seq(Batches) /\ inbox[p] \in Seq(Batches)
    BY <2>1, QueueFacts DEF Emptied, IInv, Shapes
  <2>3. Range(queue[p].pending) = {}
    BY <2>2, NothingIn
  <2>4. Range(inbox[p]) = {}
    BY <2>3 DEF IInv, Inboxes
  <2>5. inbox[p] = <<>>
    BY <2>2, <2>4, NothingIn
  <2>6. Held(p) = {}
    BY <2>2, <2>3 DEF Held, ToSet, Range
  <2>7. QED
    BY <2>2, <2>5, <2>6
<1>4. producer.stage = "ended" => consumer.stage = "idle"
  <2>1. producer.stage = "ended" => queue["gpu"].pending = <<>>
    BY DEF IInv, Endings, Emptied
  <2>2. QED
    BY <2>1, IdleConsumer DEF IInv
<1>5. QED
  BY <1>2, <1>3, <1>4 DEF TaskJoined

\* The bytes a queue counts are those of the batches and reservations it holds, whatever
\* fails, however large a batch is and whoever collects; they stay within the limit unless
\* one batch is alone, the slots within Capacity (reserve, resize, submit, cancel and the
\* collection of OrderedBatchPipeline).
THEOREM BooksStayExact == Spec => []BooksExact
  BY IInvIsInvariant, BooksFollow, PTL

\* A task that has ended, with or without an error, left nothing to either executor, and
\* until then the task thread never collects the host queue beside the GPU consumer
\* (GpuPublicationTask.close).
THEOREM TaskIsJoined == Spec => []TaskJoined
  BY IInvIsInvariant, JoinFollows, PTL

-----------------------------------------------------------------------------
(* The outcome: the order of batches, errors and results, and who knows of them. *)

\* The batches of a queue, those submitted to it, and those it has collected.
Of(p) == IF p = "gpu" THEN GpuBatches ELSE HostBatches
Known(p) == {b \in Of(p) : state[b] # "new"}
Waits(p) == Range(queue[p].pending)
Past(p) == Known(p) \ Waits(p)

\* Batches are submitted, and so collected, in order; images that the consumer writes itself
\* are past at once.
Sorted(s) == \A i, j \in DOMAIN s : i < j => Before(s[i], s[j])
OrderOf(p) ==
  /\ Sorted(queue[p].pending)
  /\ p = "gpu" => \A a \in Past(p), x \in Waits(p) : Before(a, x)

\* The error of a queue is the first of them that was not done.
ErrorsOf(p) ==
  /\ queue[p].error = NoError => \A a \in Past(p) : state[a] = "done"
  /\ queue[p].error # NoError =>
       /\ queue[p].error \in Of(p)
       /\ \A a \in Of(p) : Before(a, queue[p].error) => state[a] = "done"

Merges ==
  /\ merged \in Seq(GpuBatches) /\ Sorted(merged)
  /\ \A b \in GpuBatches : b \in Range(merged) <=> b \in Past("gpu") /\ state[b] = "done"

InOrder == (\A p \in Pipes : OrderOf(p) /\ ErrorsOf(p)) /\ Merges

\* The producer's cursor: what it has submitted, and what the consumer has not finished.
Produced ==
  /\ \A b \in GpuBatches : state[b] # "new" <=> b[1] < producer.batch
  /\ \A i \in DOMAIN inbox["gpu"] :
       inbox["gpu"][i] = <<producer.batch - Len(inbox["gpu"]) + i - 1>>

\* The consumer's: the host batches it has submitted, each GPU batch after the other.
Consumed ==
  /\ consumer.batch \in Nat
  /\ \A b \in HostBatches : state[b] # "new" <=>
       b[1] < consumer.batch \/ (b[1] = consumer.batch /\ b[2] < consumer.op)
  /\ consumer.stage = "idle" /\ ~poisoned =>
       /\ consumer.batch = producer.batch - Len(inbox["gpu"]) - 1
       /\ consumer.batch # 0 => consumer.op > Len(Work)
  /\ consumer.stage \notin {"idle", "fence"} => ~consumer.failed
  /\ consumer.stage = "fence" => consumer.failed /\ poisoned
  /\ \A b \in GpuBatches : state[b] = "done" =>
       b[1] < consumer.batch \/ (b[1] = consumer.batch /\ consumer.op > Len(Work))

\* The consumer has given up its encoder, and with it what it knew of the host queue.
Fallen == consumer.codec = "fallen"

\* The GPU batch the consumer is at will not be done, or was not.
Broken ==
  \/ \E b \in GpuBatches : state[b] = "failed"
  \/ consumer.stage = "fence"
  \/ call["consumer"].pc \in {"fail", "raised"}

\* What a task that has not failed knows when it closes its queues.
TaskKnows ==
  LET c == call["task"]
  IN  /\ producer.stage = "next" => ~queue["gpu"].closed
      /\ producer.stage = "close" /\ ~producer.failed => ~queue["gpu"].closed
      /\ producer.stage \in {"close", "closing gpu", "closing host", "ended"} /\ ~producer.failed =>
           producer.batch > Len(GpuBytes)
      /\ producer.stage \in {"closing host", "ended"} /\ ~producer.failed =>
           queue["gpu"].error = NoError
      /\ producer.stage = "closing gpu" /\ c.pc = "returned" /\ ~producer.failed =>
           queue["gpu"].error = NoError
      /\ producer.stage = "ended" /\ ~producer.failed => queue["host"].error = NoError \/ Fallen
      /\ producer.stage = "closing host" /\ c.pc = "returned" /\ ~producer.failed =>
           queue["host"].error = NoError \/ Fallen
      /\ producer.stage = "submitting" => c.batch = Batch /\ producer.batch <= Len(GpuBytes)

\* The host queue is closed by an error of the consumer before the task closes it.
HostKnows ==
  /\ consumer.stage = "submitting" => call["consumer"].batch = HostBatch
  /\ queue["host"].closed => producer.stage \in {"closing host", "ended"} \/ Broken \/ Fallen

Drains == \A t \in Threads : call[t].pc = "drain" => ~queue[call[t].pipe].closed

Ends == TaskKnows /\ HostKnows /\ Drains

OInv == IInv /\ InOrder /\ Produced /\ Consumed /\ Ends

-----------------------------------------------------------------------------
LEMMA BeforeFacts ==
  /\ \A a, b \in GpuBatches : Before(a, b) <=> a[1] < b[1]
  /\ \A a, b \in HostBatches : Before(a, b) <=> a[1] < b[1] \/ (a[1] = b[1] /\ a[2] < b[2])
  /\ \A a \in GpuBatches, b \in HostBatches : ~Before(a, b) /\ ~Before(b, a)
  /\ \A a \in Batches : a # NoError /\ a[1] \in Nat
  /\ \A a \in HostBatches : a[2] \in Nat
  /\ \A a \in Batches : ~Before(a, a)
  /\ \A a, b \in Batches : Before(a, b) => ~Before(b, a)
<1>1. /\ \A a \in GpuBatches : Len(a) = 1 /\ a[1] \in Nat /\ a # NoError
      /\ \A a \in HostBatches : Len(a) = 2 /\ a[1] \in Nat /\ a[2] \in Nat /\ a # NoError
  <2>1. ASSUME NEW a \in GpuBatches PROVE Len(a) = 1 /\ a[1] \in Nat /\ a # NoError
    <3>1. PICK i \in 1 .. Len(GpuBytes) : a = <<i>>
      BY BatchKinds
    <3>2. QED
      BY <3>1, BatchKinds DEF NoError
  <2>2. ASSUME NEW a \in HostBatches
        PROVE  Len(a) = 2 /\ a[1] \in Nat /\ a[2] \in Nat /\ a # NoError
    <3>1. PICK i \in 1 .. Len(GpuBytes) : i = a[1]
      BY BatchKinds
    <3>2. PICK k \in 1 .. Len(HostWork[i]) : a = <<i, k>>
      BY <3>1, BatchKinds
    <3>3. QED
      BY <3>2, BatchKinds DEF NoError
  <2>3. QED
    BY <2>1, <2>2
<1>2. \A a, b \in GpuBatches : Before(a, b) <=> a[1] < b[1]
  BY <1>1 DEF Before
<1>3. \A a, b \in HostBatches : Before(a, b) <=> a[1] < b[1] \/ (a[1] = b[1] /\ a[2] < b[2])
  BY <1>1 DEF Before
<1>4. \A a \in GpuBatches, b \in HostBatches : ~Before(a, b) /\ ~Before(b, a)
  BY <1>1 DEF Before
<1>5. \A a \in Batches : a \in GpuBatches \/ a \in HostBatches
  BY BatchKinds
<1>6. \A a, b \in Batches : Before(a, b) => ~Before(b, a)
  <2>1. SUFFICES ASSUME NEW a \in Batches, NEW b \in Batches, Before(a, b) PROVE ~Before(b, a)
    OBVIOUS
  <2>2. CASE a \in GpuBatches
    BY <1>1, <1>2, <1>4, <1>5, <2>1, <2>2
  <2>3. CASE a \in HostBatches
    BY <1>1, <1>3, <1>4, <1>5, <2>1, <2>3
  <2>4. QED
    BY <1>5, <2>2, <2>3
<1>7. \A a \in Batches : ~Before(a, a)
  BY <1>6
<1>8. QED
  BY <1>1, <1>2, <1>3, <1>4, <1>5, <1>6, <1>7

-----------------------------------------------------------------------------
(* One queue. *)

\* A batch is next for a queue when all before it have been submitted, and no other.
NextOf(p, b) == b \in Of(p) /\ \A a \in Of(p) : state[a] # "new" <=> Before(a, b)

\* What a step can do to a queue and its batches.
Keeps(p) ==
  /\ queue'[p].pending = queue[p].pending /\ queue'[p].error = queue[p].error
  /\ \A a \in Of(p) : state'[a] = state[a]

Adds(p, b) ==
  /\ NextOf(p, b)
  /\ queue'[p].pending = Append(queue[p].pending, b) /\ queue'[p].error = queue[p].error
  /\ state'[b] = "queued" /\ \A a \in Of(p) \ {b} : state'[a] = state[a]

Answered(p, b) ==
  /\ queue'[p].pending = queue[p].pending /\ queue'[p].error = queue[p].error
  /\ b \in Waits(p) /\ state[b] = "queued" /\ state'[b] \in {"done", "failed"}
  /\ \A a \in Of(p) \ {b} : state'[a] = state[a]

Pops(p, b, e) ==
  /\ queue[p].pending # <<>> /\ b = Head(queue[p].pending) /\ state[b] \in {"done", "failed"}
  /\ queue'[p].pending = Tail(queue[p].pending) /\ queue'[p].error = e
  /\ e = queue[p].error \/ (queue[p].error = NoError /\ e = b)
  /\ state[b] = "failed" => e # NoError
  /\ \A a \in Of(p) : state'[a] = state[a]

Notes(p, b, e) ==
  /\ NextOf(p, b) /\ queue[p].pending = <<>>
  /\ queue'[p].pending = queue[p].pending /\ queue'[p].error = e
  /\ e = queue[p].error \/ (queue[p].error = NoError /\ e = b)
  /\ \A a \in Of(p) : state'[a] = state[a]

\* What was submitted has everything before it submitted.
Downward(p) == \A a, b \in Of(p) : Before(a, b) /\ state[b] # "new" => state[a] # "new"

LEMMA PipeFacts ==
  ASSUME IInv, NEW p \in Pipes
  PROVE  /\ queue[p].pending \in Seq(Batches) /\ IsInjective(queue[p].pending)
         /\ Waits(p) \subseteq Of(p) /\ Waits(p) \subseteq Known(p) /\ Of(p) \subseteq Batches
         /\ \A a \in Of(p) : a # NoError /\ ~Before(a, a)
         /\ \A a, b \in Of(p) : Before(a, b) => ~Before(b, a)
         /\ \A a \in Of(p) : state[a] \in {"new", "queued", "done", "failed"}
<1>1. queue[p].pending \in Seq(Batches) /\ IsInjective(queue[p].pending)
  BY DEF IInv, Shapes, Sound, IsQueue
<1>2. Of(p) \subseteq Batches
  BY BatchKinds DEF Of
<1>3. Waits(p) \subseteq Of(p)
  <2>1. Content(queue["gpu"]) \subseteq GpuBatches /\ Content(queue["host"]) \subseteq HostBatches
    BY DEF IInv, Contents
  <2>2. QED
    BY <2>1 DEF Content, Waits, Of, Pipes
<1>4. \A b \in Waits(p) : state[b] # "new"
  BY DEF IInv, Contents, Waits
<1>5. \A a \in Of(p) : state[a] \in {"new", "queued", "done", "failed"}
  BY <1>2 DEF IInv, Shapes
<1>6. QED
  BY <1>1, <1>2, <1>3, <1>4, <1>5, BeforeFacts DEF Known

\* A sequence without repetition, without its head.
LEMMA TailFacts ==
  ASSUME NEW T, NEW s \in Seq(T), s # <<>>, IsInjective(s)
  PROVE  /\ Head(s) \in Range(s) /\ Range(Tail(s)) = Range(s) \ {Head(s)}
         /\ \A i \in DOMAIN Tail(s) : i + 1 \in DOMAIN s /\ Tail(s)[i] = s[i + 1] /\ i \in Nat
         /\ \A x \in Range(Tail(s)) : \E i \in DOMAIN s : 1 < i /\ x = s[i]
         /\ 1 \in DOMAIN s /\ Head(s) = s[1] /\ DOMAIN s \subseteq Nat
<1>1. Len(s) \in Nat \ {0} /\ DOMAIN s = 1 .. Len(s) /\ Head(s) = s[1]
  OBVIOUS
<1>2. /\ DOMAIN Tail(s) = 1 .. (Len(s) - 1)
      /\ \A k \in 1 .. (Len(s) - 1) : Tail(s)[k] = s[k + 1]
  OBVIOUS
<1>3. \A x \in Range(Tail(s)) : \E i \in DOMAIN s : 1 < i /\ x = s[i]
  <2>1. SUFFICES ASSUME NEW k \in 1 .. (Len(s) - 1)
                 PROVE  \E i \in DOMAIN s : 1 < i /\ Tail(s)[k] = s[i]
    BY <1>2 DEF Range
  <2>2. k + 1 \in DOMAIN s /\ 1 < k + 1
    BY <1>1
  <2>3. QED
    BY <1>2, <2>2
<1>4. \A x \in Range(Tail(s)) : x \in Range(s) /\ x # Head(s)
  BY <1>1, <1>3 DEF IsInjective, Range
<1>5. \A x \in Range(s) : x # Head(s) => x \in Range(Tail(s))
  <2>1. SUFFICES ASSUME NEW k \in 1 .. Len(s), s[k] # Head(s) PROVE s[k] \in Range(Tail(s))
    BY <1>1 DEF Range
  <2>2. k - 1 \in 1 .. (Len(s) - 1) /\ (k - 1) + 1 = k
    BY <1>1, <2>1
  <2>3. Tail(s)[k - 1] = s[k]
    BY <1>2, <2>2
  <2>4. QED
    BY <1>2, <2>2, <2>3 DEF Range
<1>6. \A i \in DOMAIN Tail(s) : i + 1 \in DOMAIN s /\ Tail(s)[i] = s[i + 1] /\ i \in Nat
  BY <1>1, <1>2
<1>7. Head(s) \in Range(s) /\ 1 \in DOMAIN s /\ DOMAIN s \subseteq Nat
  BY <1>1 DEF Range
<1>8. QED
  BY <1>1, <1>3, <1>4, <1>5, <1>6, <1>7

\* A sequence with one more element.
LEMMA AppendFacts ==
  ASSUME NEW T, NEW s \in Seq(T), NEW x \in T, NEW r, r = Append(s, x)
  PROVE  /\ r \in Seq(T) /\ DOMAIN s = 1 .. Len(s) /\ Len(s) \in Nat
         /\ \A i \in DOMAIN r : (i \in DOMAIN s /\ r[i] = s[i]) \/ (i = Len(s) + 1 /\ r[i] = x)
         /\ \A i \in DOMAIN s : i \in DOMAIN r /\ r[i] = s[i]
         /\ Len(s) + 1 \in DOMAIN r /\ r[Len(s) + 1] = x
<1>1. /\ r \in Seq(T) /\ Len(r) = Len(s) + 1 /\ Len(s) \in Nat
      /\ DOMAIN r = 1 .. (Len(s) + 1) /\ DOMAIN s = 1 .. Len(s)
      /\ \A i \in 1 .. Len(s) : r[i] = s[i]
  OBVIOUS
<1>2. r[Len(s) + 1] = x
  OBVIOUS
<1>3. QED
  BY <1>1, <1>2

LEMMA AppendRange ==
  \A T : \A s \in Seq(T) : \A x \in T : Range(Append(s, x)) = Range(s) \union {x}
<1> SUFFICES ASSUME NEW T, NEW s \in Seq(T), NEW x \in T
             PROVE  Range(Append(s, x)) = Range(s) \union {x}
  OBVIOUS
<1>1. PICK r : r = Append(s, x)
  OBVIOUS
<1>2. /\ \A i \in DOMAIN r : (i \in DOMAIN s /\ r[i] = s[i]) \/ (i = Len(s) + 1 /\ r[i] = x)
      /\ \A i \in DOMAIN s : i \in DOMAIN r /\ r[i] = s[i]
      /\ Len(s) + 1 \in DOMAIN r /\ r[Len(s) + 1] = x
  BY <1>1, AppendFacts
<1>3. QED
  BY <1>1, <1>2 DEF Range

\* The next element comes after all others.
LEMMA SortedAppend ==
  ASSUME NEW T, NEW s \in Seq(T), NEW x \in T, NEW r, r = Append(s, x),
         Sorted(s), \A y \in Range(s) : Before(y, x)
  PROVE  Sorted(r)
<1>1. /\ \A i \in DOMAIN r : (i \in DOMAIN s /\ r[i] = s[i]) \/ (i = Len(s) + 1 /\ r[i] = x)
      /\ DOMAIN s = 1 .. Len(s) /\ Len(s) \in Nat
  BY AppendFacts
<1>2. SUFFICES ASSUME NEW i \in DOMAIN r, NEW j \in DOMAIN r, i < j PROVE Before(r[i], r[j])
  BY DEF Sorted
<1>3. i \in DOMAIN s /\ r[i] = s[i]
  <2>1. CASE i = Len(s) + 1
    BY <1>1, <1>2, <2>1
  <2>2. QED
    BY <1>1, <2>1
<1>4. CASE j \in DOMAIN s /\ r[j] = s[j]
  BY <1>2, <1>3, <1>4 DEF Sorted
<1>5. CASE r[j] = x
  BY <1>3, <1>5 DEF Range
<1>6. QED
  BY <1>1, <1>4, <1>5

LEMMA OrderKept ==
  ASSUME IInv, NEW p \in Pipes, OrderOf(p),
         \/ Keeps(p) \/ (\E b : Adds(p, b) \/ Answered(p, b))
         \/ (\E b, e : Pops(p, b, e) \/ Notes(p, b, e))
  PROVE  OrderOf(p)'
<1>1. /\ queue[p].pending \in Seq(Batches) /\ IsInjective(queue[p].pending)
      /\ Waits(p) \subseteq Of(p) /\ Waits(p) \subseteq Known(p) /\ Of(p) \subseteq Batches
  BY PipeFacts
<1>2. ASSUME queue'[p].pending = queue[p].pending, \A a \in Known(p)' : a \in Known(p)
      PROVE  OrderOf(p)'
  <2>1. Waits(p)' = Waits(p) /\ \A a \in Past(p)' : a \in Past(p)
    BY <1>2 DEF Waits, Past
  <2>2. QED
    BY <1>2, <2>1 DEF OrderOf, Sorted
<1>3. CASE Keeps(p) \/ \E b, e : Notes(p, b, e)
  <2>1. queue'[p].pending = queue[p].pending /\ \A a \in Of(p) : state'[a] = state[a]
    BY <1>3 DEF Keeps, Notes
  <2>2. \A a \in Known(p)' : a \in Known(p)
    BY <2>1 DEF Known, Of
  <2>3. QED
    BY <1>2, <2>1, <2>2
<1>4. ASSUME NEW b, Answered(p, b) PROVE OrderOf(p)'
  <2>1. \A a \in Known(p)' : a \in Known(p)
    BY <1>1, <1>4 DEF Known, Of, Answered
  <2>2. QED
    BY <1>2, <1>4, <2>1 DEF Answered
<1>5. ASSUME NEW b, Adds(p, b) PROVE OrderOf(p)'
  <2>1. /\ b \in Of(p) /\ b \in Batches /\ queue'[p].pending = Append(queue[p].pending, b)
        /\ \A a \in Known(p) : Before(a, b)
    BY <1>1, <1>5 DEF Adds, NextOf, Known
  <2>2. Waits(p)' = Waits(p) \union {b}
    <3>1. PICK s \in Seq(Batches) : s = queue[p].pending
      BY <1>1
    <3>2. Range(Append(s, b)) = Range(s) \union {b}
      BY <2>1, AppendRange
    <3>3. QED
      BY <2>1, <3>1, <3>2 DEF Waits
  <2>3. \A a \in Past(p)' : a \in Past(p)
    BY <1>1, <1>5, <2>2 DEF Past, Known, Of, Adds
  <2>4. p = "gpu" => \A a \in Past(p)', x \in Waits(p)' : Before(a, x)
    BY <2>1, <2>2, <2>3 DEF OrderOf, Past
  <2>5. Sorted(queue'[p].pending)
    <3>1. Sorted(queue[p].pending) /\ \A y \in Range(queue[p].pending) : Before(y, b)
      BY <1>1, <2>1 DEF OrderOf, Waits
    <3>2. QED
      BY <1>1, <2>1, <3>1, SortedAppend
  <2>6. QED
    BY <2>4, <2>5 DEF OrderOf, Sorted
<1>6. ASSUME NEW b, NEW e, Pops(p, b, e) PROVE OrderOf(p)'
  <2>1. PICK s \in Seq(Batches) : s = queue[p].pending /\ s # <<>> /\ IsInjective(s) /\ b = Head(s)
    BY <1>1, <1>6 DEF Pops
  <2>2. /\ queue'[p].pending = Tail(s) /\ \A a \in Of(p) : state'[a] = state[a]
        /\ Waits(p) = Range(s) /\ Waits(p)' = Range(Tail(s)) /\ Sorted(s)
    BY <1>6, <2>1 DEF Pops, Waits, OrderOf
  <2>3. /\ b \in Range(s) /\ Range(Tail(s)) = Range(s) \ {b}
        /\ \A i \in DOMAIN Tail(s) : i + 1 \in DOMAIN s /\ Tail(s)[i] = s[i + 1] /\ i \in Nat
        /\ \A x \in Range(Tail(s)) : \E i \in DOMAIN s : 1 < i /\ x = s[i]
        /\ 1 \in DOMAIN s /\ b = s[1]
    BY <2>1, TailFacts
  <2>4. \A x \in Waits(p)' : Before(b, x)
    BY <2>2, <2>3 DEF Sorted
  <2>5. \A a \in Past(p)' : a \in Past(p) \/ a = b
    BY <2>2, <2>3 DEF Past, Known, Of
  <2>6. p = "gpu" => \A a \in Past(p)', x \in Waits(p)' : Before(a, x)
    BY <2>2, <2>3, <2>4, <2>5 DEF OrderOf
  <2>7. Sorted(Tail(s))
    BY <2>2, <2>3 DEF Sorted
  <2>8. QED
    BY <2>2, <2>6, <2>7 DEF OrderOf, Sorted
<1>7. QED
  BY <1>3, <1>4, <1>5, <1>6

LEMMA ErrorsKept ==
  ASSUME IInv, NEW p \in Pipes, OrderOf(p), ErrorsOf(p), Downward(p),
         \/ Keeps(p) \/ (\E b : Adds(p, b) \/ Answered(p, b))
         \/ (\E b, e : Pops(p, b, e) \/ Notes(p, b, e))
  PROVE  ErrorsOf(p)'
<1>1. /\ queue[p].pending \in Seq(Batches) /\ IsInjective(queue[p].pending)
      /\ Waits(p) \subseteq Of(p) /\ Waits(p) \subseteq Known(p) /\ Of(p) \subseteq Batches
      /\ \A a \in Of(p) : a # NoError /\ ~Before(a, a)
      /\ \A a, b \in Of(p) : Before(a, b) => ~Before(b, a)
      /\ \A a \in Of(p) : state[a] \in {"new", "queued", "done", "failed"}
  BY PipeFacts
\* An error that stays is the first for good.
<1>2. ASSUME queue'[p].error = queue[p].error, queue[p].error # NoError,
             \A a \in Of(p) : state[a] = "done" => state'[a] = "done"
      PROVE  ErrorsOf(p)'
  BY <1>2 DEF ErrorsOf, Of
<1>3. ASSUME \A a \in Past(p)' : state'[a] = "done", queue'[p].error = NoError
      PROVE  ErrorsOf(p)'
  BY <1>3 DEF ErrorsOf, Past, Known
<1>4. CASE Keeps(p)
  <2>1. CASE queue[p].error # NoError
    BY <1>2, <1>4, <2>1 DEF Keeps
  <2>2. CASE queue[p].error = NoError
    <3>1. \A a \in Past(p)' : a \in Past(p) /\ state'[a] = state[a]
      BY <1>4 DEF Keeps, Past, Known, Waits, Of
    <3>2. QED
      BY <1>3, <1>4, <2>2, <3>1 DEF Keeps, ErrorsOf
  <2>3. QED
    BY <2>1, <2>2
<1>5. ASSUME NEW b, Adds(p, b) PROVE ErrorsOf(p)'
  <2>0. /\ b \in Of(p) /\ b \in Batches /\ queue'[p].pending = Append(queue[p].pending, b)
        /\ state[b] = "new" /\ \A a \in Of(p) \ {b} : state'[a] = state[a]
    BY <1>1, <1>5 DEF Adds, NextOf
  <2>1. CASE queue[p].error # NoError
    BY <1>2, <1>5, <2>0, <2>1 DEF Adds
  <2>2. CASE queue[p].error = NoError
    <3>1. Waits(p)' = Waits(p) \union {b}
      <4>1. PICK s \in Seq(Batches) : s = queue[p].pending
        BY <1>1
      <4>2. Range(Append(s, b)) = Range(s) \union {b}
        BY <2>0, AppendRange
      <4>3. QED
        BY <2>0, <4>1, <4>2 DEF Waits
    <3>2. \A a \in Past(p)' : a \in Past(p) /\ state'[a] = state[a]
      BY <2>0, <3>1 DEF Past, Known, Of
    <3>3. QED
      BY <1>3, <1>5, <2>2, <3>2 DEF Adds, ErrorsOf
  <2>3. QED
    BY <2>1, <2>2
<1>6. ASSUME NEW b, Answered(p, b) PROVE ErrorsOf(p)'
  <2>1. CASE queue[p].error # NoError
    BY <1>1, <1>2, <1>6, <2>1 DEF Answered
  <2>2. CASE queue[p].error = NoError
    <3>1. \A a \in Past(p)' : a \in Past(p) /\ state'[a] = state[a]
      BY <1>6 DEF Answered, Past, Known, Waits, Of
    <3>2. QED
      BY <1>3, <1>6, <2>2, <3>1 DEF Answered, ErrorsOf
  <2>3. QED
    BY <2>1, <2>2
<1>7. ASSUME NEW b, NEW e, Pops(p, b, e) PROVE ErrorsOf(p)'
  <2>1. PICK s \in Seq(Batches) : s = queue[p].pending /\ s # <<>> /\ IsInjective(s) /\ b = Head(s)
    BY <1>1, <1>7 DEF Pops
  <2>2. /\ \A a \in Of(p) : state'[a] = state[a]
        /\ Waits(p) = Range(s) /\ Waits(p)' = Range(Tail(s)) /\ Sorted(s)
        /\ state[b] \in {"done", "failed"} /\ (state[b] = "failed" => e # NoError)
        /\ queue'[p].error = e /\ (e = queue[p].error \/ (queue[p].error = NoError /\ e = b))
    BY <1>7, <2>1 DEF Pops, Waits, OrderOf
  <2>3. /\ b \in Range(s) /\ Range(Tail(s)) = Range(s) \ {b} /\ 1 \in DOMAIN s /\ b = s[1]
        /\ \A x \in Range(Tail(s)) : \E i \in DOMAIN s : 1 < i /\ x = s[i]
    BY <2>1, TailFacts
  <2>4. \A a \in Past(p)' : (a \in Past(p) \/ a = b) /\ a \in Of(p)
    BY <2>2, <2>3 DEF Past, Known, Of
  <2>5. CASE queue[p].error # NoError
    BY <1>2, <2>2, <2>5
  <2>6. CASE queue[p].error = NoError /\ e = NoError
    BY <1>3, <2>2, <2>4, <2>6 DEF ErrorsOf
  <2>7. CASE queue[p].error = NoError /\ e = b
    <3>1. b \in Of(p) /\ state[b] # "new"
      BY <1>1, <2>2, <2>3
    <3>2. ASSUME NEW a \in Of(p), Before(a, b) PROVE state'[a] = "done"
      <4>1. a # b /\ ~Before(b, a) /\ state[a] # "new"
        BY <1>1, <3>1, <3>2 DEF Downward
      <4>2. a \notin Range(s)
        <5>1. \A x \in Range(Tail(s)) : Before(b, x)
          BY <2>2, <2>3 DEF Sorted
        <5>2. QED
          BY <2>3, <4>1, <5>1
      <4>3. a \in Past(p)
        BY <2>2, <3>2, <4>1, <4>2 DEF Past, Known
      <4>4. QED
        BY <2>2, <2>7, <3>2, <4>3 DEF ErrorsOf
    <3>3. QED
      BY <1>1, <2>2, <2>7, <3>1, <3>2 DEF ErrorsOf, Of
  <2>8. QED
    BY <2>2, <2>5, <2>6, <2>7
<1>8. ASSUME NEW b, NEW e, Notes(p, b, e) PROVE ErrorsOf(p)'
  <2>1. /\ \A a \in Of(p) : state'[a] = state[a]
        /\ Waits(p) = {} /\ Waits(p)' = {}
        /\ queue'[p].error = e /\ (e = queue[p].error \/ (queue[p].error = NoError /\ e = b))
        /\ b \in Of(p) /\ \A a \in Of(p) : state[a] # "new" <=> Before(a, b)
    BY <1>8 DEF Notes, Waits, Range, NextOf
  <2>2. \A a \in Past(p)' : a \in Past(p) /\ a \in Of(p)
    BY <2>1 DEF Past, Known, Of
  <2>3. CASE queue[p].error # NoError
    BY <1>2, <2>1, <2>3
  <2>4. CASE queue[p].error = NoError /\ e = NoError
    BY <1>3, <2>1, <2>2, <2>4 DEF ErrorsOf
  <2>5. CASE queue[p].error = NoError /\ e = b
    <3>1. \A a \in Of(p) : Before(a, b) => a \in Past(p)
      BY <2>1 DEF Past, Known
    <3>2. \A a \in Of(p) : Before(a, b) => state'[a] = "done"
      BY <2>1, <2>5, <3>1 DEF ErrorsOf
    <3>3. QED
      BY <1>1, <2>1, <2>5, <3>2 DEF ErrorsOf, Of
  <2>6. QED
    BY <2>1, <2>3, <2>4, <2>5
<1>9. QED
  BY <1>4, <1>5, <1>6, <1>7, <1>8

\* A collected batch that was done is counted, after those before it.
MergesStep ==
  \/ /\ merged' = merged
     /\ \/ Keeps("gpu") \/ (\E b : Adds("gpu", b) \/ Answered("gpu", b))
        \/ \E b, e : Notes("gpu", b, e) \/ (Pops("gpu", b, e) /\ state[b] = "failed")
  \/ \E b, e : Pops("gpu", b, e) /\ state[b] = "done" /\ merged' = Append(merged, b)

LEMMA MergesKept ==
  ASSUME IInv, OrderOf("gpu"), Merges, MergesStep
  PROVE  Merges'
<1>1. "gpu" \in Pipes /\ Of("gpu") = GpuBatches
  BY DEF Pipes, Of
<1>2. /\ queue["gpu"].pending \in Seq(Batches) /\ IsInjective(queue["gpu"].pending)
      /\ Waits("gpu") \subseteq Of("gpu") /\ Waits("gpu") \subseteq Known("gpu")
      /\ \A a \in Of("gpu") : state[a] \in {"new", "queued", "done", "failed"}
  BY <1>1, PipeFacts
<1>3. ASSUME merged' = merged,
             \A b \in GpuBatches : /\ b \in Past("gpu") /\ state[b] = "done"
                                   <=> b \in Past("gpu")' /\ state'[b] = "done"
      PROVE  Merges'
  BY <1>3 DEF Merges, Sorted
<1>4. CASE merged' = merged /\ (Keeps("gpu") \/ \E b, e : Notes("gpu", b, e))
  <2>1. /\ queue'["gpu"].pending = queue["gpu"].pending
        /\ \A a \in GpuBatches : state'[a] = state[a]
    BY <1>1, <1>4 DEF Keeps, Notes
  <2>2. QED
    BY <1>1, <1>3, <1>4, <2>1 DEF Past, Known, Waits
<1>5. ASSUME merged' = merged, NEW b, Adds("gpu", b) PROVE Merges'
  <2>1. /\ b \in GpuBatches /\ b \in Batches /\ queue'["gpu"].pending = Append(queue["gpu"].pending, b)
        /\ state'[b] = "queued" /\ \A a \in GpuBatches \ {b} : state'[a] = state[a]
        /\ state[b] = "new"
    BY <1>1, <1>5, BatchKinds, BeforeFacts DEF Adds, NextOf
  <2>2. Waits("gpu")' = Waits("gpu") \union {b}
    <3>1. PICK s \in Seq(Batches) : s = queue["gpu"].pending
      BY <1>2
    <3>2. Range(Append(s, b)) = Range(s) \union {b}
      BY <2>1, AppendRange
    <3>3. QED
      BY <2>1, <3>1, <3>2 DEF Waits
  <2>3. QED
    BY <1>1, <1>3, <1>5, <2>1, <2>2 DEF Past, Known
<1>6. ASSUME merged' = merged, NEW b, Answered("gpu", b) PROVE Merges'
  <2>1. /\ Waits("gpu")' = Waits("gpu") /\ b \in Waits("gpu")
        /\ \A a \in GpuBatches \ {b} : state'[a] = state[a]
    BY <1>1, <1>6 DEF Answered, Waits
  <2>2. QED
    BY <1>1, <1>3, <1>6, <2>1 DEF Past, Known
<1>7. ASSUME NEW b, NEW e, Pops("gpu", b, e)
      PROVE  /\ b \in GpuBatches /\ b \notin Past("gpu") /\ \A a \in Past("gpu") : Before(a, b)
             /\ \A a \in GpuBatches : state'[a] = state[a]
             /\ \A a \in GpuBatches : a \in Past("gpu")' <=> a \in Past("gpu") \/ a = b
  <2>1. PICK s \in Seq(Batches) : s = queue["gpu"].pending /\ s # <<>> /\ IsInjective(s)
                                  /\ b = Head(s)
    BY <1>2, <1>7 DEF Pops
  <2>2. /\ \A a \in GpuBatches : state'[a] = state[a]
        /\ Waits("gpu") = Range(s) /\ Waits("gpu")' = Range(Tail(s))
        /\ state[b] # "new"
    BY <1>1, <1>7, <2>1 DEF Pops, Waits
  <2>3. b \in Range(s) /\ Range(Tail(s)) = Range(s) \ {b}
    BY <2>1, TailFacts
  <2>4. b \in GpuBatches /\ \A a \in Past("gpu") : Before(a, b)
    BY <1>1, <1>2, <2>2, <2>3 DEF OrderOf
  <2>5. b \notin Past("gpu")
    BY <2>2, <2>3 DEF Past
  <2>6. QED
    BY <1>1, <2>2, <2>3, <2>4, <2>5 DEF Past, Known
<1>8. ASSUME NEW b, NEW e, Pops("gpu", b, e), state[b] = "failed", merged' = merged PROVE Merges'
  <2>1. /\ b \notin Past("gpu") /\ \A a \in GpuBatches : state'[a] = state[a]
        /\ \A a \in GpuBatches : a \in Past("gpu")' <=> a \in Past("gpu") \/ a = b
    BY <1>7, <1>8
  <2>2. QED
    BY <1>3, <1>8, <2>1
<1>9. ASSUME NEW b, NEW e, Pops("gpu", b, e), state[b] = "done", merged' = Append(merged, b)
      PROVE  Merges'
  <2>1. /\ b \in GpuBatches /\ \A a \in Past("gpu") : Before(a, b)
        /\ \A a \in GpuBatches : state'[a] = state[a]
        /\ \A a \in GpuBatches : a \in Past("gpu")' <=> a \in Past("gpu") \/ a = b
    BY <1>7, <1>9
  <2>2. PICK m \in Seq(GpuBatches) : m = merged /\ Sorted(m)
    BY DEF Merges
  <2>3. Append(m, b) \in Seq(GpuBatches) /\ Range(Append(m, b)) = Range(m) \union {b}
    BY <2>1, AppendRange
  <2>4. \A y \in Range(m) : Before(y, b)
    <3>1. \A y \in Range(m) : y \in GpuBatches
      BY DEF Range
    <3>2. QED
      BY <2>1, <2>2, <3>1 DEF Merges
  <2>5. Sorted(Append(m, b))
    BY <2>1, <2>2, <2>4, SortedAppend
  <2>6. \A a \in GpuBatches : a \in Range(merged') <=> a \in Past("gpu")' /\ state'[a] = "done"
    BY <1>9, <2>1, <2>2, <2>3 DEF Merges
  <2>7. QED
    BY <1>9, <2>2, <2>3, <2>5, <2>6 DEF Merges, Sorted
<1>10. QED
  BY <1>4, <1>5, <1>6, <1>8, <1>9 DEF MergesStep

-----------------------------------------------------------------------------
(* What the cursors say of the batches. *)

LEMMA GpuCursor ==
  ASSUME IInv, Produced
  PROVE  /\ Downward("gpu")
         /\ producer.batch <= Len(GpuBytes) => NextOf("gpu", Batch) /\ state[Batch] = "new"
<1>1. Of("gpu") = GpuBatches /\ producer.batch \in Nat \ {0} /\ \A b \in GpuBatches : b[1] \in Nat
  BY BatchKinds DEF Of, IInv, Shapes
<1>2. Downward("gpu")
  BY <1>1, BeforeFacts DEF Downward, Produced
<1>3. ASSUME producer.batch <= Len(GpuBytes) PROVE NextOf("gpu", Batch) /\ state[Batch] = "new"
  <2>1. Batch \in GpuBatches /\ Batch[1] = producer.batch
    BY <1>1, <1>3, BatchKinds DEF Batch
  <2>2. QED
    BY <1>1, <2>1, BeforeFacts DEF NextOf, Produced
<1>4. QED
  BY <1>2, <1>3

LEMMA HostCursor ==
  ASSUME IInv, Consumed
  PROVE  /\ Downward("host")
         /\ consumer.batch \in DOMAIN GpuBytes /\ consumer.op <= Len(Work) =>
              HostBatch \in HostBatches /\ NextOf("host", HostBatch) /\ state[HostBatch] = "new"
<1>1. /\ Of("host") = HostBatches /\ consumer.op \in Nat \ {0} /\ consumer.batch \in Nat
      /\ \A b \in HostBatches : b[1] \in Nat /\ b[2] \in Nat
  BY BatchKinds, BeforeFacts DEF Of, IInv, Shapes, Consumed
<1>2. Downward("host")
  BY <1>1, BeforeFacts DEF Downward, Consumed
<1>3. ASSUME consumer.batch \in DOMAIN GpuBytes, consumer.op <= Len(Work)
      PROVE  HostBatch \in HostBatches /\ NextOf("host", HostBatch) /\ state[HostBatch] = "new"
  <2>1. HostBatch \in HostBatches /\ HostBatch[1] = consumer.batch /\ HostBatch[2] = consumer.op
    <3>1. PICK i \in 1 .. Len(GpuBytes) : i = consumer.batch
      BY <1>3, BatchKinds
    <3>2. PICK k \in 1 .. Len(HostWork[i]) : k = consumer.op
      BY <1>1, <1>3, <3>1, BatchKinds DEF Work
    <3>3. <<i, k>> \in HostBatches
      BY BatchKinds
    <3>4. QED
      BY <3>1, <3>2, <3>3 DEF HostBatch
  <2>2. QED
    BY <1>1, <2>1, BeforeFacts DEF NextOf, Consumed
<1>4. QED
  BY <1>2, <1>3

-----------------------------------------------------------------------------
(* What the steps do to the queues. *)

\* Nothing is submitted, collected or answered.
Quiet ==
  /\ \A p \in Pipes : /\ queue'[p].pending = queue[p].pending
                      /\ queue'[p].error = queue[p].error /\ queue'[p].closed = queue[p].closed
  /\ UNCHANGED <<inbox, state, merged>> /\ producer'.batch = producer.batch

\* A queue of which only a reservation changes.
LEMMA ReservationOnly ==
  ASSUME IInv, NEW p \in Pipes, NEW b, NEW n \in Nat,
         NEW r, r \in {Cancel(queue[p], b), Reserve(queue[p], b, n), Resize(queue[p], b, n)},
         queue' = [queue EXCEPT ![p] = r]
  PROVE  \A o \in Pipes : /\ queue'[o].pending = queue[o].pending
                          /\ queue'[o].error = queue[o].error /\ queue'[o].closed = queue[o].closed
<1>1. PICK q : q = queue[p] /\ Fields(q)
  BY DEF IInv, Shapes, Sound, IsQueue
<1>2. r.pending = q.pending /\ r.error = q.error /\ r.closed = q.closed
  <2>1. CASE r = Cancel(q, b)
    BY <1>1, <2>1 DEF Cancel, Fields
  <2>2. CASE r = Reserve(q, b, n)
    BY <1>1, <2>2 DEF Reserve, Fields
  <2>3. CASE r = Resize(q, b, n)
    BY <1>1, <2>3 DEF Resize, Fields
  <2>4. QED
    BY <1>1, <2>1, <2>2, <2>3
<1>3. queue'[p] = r /\ \A o \in Pipes \ {p} : queue'[o] = queue[o]
  BY DEF IInv, Shapes
<1>4. QED
  BY <1>1, <1>2, <1>3

LEMMA QuietSteps ==
  ASSUME IInv,
         \/ \E t \in Threads : SweepEnds(t) \/ Admit(t)
         \/ TaskReserve \/ TaskReserved \/ TaskRefused \/ TaskDone \/ CloseGpu \/ CloseHost \/ TaskEnd
         \/ PolicyFails
         \/ RefusedBy("task", "gpu", Batch) /\ producer' = [producer EXCEPT !.stage = "submitting"]
            /\ UNCHANGED merged
         \/ HostReserve \/ HostReserved \/ Encode \/ HostResized \/ HostRaised \/ ConsumeFails
         \/ RefusedBy("consumer", "host", HostBatch) /\ UNCHANGED <<producer, merged>>
         \/ Take /\ ~poisoned
         \/ UNCHANGED vars
  PROVE  Quiet
<1>1. IsProducer(producer) /\ "gpu" \in Pipes /\ "host" \in Pipes
  BY DEF IInv, Shapes, Pipes
<1>2. ASSUME queue' = queue, UNCHANGED <<inbox, state, merged>>, producer'.batch = producer.batch
      PROVE  Quiet
  BY <1>2 DEF Quiet
<1>3. ASSUME NEW p \in Pipes, NEW b, queue' = [queue EXCEPT ![p] = Cancel(@, b)],
             UNCHANGED <<inbox, state, merged>>, producer'.batch = producer.batch
      PROVE  Quiet
  <2>1. PICK r : r = Cancel(queue[p], b) /\ queue' = [queue EXCEPT ![p] = r]
    BY <1>3
  <2>2. 0 \in Nat
    OBVIOUS
  <2>3. \A o \in Pipes : /\ queue'[o].pending = queue[o].pending
                         /\ queue'[o].error = queue[o].error /\ queue'[o].closed = queue[o].closed
    BY <2>1, <2>2, ReservationOnly
  <2>4. QED
    BY <1>3, <2>3 DEF Quiet
<1>4. ASSUME NEW t \in Threads, SweepEnds(t) PROVE Quiet
  BY <1>2, <1>4 DEF SweepEnds
<1>5. ASSUME NEW t \in Threads, Admit(t) PROVE Quiet
  <2>1. UNCHANGED <<inbox, state, merged, producer>>
    BY <1>5 DEF Admit
  <2>2. CASE ~Admits(call[t])
    BY <1>2, <1>5, <2>1, <2>2 DEF Admit
  <2>3. CASE Admits(call[t])
    <3>1. call[t].pipe \in Pipes /\ call[t].pc = "admit"
      BY <1>5, OneCaller DEF Admit
    <3>2. call[t].bytes \in Nat
      <4>1. t = "task" => producer.stage = "reserving"
        BY <3>1 DEF IInv, TaskCalls, Closes
      <4>2. t = "task" => producer.batch \in 1 .. Len(GpuBytes)
        <5>1. producer.batch \in Nat \ {0}
          BY DEF IInv, Shapes
        <5>2. t = "task" => producer.batch <= Len(GpuBytes)
          BY <4>1 DEF IInv, TaskCalls
        <5>3. QED
          BY <5>1, <5>2, BatchKinds
      <4>3. t = "task" => call[t].bytes = GpuBytes[producer.batch]
        BY <3>1, <4>1 DEF IInv, TaskCalls
      <4>4. t = "consumer" => call[t].bytes \in Nat
        BY <3>1 DEF IInv, ConsumerCalls
      <4>5. QED
        BY <4>2, <4>3, <4>4, BatchKinds DEF Threads
    <3>3. PICK r : /\ queue' = [queue EXCEPT ![call[t].pipe] = r]
                   /\ r = IF call[t].op = "reserve"
                          THEN Reserve(queue[call[t].pipe], call[t].batch, call[t].bytes)
                          ELSE Resize(queue[call[t].pipe], call[t].batch, call[t].bytes)
      BY <1>5, <2>3 DEF Admit
    <3>4. r \in {Cancel(queue[call[t].pipe], call[t].batch),
                 Reserve(queue[call[t].pipe], call[t].batch, call[t].bytes),
                 Resize(queue[call[t].pipe], call[t].batch, call[t].bytes)}
      BY <3>3
    <3>5. \A o \in Pipes : /\ queue'[o].pending = queue[o].pending
                           /\ queue'[o].error = queue[o].error
                           /\ queue'[o].closed = queue[o].closed
      BY <3>1, <3>2, <3>3, <3>4, ReservationOnly
    <3>6. QED
      BY <2>1, <3>5 DEF Quiet
  <2>4. QED
    BY <2>2, <2>3
<1>6. ASSUME TaskReserve \/ TaskReserved \/ TaskRefused \/ TaskDone \/ CloseGpu \/ CloseHost \/ TaskEnd
      PROVE  Quiet
  <2>1. producer'.batch = producer.batch
    BY <1>1, <1>6 DEF TaskReserve, TaskReserved, TaskRefused, TaskDone, CloseGpu, CloseHost,
                      TaskEnd, Closing, IsProducer
  <2>2. QED
    BY <1>2, <1>6, <2>1 DEF TaskReserve, TaskReserved, TaskRefused, TaskDone, CloseGpu,
                            CloseHost, TaskEnd
<1>7. CASE PolicyFails
  <2>1. producer'.batch = producer.batch
    BY <1>1, <1>7 DEF PolicyFails, Closing, IsProducer
  <2>2. QED
    BY <1>1, <1>3, <1>7, <2>1 DEF PolicyFails
<1>8. CASE RefusedBy("task", "gpu", Batch) /\ producer' = [producer EXCEPT !.stage = "submitting"]
           /\ UNCHANGED merged
  <2>1. producer'.batch = producer.batch
    BY <1>1, <1>8 DEF IsProducer
  <2>2. QED
    BY <1>1, <1>3, <1>8, <2>1 DEF RefusedBy
<1>9. CASE HostReserve \/ HostReserved \/ Encode \/ HostResized \/ (Take /\ ~poisoned)
  BY <1>2, <1>9 DEF HostReserve, HostReserved, Encode, HostResized, Take
<1>10. CASE HostRaised \/ ConsumeFails
  BY <1>1, <1>3, <1>10 DEF HostRaised, ConsumeFails, Break, FallBack, Unwind
<1>11. CASE RefusedBy("consumer", "host", HostBatch) /\ UNCHANGED <<producer, merged>>
  BY <1>1, <1>3, <1>11 DEF RefusedBy
<1>12. CASE UNCHANGED vars
  BY <1>2, <1>12 DEF vars
<1>13. QED
  BY <1>4, <1>5, <1>6, <1>7, <1>8, <1>9, <1>10, <1>11, <1>12

\* What a collection does: the oldest batch leaves the queue of its caller, whose call goes
\* on, or fails and finds the queue shut.
CollectIs(t, p, b, e) ==
  /\ Pops(p, b, e) /\ \A o \in Pipes \ {p} : queue'[o] = queue[o]
  /\ \/ p = "gpu" /\ state[b] = "done" /\ merged' = Append(merged, b)
     \/ (p = "host" \/ state[b] = "failed") /\ merged' = merged
  /\ UNCHANGED <<inbox, state, producer, consumer, poisoned>>
  /\ \/ /\ CallIsAt(t, call[t].pc) /\ queue'[p].closed = queue[p].closed
        /\ e = NoError \/ call[t].pc \in {"refused", "fail"}
     \/ CallIsAt(t, "fail") /\ queue'[p].closed = TRUE /\ e # NoError

LEMMA CollectDoes ==
  ASSUME IInv, NEW t \in Threads, Collect(t)
  PROVE  \E b, e : CollectIs(t, call[t].pipe, b, e)
<1>1. PICK p \in Pipes : p = call[t].pipe
  <2>1. call[t].pc # "none"
    BY DEF Collect, Collecting
  <2>2. QED
    BY <2>1, OneCaller
<1>2. PICK q : q = queue[p] /\ Fields(q) /\ q.pending \in Seq(Batches)
  BY QueueFacts DEF IInv, Shapes, Sound, IsQueue
<1>3. PICK b : b = Head(q.pending)
  OBVIOUS
<1>4. PICK raises \in BOOLEAN :
        /\ raises => state[b] = "done"
        /\ Resume(t, Collected(q, raises \/ ~(state[b] = "done")))
  BY <1>1, <1>2, <1>3 DEF Collect
<1>5. /\ q.pending # <<>> /\ state[b] \in {"done", "failed"}
      /\ UNCHANGED <<inbox, state, producer, consumer, poisoned>>
      /\ merged' = IF state[b] = "done" /\ p = "gpu" THEN Append(merged, b) ELSE merged
  BY <1>1, <1>2, <1>3 DEF Collect, HeadSettled, Settled
<1>6. PICK raised \in BOOLEAN : raised = (raises \/ ~(state[b] = "done"))
  OBVIOUS
<1>7. PICK c : c = Collected(q, raised)
  OBVIOUS
<1>8. PICK e : e = c.error
  OBVIOUS
<1>9. /\ c.pending = Tail(q.pending) /\ c.closed = q.closed
      /\ e = q.error \/ (q.error = NoError /\ e = b)
      /\ raised /\ b # NoError => e # NoError
  <2>1. PICK s : s = [q EXCEPT !.pending = Tail(@), !.bytes = @ - q.charge[b]]
    OBVIOUS
  <2>2. s.pending = Tail(q.pending) /\ s.error = q.error /\ s.closed = q.closed /\ Fields(s)
    BY <1>2, <2>1 DEF Fields
  <2>3. CASE ~raised
    BY <1>3, <1>7, <1>8, <2>1, <2>2, <2>3 DEF Collected
  <2>4. CASE raised
    <3>1. c = Remember(s, b)
      BY <1>3, <1>7, <2>1, <2>4 DEF Collected
    <3>2. /\ c.pending = s.pending /\ c.closed = s.closed
          /\ c.error = IF s.error = NoError THEN b ELSE s.error
      BY <2>2, <3>1 DEF Remember, Fields
    <3>3. QED
      BY <1>8, <2>2, <3>2
  <2>5. QED
    BY <2>3, <2>4
<1>10. b # NoError
  <2>1. b \in Range(q.pending)
    BY <1>2, <1>3, <1>5, NothingIn DEF Range
  <2>2. b \in Of(p)
    BY <1>2, <2>1, PipeFacts DEF Waits
  <2>3. QED
    BY <2>2, PipeFacts
<1>11. PICK fails \in BOOLEAN : fails = (e # NoError /\ call[t].pc \notin {"refused", "fail"})
  OBVIOUS
<1>12. /\ queue' = [queue EXCEPT ![p] = IF fails THEN Shut(c) ELSE c]
       /\ call' = [call EXCEPT ![t].pc = IF fails THEN "fail" ELSE @]
  BY <1>1, <1>4, <1>6, <1>7, <1>8, <1>11 DEF Resume
<1>13. PICK r : r = IF fails THEN Shut(c) ELSE c
  OBVIOUS
<1>14. /\ queue'[p] = r /\ \A o \in Pipes \ {p} : queue'[o] = queue[o]
       /\ r.pending = Tail(q.pending) /\ r.error = e
       /\ IF fails THEN r.closed = TRUE ELSE r.closed = q.closed
  <2>1. queue'[p] = r /\ \A o \in Pipes \ {p} : queue'[o] = queue[o]
    BY <1>12, <1>13 DEF IInv, Shapes
  <2>2. CASE ~fails
    BY <1>8, <1>9, <1>13, <2>1, <2>2
  <2>3. CASE fails
    <3>1. r = Shut(c)
      BY <1>13, <2>3
    <3>2. PICK limit \in Nat : Sound(q, limit)
      BY <1>2, QueueFacts DEF IInv
    <3>3. r.pending = c.pending /\ r.error = c.error /\ r.closed = TRUE
      <4>1. Sound(c, limit)
        BY <1>5, <1>7, <3>2, CollectedIsSound
      <4>2. QED
        BY <3>1, <4>1, ShutIsSound
    <3>4. QED
      BY <1>8, <1>9, <2>1, <2>3, <3>3
  <2>4. QED
    BY <2>2, <2>3
<1>15. CallIsAt(t, IF fails THEN "fail" ELSE call[t].pc)
  <2>1. PICK pc : pc = IF fails THEN "fail" ELSE call[t].pc
    OBVIOUS
  <2>2. call' = [call EXCEPT ![t].pc = pc]
    BY <1>12, <2>1
  <2>3. CallIsAt(t, pc)
    BY <2>2, Moved DEF IInv, Shapes
  <2>4. QED
    BY <2>1, <2>3
<1>16. Pops(p, b, e)
  <2>1. state[b] = "failed" => e # NoError
    BY <1>6, <1>9, <1>10
  <2>2. QED
    BY <1>2, <1>3, <1>5, <1>9, <1>14, <2>1 DEF Pops
<1>17. \/ p = "gpu" /\ state[b] = "done" /\ merged' = Append(merged, b)
       \/ (p = "host" \/ state[b] = "failed") /\ merged' = merged
  BY <1>5 DEF Pipes
<1>18. \/ /\ CallIsAt(t, call[t].pc) /\ queue'[p].closed = queue[p].closed
          /\ e = NoError \/ call[t].pc \in {"refused", "fail"}
       \/ CallIsAt(t, "fail") /\ queue'[p].closed = TRUE /\ e # NoError
  <2>1. CASE fails
    BY <1>11, <1>14, <1>15, <2>1
  <2>2. CASE ~fails
    BY <1>2, <1>11, <1>14, <1>15, <2>2
  <2>3. QED
    BY <2>1, <2>2
<1>19. CollectIs(t, p, b, e)
  BY <1>5, <1>14, <1>16, <1>17, <1>18 DEF CollectIs
<1>20. QED
  BY <1>1, <1>19

\* What the end of a call does: its queue is empty and shut, a refused batch remembered.
FinishIs(t, p, e) ==
  /\ call[t].pc \in {"drain", "refused", "fail"} /\ queue[p].pending = <<>>
  /\ queue'[p].pending = <<>> /\ queue'[p].error = e /\ queue'[p].closed = TRUE
  /\ e = IF call[t].pc = "refused" /\ queue[p].error = NoError THEN call[t].batch
                                                               ELSE queue[p].error
  /\ \A o \in Pipes \ {p} : queue'[o] = queue[o]
  /\ CallIsAt(t, IF call[t].pc = "drain" THEN "returned" ELSE "raised")
  /\ UNCHANGED <<inbox, state, producer, consumer, poisoned, merged>>

LEMMA FinishDoes ==
  ASSUME IInv, NEW t \in Threads, Finish(t)
  PROVE  \E e : FinishIs(t, call[t].pipe, e)
<1>1. call[t].pc \in {"drain", "refused", "fail"}
  BY DEF Finish, Collapsed
<1>2. PICK p \in Pipes : p = call[t].pipe
  BY <1>1, OneCaller
<1>0. PICK limit \in Nat : Sound(queue[p], limit)
  BY QueueFacts DEF IInv
<1>3. PICK q : q = queue[p] /\ Fields(q) /\ Sound(q, limit)
  BY <1>0 DEF Sound, IsQueue
<1>4. q.pending = <<>>
  BY <1>2, <1>3 DEF Finish, Collapsed
<1>5. PICK s : s = IF call[t].pc = "refused" THEN Remember(q, call[t].batch) ELSE q
  OBVIOUS
<1>6. /\ Sound(s, limit) /\ s.pending = q.pending
      /\ s.error = IF call[t].pc = "refused" /\ q.error = NoError THEN call[t].batch ELSE q.error
  <2>1. CASE call[t].pc = "refused"
    <3>1. s = Remember(q, call[t].batch)
      BY <1>5, <2>1
    <3>2. Sound(s, limit) /\ s.pending = q.pending
      BY <1>3, <3>1, RememberIsSound
    <3>3. s.error = IF q.error = NoError THEN call[t].batch ELSE q.error
      BY <1>3, <3>1 DEF Remember, Fields
    <3>4. QED
      BY <2>1, <3>2, <3>3
  <2>2. CASE call[t].pc # "refused"
    BY <1>3, <1>5, <2>2
  <2>3. QED
    BY <2>1, <2>2
<1>7. PICK r : queue' = [queue EXCEPT ![p] = r] /\ r = Shut(s)
  BY <1>2, <1>3, <1>5 DEF Finish
<1>8. r.pending = s.pending /\ r.error = s.error /\ r.closed = TRUE
  <2>1. Sound(s, limit)
    BY <1>6
  <2>2. r = Shut(s)
    BY <1>7
  <2>3. QED
    BY <2>1, <2>2, ShutIsSound
<1>9. queue'[p] = r /\ \A o \in Pipes \ {p} : queue'[o] = queue[o]
  BY <1>7 DEF IInv, Shapes
<1>10. CallIsAt(t, IF call[t].pc = "drain" THEN "returned" ELSE "raised")
  <2>1. PICK pc : pc = IF call[t].pc = "drain" THEN "returned" ELSE "raised"
    OBVIOUS
  <2>2. call' = [call EXCEPT ![t].pc = pc]
    BY <2>1 DEF Finish, Goto
  <2>3. CallIsAt(t, pc)
    BY <2>2, Moved DEF IInv, Shapes
  <2>4. QED
    BY <2>1, <2>3
<1>11. UNCHANGED <<inbox, state, producer, consumer, poisoned, merged>>
  BY DEF Finish
<1>12. FinishIs(t, p, s.error)
  <2>1. PICK e : e = s.error
    OBVIOUS
  <2>2. FinishIs(t, p, e)
    BY <1>1, <1>3, <1>4, <1>6, <1>8, <1>9, <1>10, <1>11, <2>1 DEF FinishIs
  <2>3. QED
    BY <2>1, <2>2
<1>13. QED
  BY <1>2, <1>12

-----------------------------------------------------------------------------
(* The batches are in order, and so are their errors and results. *)

\* One queue moves, the other waits.
LEMMA InOrderKept ==
  ASSUME IInv, InOrder, Produced, Consumed, MergesStep,
         \A p \in Pipes : \/ Keeps(p) \/ (\E b : Adds(p, b) \/ Answered(p, b))
                          \/ (\E b, e : Pops(p, b, e) \/ Notes(p, b, e))
  PROVE  InOrder'
<1>1. Downward("gpu") /\ Downward("host") /\ "gpu" \in Pipes
  BY GpuCursor, HostCursor DEF Pipes
<1>2. ASSUME NEW p \in Pipes PROVE OrderOf(p)' /\ ErrorsOf(p)'
  <2>1. Downward(p)
    BY <1>1 DEF Pipes
  <2>2. QED
    BY <2>1, OrderKept, ErrorsKept DEF InOrder
<1>3. Merges'
  BY <1>1, MergesKept DEF InOrder
<1>4. QED
  BY <1>2, <1>3 DEF InOrder

LEMMA Stays ==
  ASSUME NEW p \in Pipes, queue'[p] = queue[p], \A b \in Of(p) : state'[b] = state[b]
  PROVE  Keeps(p)
  BY DEF Keeps

LEMMA CollectKeepsOrder ==
  ASSUME IInv, InOrder, Produced, Consumed, NEW t \in Threads, Collect(t)
  PROVE  InOrder'
<1>1. call[t].pipe \in Pipes
  <2>1. call[t].pc # "none"
    BY DEF Collect, Collecting
  <2>2. QED
    BY <2>1, OneCaller
<1>0. PICK p \in Pipes : p = call[t].pipe
  BY <1>1
<1>2. PICK b, e : p = call[t].pipe /\ CollectIs(t, p, b, e)
  BY <1>0, <1>1, CollectDoes
<1>3. \A o \in Pipes \ {p} : Keeps(o)
  BY <1>2, Stays DEF CollectIs
<1>4. Pops(p, b, e) /\ p \in {"gpu", "host"} /\ "gpu" \in Pipes
  BY <1>2 DEF CollectIs, Pipes
<1>5. MergesStep
  <2>1. CASE p = "host"
    BY <1>2, <1>3, <1>4, <2>1 DEF MergesStep, CollectIs
  <2>2. CASE p = "gpu"
    BY <1>2, <1>4, <2>2 DEF MergesStep, CollectIs
  <2>3. QED
    BY <1>4, <2>1, <2>2
<1>6. QED
  BY <1>3, <1>4, <1>5, InOrderKept

\* The batch an executor refused is the next of its queue.
LEMMA RefusedIsNext ==
  ASSUME IInv, Produced, Consumed, Ends, NEW t \in Threads, call[t].pc = "refused"
  PROVE  NextOf(call[t].pipe, call[t].batch)
<1>1. CASE t = "task"
  <2>1. producer.stage = "submitting" /\ call["task"].pipe = "gpu"
    BY <1>1 DEF IInv, TaskCalls, Collects, Closes
  <2>2. call["task"].batch = Batch /\ producer.batch <= Len(GpuBytes)
    BY <2>1 DEF Ends, TaskKnows, HostKnows
  <2>3. QED
    BY <1>1, <2>1, <2>2, GpuCursor
<1>2. CASE t = "consumer"
  <2>1. /\ consumer.stage = "submitting" /\ call["consumer"].pipe = "host"
        /\ consumer.batch \in DOMAIN GpuBytes /\ consumer.op <= Len(Work)
    BY <1>2 DEF IInv, ConsumerCalls, Collects
  <2>2. call["consumer"].batch = HostBatch
    BY <2>1 DEF Ends, TaskKnows, HostKnows
  <2>3. QED
    BY <1>2, <2>1, <2>2, HostCursor
<1>3. QED
  BY <1>1, <1>2 DEF Threads

LEMMA FinishKeepsOrder ==
  ASSUME IInv, InOrder, Produced, Consumed, Ends, NEW t \in Threads, Finish(t)
  PROVE  InOrder'
<1>1. call[t].pipe \in Pipes
  <2>1. call[t].pc # "none"
    BY DEF Finish, Collapsed
  <2>2. QED
    BY <2>1, OneCaller
<1>0. PICK p \in Pipes : p = call[t].pipe
  BY <1>1
<1>2. PICK e : p = call[t].pipe /\ FinishIs(t, p, e)
  BY <1>0, <1>1, FinishDoes
<1>3. \A o \in Pipes \ {p} : Keeps(o)
  BY <1>2, Stays DEF FinishIs
<1>4. Keeps(p) \/ Notes(p, call[t].batch, e)
  <2>1. CASE call[t].pc = "refused" /\ queue[p].error = NoError
    BY <1>2, <2>1, RefusedIsNext DEF FinishIs, Notes
  <2>2. CASE ~(call[t].pc = "refused" /\ queue[p].error = NoError)
    BY <1>2, <2>2 DEF FinishIs, Keeps
  <2>3. QED
    BY <2>1, <2>2
<1>5. MergesStep
  BY <1>2, <1>3, <1>4 DEF MergesStep, FinishIs, Pipes
<1>6. QED
  BY <1>3, <1>4, <1>5, InOrderKept

\* What a submission does.
SubmitIs(p, b) ==
  /\ queue'[p].pending = Append(queue[p].pending, b)
  /\ queue'[p].error = queue[p].error /\ queue'[p].closed = queue[p].closed
  /\ inbox'[p] = Append(inbox[p], b) /\ state'[b] = "queued"
  /\ \A o \in Pipes \ {p} : queue'[o] = queue[o] /\ inbox'[o] = inbox[o]
  /\ \A a \in Batches \ {b} : state'[a] = state[a]
  /\ call' = call

LEMMA SubmitDoes ==
  ASSUME IInv, NEW t, NEW p \in Pipes, NEW b \in Batches, SubmitTo(t, p, b)
  PROVE  SubmitIs(p, b)
<1>1. PICK q : q = queue[p] /\ Fields(q)
  BY DEF IInv, Shapes, Sound, IsQueue
<1>2. PICK r : queue' = [queue EXCEPT ![p] = r] /\ r = Submit(q, b)
  BY <1>1 DEF SubmitTo
<1>3. r.pending = Append(q.pending, b) /\ r.error = q.error /\ r.closed = q.closed
  BY <1>1, <1>2 DEF Submit, Fields
<1>4. queue'[p] = r /\ \A o \in Pipes \ {p} : queue'[o] = queue[o]
  BY <1>2 DEF IInv, Shapes
<1>5. /\ inbox'[p] = Append(inbox[p], b) /\ state'[b] = "queued"
      /\ \A o \in Pipes \ {p} : inbox'[o] = inbox[o]
      /\ \A a \in Batches \ {b} : state'[a] = state[a]
  BY DEF IInv, Shapes, SubmitTo
<1>6. QED
  BY <1>1, <1>3, <1>4, <1>5 DEF SubmitIs, SubmitTo

LEMMA SubmitKeepsOrder ==
  ASSUME IInv, InOrder, Produced, Consumed, NEW p \in Pipes, NEW b, NextOf(p, b), SubmitIs(p, b),
         merged' = merged
  PROVE  InOrder'
<1>1. Adds(p, b)
  <2>1. \A a \in Of(p) : a \in Batches
    BY BatchKinds DEF Of
  <2>2. QED
    BY <2>1 DEF Adds, SubmitIs
<1>2. ASSUME NEW o \in Pipes \ {p} PROVE Keeps(o)
  <2>1. \A a \in Of(o) : a \in Batches /\ a \notin Of(p)
    BY <1>2, BatchKinds DEF Of, Pipes
  <2>2. b \in Of(p) /\ queue'[o] = queue[o] /\ o \in Pipes
    BY <1>2 DEF NextOf, SubmitIs
  <2>3. \A a \in Of(o) : state'[a] = state[a]
    BY <2>1, <2>2 DEF SubmitIs
  <2>4. QED
    BY <2>2, <2>3, Stays
<1>3. MergesStep
  BY <1>1, <1>2 DEF MergesStep, Pipes
<1>4. QED
  BY <1>1, <1>2, <1>3, InOrderKept

\* What an answer does.
AnswerIs(p, b) ==
  /\ inbox[p] # <<>> /\ b = Head(inbox[p]) /\ b \in Of(p) /\ b \in Waits(p) /\ state[b] = "queued"
  /\ inbox'[p] = Tail(inbox[p]) /\ state'[b] \in {"done", "failed"}
  /\ \A o \in Pipes \ {p} : inbox'[o] = inbox[o]
  /\ \A a \in Batches \ {b} : state'[a] = state[a]
  /\ UNCHANGED <<queue, call, producer>>

LEMMA AnswerDoes ==
  ASSUME IInv, NEW p \in Pipes, Answers(p)
  PROVE  \E b : AnswerIs(p, b)
<1>1. PICK i \in Seq(Batches) : i = inbox[p] /\ i # <<>>
  BY DEF IInv, Shapes, Answers
<1>2. PICK b : b = Head(i)
  OBVIOUS
<1>3. b \in Range(i) /\ b \in Batches
  <2>1. 1 \in DOMAIN i /\ b = i[1] /\ i[1] \in Batches
    BY <1>1, <1>2
  <2>2. QED
    BY <2>1 DEF Range
<1>4. b \in Waits(p) /\ state[b] = "queued"
  BY <1>1, <1>3 DEF IInv, Inboxes, Waits
<1>5. b \in Of(p)
  BY <1>4, PipeFacts
<1>6. inbox'[p] = Tail(inbox[p]) /\ \A o \in Pipes \ {p} : inbox'[o] = inbox[o]
  BY DEF IInv, Shapes, Answers
<1>7. /\ state'[b] \in {"done", "failed"} /\ \A a \in Batches \ {b} : state'[a] = state[a]
  BY <1>1, <1>2, <1>3 DEF IInv, Shapes, Answers
<1>8. AnswerIs(p, b)
  BY <1>1, <1>2, <1>4, <1>5, <1>6, <1>7 DEF AnswerIs, Answers
<1>9. QED
  BY <1>8

LEMMA AnswerKeepsOrder ==
  ASSUME IInv, InOrder, Produced, Consumed, NEW p \in Pipes, NEW b, AnswerIs(p, b),
         merged' = merged
  PROVE  InOrder'
<1>1. Answered(p, b)
  <2>1. \A a \in Of(p) : a \in Batches
    BY BatchKinds DEF Of
  <2>2. QED
    BY <2>1 DEF Answered, AnswerIs
<1>2. ASSUME NEW o \in Pipes \ {p} PROVE Keeps(o)
  <2>1. \A a \in Of(o) : a \in Batches /\ a \notin Of(p)
    BY <1>2, BatchKinds DEF Of, Pipes
  <2>2. b \in Of(p) /\ queue'[o] = queue[o] /\ o \in Pipes
    BY <1>2 DEF AnswerIs
  <2>3. \A a \in Of(o) : state'[a] = state[a]
    BY <2>1, <2>2 DEF AnswerIs
  <2>4. QED
    BY <2>2, <2>3, Stays
<1>3. MergesStep
  BY <1>1, <1>2 DEF MergesStep, Pipes
<1>4. QED
  BY <1>1, <1>2, <1>3, InOrderKept

LEMMA QuietKeepsOrder ==
  ASSUME IInv, InOrder, Produced, Consumed, Quiet
  PROVE  InOrder' /\ Produced'
<1>1. \A p \in Pipes : Keeps(p)
  BY DEF Quiet, Keeps
<1>2. MergesStep
  BY <1>1 DEF MergesStep, Quiet, Pipes
<1>3. InOrder'
  BY <1>1, <1>2, InOrderKept
<1>4. Produced'
  BY DEF Quiet, Produced
<1>5. QED
  BY <1>3, <1>4

-----------------------------------------------------------------------------
(* The cursors. *)

LEMMA ProducedSame ==
  ASSUME Produced, producer'.batch = producer.batch, inbox'["gpu"] = inbox["gpu"],
         \A b \in GpuBatches : state'[b] # "new" <=> state[b] # "new"
  PROVE  Produced'
  BY DEF Produced

LEMMA ProducedAdds ==
  ASSUME IInv, Produced, SubmitIs("gpu", Batch), Batch \in GpuBatches,
         producer'.batch = producer.batch + 1
  PROVE  Produced' /\ Len(inbox'["gpu"]) = Len(inbox["gpu"]) + 1
<1>1. /\ producer.batch \in Nat \ {0} /\ Batch[1] = producer.batch
      /\ \A b \in GpuBatches : b \in Batches /\ b[1] \in Nat /\ b = <<b[1]>>
  BY BatchKinds DEF IInv, Shapes, Batch
<1>2. \A b \in GpuBatches : state'[b] # "new" <=> b[1] < producer'.batch
  <2>1. SUFFICES ASSUME NEW b \in GpuBatches
                 PROVE  state'[b] # "new" <=> b[1] < producer'.batch
    OBVIOUS
  <2>2. CASE b = Batch
    BY <1>1, <2>2 DEF SubmitIs
  <2>3. CASE b # Batch
    <3>1. b[1] # producer.batch
      BY <1>1, <2>3 DEF Batch
    <3>2. state'[b] = state[b]
      BY <1>1, <2>3 DEF SubmitIs
    <3>3. QED
      BY <1>1, <3>1, <3>2 DEF Produced
  <2>4. QED
    BY <2>2, <2>3
<1>3. PICK i \in Seq(Batches) : i = inbox["gpu"]
  BY DEF IInv, Shapes, Pipes
<1>4. PICK r : r = Append(i, Batch)
  OBVIOUS
<1>5. /\ \A k \in DOMAIN r : (k \in DOMAIN i /\ r[k] = i[k]) \/ (k = Len(i) + 1 /\ r[k] = Batch)
      /\ DOMAIN i = 1 .. Len(i) /\ Len(i) \in Nat
  BY <1>1, <1>4, AppendFacts
<1>6. Len(r) = Len(i) + 1 /\ inbox'["gpu"] = r
  BY <1>1, <1>3, <1>4 DEF SubmitIs
<1>7. \A k \in DOMAIN r : r[k] = <<producer'.batch - Len(r) + k - 1>>
  <2>1. SUFFICES ASSUME NEW k \in DOMAIN r PROVE r[k] = <<producer'.batch - Len(r) + k - 1>>
    OBVIOUS
  <2>2. CASE k \in DOMAIN i /\ r[k] = i[k]
    <3>1. r[k] = <<producer.batch - Len(i) + k - 1>>
      BY <1>3, <2>2 DEF Produced
    <3>2. producer'.batch - Len(r) + k - 1 = producer.batch - Len(i) + k - 1
      BY <1>1, <1>5, <1>6, <2>2
    <3>3. QED
      BY <3>1, <3>2
  <2>3. CASE k = Len(i) + 1 /\ r[k] = Batch
    <3>1. producer'.batch - Len(r) + k - 1 = producer.batch
      BY <1>1, <1>5, <1>6, <2>3
    <3>2. QED
      BY <2>3, <3>1 DEF Batch
  <2>4. QED
    BY <1>5, <2>2, <2>3
<1>8. QED
  BY <1>2, <1>3, <1>6, <1>7 DEF Produced

LEMMA ProducedAnswers ==
  ASSUME IInv, Produced, NEW b, AnswerIs("gpu", b)
  PROVE  /\ Produced' /\ b = <<producer.batch - Len(inbox["gpu"])>>
         /\ Len(inbox'["gpu"]) = Len(inbox["gpu"]) - 1 /\ Len(inbox["gpu"]) \in Nat
<1>1. producer.batch \in Nat \ {0} /\ \A a \in GpuBatches : a \in Batches
  BY BatchKinds DEF IInv, Shapes
<1>2. PICK i \in Seq(Batches) : i = inbox["gpu"] /\ i # <<>> /\ b = Head(i)
  BY DEF IInv, Shapes, AnswerIs, Pipes
<1>3. /\ Len(i) \in Nat \ {0} /\ DOMAIN i = 1 .. Len(i) /\ b = i[1] /\ Len(Tail(i)) = Len(i) - 1
      /\ \A k \in DOMAIN Tail(i) : Tail(i)[k] = i[k + 1] /\ k + 1 \in DOMAIN i /\ k \in Nat
  BY <1>2
<1>4. inbox'["gpu"] = Tail(i)
  BY <1>2 DEF AnswerIs
<1>5. \A k \in DOMAIN i : i[k] = <<producer.batch - Len(i) + k - 1>>
  BY <1>2 DEF Produced
<1>6. \A k \in DOMAIN Tail(i) : Tail(i)[k] = <<producer.batch - Len(Tail(i)) + k - 1>>
  <2>1. SUFFICES ASSUME NEW k \in DOMAIN Tail(i)
                 PROVE  Tail(i)[k] = <<producer.batch - Len(Tail(i)) + k - 1>>
    OBVIOUS
  <2>2. Tail(i)[k] = <<producer.batch - Len(i) + (k + 1) - 1>>
    BY <1>3, <1>5
  <2>3. producer.batch - Len(i) + (k + 1) - 1 = producer.batch - Len(Tail(i)) + k - 1
    BY <1>1, <1>3
  <2>4. QED
    BY <2>2, <2>3
<1>7. \A a \in GpuBatches : state'[a] # "new" <=> state[a] # "new"
  BY <1>1 DEF AnswerIs
<1>8. b = <<producer.batch - Len(i)>>
  <2>1. 1 \in DOMAIN i /\ producer.batch - Len(i) + 1 - 1 = producer.batch - Len(i)
    BY <1>1, <1>3
  <2>2. QED
    BY <1>3, <1>5, <2>1
<1>9. producer' = producer
  BY DEF AnswerIs
<1>10. Produced'
  BY <1>4, <1>6, <1>7, <1>9 DEF Produced
<1>11. QED
  BY <1>2, <1>3, <1>4, <1>8, <1>10

\* The consumer stays at its batch.
LEMMA ConsumedSame ==
  ASSUME Consumed, consumer'.batch = consumer.batch, consumer'.op = consumer.op,
         \A b \in HostBatches : state'[b] # "new" <=> state[b] # "new",
         \A b \in GpuBatches : state'[b] = "done" => state[b] = "done",
         consumer'.stage = "idle" /\ ~poisoned' =>
           /\ consumer.stage = "idle" /\ ~poisoned
           /\ producer'.batch - Len(inbox'["gpu"]) = producer.batch - Len(inbox["gpu"]),
         consumer'.stage \notin {"idle", "fence"} => ~consumer'.failed,
         consumer'.stage = "fence" => consumer'.failed /\ poisoned'
  PROVE  Consumed'
  BY DEF Consumed, Work

LEMMA ConsumedAdds ==
  ASSUME IInv, Consumed, SubmitIs("host", HostBatch), HostBatch \in HostBatches,
         consumer.stage = "submit", consumer.op <= Len(Work), consumer.batch \in DOMAIN GpuBytes,
         consumer' = [consumer EXCEPT !.stage = "work", !.op = @ + 1]
  PROVE  Consumed'
<1>1. /\ consumer'.stage = "work" /\ consumer'.batch = consumer.batch
      /\ consumer'.op = consumer.op + 1 /\ consumer'.failed = consumer.failed
  BY DEF IInv, Shapes, IsConsumer
<1>2. /\ consumer.op \in Nat /\ consumer.batch \in Nat /\ Len(Work) \in Nat
      /\ HostBatch[1] = consumer.batch /\ HostBatch[2] = consumer.op
  BY BatchKinds DEF IInv, Shapes, Consumed, HostBatch, Work
<1>3. \A b \in HostBatches : /\ b[1] \in Nat /\ b[2] \in Nat /\ b \in Batches
                             /\ b # HostBatch => b[1] # consumer.batch \/ b[2] # consumer.op
  BY BatchKinds, BeforeFacts DEF HostBatch
<1>4. \A b \in HostBatches : state'[b] # "new" <=>
        b[1] < consumer'.batch \/ (b[1] = consumer'.batch /\ b[2] < consumer'.op)
  <2>1. SUFFICES ASSUME NEW b \in HostBatches
                 PROVE  state'[b] # "new" <=>
                          b[1] < consumer'.batch \/ (b[1] = consumer'.batch /\ b[2] < consumer'.op)
    OBVIOUS
  <2>2. CASE b = HostBatch
    BY <1>1, <1>2, <2>2 DEF SubmitIs
  <2>3. CASE b # HostBatch
    <3>1. state'[b] = state[b]
      BY <1>3, <2>3 DEF SubmitIs
    <3>2. state[b] # "new" <=>
            b[1] < consumer.batch \/ (b[1] = consumer.batch /\ b[2] < consumer.op)
      BY DEF Consumed
    <3>3. b[1] # consumer.batch \/ b[2] # consumer.op
      BY <1>3, <2>3
    <3>4. QED
      BY <1>1, <1>2, <1>3, <3>1, <3>2, <3>3
  <2>4. QED
    BY <2>2, <2>3
<1>5. \A b \in GpuBatches : state'[b] = "done" =>
        b[1] < consumer'.batch \/ (b[1] = consumer'.batch /\ consumer'.op > Len(Work'))
  <2>1. SUFFICES ASSUME NEW b \in GpuBatches, state'[b] = "done"
                 PROVE  \/ b[1] < consumer'.batch
                        \/ b[1] = consumer'.batch /\ consumer'.op > Len(Work')
    OBVIOUS
  <2>2. state[b] = "done"
    BY <2>1, BatchKinds DEF SubmitIs
  <2>3. Work' = Work
    BY <1>1 DEF Work
  <2>4. QED
    BY <1>1, <1>2, <2>2, <2>3 DEF Consumed
<1>6. QED
  BY <1>1, <1>2, <1>4, <1>5 DEF Consumed

\* The consumer goes to the next batch.
LEMMA ConsumedTakes ==
  ASSUME IInv, Produced, Consumed, Take, ~poisoned
  PROVE  Consumed'
<1>1. /\ consumer.stage = "idle" /\ inbox["gpu"] # <<>>
      /\ UNCHANGED <<state, inbox, producer, poisoned>>
      /\ consumer.op \in Nat \ {0} /\ producer.batch \in Nat
  BY DEF Take, IInv, Shapes
<1>2. PICK b : /\ b = Head(inbox["gpu"])
               /\ consumer' = [consumer EXCEPT !.stage = "work", !.batch = b[1], !.op = 1,
                                               !.failed = FALSE]
  BY DEF Take
<1>3. PICK i \in Seq(Batches) : i = inbox["gpu"]
  BY DEF IInv, Shapes, Pipes
<1>4. 1 \in DOMAIN i /\ b = i[1] /\ Len(i) \in Nat \ {0}
  BY <1>1, <1>2, <1>3
<1>5. b = <<producer.batch - Len(i) + 1 - 1>>
  BY <1>3, <1>4 DEF Produced
<1>6. b[1] = producer.batch - Len(i) + 1 - 1
  BY <1>5
<1>7. consumer'.stage = "work" /\ consumer'.batch = b[1] /\ consumer'.op = 1 /\ ~consumer'.failed
  BY <1>2 DEF IInv, Shapes, IsConsumer
<1>8. consumer.batch \in Nat /\ b[1] = consumer.batch + 1
  BY <1>1, <1>3, <1>4, <1>6 DEF Consumed
<1>9. \A a \in HostBatches : /\ a[1] \in Nat \ {0} /\ a[2] \in Nat \ {0}
                             /\ a[1] = consumer.batch => a[2] < consumer.op
  <2>1. SUFFICES ASSUME NEW a \in HostBatches
                 PROVE  /\ a[1] \in Nat \ {0} /\ a[2] \in Nat \ {0}
                        /\ a[1] = consumer.batch => a[2] < consumer.op
    OBVIOUS
  <2>2. /\ a[1] \in 1 .. Len(GpuBytes) /\ a[2] \in 1 .. Len(HostWork[a[1]])
        /\ Len(GpuBytes) \in Nat /\ Len(HostWork[a[1]]) \in Nat
    BY BatchKinds
  <2>3. a[1] \in Nat \ {0} /\ a[2] \in Nat \ {0} /\ a[2] <= Len(HostWork[a[1]])
    BY <2>2
  <2>4. a[1] = consumer.batch => consumer.op > Len(HostWork[a[1]])
    BY <1>1, <2>3 DEF Consumed, Work
  <2>5. QED
    BY <1>1, <2>2, <2>3, <2>4
<1>10. \A a \in HostBatches : state'[a] # "new" <=>
         a[1] < consumer'.batch \/ (a[1] = consumer'.batch /\ a[2] < consumer'.op)
  <2>1. SUFFICES ASSUME NEW a \in HostBatches
                 PROVE  state[a] # "new" <=>
                          a[1] < b[1] \/ (a[1] = b[1] /\ a[2] < 1)
    BY <1>1, <1>7
  <2>2. state[a] # "new" <=>
          a[1] < consumer.batch \/ (a[1] = consumer.batch /\ a[2] < consumer.op)
    BY DEF Consumed
  <2>3. QED
    BY <1>8, <1>9, <2>2
<1>11. \A a \in GpuBatches : state'[a] = "done" => a[1] < consumer'.batch
  <2>1. SUFFICES ASSUME NEW a \in GpuBatches, state[a] = "done" PROVE a[1] < b[1]
    BY <1>1, <1>7
  <2>2. a[1] <= consumer.batch /\ a[1] \in Nat
    BY <1>8, <2>1, BatchKinds DEF Consumed
  <2>3. QED
    BY <1>8, <2>2
<1>12. QED
  BY <1>7, <1>8, <1>10, <1>11 DEF Consumed

\* The consumer is through with its batch.
LEMMA ConsumedFences ==
  ASSUME IInv, Produced, Consumed, Fence, NEW b, AnswerIs("gpu", b)
  PROVE  Consumed'
<1>1. /\ consumer'.stage = "idle" /\ consumer'.batch = consumer.batch
      /\ consumer'.op = consumer.op
  BY DEF Fence, At, IInv, Shapes, IsConsumer
<1>2. consumer.stage = "fence" \/ (consumer.stage = "work" /\ consumer.op > Len(Work))
  BY DEF Fence
<1>3. b = <<consumer.batch>> /\ b \in GpuBatches
  BY <1>2 DEF IInv, Inboxes, AnswerIs, Of
<1>4. PICK raises \in BOOLEAN :
        /\ poisoned' = (poisoned \/ raises)
        /\ state' = [state EXCEPT ![<<consumer.batch>>] =
                       IF raises \/ consumer.failed THEN "failed" ELSE "done"]
  BY DEF Fence
<1>5. state'[b] = IF raises \/ consumer.failed THEN "failed" ELSE "done"
  BY <1>3, <1>4, BatchKinds DEF IInv, Shapes
<1>6. /\ b = <<producer.batch - Len(inbox["gpu"])>>
      /\ Len(inbox'["gpu"]) = Len(inbox["gpu"]) - 1 /\ Len(inbox["gpu"]) \in Nat
      /\ producer' = producer /\ producer.batch \in Nat
  <2>1. producer' = producer
    BY DEF AnswerIs
  <2>2. producer.batch \in Nat
    BY DEF IInv, Shapes
  <2>3. QED
    BY <2>1, <2>2, ProducedAnswers
<1>7. consumer.batch = producer.batch - Len(inbox["gpu"]) /\ consumer.batch \in Nat
  <2>1. b[1] = consumer.batch
    BY <1>3
  <2>2. b[1] = producer.batch - Len(inbox["gpu"])
    BY <1>6
  <2>3. QED
    BY <2>1, <2>2 DEF Consumed
<1>8. consumer'.batch = producer'.batch - Len(inbox'["gpu"]) - 1
  BY <1>1, <1>6, <1>7
<1>9. Work' = Work
  BY <1>1 DEF Work
<1>10. ~poisoned' => consumer.op > Len(Work)
  <2>1. ~poisoned' => ~poisoned
    BY <1>4
  <2>2. QED
    BY <1>2, <2>1 DEF Consumed
<1>11. state'[b] = "done" => consumer.op > Len(Work)
  <2>1. state'[b] = "done" => ~consumer.failed
    BY <1>5
  <2>2. QED
    BY <1>2, <2>1 DEF Consumed
<1>12. \A a \in HostBatches : state'[a] = state[a]
  BY <1>3, BatchKinds DEF AnswerIs
<1>13. \A a \in GpuBatches : state'[a] = "done" =>
         a[1] < consumer.batch \/ (a[1] = consumer.batch /\ consumer.op > Len(Work))
  <2>1. SUFFICES ASSUME NEW a \in GpuBatches, state'[a] = "done"
                 PROVE  a[1] < consumer.batch \/ (a[1] = consumer.batch /\ consumer.op > Len(Work))
    OBVIOUS
  <2>2. CASE a = b
    BY <1>3, <1>11, <2>1, <2>2
  <2>3. CASE a # b
    <3>1. state[a] = "done"
      BY <2>1, <2>3, BatchKinds DEF AnswerIs
    <3>2. QED
      BY <3>1 DEF Consumed
  <2>4. QED
    BY <2>2, <2>3
<1>14. QED
  BY <1>1, <1>7, <1>8, <1>9, <1>10, <1>12, <1>13 DEF Consumed

-----------------------------------------------------------------------------
(* What the task and the consumer know of the closed queues. *)

\* The task thread stays where it is.
LEMMA TaskKnowsSame ==
  ASSUME TaskKnows, producer' = producer, Fallen => Fallen',
         queue'["gpu"].closed = queue["gpu"].closed \/ producer.stage \notin {"next", "close"},
         call'["task"].batch = call["task"].batch \/ producer.stage # "submitting",
         \/ queue'["gpu"].error = queue["gpu"].error
         \/ producer.stage \notin {"closing gpu", "closing host", "ended"}
         \/ producer.stage = "closing gpu" /\ call'["task"].pc # "returned",
         \/ queue'["host"].error = queue["host"].error
         \/ producer.stage \notin {"closing host", "ended"}
         \/ producer.stage = "closing host" /\ call'["task"].pc # "returned",
         \/ call'["task"].pc = "returned" => call["task"].pc = "returned"
         \/ producer.stage \notin {"closing gpu", "closing host"}
  PROVE  TaskKnows'
  BY DEF TaskKnows, Batch

\* A closed queue whose task thread has not come to it.
LEMMA TaskAway ==
  ASSUME IInv, call["consumer"].pc # "none" \/ consumer.stage # "idle"
  PROVE  /\ producer.stage \notin {"closing host", "ended"}
         /\ call["task"].pc # "none" => call["task"].pipe = "gpu"
<1>1. producer.stage \in {"closing host", "ended"} => queue["gpu"].pending = <<>>
  BY DEF IInv, Endings, Emptied
<1>2. producer.stage \notin {"closing host", "ended"}
  BY <1>1, IdleConsumer DEF IInv
<1>3. QED
  BY <1>2 DEF IInv, TaskCalls

LEMMA BrokenStays ==
  ASSUME Broken, \A b \in GpuBatches : state[b] = "failed" => state'[b] = "failed",
         consumer.stage = "fence" => consumer'.stage = "fence",
         call["consumer"].pc \in {"fail", "raised"} =>
           call'["consumer"].pc \in {"fail", "raised"} \/ consumer'.stage = "fence"
  PROVE  Broken'
  BY DEF Broken

LEMMA CollectKnows ==
  ASSUME IInv, Ends, NEW t \in Threads, Collect(t)
  PROVE  Ends'
<1>1. /\ call[t].pipe \in Pipes
      /\ \A u \in Threads \ {t} : call[u].pc = "none" \/ call[u].pipe # call[t].pipe
      /\ call[t].pipe = "host" /\ t = "task" => producer.stage = "closing host"
      /\ t = "consumer" => call[t].pipe = "host" /\ consumer.stage # "idle"
  <2>1. call[t].pc # "none"
    BY DEF Collect, Collecting
  <2>2. QED
    BY <2>1, OneCaller
<1>2. call[t].pc \in {"sweep", "drain", "refused", "fail", "admit"}
  BY DEF Collect, Collecting
<1>0. PICK p \in Pipes : p = call[t].pipe
  BY <1>1
<1>3. PICK b, e : p = call[t].pipe /\ CollectIs(t, p, b, e)
  BY <1>0, <1>1, CollectDoes
<1>4. PICK pc : CallIsAt(t, pc) /\ \/ pc = call[t].pc /\ queue'[p].closed = queue[p].closed
                                   \/ pc = "fail" /\ queue'[p].closed = TRUE
  BY <1>3 DEF CollectIs
<1>5. /\ call'[t].pc = pc /\ call'[t].pipe = call[t].pipe /\ call'[t].batch = call[t].batch
      /\ \A u \in Threads \ {t} : call'[u] = call[u]
  BY <1>4 DEF CallIsAt
<1>6. /\ UNCHANGED <<state, producer, consumer>> /\ \A o \in Pipes \ {p} : queue'[o] = queue[o]
      /\ "gpu" \in Pipes /\ "host" \in Pipes
  BY <1>3 DEF CollectIs, Pipes
<1>11. Fallen' = Fallen
  BY <1>6 DEF Fallen
<1>7. Drains'
  <2>1. ASSUME NEW u \in Threads, call'[u].pc = "drain" PROVE ~queue'[call'[u].pipe].closed
    <3>1. CASE u = t
      <4>1. call[t].pc = "drain" /\ queue'[p].closed = queue[p].closed
        BY <1>4, <1>5, <2>1, <3>1
      <4>2. QED
        BY <1>3, <1>5, <3>1, <4>1 DEF Ends, Drains
    <3>2. CASE u # t
      <4>1. call'[u] = call[u] /\ call[u].pipe # p /\ call[u].pc # "none"
        BY <1>1, <1>3, <1>5, <2>1, <3>2
      <4>2. call[u].pipe \in Pipes
        BY <4>1, OneCaller
      <4>3. queue'[call[u].pipe] = queue[call[u].pipe]
        BY <1>6, <4>1, <4>2
      <4>4. QED
        BY <2>1, <4>1, <4>3 DEF Ends, Drains
    <3>3. QED
      BY <3>1, <3>2
  <2>2. QED
    BY <2>1 DEF Drains
<1>8. CASE t = "task"
  <2>1. /\ call'["consumer"] = call["consumer"] /\ call["task"].pc \notin {"none", "returned"}
        /\ call'["task"].pc # "returned" /\ call'["task"].batch = call["task"].batch
    BY <1>2, <1>4, <1>5, <1>8 DEF Threads
  <2>2. producer.stage \in {"reserving", "submitting", "closing gpu", "closing host"}
    BY <2>1 DEF IInv, TaskCalls
  <2>3. TaskKnows'
    <3>1. CASE p = "gpu"
      <4>1. producer.stage # "closing host"
        BY <1>3, <1>8, <2>1, <3>1 DEF IInv, TaskCalls
      <4>2. queue'["host"] = queue["host"]
        BY <1>6, <3>1
      <4>3. QED
        BY <1>6, <1>11, <2>1, <2>2, <4>1, <4>2, TaskKnowsSame DEF Ends
    <3>2. CASE p = "host"
      <4>1. producer.stage = "closing host" /\ queue'["gpu"] = queue["gpu"]
        BY <1>1, <1>3, <1>6, <1>8, <3>2
      <4>2. QED
        BY <1>6, <1>11, <2>1, <4>1, TaskKnowsSame DEF Ends
    <3>3. QED
      BY <3>1, <3>2 DEF Pipes
  <2>4. HostKnows'
    <3>1. Broken => Broken'
      BY <1>6, <2>1, BrokenStays
    <3>2. p = "gpu" => queue'["host"] = queue["host"]
      BY <1>6
    <3>3. p = "host" => producer.stage = "closing host"
      BY <1>1, <1>3, <1>8
    <3>4. QED
      BY <1>6, <1>11, <2>1, <3>1, <3>2, <3>3 DEF Ends, HostKnows, HostBatch, Pipes
  <2>5. QED
    BY <1>7, <2>3, <2>4 DEF Ends
<1>9. CASE t = "consumer"
  <2>1. /\ p = "host" /\ call'["task"] = call["task"] /\ queue'["gpu"] = queue["gpu"]
        /\ consumer.stage # "idle"
    BY <1>1, <1>3, <1>5, <1>6, <1>9 DEF Threads
  <2>2. producer.stage \notin {"closing host", "ended"}
    BY <2>1, TaskAway
  <2>3. TaskKnows'
    BY <1>6, <1>11, <2>1, <2>2, TaskKnowsSame DEF Ends
  <2>4. HostKnows'
    <3>1. queue'["host"].closed => Broken' \/ Fallen'
      <4>1. CASE pc = "fail"
        BY <1>5, <1>9, <4>1 DEF Broken
      <4>2. CASE pc = call[t].pc /\ queue'[p].closed = queue[p].closed
        <5>1. queue["host"].closed => Broken \/ Fallen
          BY <2>2 DEF Ends, HostKnows
        <5>2. Broken => Broken'
          BY <1>5, <1>6, <1>9, <4>2, BrokenStays
        <5>3. QED
          BY <1>11, <2>1, <4>2, <5>1, <5>2
      <4>3. QED
        BY <1>4, <4>1, <4>2
    <3>2. QED
      BY <1>5, <1>6, <1>9, <3>1 DEF Ends, HostKnows, HostBatch
  <2>5. QED
    BY <1>7, <2>3, <2>4 DEF Ends
<1>10. QED
  BY <1>8, <1>9 DEF Threads

LEMMA FinishKnows ==
  ASSUME IInv, Ends, NEW t \in Threads, Finish(t)
  PROVE  Ends'
<1>1. /\ call[t].pipe \in Pipes
      /\ \A u \in Threads \ {t} : call[u].pc = "none" \/ call[u].pipe # call[t].pipe
      /\ call[t].pipe = "host" /\ t = "task" => producer.stage = "closing host"
      /\ t = "consumer" => call[t].pipe = "host" /\ consumer.stage # "idle"
  <2>1. call[t].pc # "none"
    BY DEF Finish, Collapsed
  <2>2. QED
    BY <2>1, OneCaller
<1>0. PICK p \in Pipes : p = call[t].pipe
  BY <1>1
<1>2. PICK e : p = call[t].pipe /\ FinishIs(t, p, e)
  BY <1>0, <1>1, FinishDoes
<1>3. PICK pc : CallIsAt(t, pc) /\ pc = IF call[t].pc = "drain" THEN "returned" ELSE "raised"
  BY <1>2 DEF FinishIs
<1>4. /\ call'[t].pc = pc /\ call'[t].pipe = call[t].pipe /\ call'[t].batch = call[t].batch
      /\ \A u \in Threads \ {t} : call'[u] = call[u]
  BY <1>3 DEF CallIsAt
<1>5. /\ UNCHANGED <<state, producer, consumer>> /\ \A o \in Pipes \ {p} : queue'[o] = queue[o]
      /\ "gpu" \in Pipes /\ "host" \in Pipes /\ queue'[p].closed = TRUE
      /\ call[t].pc \in {"drain", "refused", "fail"} /\ queue'[p].error = e
      /\ call[t].pc = "drain" => e = queue[p].error
  BY <1>2 DEF FinishIs, Pipes
<1>11. Fallen' = Fallen
  BY <1>5 DEF Fallen
<1>6. Drains'
  <2>1. ASSUME NEW u \in Threads, call'[u].pc = "drain" PROVE ~queue'[call'[u].pipe].closed
    <3>1. u # t
      BY <1>3, <1>4, <2>1
    <3>2. call'[u] = call[u] /\ call[u].pipe # p /\ call[u].pc # "none"
      BY <1>1, <1>2, <1>4, <2>1, <3>1
    <3>3. call[u].pipe \in Pipes
      BY <3>2, OneCaller
    <3>4. queue'[call[u].pipe] = queue[call[u].pipe]
      BY <1>5, <3>2, <3>3
    <3>5. QED
      BY <2>1, <3>2, <3>4 DEF Ends, Drains
  <2>2. QED
    BY <2>1 DEF Drains
\* A queue that was open until it was empty has no error.
<1>7. call[t].pc = "drain" => e = NoError
  <2>1. SUFFICES ASSUME call[t].pc = "drain", queue[p].error # NoError PROVE FALSE
    BY <1>5
  <2>2. ~queue[p].closed
    BY <1>2, <2>1 DEF Ends, Drains
  <2>3. PICK u \in Threads : call[u].pipe = p /\ call[u].pc = "refused"
    BY <2>1, <2>2 DEF IInv, Closings
  <2>4. QED
    BY <1>1, <1>2, <2>1, <2>3
<1>8. CASE t = "task"
  <2>1. /\ call'["consumer"] = call["consumer"] /\ call'["task"].batch = call["task"].batch
        /\ call["task"].pc \in {"drain", "refused", "fail"}
        /\ call'["task"].pc = "returned" => e = NoError
    BY <1>3, <1>4, <1>5, <1>7, <1>8 DEF Threads
  <2>2. producer.stage \in {"reserving", "submitting", "closing gpu", "closing host"}
    BY <2>1 DEF IInv, TaskCalls
  <2>3. TaskKnows'
    <3>1. CASE p = "gpu"
      <4>1. producer.stage # "closing host" /\ queue'["gpu"].error = e
        BY <1>2, <1>5, <1>8, <2>1, <3>1 DEF IInv, TaskCalls
      <4>2. QED
        BY <1>5, <1>11, <2>1, <2>2, <4>1 DEF Ends, TaskKnows, Batch
    <3>2. CASE p = "host"
      <4>1. /\ producer.stage = "closing host" /\ queue'["gpu"] = queue["gpu"]
            /\ queue'["host"].error = e
        BY <1>1, <1>2, <1>5, <1>8, <3>2
      <4>2. QED
        BY <1>5, <1>11, <2>1, <4>1 DEF Ends, TaskKnows
    <3>3. QED
      BY <3>1, <3>2 DEF Pipes
  <2>4. HostKnows'
    <3>1. Broken => Broken'
      BY <1>5, <2>1, BrokenStays
    <3>2. p = "gpu" => queue'["host"] = queue["host"]
      BY <1>5
    <3>3. p = "host" => producer.stage = "closing host"
      BY <1>1, <1>2, <1>8
    <3>4. QED
      BY <1>5, <1>11, <2>1, <3>1, <3>2, <3>3 DEF Ends, HostKnows, HostBatch, Pipes
  <2>5. QED
    BY <1>6, <2>3, <2>4 DEF Ends
<1>9. CASE t = "consumer"
  <2>1. /\ p = "host" /\ call'["task"] = call["task"] /\ queue'["gpu"] = queue["gpu"]
        /\ consumer.stage # "idle"
    BY <1>1, <1>2, <1>4, <1>5, <1>9 DEF Threads
  <2>2. producer.stage \notin {"closing host", "ended"}
    BY <2>1, TaskAway
  <2>3. TaskKnows'
    BY <1>5, <1>11, <2>1, <2>2, TaskKnowsSame DEF Ends
  <2>4. Broken'
    <3>1. call["consumer"].pc # "drain"
      BY <1>5, <1>9 DEF IInv, ConsumerCalls, Collects
    <3>2. QED
      BY <1>3, <1>4, <1>9, <3>1 DEF Broken
  <2>5. HostKnows'
    BY <1>4, <1>5, <1>9, <2>4 DEF Ends, HostKnows, HostBatch
  <2>6. QED
    BY <1>6, <2>3, <2>5 DEF Ends
<1>10. QED
  BY <1>8, <1>9 DEF Threads

\* The queues stay open or closed, and only one thread moves.
QueuesStay == \A p \in Pipes : queue'[p].closed = queue[p].closed /\ queue'[p].error = queue[p].error

LEMMA DrainsStay ==
  ASSUME IInv, Drains, QueuesStay,
         \A t \in Threads : call'[t].pc = "drain" =>
           \/ call'[t] = call[t]
           \/ call'[t].pipe \in Pipes /\ ~queue[call'[t].pipe].closed
  PROVE  Drains'
<1>1. SUFFICES ASSUME NEW t \in Threads, call'[t].pc = "drain"
               PROVE  ~queue'[call'[t].pipe].closed
  BY DEF Drains
<1>2. CASE call'[t] = call[t]
  <2>1. call[t].pipe \in Pipes
    BY <1>1, <1>2, OneCaller
  <2>2. QED
    BY <1>1, <1>2, <2>1 DEF Drains, QueuesStay
<1>3. CASE call'[t].pipe \in Pipes /\ ~queue[call'[t].pipe].closed
  BY <1>3 DEF QueuesStay
<1>4. QED
  BY <1>1, <1>2, <1>3

LEMMA HostKnowsStays ==
  ASSUME HostKnows, QueuesStay, consumer' = consumer, call'["consumer"] = call["consumer"],
         producer.stage \in {"closing host", "ended"} => producer'.stage \in {"closing host", "ended"},
         \A b \in GpuBatches : state[b] = "failed" => state'[b] = "failed"
  PROVE  HostKnows'
<1>1. Broken => Broken'
  BY BrokenStays
<1>2. queue'["host"].closed = queue["host"].closed
  BY DEF QueuesStay, Pipes
<1>3. Fallen' = Fallen
  BY DEF Fallen
<1>4. QED
  BY <1>1, <1>2, <1>3 DEF HostKnows, HostBatch

\* The task has submitted all it had and no error came of it.
Delivered ==
  Emptied("gpu") /\ queue["gpu"].error = NoError /\ producer.batch > Len(GpuBytes)

\* All of it was published then; and while the task closes the first queue, the second is
\* open, if the consumer kept its encoder.
LEMMA HostIsOpen ==
  ASSUME IInv, InOrder, Produced, HostKnows, Delivered
  PROVE  /\ producer.stage = "closing gpu" => ~queue["host"].closed \/ Fallen
         /\ \A b \in GpuBatches : state[b] = "done"
<1>1. Waits("gpu") = {} /\ "gpu" \in Pipes /\ Of("gpu") = GpuBatches
  <2>1. "gpu" \in Pipes /\ Of("gpu") = GpuBatches /\ queue["gpu"].pending = <<>>
    BY DEF Emptied, Pipes, Of, Delivered
  <2>2. Waits("gpu") = {}
    BY <2>1, PipeFacts, NothingIn DEF Waits
  <2>3. QED
    BY <2>1, <2>2
<1>2. consumer.stage = "idle" /\ call["consumer"].pc = "none"
  BY IdleConsumer DEF IInv, Emptied, Delivered
<1>3. \A b \in GpuBatches : state[b] = "done"
  <2>1. SUFFICES ASSUME NEW b \in GpuBatches PROVE state[b] = "done"
    OBVIOUS
  <2>2. b[1] < producer.batch
    <3>1. b[1] \in 1 .. Len(GpuBytes) /\ Len(GpuBytes) \in Nat /\ producer.batch \in Nat
      BY BatchKinds DEF IInv, Shapes
    <3>2. QED
      BY <3>1 DEF Delivered
  <2>3. b \in Past("gpu")
    BY <1>1, <2>2 DEF Produced, Past, Known
  <2>4. QED
    BY <1>1, <2>3 DEF InOrder, ErrorsOf, Delivered
<1>4. ~Broken
  BY <1>2, <1>3 DEF Broken
<1>5. QED
  BY <1>3, <1>4 DEF HostKnows

\* The task thread between its calls.
LEMMA TaskStepsKnow ==
  ASSUME IInv, InOrder, Produced, Ends,
         TaskReserve \/ TaskReserved \/ TaskRefused \/ TaskDone \/ CloseGpu \/ CloseHost \/ TaskEnd
  PROVE  Ends'
<1>1. /\ "gpu" \in Pipes /\ "host" \in Pipes /\ "task" \in Threads /\ "consumer" \in Threads
      /\ Threads = {"task", "consumer"}
  BY DEF Pipes, Threads
<1>2. UNCHANGED <<queue, inbox, state, consumer>>
  BY DEF TaskReserve, TaskReserved, TaskRefused, TaskDone, CloseGpu, CloseHost, TaskEnd
<1>3. Calls /\ IsProducer(producer) /\ \A p \in Pipes : queue[p].closed \in BOOLEAN
  BY QueueFacts DEF IInv, Shapes
<1>4. producer'.batch = producer.batch /\ Batch' = Batch
  BY <1>3 DEF TaskReserve, TaskReserved, TaskRefused, TaskDone, CloseGpu, CloseHost, TaskEnd,
              Closing, IsProducer, Batch
<1>5. QueuesStay
  BY <1>2 DEF QueuesStay
\* What each of them does to the call.
<1>6. /\ call'["consumer"] = call["consumer"]
      /\ \/ call' = call \/ call'["task"].pc \in {"none", "raised", "sweep", "returned"}
         \/ call'["task"].pc = "drain" /\ call'["task"].pipe \in Pipes
            /\ ~queue[call'["task"].pipe].closed
      /\ CloseGpu => (call'["task"].pc = "returned" => queue["gpu"].closed)
      /\ CloseHost => (call'["task"].pc = "returned" => queue["host"].closed)
  <2>1. CASE (TaskReserve /\ poisoned) \/ TaskDone
    <3>1. call' = call /\ ~CloseGpu /\ ~CloseHost
      BY <2>1 DEF TaskReserve, TaskDone, CloseGpu, CloseHost
    <3>2. QED
      BY <3>1
  <2>2. CASE TaskReserve /\ ~poisoned
    <3>1. Enter("task", "reserve", "gpu", Batch, GpuBytes[producer.batch]) /\ ~CloseGpu /\ ~CloseHost
      BY <2>2 DEF TaskReserve, CloseGpu, CloseHost
    <3>2. CallIsEntered("task", "reserve", "gpu", Batch, GpuBytes[producer.batch])
      BY <1>1, <1>3, <3>1, Entered
    <3>3. call'["consumer"] = call["consumer"] /\ call'["task"].pc \in {"raised", "sweep"}
      BY <1>1, <1>3, <3>2 DEF CallIsEntered
    <3>4. QED
      BY <3>1, <3>3
  <2>3. CASE TaskReserved \/ TaskRefused \/ TaskEnd
    <3>1. Leave("task") /\ ~CloseGpu /\ ~CloseHost
      BY <2>3 DEF TaskReserved, TaskRefused, TaskEnd, CloseGpu, CloseHost
    <3>2. CallIsLeft("task")
      BY <1>1, <1>3, <3>1, Left
    <3>3. QED
      BY <1>1, <3>1, <3>2 DEF CallIsLeft
  <2>4. CASE CloseGpu
    <3>1. Enter("task", "close", "gpu", NoError, 0) /\ ~CloseHost
      BY <2>4 DEF CloseGpu, CloseHost
    <3>2. CallIsEntered("task", "close", "gpu", NoError, 0)
      BY <1>1, <1>3, <3>1, Entered
    <3>3. QED
      BY <1>1, <1>3, <3>1, <3>2 DEF CallIsEntered
  <2>5. CASE CloseHost
    <3>1. Enter("task", "close", "host", NoError, 0) /\ ~CloseGpu
      BY <2>5 DEF CloseGpu, CloseHost, SkipsHost
    <3>2. CallIsEntered("task", "close", "host", NoError, 0)
      BY <1>1, <1>3, <3>1, Entered
    <3>3. QED
      BY <1>1, <1>3, <3>1, <3>2 DEF CallIsEntered
  <2>6. QED
    BY <2>1, <2>2, <2>3, <2>4, <2>5
<1>7. Drains'
  BY <1>1, <1>5, <1>6, DrainsStay DEF Ends
<1>8. producer.stage \in {"closing host", "ended"} => producer'.stage \in {"closing host", "ended"}
  BY <1>3 DEF TaskReserve, TaskReserved, TaskRefused, TaskDone, CloseGpu, CloseHost, TaskEnd,
              Closing, IsProducer
<1>9. HostKnows'
  BY <1>2, <1>5, <1>6, <1>8, HostKnowsStays DEF Ends
<1>12. Fallen' = Fallen
  BY <1>2 DEF Fallen
<1>10. TaskKnows'
  <2>1. CASE TaskReserve \/ TaskReserved \/ TaskRefused
    <3>1. producer'.stage \in {"reserving", "policy"} \/ (producer'.stage = "close" /\ producer'.failed)
      BY <1>3, <2>1 DEF TaskReserve, TaskReserved, TaskRefused, Closing, IsProducer
    <3>2. QED
      BY <3>1 DEF TaskKnows
  <2>2. CASE TaskDone
    <3>1. /\ producer'.stage = "close" /\ ~queue["gpu"].closed /\ producer.batch > Len(GpuBytes)
      BY <1>3, <2>2 DEF TaskDone, Closing, IsProducer, Ends, TaskKnows
    <3>2. QED
      BY <1>2, <1>4, <3>1 DEF TaskKnows
  <2>3. CASE CloseGpu
    <3>1. /\ producer.stage = "close" /\ producer'.stage = "closing gpu"
          /\ producer'.failed = producer.failed
      BY <1>3, <2>3 DEF CloseGpu, IsProducer
    <3>2. ~producer.failed => ~queue["gpu"].closed /\ producer.batch > Len(GpuBytes)
      BY <3>1 DEF Ends, TaskKnows
    <3>3. ~producer.failed => call'["task"].pc # "returned"
      BY <1>6, <2>3, <3>2
    <3>4. QED
      BY <1>2, <1>4, <3>1, <3>2, <3>3 DEF TaskKnows
  <2>4. CASE CloseHost
    <3>1. /\ producer.stage = "closing gpu" /\ producer'.stage = "closing host"
          /\ producer'.failed = (producer.failed \/ call["task"].pc = "raised")
          /\ call["task"].pc \in {"returned", "raised"}
      BY <1>3, <2>4 DEF CloseHost, IsProducer, SkipsHost, Returned, Raised
    <3>2. ~producer'.failed => /\ call["task"].pc = "returned" /\ producer.batch > Len(GpuBytes)
                               /\ queue["gpu"].error = NoError
      BY <3>1 DEF Ends, TaskKnows
    <3>3. Emptied("gpu")
      BY <3>1 DEF IInv, Endings
    <3>4. ~producer'.failed => ~queue["host"].closed \/ Fallen
      BY <3>1, <3>2, <3>3, HostIsOpen DEF Ends, Delivered
    <3>5. ~producer'.failed => call'["task"].pc # "returned" \/ Fallen'
      BY <1>6, <1>12, <2>4, <3>4
    <3>6. QED
      BY <1>2, <1>4, <3>1, <3>2, <3>5 DEF TaskKnows
  <2>5. CASE TaskEnd
    <3>1. /\ producer.stage = "closing host" /\ producer'.stage = "ended"
          /\ producer'.failed = (producer.failed \/ call["task"].pc = "raised")
          /\ call["task"].pc \in {"returned", "raised"}
      BY <1>3, <2>5 DEF TaskEnd, IsProducer, Returned, Raised
    <3>2. ~producer'.failed => /\ queue["host"].error = NoError \/ Fallen'
                               /\ producer.batch > Len(GpuBytes)
                               /\ queue["gpu"].error = NoError
      BY <1>12, <3>1 DEF Ends, TaskKnows
    <3>3. QED
      BY <1>2, <1>4, <3>1, <3>2 DEF TaskKnows
  <2>6. QED
    BY <2>1, <2>2, <2>3, <2>4, <2>5
<1>11. QED
  BY <1>7, <1>9, <1>10 DEF Ends

LEMMA QuietStay == Quiet => QueuesStay
  BY DEF Quiet, QueuesStay

\* A call that has looked at its queue, or was admitted.
LEMMA CallsKnow ==
  ASSUME IInv, Ends, NEW t \in Threads, SweepEnds(t) \/ Admit(t)
  PROVE  Ends'
<1>1. QueuesStay
  BY QuietSteps, QuietStay
<1>2. call[t].pc \in {"sweep", "admit"} /\ UNCHANGED <<state, producer, consumer>>
  BY DEF SweepEnds, Admit
<1>3. PICK pc \in {"admit", "returned", "raised"} : CallIsAt(t, pc)
  <2>1. Calls
    BY DEF IInv, Shapes
  <2>2. \E pc \in {"admit", "returned", "raised"} : call' = [call EXCEPT ![t].pc = pc]
    BY DEF SweepEnds, Admit, Goto
  <2>3. QED
    BY <2>1, <2>2, Moved
<1>4. /\ call'[t].pc = pc /\ call'[t].batch = call[t].batch
      /\ \A u \in Threads \ {t} : call'[u] = call[u]
  BY <1>3 DEF CallIsAt
<1>5. Drains'
  <2>1. \A u \in Threads : call'[u].pc = "drain" => call'[u] = call[u]
    BY <1>3, <1>4
  <2>2. QED
    BY <1>1, <2>1, DrainsStay DEF Ends
<1>9. Fallen' = Fallen
  BY <1>2 DEF Fallen
<1>6. CASE t = "task"
  <2>1. producer.stage = "reserving"
    BY <1>2, <1>6 DEF IInv, TaskCalls, Closes
  <2>2. TaskKnows'
    BY <1>2, <1>9, <2>1, TaskKnowsSame DEF Ends
  <2>3. call'["consumer"] = call["consumer"]
    BY <1>4, <1>6 DEF Threads
  <2>4. HostKnows'
    BY <1>1, <1>2, <2>3, HostKnowsStays DEF Ends
  <2>5. QED
    BY <1>5, <2>2, <2>4 DEF Ends
<1>7. CASE t = "consumer"
  <2>1. call'["task"] = call["task"]
    BY <1>4, <1>7 DEF Threads
  <2>2. TaskKnows'
    BY <1>1, <1>2, <1>9, <2>1, TaskKnowsSame DEF Ends, QueuesStay, Pipes
  <2>3. Broken => Broken'
    BY <1>2, <1>7, BrokenStays
  <2>4. HostKnows'
    BY <1>1, <1>2, <1>4, <1>7, <1>9, <2>3 DEF Ends, HostKnows, HostBatch, QueuesStay, Pipes
  <2>5. QED
    BY <1>5, <2>2, <2>4 DEF Ends
<1>8. QED
  BY <1>6, <1>7 DEF Threads

\* The policy call, and the submission of its batch.
LEMMA PolicyKnows ==
  ASSUME IInv, Produced, Ends, PolicyFails \/ TaskSubmit
  PROVE  Ends'
<1>1. /\ producer.stage = "policy" /\ IsProducer(producer) /\ Calls /\ UNCHANGED consumer
      /\ "gpu" \in Pipes /\ "task" \in Threads /\ "consumer" \in Threads
  BY DEF PolicyFails, TaskSubmit, IInv, Shapes, Pipes, Threads
<1>2. /\ ~queue["gpu"].closed /\ producer.batch <= Len(GpuBytes)
      /\ Batch \in GpuBatches /\ Batch \in Batches /\ state[Batch] = "new"
  <2>1. queue["gpu"].reserved = {Batch} /\ producer.batch <= Len(GpuBytes)
    BY <1>1 DEF IInv, TaskCalls
  <2>2. ~queue["gpu"].closed
    BY <1>1, <2>1, QueueFacts DEF IInv
  <2>3. NextOf("gpu", Batch) /\ state[Batch] = "new"
    BY <2>1, GpuCursor
  <2>4. QED
    BY <2>1, <2>2, <2>3, BatchKinds DEF NextOf, Of
<1>3. ASSUME QueuesStay, call'["consumer"] = call["consumer"],
             call'["task"] = call["task"] \/ call'["task"].pc # "drain",
             producer'.stage = "next" \/ (producer'.stage = "close" /\ producer'.failed)
             \/ (producer'.stage = "submitting" /\ call'["task"].batch = Batch
                 /\ producer'.batch = producer.batch),
             \A b \in GpuBatches : state[b] = "failed" => state'[b] = "failed"
      PROVE  Ends'
  <2>1. Drains'
    BY <1>3, DrainsStay DEF Ends, Threads
  <2>2. HostKnows'
    BY <1>1, <1>3, HostKnowsStays DEF Ends
  <2>3. TaskKnows'
    BY <1>1, <1>2, <1>3 DEF TaskKnows, QueuesStay, Batch
  <2>4. QED
    BY <2>1, <2>2, <2>3 DEF Ends
<1>4. CASE PolicyFails
  <2>1. QueuesStay /\ UNCHANGED <<call, state>>
    BY <1>4, QuietSteps, QuietStay DEF PolicyFails
  <2>2. producer'.stage = "next" \/ (producer'.stage = "close" /\ producer'.failed)
    BY <1>1, <1>4 DEF PolicyFails, Closing, IsProducer
  <2>3. QED
    BY <1>3, <2>1, <2>2
<1>5. CASE /\ SubmitTo("task", "gpu", Batch)
           /\ producer' = [producer EXCEPT !.stage = "next", !.batch = @ + 1]
  <2>1. SubmitIs("gpu", Batch)
    BY <1>1, <1>2, <1>5, SubmitDoes
  <2>2. QueuesStay /\ call' = call
    BY <1>1, <2>1 DEF SubmitIs, QueuesStay
  <2>3. producer'.stage = "next"
    BY <1>1, <1>5 DEF IsProducer
  <2>4. \A b \in GpuBatches : state[b] = "failed" => state'[b] = "failed"
    BY <1>2, <2>1, BatchKinds DEF SubmitIs
  <2>5. QED
    BY <1>3, <2>2, <2>3, <2>4
<1>6. CASE /\ RefusedBy("task", "gpu", Batch)
           /\ producer' = [producer EXCEPT !.stage = "submitting"] /\ UNCHANGED merged
  <2>1. QueuesStay /\ state' = state
    BY <1>6, QuietSteps, QuietStay DEF RefusedBy
  <2>2. producer'.stage = "submitting" /\ producer'.batch = producer.batch
    BY <1>1, <1>6 DEF IsProducer
  <2>3. /\ call'["consumer"] = call["consumer"] /\ call'["task"].pc = "refused"
        /\ call'["task"].batch = Batch
    <3>1. PICK c : /\ call' = [call EXCEPT !["task"] = c]
                   /\ c = [NoCall EXCEPT !.pc = "refused", !.pipe = "gpu", !.batch = Batch]
      BY <1>6 DEF RefusedBy
    <3>2. c.pc = "refused" /\ c.batch = Batch
      BY <3>1 DEF NoCall
    <3>3. QED
      BY <1>1, <3>1, <3>2 DEF Calls
  <2>4. QED
    BY <1>3, <2>1, <2>2, <2>3
<1>7. QED
  BY <1>4, <1>5, <1>6 DEF TaskSubmit

\* The consumer goes on, the task thread stays.
LEMMA ConsumerKnows ==
  ASSUME IInv, Ends, QueuesStay, producer' = producer, call'["task"] = call["task"],
         call'["consumer"] = call["consumer"] \/ call'["consumer"].pc # "drain",
         consumer'.stage = "submitting" => call'["consumer"].batch = HostBatch',
         Broken \/ Fallen => Broken' \/ Fallen', Fallen => Fallen'
  PROVE  Ends'
<1>1. Drains'
  BY DrainsStay DEF Ends, Threads
<1>2. TaskKnows'
  BY TaskKnowsSame DEF Ends, QueuesStay, Pipes
<1>3. HostKnows'
  BY DEF Ends, HostKnows, QueuesStay, Pipes
<1>4. QED
  BY <1>1, <1>2, <1>3 DEF Ends

LEMMA ConsumerStepsKnow ==
  ASSUME IInv, Consumed, Ends,
         HostReserve \/ HostReserved \/ Encode \/ HostResized \/ HostRaised \/ ConsumeFails
         \/ WriteImages
  PROVE  Ends'
<1>1. Calls /\ IsConsumer(consumer) /\ "host" \in Pipes /\ queue["host"].closed \in BOOLEAN
      /\ "task" \in Threads /\ "consumer" \in Threads
  BY QueueFacts DEF IInv, Shapes, Pipes, Threads
<1>2. QueuesStay
  <2>1. CASE WriteImages
    BY <2>1 DEF WriteImages, QueuesStay
  <2>2. CASE ~WriteImages
    BY <2>2, QuietSteps, QuietStay
  <2>3. QED
    BY <2>1, <2>2
<1>3. UNCHANGED producer /\ (Fallen => Fallen') /\ (WriteImages \/ UNCHANGED state)
  BY <1>1 DEF HostReserve, HostReserved, Encode, HostResized, HostRaised, ConsumeFails, WriteImages,
              Break, FallBack, At, IsConsumer, Fallen
<1>4. ASSUME NEW op \in {"reserve", "resize"}, NEW n, NEW stage \in {"reserving", "resizing"},
             Enter("consumer", op, "host", HostBatch, n), At(stage),
             consumer.stage \in {"work", "encode"}, UNCHANGED state
      PROVE  Ends'
  <2>1. CallIsEntered("consumer", op, "host", HostBatch, n)
    BY <1>1, <1>4, Entered
  <2>2. call'["task"] = call["task"] /\ call'["consumer"].pc \in {"raised", "sweep"}
    BY <1>1, <1>4, <2>1 DEF CallIsEntered
  <2>3. consumer'.stage = stage
    BY <1>1, <1>4 DEF At, IsConsumer
  <2>4. call["consumer"].pc = "none"
    BY <1>4 DEF IInv, ConsumerCalls
  <2>5. Broken => Broken'
    BY <1>4, <2>4, BrokenStays
  <2>6. QED
    BY <1>2, <1>3, <1>4, <2>2, <2>3, <2>5, ConsumerKnows
<1>5. CASE HostReserve \/ Encode
  <2>1. CASE HostReserve
    <3>1. PICK n : Enter("consumer", "reserve", "host", HostBatch, n)
      BY <2>1 DEF HostReserve
    <3>2. At("reserving") /\ consumer.stage = "work" /\ UNCHANGED state
      BY <2>1 DEF HostReserve
    <3>3. QED
      BY <1>4, <3>1, <3>2
  <2>2. CASE Encode
    <3>1. PICK n : Enter("consumer", "resize", "host", HostBatch, n)
      BY <2>2 DEF Encode
    <3>2. At("resizing") /\ consumer.stage = "encode" /\ UNCHANGED state
      BY <2>2 DEF Encode
    <3>3. QED
      BY <1>4, <3>1, <3>2
  <2>3. QED
    BY <1>5, <2>1, <2>2
<1>6. CASE HostReserved \/ HostResized
  <2>1. Leave("consumer") /\ call["consumer"].pc = "returned"
    BY <1>6 DEF HostReserved, HostResized, Returned
  <2>2. consumer'.stage \in {"encode", "submit"} /\ consumer.stage \in {"reserving", "resizing"}
    BY <1>1, <1>6 DEF HostReserved, HostResized, At, IsConsumer
  <2>3. CallIsLeft("consumer")
    BY <1>1, <2>1, Left
  <2>4. call'["task"] = call["task"] /\ call'["consumer"].pc = "none"
    BY <1>1, <2>3 DEF CallIsLeft
  <2>5. Broken => Broken'
    <3>1. UNCHANGED state
      BY <1>6 DEF HostReserved, HostResized
    <3>2. QED
      BY <2>1, <2>2, <3>1, BrokenStays
  <2>6. QED
    BY <1>2, <1>3, <2>2, <2>4, <2>5, ConsumerKnows
<1>7. CASE HostRaised \/ ConsumeFails
  <2>1. consumer'.stage = "fence" \/ (consumer'.stage = "work" /\ Fallen')
    BY <1>1, <1>7 DEF HostRaised, ConsumeFails, Break, FallBack, IsConsumer, Fallen
  <2>2. call'["task"] = call["task"] /\ (call' = call \/ call'["consumer"].pc = "none")
    <3>1. CASE ConsumeFails
      BY <3>1 DEF ConsumeFails
    <3>2. CASE HostRaised
      <4>1. CallIsLeft("consumer")
        BY <1>1, <3>2, Left DEF HostRaised
      <4>2. QED
        BY <1>1, <4>1 DEF CallIsLeft
    <3>3. QED
      BY <1>7, <3>1, <3>2
  <2>3. Broken' \/ Fallen'
    BY <2>1 DEF Broken
  <2>4. QED
    BY <1>2, <1>3, <2>1, <2>2, <2>3, ConsumerKnows
<1>8. CASE WriteImages
  <2>1. consumer.stage = "work" /\ consumer'.stage = "work" /\ call' = call
    BY <1>1, <1>8 DEF WriteImages, IsConsumer
  <2>2. \A b \in GpuBatches : state[b] = "failed" => state'[b] = "failed"
    <3>1. /\ consumer.batch \in DOMAIN GpuBytes /\ consumer.op <= Len(Work)
          /\ state' = [state EXCEPT ![HostBatch] = "done"]
      BY <1>8, <2>1 DEF IInv, ConsumerCalls, WriteImages, WithoutEncoder, Images
    <3>2. HostBatch \in HostBatches
      BY <3>1, HostCursor
    <3>3. QED
      BY <3>1, <3>2, BatchKinds DEF IInv, Shapes
  <2>3. Broken => Broken'
    BY <2>1, <2>2, BrokenStays
  <2>4. QED
    BY <1>2, <1>3, <2>1, <2>3, ConsumerKnows
<1>9. QED
  BY <1>5, <1>6, <1>7, <1>8

LEMMA HostSubmitKnows ==
  ASSUME IInv, Consumed, Ends, HostSubmit
  PROVE  Ends'
<1>1. /\ consumer.stage = "submit" /\ IsConsumer(consumer) /\ Calls /\ UNCHANGED producer
      /\ "host" \in Pipes /\ "task" \in Threads /\ "consumer" \in Threads
  BY DEF HostSubmit, IInv, Shapes, Pipes, Threads
<1>2. /\ call["consumer"].pc = "none"
      /\ HostBatch \in HostBatches /\ HostBatch \in Batches
  <2>1. /\ call["consumer"].pc = "none" /\ consumer.batch \in DOMAIN GpuBytes
        /\ consumer.op <= Len(Work)
    BY <1>1 DEF IInv, ConsumerCalls
  <2>2. QED
    BY <2>1, HostCursor, BatchKinds
<1>6. (consumer' = [consumer EXCEPT !.stage = "work", !.op = @ + 1] \/ At("submitting")) =>
        Fallen' = Fallen
  BY <1>1 DEF At, IsConsumer, Fallen
<1>3. CASE /\ SubmitTo("consumer", "host", HostBatch)
           /\ consumer' = [consumer EXCEPT !.stage = "work", !.op = @ + 1]
  <2>1. SubmitIs("host", HostBatch)
    BY <1>1, <1>2, <1>3, SubmitDoes
  <2>2. QueuesStay /\ call' = call
    BY <1>1, <2>1 DEF SubmitIs, QueuesStay
  <2>3. consumer'.stage = "work"
    BY <1>1, <1>3 DEF IsConsumer
  <2>4. \A b \in GpuBatches : state[b] = "failed" => state'[b] = "failed"
    BY <1>2, <2>1, BatchKinds DEF SubmitIs
  <2>5. Broken => Broken'
    BY <1>1, <2>2, <2>4, BrokenStays
  <2>6. QED
    BY <1>1, <1>3, <1>6, <2>2, <2>3, <2>5, ConsumerKnows
<1>4. CASE RefusedBy("consumer", "host", HostBatch) /\ At("submitting") /\ UNCHANGED merged
  <2>1. QueuesStay /\ state' = state
    BY <1>1, <1>4, QuietSteps, QuietStay DEF RefusedBy
  <2>2. consumer'.stage = "submitting" /\ HostBatch' = HostBatch
    BY <1>1, <1>4 DEF At, IsConsumer, HostBatch
  <2>3. /\ call'["task"] = call["task"] /\ call'["consumer"].pc = "refused"
        /\ call'["consumer"].batch = HostBatch
    <3>1. PICK c : /\ call' = [call EXCEPT !["consumer"] = c]
                   /\ c = [NoCall EXCEPT !.pc = "refused", !.pipe = "host", !.batch = HostBatch]
      BY <1>4 DEF RefusedBy
    <3>2. c.pc = "refused" /\ c.batch = HostBatch
      BY <3>1 DEF NoCall
    <3>3. QED
      BY <1>1, <3>1, <3>2 DEF Calls
  <2>4. Broken => Broken'
    BY <1>1, <1>2, <2>1, BrokenStays
  <2>5. QED
    BY <1>1, <1>4, <1>6, <2>1, <2>2, <2>3, <2>4, ConsumerKnows
<1>5. QED
  BY <1>3, <1>4 DEF HostSubmit

\* Takes a batch, or puts it aside.
LEMMA TakeKnows ==
  ASSUME IInv, Ends, Take
  PROVE  Ends'
<1>1. consumer.stage = "idle" /\ UNCHANGED <<queue, call, producer>>
  BY DEF Take
<1>2. call["consumer"].pc = "none" /\ QueuesStay
  BY <1>1 DEF IInv, ConsumerCalls, QueuesStay
<1>3. consumer'.stage \in {"idle", "work"} /\ Fallen' = Fallen
  BY <1>1 DEF Take, Fallen, IInv, Shapes, IsConsumer
<1>4. \A b \in GpuBatches : state[b] = "failed" => state'[b] = "failed"
  BY BatchKinds DEF Take, IInv, Shapes
<1>5. Broken => Broken'
  BY <1>1, <1>2, <1>4, BrokenStays
<1>6. QED
  BY <1>1, <1>2, <1>3, <1>5, ConsumerKnows

\* A batch that broke is not done.
LEMMA FenceKnows ==
  ASSUME IInv, Consumed, Ends, Fence, NEW b, AnswerIs("gpu", b)
  PROVE  Ends'
<1>1. /\ consumer.stage \in {"fence", "work"} /\ UNCHANGED <<queue, call, producer>>
      /\ IsConsumer(consumer)
  BY DEF Fence, IInv, Shapes
<1>2. call["consumer"].pc = "none" /\ QueuesStay /\ consumer'.stage = "idle" /\ Fallen' = Fallen
  BY <1>1 DEF IInv, ConsumerCalls, QueuesStay, Fence, At, IsConsumer, Fallen
<1>3. b = <<consumer.batch>> /\ b \in GpuBatches /\ b \in Batches /\ state[b] = "queued"
  BY <1>1, BatchKinds DEF IInv, Inboxes, AnswerIs, Of
<1>4. \A a \in GpuBatches : state[a] = "failed" => state'[a] = "failed"
  BY <1>3, BatchKinds DEF AnswerIs
<1>5. consumer.stage = "fence" => state'[b] = "failed"
  <2>1. consumer.stage = "fence" => consumer.failed
    BY DEF Consumed
  <2>2. PICK raises \in BOOLEAN :
          state' = [state EXCEPT ![<<consumer.batch>>] =
                      IF raises \/ consumer.failed THEN "failed" ELSE "done"]
    BY DEF Fence
  <2>3. state'[b] = IF raises \/ consumer.failed THEN "failed" ELSE "done"
    BY <1>3, <2>2 DEF IInv, Shapes
  <2>4. QED
    BY <2>1, <2>3
<1>6. Broken => Broken'
  BY <1>2, <1>3, <1>4, <1>5 DEF Broken
<1>7. QED
  BY <1>1, <1>2, <1>6, ConsumerKnows

\* A write of the host thread, or nothing at all.
LEMMA OthersKnow ==
  ASSUME IInv, Ends, UNCHANGED <<queue, call, producer, consumer>>,
         \A b \in GpuBatches : state'[b] = state[b]
  PROVE  Ends'
<1>1. QueuesStay
  BY DEF QueuesStay
<1>2. Broken => Broken'
  BY BrokenStays
<1>3. HostBatch' = HostBatch
  BY DEF HostBatch
<1>4. consumer'.stage = "submitting" => call'["consumer"].batch = HostBatch'
  BY <1>3 DEF Ends, HostKnows
<1>5. Fallen' = Fallen
  BY DEF Fallen
<1>6. QED
  BY <1>1, <1>2, <1>4, <1>5, ConsumerKnows

-----------------------------------------------------------------------------
(* The steps, and the theorem. *)

\* The consumer is not concerned.
LEMMA ConsumedAway ==
  ASSUME Consumed, consumer' = consumer, poisoned => poisoned',
         \A b \in HostBatches : state'[b] # "new" <=> state[b] # "new",
         \A b \in GpuBatches : state'[b] = "done" => state[b] = "done",
         ~poisoned' => producer'.batch - Len(inbox'["gpu"]) = producer.batch - Len(inbox["gpu"])
  PROVE  Consumed'
<1>1. /\ consumer'.batch = consumer.batch /\ consumer'.op = consumer.op
      /\ consumer'.stage = consumer.stage /\ consumer'.failed = consumer.failed
  OBVIOUS
<1>2. /\ consumer'.stage \notin {"idle", "fence"} => ~consumer'.failed
      /\ consumer'.stage = "fence" => consumer'.failed /\ poisoned'
  BY <1>1 DEF Consumed
<1>3. consumer'.stage = "idle" /\ ~poisoned' =>
        /\ consumer.stage = "idle" /\ ~poisoned
        /\ producer'.batch - Len(inbox'["gpu"]) = producer.batch - Len(inbox["gpu"])
  BY <1>1
<1>4. QED
  BY <1>1, <1>2, <1>3, ConsumedSame

Moving == InOrder /\ Produced /\ Consumed /\ Ends

LEMMA CallMoves ==
  ASSUME OInv, NEW t \in Threads, CallStep(t)
  PROVE  Moving'
<1>1. IInv /\ InOrder /\ Produced /\ Consumed /\ Ends
  BY DEF OInv
<1>2. UNCHANGED <<inbox, state, producer, consumer, poisoned>>
  BY DEF CallStep, Collect, SweepEnds, Admit, Finish
<1>3. Produced'
  BY <1>1, <1>2, ProducedSame
<1>4. Consumed'
  BY <1>1, <1>2, ConsumedAway
<1>5. InOrder'
  <2>1. CASE Collect(t)
    BY <1>1, <2>1, CollectKeepsOrder
  <2>2. CASE Finish(t)
    BY <1>1, <2>2, FinishKeepsOrder
  <2>3. CASE SweepEnds(t) \/ Admit(t)
    <3>1. Quiet
      BY <1>1, <2>3, QuietSteps
    <3>2. QED
      BY <1>1, <3>1, QuietKeepsOrder
  <2>4. QED
    BY <2>1, <2>2, <2>3 DEF CallStep
<1>6. Ends'
  BY <1>1, CollectKnows, FinishKnows, CallsKnow DEF CallStep
<1>7. QED
  BY <1>3, <1>4, <1>5, <1>6 DEF Moving

LEMMA TaskGoesOn ==
  ASSUME OInv, \/ TaskReserve \/ TaskReserved \/ TaskRefused \/ TaskDone \/ CloseGpu \/ CloseHost
               \/ TaskEnd \/ PolicyFails \/ TaskSubmit
  PROVE  Moving'
<1>1. IInv /\ InOrder /\ Produced /\ Consumed /\ Ends
  BY DEF OInv
<1>2. Ends'
  BY <1>1, TaskStepsKnow, PolicyKnows
<1>3. CASE \/ TaskReserve \/ TaskReserved \/ TaskRefused \/ TaskDone \/ CloseGpu \/ CloseHost
           \/ TaskEnd \/ PolicyFails
           \/ RefusedBy("task", "gpu", Batch) /\ producer' = [producer EXCEPT !.stage = "submitting"]
              /\ UNCHANGED <<consumer, poisoned, merged>>
  <2>1. Quiet
    BY <1>1, <1>3, QuietSteps
  <2>2. InOrder' /\ Produced'
    BY <1>1, <2>1, QuietKeepsOrder
  <2>3. consumer' = consumer /\ (poisoned => poisoned')
    <3>1. CASE TaskReserved \/ CloseHost \/ TaskEnd
      BY <3>1 DEF TaskReserved, CloseHost, TaskEnd
    <3>2. ASSUME \/ TaskReserve \/ TaskRefused \/ TaskDone \/ CloseGpu \/ PolicyFails
                 \/ UNCHANGED <<consumer, poisoned, merged>>
          PROVE  UNCHANGED <<consumer, poisoned>>
      BY <3>2 DEF TaskReserve, TaskRefused, TaskDone, CloseGpu, PolicyFails
    <3>3. QED
      BY <1>3, <3>1, <3>2
  <2>4. UNCHANGED <<inbox, state>> /\ producer'.batch = producer.batch
    BY <2>1 DEF Quiet
  <2>5. Consumed'
    BY <1>1, <2>3, <2>4, ConsumedAway
  <2>6. QED
    BY <1>2, <2>2, <2>5 DEF Moving
<1>4. CASE /\ SubmitTo("task", "gpu", Batch) /\ producer.stage = "policy"
           /\ producer' = [producer EXCEPT !.stage = "next", !.batch = @ + 1]
           /\ UNCHANGED <<consumer, poisoned, merged>>
  <2>1. producer.batch <= Len(GpuBytes) /\ "gpu" \in Pipes /\ producer.batch \in Nat
    BY <1>1, <1>4 DEF IInv, TaskCalls, Shapes, Pipes
  <2>2. NextOf("gpu", Batch) /\ Batch \in GpuBatches /\ Batch \in Batches /\ state[Batch] = "new"
    BY <1>1, <2>1, GpuCursor, BatchKinds DEF NextOf, Of
  <2>3. SubmitIs("gpu", Batch)
    BY <1>1, <1>4, <2>1, <2>2, SubmitDoes
  <2>4. producer'.batch = producer.batch + 1
    BY <1>1, <1>4 DEF IInv, Shapes, IsProducer
  <2>5. Produced' /\ Len(inbox'["gpu"]) = Len(inbox["gpu"]) + 1
    BY <1>1, <2>2, <2>3, <2>4, ProducedAdds
  <2>6. InOrder'
    BY <1>1, <1>4, <2>1, <2>2, <2>3, SubmitKeepsOrder
  <2>7. producer'.batch - Len(inbox'["gpu"]) = producer.batch - Len(inbox["gpu"])
    <3>1. Len(inbox["gpu"]) \in Nat
      BY <1>1, <2>1 DEF IInv, Shapes
    <3>2. QED
      BY <2>1, <2>4, <2>5, <3>1
  <2>8. /\ \A b \in HostBatches : state'[b] = state[b]
        /\ \A b \in GpuBatches : state'[b] = "done" => state[b] = "done"
    BY <2>2, <2>3, BatchKinds DEF SubmitIs
  <2>9. Consumed'
    BY <1>1, <1>4, <2>7, <2>8, ConsumedAway
  <2>10. QED
    BY <1>2, <2>5, <2>6, <2>9 DEF Moving
<1>5. QED
  BY <1>3, <1>4 DEF TaskSubmit

LEMMA ConsumerGoesOn ==
  ASSUME OInv, HostReserve \/ HostReserved \/ Encode \/ HostResized \/ HostRaised \/ ConsumeFails
               \/ HostSubmit
  PROVE  Moving'
<1>1. IInv /\ InOrder /\ Produced /\ Consumed /\ Ends /\ IsConsumer(consumer)
  BY DEF OInv, IInv, Shapes
<1>2. Ends'
  BY <1>1, ConsumerStepsKnow, HostSubmitKnows
<1>3. CASE \/ HostReserve \/ HostReserved \/ Encode \/ HostResized \/ HostRaised \/ ConsumeFails
           \/ RefusedBy("consumer", "host", HostBatch) /\ At("submitting")
              /\ UNCHANGED <<producer, poisoned, merged>> /\ consumer.stage = "submit"
  <2>1. Quiet
    BY <1>1, <1>3, QuietSteps
  <2>2. InOrder' /\ Produced'
    BY <1>1, <2>1, QuietKeepsOrder
  <2>3. UNCHANGED <<inbox, state>> /\ producer'.batch = producer.batch
    BY <2>1 DEF Quiet
  <2>4. consumer'.batch = consumer.batch /\ consumer'.op = consumer.op
    BY <1>1, <1>3 DEF HostReserve, HostReserved, Encode, HostResized, HostRaised, ConsumeFails,
                      Break, FallBack, At, IsConsumer
  <2>5. \/ consumer'.stage = "fence" /\ consumer'.failed /\ poisoned'
        \/ /\ consumer'.stage \notin {"idle", "fence"} /\ consumer.stage \notin {"idle", "fence"}
           /\ consumer'.failed = consumer.failed
    <3>1. CASE HostReserve \/ HostReserved \/ Encode \/ HostResized
      BY <1>1, <3>1 DEF HostReserve, HostReserved, Encode, HostResized, At, IsConsumer
    <3>2. CASE HostRaised \/ ConsumeFails
      BY <1>1, <3>2 DEF HostRaised, ConsumeFails, Break, FallBack, IsConsumer
    <3>3. CASE At("submitting") /\ consumer.stage = "submit"
      BY <1>1, <3>3 DEF At, IsConsumer
    <3>4. QED
      BY <1>3, <3>1, <3>2, <3>3
  <2>6. /\ consumer'.stage # "idle" /\ consumer'.stage \notin {"idle", "fence"} => ~consumer'.failed
    BY <1>1, <2>5 DEF Consumed
  <2>7. Consumed'
    BY <1>1, <2>3, <2>4, <2>5, <2>6, ConsumedSame
  <2>8. QED
    BY <1>2, <2>2, <2>7 DEF Moving
<1>4. CASE /\ SubmitTo("consumer", "host", HostBatch) /\ consumer.stage = "submit"
           /\ consumer' = [consumer EXCEPT !.stage = "work", !.op = @ + 1]
           /\ UNCHANGED <<producer, poisoned, merged>>
  <2>1. consumer.batch \in DOMAIN GpuBytes /\ consumer.op <= Len(Work) /\ "host" \in Pipes
    BY <1>1, <1>4 DEF IInv, ConsumerCalls, Pipes
  <2>2. NextOf("host", HostBatch) /\ HostBatch \in HostBatches /\ HostBatch \in Batches
    BY <1>1, <2>1, HostCursor, BatchKinds
  <2>3. SubmitIs("host", HostBatch)
    BY <1>1, <1>4, <2>1, <2>2, SubmitDoes
  <2>4. InOrder'
    BY <1>1, <1>4, <2>1, <2>2, <2>3, SubmitKeepsOrder
  <2>5. Consumed'
    BY <1>1, <1>4, <2>1, <2>2, <2>3, ConsumedAdds
  <2>6. inbox'["gpu"] = inbox["gpu"] /\ \A b \in GpuBatches : state'[b] = state[b]
    BY <2>2, <2>3, BatchKinds DEF SubmitIs, Pipes
  <2>7. Produced'
    BY <1>1, <1>4, <2>6, ProducedSame
  <2>8. QED
    BY <1>2, <2>4, <2>5, <2>7 DEF Moving
<1>5. QED
  BY <1>3, <1>4 DEF HostSubmit

\* Images that the consumer writes itself pass the host queue by.
LEMMA ImagesGoOn ==
  ASSUME OInv, WriteImages
  PROVE  Moving'
<1>1. IInv /\ InOrder /\ Produced /\ Consumed /\ Ends /\ IsConsumer(consumer)
      /\ "gpu" \in Pipes /\ "host" \in Pipes /\ Pipes = {"gpu", "host"}
  BY DEF OInv, IInv, Shapes, Pipes
<1>2. /\ consumer.stage = "work" /\ consumer.op <= Len(Work)
      /\ UNCHANGED <<queue, inbox, call, producer, poisoned, merged>>
      /\ state' = [state EXCEPT ![HostBatch] = "done"]
      /\ consumer' = [consumer EXCEPT !.op = @ + 1]
  BY DEF WriteImages, WithoutEncoder, Images
<1>3. consumer.batch \in DOMAIN GpuBytes
  BY <1>1, <1>2 DEF IInv, ConsumerCalls
<1>4. PICK h \in HostBatches : h = HostBatch /\ h[1] = consumer.batch /\ h[2] = consumer.op
                                /\ state[h] = "new"
  <2>1. HostBatch[1] = consumer.batch /\ HostBatch[2] = consumer.op
    BY DEF HostBatch
  <2>2. QED
    BY <1>1, <1>2, <1>3, <2>1, HostCursor
<1>5. /\ state'[h] = "done" /\ h \in Batches /\ h \notin GpuBatches
      /\ \A b \in HostBatches \ {h} : state'[b] = state[b]
      /\ \A b \in GpuBatches : state'[b] = state[b]
  BY <1>1, <1>2, <1>4, BatchKinds DEF IInv, Shapes
<1>6. /\ consumer'.stage = "work" /\ consumer'.batch = consumer.batch
      /\ consumer'.op = consumer.op + 1 /\ consumer'.failed = consumer.failed
  BY <1>1, <1>2 DEF IsConsumer
<1>7. InOrder'
  <2>1. Keeps("gpu") /\ Of("gpu") = GpuBatches /\ Of("host") = HostBatches
    BY <1>2, <1>5 DEF Keeps, Of
  <2>2. OrderOf("gpu")' /\ ErrorsOf("gpu")' /\ Merges'
    <3>1. Downward("gpu") /\ OrderOf("gpu") /\ ErrorsOf("gpu") /\ Merges
      BY <1>1, GpuCursor DEF InOrder
    <3>2. MergesStep
      BY <1>2, <2>1 DEF MergesStep
    <3>3. QED
      BY <1>1, <2>1, <3>1, <3>2, OrderKept, ErrorsKept, MergesKept
  <2>3. OrderOf("host")'
    BY <1>1, <1>2 DEF InOrder, OrderOf, Sorted
  <2>4. ErrorsOf("host")'
    <3>1. \A a \in Past("host")' : a \in Past("host") \/ a = h
      BY <1>2, <1>5, <2>1 DEF Past, Known, Waits
    <3>2. ErrorsOf("host")
      BY <1>1 DEF InOrder
    <3>3. queue'["host"].error = NoError => \A a \in Past("host")' : state'[a] = "done"
      BY <1>2, <1>5, <2>1, <3>1, <3>2 DEF ErrorsOf, Past, Known
    <3>4. queue'["host"].error # NoError =>
            /\ queue'["host"].error \in HostBatches
            /\ \A a \in HostBatches : Before(a, queue'["host"].error) => state'[a] = "done"
      BY <1>2, <1>5, <2>1, <3>2 DEF ErrorsOf
    <3>5. QED
      BY <2>1, <3>3, <3>4 DEF ErrorsOf, Of
  <2>5. QED
    BY <1>1, <2>2, <2>3, <2>4 DEF InOrder
<1>8. Produced'
  BY <1>1, <1>2, <1>5, ProducedSame
<1>9. Consumed'
  <2>1. consumer.op \in Nat /\ consumer.batch \in Nat /\ Len(Work) \in Nat /\ Work' = Work
    BY <1>1, <1>3, <1>6, BatchKinds DEF IInv, Shapes, Consumed, Work
  <2>2. ASSUME NEW b \in HostBatches
        PROVE  state'[b] # "new" <=>
                 b[1] < consumer'.batch \/ (b[1] = consumer'.batch /\ b[2] < consumer'.op)
    <3>1. CASE b = h
      BY <1>4, <1>5, <1>6, <2>1, <3>1
    <3>2. CASE b # h
      <4>1. /\ b[1] \in Nat /\ b[2] \in Nat /\ state'[b] = state[b]
            /\ b[1] # consumer.batch \/ b[2] # consumer.op
        BY <1>4, <1>5, <3>2, BatchKinds, BeforeFacts
      <4>2. state[b] # "new" <=>
              b[1] < consumer.batch \/ (b[1] = consumer.batch /\ b[2] < consumer.op)
        BY <1>1 DEF Consumed
      <4>3. QED
        BY <1>6, <2>1, <4>1, <4>2
    <3>3. QED
      BY <3>1, <3>2
  <2>3. ASSUME NEW b \in GpuBatches, state'[b] = "done"
        PROVE  b[1] < consumer'.batch \/ (b[1] = consumer'.batch /\ consumer'.op > Len(Work'))
    <3>1. state[b] = "done"
      BY <1>5, <2>3
    <3>2. QED
      BY <1>1, <1>6, <2>1, <3>1 DEF Consumed
  <2>4. ~consumer'.failed
    BY <1>1, <1>2, <1>6 DEF Consumed
  <2>5. QED
    BY <1>6, <2>1, <2>2, <2>3, <2>4 DEF Consumed
<1>10. Ends'
  BY <1>1, ConsumerStepsKnow
<1>11. QED
  BY <1>7, <1>8, <1>9, <1>10 DEF Moving

LEMMA TakeGoesOn ==
  ASSUME OInv, Take
  PROVE  Moving'
<1>1. IInv /\ InOrder /\ Produced /\ Consumed /\ Ends /\ "gpu" \in Pipes
  BY DEF OInv, Pipes
<1>2. Ends'
  BY <1>1, TakeKnows
<1>3. CASE ~poisoned
  <2>1. InOrder' /\ Produced'
    BY <1>1, <1>3, QuietSteps, QuietKeepsOrder
  <2>2. QED
    BY <1>1, <1>2, <1>3, <2>1, ConsumedTakes DEF Moving
<1>4. CASE poisoned
  <2>1. Answers("gpu") /\ UNCHANGED <<consumer, poisoned, merged>>
    <3>1. \E answer \in {"done", "failed"} : state' = [state EXCEPT ![Head(inbox["gpu"])] = answer]
      BY <1>4 DEF Take
    <3>2. QED
      BY <1>4, <3>1 DEF Take, Answers
  <2>2. PICK b : AnswerIs("gpu", b)
    BY <1>1, <2>1, AnswerDoes
  <2>3. InOrder'
    BY <1>1, <2>1, <2>2, AnswerKeepsOrder
  <2>4. Produced'
    BY <1>1, <2>2, ProducedAnswers
  <2>5. state'[b] = "failed"
    BY <1>4, <2>2, BatchKinds DEF Take, AnswerIs, IInv, OInv, Shapes, Of
  <2>6. /\ \A a \in HostBatches : state'[a] = state[a]
        /\ \A a \in GpuBatches : state'[a] = "done" => state[a] = "done"
    BY <2>2, <2>5, BatchKinds DEF AnswerIs, Of
  <2>7. Consumed'
    BY <1>1, <1>4, <2>1, <2>6, ConsumedAway
  <2>8. QED
    BY <1>2, <2>3, <2>4, <2>7 DEF Moving
<1>5. QED
  BY <1>3, <1>4

LEMMA FenceGoesOn ==
  ASSUME OInv, Fence
  PROVE  Moving'
<1>1. IInv /\ InOrder /\ Produced /\ Consumed /\ Ends /\ "gpu" \in Pipes
  BY DEF OInv, Pipes
<1>2. Answers("gpu") /\ UNCHANGED merged
  <2>1. inbox["gpu"] # <<>> /\ Head(inbox["gpu"]) = <<consumer.batch>>
    BY <1>1 DEF IInv, Inboxes, Fence
  <2>2. \E answer \in {"done", "failed"} : state' = [state EXCEPT ![<<consumer.batch>>] = answer]
    BY DEF Fence
  <2>3. QED
    BY <2>1, <2>2 DEF Fence, Answers
<1>3. PICK b : AnswerIs("gpu", b)
  BY <1>1, <1>2, AnswerDoes
<1>4. InOrder'
  BY <1>1, <1>2, <1>3, AnswerKeepsOrder
<1>5. Produced'
  BY <1>1, <1>3, ProducedAnswers
<1>6. Consumed' /\ Ends'
  BY <1>1, <1>3, ConsumedFences, FenceKnows
<1>7. QED
  BY <1>4, <1>5, <1>6 DEF Moving

LEMMA WriteGoesOn ==
  ASSUME OInv, Write
  PROVE  Moving'
<1>1. IInv /\ InOrder /\ Produced /\ Consumed /\ Ends /\ "host" \in Pipes
  BY DEF OInv, Pipes
<1>2. Answers("host") /\ UNCHANGED <<queue, call, producer, consumer, poisoned, merged>>
  <2>1. \E answer \in {"done", "failed"} : state' = [state EXCEPT ![Head(inbox["host"])] = answer]
    BY DEF Write
  <2>2. QED
    BY <2>1 DEF Write, Answers
<1>3. PICK b : AnswerIs("host", b)
  BY <1>1, <1>2, AnswerDoes
<1>4. InOrder'
  BY <1>1, <1>2, <1>3, AnswerKeepsOrder
<1>5. b \in HostBatches /\ state[b] = "queued" /\ state'[b] # "new" /\ inbox'["gpu"] = inbox["gpu"]
      /\ \A a \in Batches \ {b} : state'[a] = state[a]
  BY <1>3 DEF AnswerIs, Of, Pipes
<1>6. /\ \A a \in GpuBatches : state'[a] = state[a]
      /\ \A a \in HostBatches : state'[a] # "new" <=> state[a] # "new"
  BY <1>5, BatchKinds
<1>7. Produced'
  BY <1>1, <1>2, <1>5, <1>6, ProducedSame
<1>8. Consumed'
  BY <1>1, <1>2, <1>5, <1>6, ConsumedAway
<1>9. Ends'
  BY <1>1, <1>2, <1>6, OthersKnow
<1>10. QED
  BY <1>4, <1>7, <1>8, <1>9 DEF Moving

LEMMA OInvKept ==
  ASSUME OInv, [Next]_vars
  PROVE  OInv'
<1>1. IInv'
  BY IInvKept DEF OInv
<1>2. "task" \in Threads /\ "consumer" \in Threads
  BY DEF Threads
<1>3. ASSUME TaskStep PROVE Moving'
  BY <1>2, <1>3, CallMoves, TaskGoesOn DEF TaskStep
<1>4. ASSUME ConsumerStep PROVE Moving'
  BY <1>2, <1>4, CallMoves, ConsumerGoesOn, ImagesGoOn, TakeGoesOn, FenceGoesOn DEF ConsumerStep
<1>5. ASSUME Write PROVE Moving'
  BY <1>5, WriteGoesOn
<1>6. ASSUME UNCHANGED vars PROVE Moving'
  <2>1. IInv /\ InOrder /\ Produced /\ Consumed /\ Ends
    BY DEF OInv
  <2>2. UNCHANGED <<queue, inbox, state, call, producer, consumer, poisoned>>
    BY <1>6 DEF vars
  <2>3. InOrder' /\ Produced'
    BY <1>6, <2>1, QuietSteps, QuietKeepsOrder
  <2>4. Consumed'
    BY <2>1, <2>2, ConsumedAway
  <2>5. Ends'
    BY <2>1, <2>2, OthersKnow
  <2>6. QED
    BY <2>3, <2>4, <2>5 DEF Moving
<1>7. Moving'
  BY <1>3, <1>4, <1>5, <1>6 DEF Next, Stopped
<1>8. QED
  BY <1>1, <1>7 DEF OInv, Moving

LEMMA InitOInv == Init => OInv
<1> SUFFICES ASSUME Init PROVE OInv
  OBVIOUS
<1>1. IInv
  BY InitIInv
<1>2. /\ \A p \in Pipes : /\ queue[p].pending = <<>> /\ queue[p].error = NoError
                          /\ queue[p].closed = FALSE
      /\ "gpu" \in Pipes /\ "host" \in Pipes /\ inbox["gpu"] = <<>>
  BY DEF Init, NewQueue, Pipes
<1>3. /\ \A b \in Batches : state[b] = "new"
      /\ merged = <<>> /\ poisoned = FALSE
      /\ producer.stage = "next" /\ producer.batch = 1
      /\ consumer.stage = "idle" /\ consumer.batch = 0 /\ consumer.op = 1 /\ ~consumer.failed
  <2>1. PICK c \in Codecs :
          consumer = [stage |-> "idle", batch |-> 0, op |-> 1, failed |-> FALSE, codec |-> c]
    BY DEF Init
  <2>2. consumer.stage = "idle" /\ consumer.batch = 0 /\ consumer.op = 1 /\ ~consumer.failed
    BY <2>1
  <2>3. QED
    BY <2>2 DEF Init
<1>4. \A t \in Threads : call[t].pc = "none"
  BY DEF Init, NoCall, Threads
<1>5. /\ \A b \in GpuBatches : b \in Batches /\ b[1] \in Nat /\ ~(b[1] < 1)
      /\ \A b \in HostBatches : b \in Batches /\ b[1] \in Nat /\ ~(b[1] < 0) /\ b[2] \in Nat
                                /\ ~(b[2] < 1)
  <2>1. \A b \in GpuBatches : b \in Batches /\ b[1] \in 1 .. Len(GpuBytes)
    BY BatchKinds
  <2>2. \A b \in HostBatches : /\ b \in Batches /\ b[1] \in 1 .. Len(GpuBytes)
                               /\ b[2] \in 1 .. Len(HostWork[b[1]])
    BY BatchKinds
  <2>3. QED
    BY <2>1, <2>2, BatchKinds
<1>6. \A p \in Pipes : Known(p) = {} /\ Past(p) = {} /\ Waits(p) = {}
  BY <1>2, <1>3, <1>5 DEF Known, Past, Waits, Of, Range
<1>7. InOrder
  <2>1. \A p \in Pipes : OrderOf(p) /\ ErrorsOf(p)
    BY <1>2, <1>6 DEF OrderOf, ErrorsOf, Sorted
  <2>2. merged \in Seq(GpuBatches) /\ Range(merged) = {} /\ Sorted(merged)
    BY <1>3 DEF Range, Sorted
  <2>3. Merges
    BY <1>2, <1>6, <2>2 DEF Merges
  <2>4. QED
    BY <2>1, <2>3 DEF InOrder
<1>8. Produced
  BY <1>2, <1>3, <1>5 DEF Produced
<1>9. Consumed
  <2>1. Len(inbox["gpu"]) = 0
    BY <1>2
  <2>2. \A b \in HostBatches :
          ~(b[1] < consumer.batch) /\ ~(b[1] = consumer.batch /\ b[2] < consumer.op)
    BY <1>3, <1>5
  <2>3. QED
    BY <1>3, <1>5, <2>1, <2>2 DEF Consumed
<1>10. Ends
  BY <1>2, <1>3, <1>4 DEF Ends, TaskKnows, HostKnows, Drains, Threads
<1>11. QED
  BY <1>1, <1>7, <1>8, <1>9, <1>10 DEF OInv

\* A GPU batch that is done is gone once it has been collected.
LEMMA DoneIsGone ==
  ASSUME IInv, Produced, NEW b \in GpuBatches, state[b] = "done"
  PROVE  Gone(b) <=> b \notin Waits("gpu")
<1>1. "gpu" \in Pipes /\ "host" \in Pipes /\ Pipes = {"gpu", "host"}
  BY DEF Pipes
<1>2. \A p \in Pipes : Held(p) = Waits(p) \union queue[p].reserved
  BY DEF Held, Waits, ToSet, Range
<1>3. b \notin Held("host")
  <2>1. Content(queue["host"]) \subseteq HostBatches
    BY DEF IInv, Contents
  <2>2. QED
    BY <1>1, <1>2, <2>1, BatchKinds DEF Content, Waits
<1>4. b \notin queue["gpu"].reserved
  <2>1. SUFFICES ASSUME b \in queue["gpu"].reserved PROVE FALSE
    OBVIOUS
  <2>2. b = Batch /\ producer.batch <= Len(GpuBytes)
    BY <2>1 DEF IInv, TaskCalls
  <2>3. QED
    BY <2>2, GpuCursor
<1>5. QED
  BY <1>1, <1>2, <1>3, <1>4 DEF Gone, Settled

\* A task that succeeds has published every GPU batch, and, if its consumer kept its encoder,
\* everything.
LEMMA AllDone ==
  ASSUME OInv, producer.stage = "ended", ~producer.failed
  PROVE  /\ \A b \in GpuBatches : state[b] = "done" /\ Gone(b)
         /\ ~Fallen => \A b \in Batches : state[b] = "done" /\ Gone(b)
<1>1. IInv /\ InOrder /\ Produced /\ Consumed /\ HostKnows /\ TaskKnows
      /\ "gpu" \in Pipes /\ "host" \in Pipes /\ Pipes = {"gpu", "host"}
  BY DEF OInv, Ends, Pipes
<1>2. /\ producer.batch > Len(GpuBytes)
      /\ queue["gpu"].error = NoError /\ (Fallen \/ queue["host"].error = NoError)
  BY <1>1 DEF TaskKnows
<1>3. Emptied("gpu") /\ Emptied("host")
  BY <1>1 DEF IInv, Endings
<1>4. \A p \in Pipes : Waits(p) = {} /\ Held(p) = {}
  <2>1. SUFFICES ASSUME NEW p \in Pipes PROVE Waits(p) = {} /\ Held(p) = {}
    OBVIOUS
  <2>2. queue[p].pending = <<>> /\ queue[p].reserved = {}
    BY <1>1, <1>3, QueueFacts DEF IInv, Emptied
  <2>3. QED
    BY <2>2 DEF Waits, Held, ToSet, Range
<1>5. \A a \in GpuBatches : state[a] = "done"
  BY <1>1, <1>2, <1>3, HostIsOpen DEF Delivered
<1>6. ASSUME ~Fallen, NEW a \in HostBatches PROVE state[a] = "done"
  <2>1. /\ Len(GpuBytes) \in Nat /\ a[1] \in 1 .. Len(GpuBytes) /\ consumer.batch \in Nat
        /\ a[2] \in 1 .. Len(HostWork[a[1]]) /\ Len(HostWork[a[1]]) \in Nat
        /\ consumer.op \in Nat
    BY <1>1, BatchKinds DEF IInv, Shapes, Consumed
  <2>2. PICK n \in 1 .. Len(GpuBytes) : n = Len(GpuBytes)
    BY <2>1
  <2>3. PICK l : l = <<n>> /\ l \in GpuBatches
    BY <2>2, BatchKinds
  <2>4. n < consumer.batch \/ (n = consumer.batch /\ consumer.op > Len(Work))
    <3>1. l[1] = n /\ state[l] = "done"
      BY <1>5, <2>3
    <3>2. QED
      BY <1>1, <2>3, <3>1 DEF Consumed
  <2>5. a[1] < consumer.batch \/ (a[1] = consumer.batch /\ a[2] < consumer.op)
    <3>1. CASE n < consumer.batch
      BY <2>1, <2>2, <3>1
    <3>2. CASE n = consumer.batch /\ consumer.op > Len(Work)
      <4>1. a[1] = n => Len(Work) = Len(HostWork[a[1]])
        BY <3>2 DEF Work
      <4>2. QED
        BY <2>1, <2>2, <3>2, <4>1
    <3>3. QED
      BY <2>4, <3>1, <3>2
  <2>6. a \in Past("host")
    BY <1>1, <1>4, <2>5 DEF Consumed, Past, Known, Of
  <2>7. QED
    BY <1>1, <1>2, <1>6, <2>6 DEF InOrder, ErrorsOf
<1>7. ~Fallen => \A b \in Batches : state[b] = "done"
  BY <1>5, <1>6, BatchKinds
<1>8. QED
  BY <1>4, <1>5, <1>7 DEF Gone, Settled

LEMMA OutcomeFollows == OInv => OutcomeIsTrue
<1> SUFFICES ASSUME OInv PROVE OutcomeIsTrue
  OBVIOUS
<1>1. IInv /\ InOrder /\ Produced /\ Merges
      /\ "gpu" \in Pipes /\ "host" \in Pipes /\ Pipes = {"gpu", "host"}
      /\ \A p \in Pipes : ErrorsOf(p)
  BY DEF OInv, InOrder, Pipes
<1>2. ASSUME NEW b \in Batches, NEW p, p = IF b \in GpuBatches THEN "gpu" ELSE "host"
      PROVE  /\ Gone(b) /\ state[b] = "failed" => queue[p].error # NoError
             /\ queue[p].error = b => \A a \in Batches : Before(a, b) => state[a] = "done"
  <2>1. b \in Of(p) /\ p \in Pipes /\ b # NoError
    BY <1>1, <1>2, BatchKinds, BeforeFacts DEF Of
  <2>2. ASSUME Gone(b), state[b] = "failed" PROVE queue[p].error # NoError
    <3>1. b \notin Waits(p)
      BY <2>1, <2>2 DEF Gone, Held, Waits, ToSet, Range
    <3>2. b \in Past(p)
      BY <2>1, <2>2, <3>1 DEF Past, Known
    <3>3. QED
      BY <1>1, <2>1, <2>2, <3>2 DEF ErrorsOf
  <2>3. ASSUME queue[p].error = b, NEW a \in Batches, Before(a, b) PROVE state[a] = "done"
    <3>1. a \in Of(p)
      BY <1>2, <2>3, BatchKinds, BeforeFacts DEF Of
    <3>2. QED
      BY <1>1, <2>1, <2>3, <3>1 DEF ErrorsOf
  <2>4. QED
    BY <2>2, <2>3
<1>3. ToSet(merged) = {b \in GpuBatches : state[b] = "done" /\ Gone(b)}
  <2>1. ToSet(merged) = Range(merged)
    BY DEF ToSet, Range
  <2>2. ASSUME NEW b \in GpuBatches, state[b] = "done" PROVE b \in Past("gpu") <=> Gone(b)
    BY <1>1, <2>2, DoneIsGone DEF Past, Known, Of
  <2>3. \A b \in Range(merged) : b \in GpuBatches
    BY <1>1 DEF Merges, Range
  <2>4. QED
    BY <1>1, <2>1, <2>2, <2>3 DEF Merges
<1>4. \A i, j \in DOMAIN merged : i < j => Before(merged[i], merged[j])
  BY <1>1 DEF Merges, Sorted
<1>5. producer.stage = "ended" /\ ~producer.failed =>
        \A b \in IF consumer.codec = "fallen" THEN GpuBatches ELSE Batches :
          state[b] = "done" /\ Gone(b)
  BY AllDone DEF Fallen
<1>6. QED
  BY <1>2, <1>3, <1>4, <1>5 DEF OutcomeIsTrue

\* A task that succeeds has published every GPU batch, and every host batch too unless its
\* encoder fell back on the way; the results counted are, also in a failed one, those of the
\* batches done and collected, each once and in order; every batch before the one whose error
\* a queue keeps was done, and no failed batch is collected without an error (_collect_one,
\* _remember_error, merge_published, the closes of GpuPublicationTask).
THEOREM OutcomeStaysTrue == Spec => []OutcomeIsTrue
<1>1. Spec => []OInv
  <2>1. Init => OInv
    BY InitOInv
  <2>2. OInv /\ [Next]_vars => OInv'
    BY OInvKept
  <2>3. QED
    BY <2>1, <2>2, PTL DEF Spec
<1>2. QED
  BY <1>1, OutcomeFollows, PTL
=============================================================================
