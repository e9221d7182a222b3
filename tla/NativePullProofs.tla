-------------------------- MODULE NativePullProofs --------------------------
(***************************************************************************)
(* What NativePullScheduler keeps for any lanes, planes, windows and       *)
(* workers: the books of the pool, no stranded work, fair shares before    *)
(* lending, and closes that harm nobody.  A critical section is a function *)
(* of the pool, so each of them gets a lemma: the books survive it, and a  *)
(* dispatch, which takes one turn after the other, ends with nothing left  *)
(* to grant.  The refused tasks that ran nevertheless (strays) are what    *)
(* the permit counters are short by; in the books they are a parameter d.  *)
(***************************************************************************)
EXTENDS NativePullScheduler, DataProofs

Kinds == {"none", "pending", "running", "done", "failed", "cancelled"}

\* A lane record, and a pool record, with the types of their fields.
LaneShape(r, l) ==
  /\ r = [pending |-> r.pending, futures |-> r.futures, next |-> r.next,
          running |-> r.running, retained |-> r.retained, queued |-> r.queued,
          stopped |-> r.stopped, owns |-> r.owns]
  /\ r.pending \in Seq(Planes(l)) /\ r.futures \subseteq Planes(l)
  /\ r.next \in 0..Count[l] /\ r.running \in Int /\ r.retained \in Nat
  /\ r.queued \in BOOLEAN /\ r.stopped \in BOOLEAN /\ r.owns \in BOOLEAN

PromiseShape(p, l) == p = [i \in Planes(l) |-> p[i]] /\ \A i \in Planes(l) : p[i] \in Kinds

Shaped(s) ==
  /\ s = [workers |-> s.workers, active |-> s.active, retained |-> s.retained,
          state |-> s.state, cancelled |-> s.cancelled, admitted |-> s.admitted,
          ready |-> s.ready, tasks |-> s.tasks, lane |-> s.lane, promise |-> s.promise]
  /\ s.workers \in 1..MaxWorkers /\ s.active \in Int /\ s.retained \in Nat
  /\ s.state \in {"open", "joining", "closed"} /\ s.cancelled \in BOOLEAN
  /\ s.admitted \subseteq Lanes /\ s.ready \in Seq(Lanes)
  /\ s.tasks \subseteq UNION {{l} \X Planes(l) : l \in Lanes}
  /\ s.lane = [l \in Lanes |-> s.lane[l]] /\ s.promise = [l \in Lanes |-> s.promise[l]]
  /\ \A l \in Lanes : LaneShape(s.lane[l], l) /\ PromiseShape(s.promise[l], l)

\* The planes of a lane that run, and those granted and not yet consumed.
RunningIn(p, l) == {i \in Planes(l) : p[i] = "running"}
GrantedIn(r, p) == {i \in r.futures : p[i] \in {"running", "done", "failed"}}

\* The books of one lane: r its record, p its promises, in the pool if admitted, n the
\* refused tasks of it that ran.
LaneBooks(r, p, l, admitted, n) ==
  /\ \A i \in r.futures : i < r.next
  /\ Cardinality(r.futures) <= Window[l]
  /\ IsInjective(r.pending)
  /\ \A i \in Planes(l) : /\ p[i] = "none" \/ i < r.next
                          /\ p[i] = "pending" <=> i \in Range(r.pending)
                          /\ p[i] = "pending" \/ (p[i] = "running" /\ admitted) => i \in r.futures
  /\ r.running = Cardinality(RunningIn(p, l)) - n
  /\ r.retained = Cardinality(GrantedIn(r, p))
  /\ r.stopped => r.pending = <<>>
  /\ admitted \/ (r.futures = {} /\ r.running <= 0)
  /\ admitted => r.owns

RetainedOf(s) == [l \in Lanes |-> s.lane[l].retained]

\* The books of the pool.
Books(s, d) ==
  /\ Shaped(s) /\ d \in [Lanes -> Nat]
  /\ IsFiniteSet(s.tasks) /\ s.active = Cardinality(s.tasks) - Total(d, Lanes)
  /\ s.retained = Total(RetainedOf(s), Lanes)
  /\ \A l \in Lanes : /\ LaneBooks(s.lane[l], s.promise[l], l, l \in s.admitted, d[l])
                      /\ \A i \in Planes(l) : <<l, i>> \in s.tasks <=> s.promise[l][i] = "running"

\* The dispatcher is at work.
Going(s) == s.state = "open" /\ ~s.cancelled

\* The ready queue of a pool at work holds each lane with a pending plane, once.
Queued(s) ==
  Going(s) =>
    /\ IsInjective(s.ready)
    /\ \A l \in Lanes : /\ s.lane[l].queued <=> l \in Range(s.ready)
                        /\ s.lane[l].pending # <<>> => s.lane[l].queued

\* A pool that stopped admitting has stopped its lanes, a closed one has let them go.
Closings(s) ==
  /\ s.state # "open" => s.cancelled
  /\ s.cancelled => \A l \in s.admitted : s.lane[l].stopped
  /\ s.state = "closed" => s.admitted = {}

Sound(s, d) == Books(s, d) /\ Queued(s) /\ Closings(s)

\* Nothing is left to grant.
Busy(s) == Going(s) => \A l \in Lanes : s.lane[l].pending # <<>> => Cardinality(s.tasks) >= s.workers

-----------------------------------------------------------------------------
(* Sequences of turns. *)

\* A nonempty set of naturals up to n has a least element.
LEMMA LeastUpTo ==
  ASSUME NEW n \in Nat, NEW C \in SUBSET (0..n), C # {}
  PROVE  \E x \in C : \A y \in C : x <= y
<1>1. IsFiniteSet(0..n)
  BY FS_Interval
<1>2. IsFiniteSet(C)
  BY <1>1, FS_Subset
<1>3. \A x \in C : x \in Int
  OBVIOUS
<1>4. QED
  BY <1>2, <1>3, Least

\* f passes over the ready lanes before position k, up to position n.
Passes(f, s, k, n) ==
  /\ f[0] = SubSeq(s.ready, k + 1, Len(s.ready))
  /\ \A j \in 1..n : f[j] = IF Live(s, s.ready[j]) THEN Append(f[j - 1], s.ready[j]) ELSE f[j - 1]

\* The recursion of Rotated has a solution.
LEMMA PassesExist ==
  ASSUME NEW s, NEW k, NEW n \in Nat
  PROVE  \E f : Passes(f, s, k, n)
<1> DEFINE C == {j \in 0..n : ~ \E f : Passes(f, s, k, j)}
<1>1. SUFFICES ASSUME C # {} PROVE FALSE
  <2>1. n \in 0..n
    OBVIOUS
  <2>2. QED
    BY <2>1
<1>2. PICK j \in C : \A y \in C : j <= y
  <2>1. C \in SUBSET (0..n)
    OBVIOUS
  <2> HIDE DEF C
  <2>2. QED
    BY <1>1, <2>1, LeastUpTo
<1>3. CASE j = 0
  <2> DEFINE first == SubSeq(s.ready, k + 1, Len(s.ready))
  <2> HIDE DEF first
  <2> DEFINE f == [i \in {0} |-> first]
  <2>1. f[0] = first /\ 1..0 = {}
    OBVIOUS
  <2> HIDE DEF f
  <2>2. Passes(f, s, k, 0)
    BY <2>1 DEF Passes, first
  <2>3. QED
    BY <1>2, <1>3, <2>2
<1>4. CASE j # 0
  <2>1. j \in 1..n /\ j - 1 \in 0..n /\ ~(j <= j - 1)
    BY <1>2, <1>4
  <2>2. PICK f : Passes(f, s, k, j - 1)
    BY <1>2, <2>1
  <2> DEFINE last == IF Live(s, s.ready[j]) THEN Append(f[j - 1], s.ready[j]) ELSE f[j - 1]
             h == [i \in 0..j |-> IF i = j THEN last ELSE f[i]]
  <2>3. h[0] = SubSeq(s.ready, k + 1, Len(s.ready)) /\ h[j] = last
    BY <2>1, <2>2 DEF Passes
  <2>4. \A i \in 0..(j - 1) : h[i] = f[i]
    BY <2>1
  <2> HIDE DEF h
  <2>5. \A i \in 1..j : h[i] = IF Live(s, s.ready[i]) THEN Append(h[i - 1], s.ready[i]) ELSE h[i - 1]
    <3> SUFFICES ASSUME NEW i \in 1..j
                 PROVE  h[i] = IF Live(s, s.ready[i]) THEN Append(h[i - 1], s.ready[i]) ELSE h[i - 1]
      OBVIOUS
    <3>1. i - 1 \in 0..(j - 1)
      BY <2>1
    <3>2. CASE i = j
      BY <2>3, <2>4, <3>1, <3>2
    <3>3. CASE i # j
      <4>1. i \in 1..(j - 1) /\ i \in 0..(j - 1)
        BY <2>1, <3>3
      <4>2. QED
        BY <2>2, <2>4, <3>1, <4>1 DEF Passes
    <3>4. QED
      BY <3>2, <3>3
  <2>6. Passes(h, s, k, j)
    BY <2>3, <2>5 DEF Passes
  <2>7. QED
    BY <1>2, <2>6
<1>5. QED
  BY <1>3, <1>4

\* Rotated is what such a pass ends with.
LEMMA RotatedPasses ==
  ASSUME NEW s, NEW k \in Nat \ {0}
  PROVE  \E f : Passes(f, s, k, k - 1) /\ Rotated(s, k) = f[k - 1]
<1> DEFINE passed == CHOOSE f : f = [j \in 0..(k - 1) |->
                 IF j = 0 THEN SubSeq(s.ready, k + 1, Len(s.ready))
                 ELSE IF Live(s, s.ready[j]) THEN Append(f[j - 1], s.ready[j]) ELSE f[j - 1]]
<1>1. Rotated(s, k) = passed[k - 1]
  BY DEF Rotated
<1>2. PICK g : Passes(g, s, k, k - 1)
  BY PassesExist
<1> DEFINE h == [j \in 0..(k - 1) |-> g[j]]
<1>3. \A j \in 0..(k - 1) : h[j] = IF j = 0 THEN SubSeq(s.ready, k + 1, Len(s.ready))
                                   ELSE IF Live(s, s.ready[j]) THEN Append(h[j - 1], s.ready[j]) ELSE h[j - 1]
  <2> SUFFICES ASSUME NEW j \in 0..(k - 1)
               PROVE  h[j] = IF j = 0 THEN SubSeq(s.ready, k + 1, Len(s.ready))
                             ELSE IF Live(s, s.ready[j]) THEN Append(h[j - 1], s.ready[j]) ELSE h[j - 1]
    OBVIOUS
  <2>1. CASE j = 0
    BY <1>2, <2>1 DEF Passes
  <2>2. CASE j # 0
    <3>1. j \in 1..(k - 1) /\ j - 1 \in 0..(k - 1)
      BY <2>2
    <3>2. QED
      BY <1>2, <2>2, <3>1 DEF Passes
  <2>3. QED
    BY <2>1, <2>2
<1>4. h = [j \in 0..(k - 1) |-> h[j]]
  OBVIOUS
<1> HIDE DEF h
<1>5. h = [j \in 0..(k - 1) |-> IF j = 0 THEN SubSeq(s.ready, k + 1, Len(s.ready))
                                ELSE IF Live(s, s.ready[j]) THEN Append(h[j - 1], s.ready[j]) ELSE h[j - 1]]
  BY <1>3, <1>4
<1>6. passed = [j \in 0..(k - 1) |-> IF j = 0 THEN SubSeq(s.ready, k + 1, Len(s.ready))
                                ELSE IF Live(s, s.ready[j]) THEN Append(passed[j - 1], s.ready[j]) ELSE passed[j - 1]]
  BY <1>5, Zenon
<1> HIDE DEF passed
<1>7. passed[0] = SubSeq(s.ready, k + 1, Len(s.ready))
  <2>1. 0 \in 0..(k - 1)
    OBVIOUS
  <2>2. QED
    BY <1>6, <2>1
<1>8. \A j \in 1..(k - 1) : passed[j] = IF Live(s, s.ready[j]) THEN Append(passed[j - 1], s.ready[j]) ELSE passed[j - 1]
  <2>1. \A j \in 1..(k - 1) : j \in 0..(k - 1) /\ j # 0
    OBVIOUS
  <2>2. QED
    BY <1>6, <2>1
<1>9. Passes(passed, s, k, k - 1)
  BY <1>7, <1>8 DEF Passes
<1>10. QED
  BY <1>1, <1>9

\* A pass leaves what was behind position k and the live lanes before it, each once.
LEMMA RotatedKeeps ==
  ASSUME NEW s, s.ready \in Seq(Lanes), IsInjective(s.ready), NEW k \in DOMAIN s.ready
  PROVE  /\ Rotated(s, k) \in Seq(Lanes) /\ IsInjective(Rotated(s, k))
         /\ Range(Rotated(s, k)) \subseteq Range(s.ready) \ {s.ready[k]}
         /\ \A l \in Range(s.ready) \ {s.ready[k]} : Live(s, l) => l \in Range(Rotated(s, k))
<1> DEFINE n == Len(s.ready)
           q == s.ready
           Left(j) == {q[i] : i \in {x \in 1..n : x > k \/ (x <= j /\ Live(s, q[x]))}}
<1>1. n \in Nat /\ DOMAIN q = 1..n /\ k \in 1..n /\ \A i \in 1..n : q[i] \in Lanes
  BY LenProperties, ElementOfSeq
<1>2. PICK f : Passes(f, s, k, k - 1) /\ Rotated(s, k) = f[k - 1]
  <2>1. k \in Nat \ {0}
    BY <1>1
  <2>2. QED
    BY <2>1, RotatedPasses
<1> DEFINE Good(j) == f[j] \in Seq(Lanes) /\ IsInjective(f[j]) /\ Range(f[j]) = Left(j)
           C == {j \in 0..(k - 1) : ~Good(j)}
<1>3. Good(0)
  <2> DEFINE r == SubSeq(q, k + 1, n)
  <2>1. r \in Seq(Lanes) /\ Len(r) = n - k /\ \A i \in 1..(n - k) : r[i] = q[k + i]
    <3>1. k + 1 \in Int /\ n \in Int /\ \A i \in (k + 1)..n : q[i] \in Lanes
      BY <1>1
    <3>2. /\ r \in Seq(Lanes) /\ Len(r) = IF k + 1 <= n THEN n - (k + 1) + 1 ELSE 0
          /\ \A i \in 1..(n - (k + 1) + 1) : r[i] = q[(k + 1) + i - 1]
      BY <3>1, SubSeqProperties
    <3>3. QED
      BY <1>1, <3>2
  <2>2. DOMAIN r = 1..(n - k)
    BY <2>1, LenProperties
  <2> HIDE DEF r
  <2>3. Range(r) = Left(0)
    <3>1. \A i \in 1..(n - k) : k + i \in 1..n /\ k + i > k
      BY <1>1
    <3>2. \A x \in 1..n : x > k => x - k \in 1..(n - k) /\ k + (x - k) = x
      BY <1>1
    <3>3. \A x \in 1..n : ~(x <= 0)
      OBVIOUS
    <3>4. Left(0) = {q[i] : i \in {x \in 1..n : x > k}}
      BY <3>3
    <3>5. \A l \in Range(r) : l \in {q[i] : i \in {x \in 1..n : x > k}}
      BY <2>1, <2>2, <3>1 DEF Range
    <3>6. \A x \in {x \in 1..n : x > k} : q[x] \in Range(r)
      BY <2>1, <2>2, <3>2 DEF Range
    <3>7. QED
      BY <3>4, <3>5, <3>6
  <2>4. IsInjective(r)
    <3> SUFFICES ASSUME NEW a \in 1..(n - k), NEW b \in 1..(n - k), r[a] = r[b] PROVE a = b
      BY <2>2 DEF IsInjective
    <3>1. k + a \in 1..n /\ k + b \in 1..n /\ q[k + a] = q[k + b]
      BY <1>1, <2>1
    <3>2. k + a = k + b
      BY <1>1, <3>1 DEF IsInjective
    <3>3. QED
      BY <1>1, <3>2
  <2>5. f[0] = r
    BY <1>2 DEF Passes, r
  <2>6. QED
    BY <2>1, <2>3, <2>4, <2>5
<1>4. ASSUME NEW j \in 1..(k - 1), Good(j - 1)
      PROVE  Good(j)
  <2>1. j \in 1..n /\ j - 1 \in 0..(k - 1) /\ ~(j > k) /\ ~(j <= j - 1)
    BY <1>1
  <2>2. f[j] = IF Live(s, q[j]) THEN Append(f[j - 1], q[j]) ELSE f[j - 1]
    BY <1>2 DEF Passes
  <2>3. \A x \in 1..n : x <= j <=> x <= j - 1 \/ x = j
    BY <2>1
  <2>4. CASE Live(s, q[j])
    <3>1. q[j] \notin Left(j - 1)
      <4> SUFFICES ASSUME NEW x \in 1..n, x > k \/ x <= j - 1, q[j] = q[x] PROVE FALSE
        OBVIOUS
      <4>1. j = x
        BY <1>1, <2>1 DEF IsInjective
      <4>2. QED
        BY <2>1, <4>1
    <3>2. Left(j) = Left(j - 1) \union {q[j]}
      BY <2>1, <2>3, <2>4
    <3> HIDE DEF Left
    <3>3. q[j] \in Lanes
      BY <1>1, <2>1
    <3>4. f[j - 1] \in Seq(Lanes) /\ IsInjective(f[j - 1]) /\ q[j] \notin Range(f[j - 1])
      BY <1>4, <3>1
    <3>5. /\ Append(f[j - 1], q[j]) \in Seq(Lanes) /\ IsInjective(Append(f[j - 1], q[j]))
          /\ Range(Append(f[j - 1], q[j])) = Range(f[j - 1]) \union {q[j]}
      BY <3>3, <3>4, AppendAdds
    <3>6. QED
      BY <1>4, <2>2, <2>4, <3>2, <3>5
  <2>5. CASE ~Live(s, q[j])
    <3>1. Left(j) = Left(j - 1)
      BY <2>1, <2>3, <2>5
    <3>2. QED
      BY <1>4, <2>2, <2>5, <3>1
  <2>6. QED
    BY <2>4, <2>5
<1> HIDE DEF Good
<1>5. Good(k - 1)
  <2>1. SUFFICES ASSUME C # {} PROVE FALSE
    BY <1>1
  <2>2. k - 1 \in Nat /\ C \in SUBSET (0..(k - 1))
    BY <1>1
  <2>3. PICK j \in C : \A y \in C : j <= y
    <3> HIDE DEF C
    <3>1. QED
      BY <2>1, <2>2, LeastUpTo
  <2>4. j # 0
    BY <1>3, <2>3
  <2>5. j \in 1..(k - 1) /\ j - 1 \in 0..(k - 1) /\ ~(j <= j - 1)
    BY <2>3, <2>4
  <2>6. Good(j - 1)
    BY <2>3, <2>5
  <2>7. QED
    BY <1>4, <2>3, <2>5, <2>6
<1>6. q[k] \notin Left(k - 1)
  <2> SUFFICES ASSUME NEW x \in 1..n, x > k \/ x <= k - 1, q[k] = q[x] PROVE FALSE
    OBVIOUS
  <2>1. k = x
    BY <1>1 DEF IsInjective
  <2>2. QED
    BY <1>1, <2>1
<1>7. Left(k - 1) \subseteq Range(q)
  BY <1>1 DEF Range
<1>8. ASSUME NEW l \in Range(q), l # q[k], Live(s, l)
      PROVE  l \in Left(k - 1)
  <2>1. PICK x \in 1..n : l = q[x]
    BY <1>1 DEF Range
  <2>2. x > k \/ x <= k - 1
    BY <1>1, <1>8, <2>1
  <2>3. QED
    BY <1>8, <2>1, <2>2
<1>9. QED
  <2> HIDE DEF Left
  <2>1. QED
    BY <1>2, <1>5, <1>6, <1>7, <1>8 DEF Good

-----------------------------------------------------------------------------
(* Small steps. *)

\* s and t agree outside their lanes, their ready queues and their promises.
Alike(s, t) ==
  /\ t.workers = s.workers /\ t.active = s.active /\ t.retained = s.retained
  /\ t.state = s.state /\ t.cancelled = s.cancelled /\ t.admitted = s.admitted
  /\ t.tasks = s.tasks

\* r and q are lane records that differ in being queued at most.
SameLane(r, q) ==
  /\ q.pending = r.pending /\ q.futures = r.futures /\ q.next = r.next
  /\ q.running = r.running /\ q.retained = r.retained
  /\ q.stopped = r.stopped /\ q.owns = r.owns

\* A record with the same futures and counts keeps the same books.
LEMMA LaneBooksSame ==
  ASSUME NEW d, NEW r, NEW q, SameLane(r, q), NEW p, NEW m, NEW a, LaneBooks(r, p, m, a, d[m])
  PROVE  LaneBooks(q, p, m, a, d[m])
<1>1. GrantedIn(q, p) = GrantedIn(r, p)
  BY DEF GrantedIn, SameLane
<1>2. QED
  BY <1>1 DEF LaneBooks, SameLane

\* The books do not depend on the ready queue.
LEMMA BooksAlike ==
  ASSUME NEW d, NEW s, Books(s, d), NEW t, Shaped(t), Alike(s, t), t.promise = s.promise,
         \A m \in Lanes : SameLane(s.lane[m], t.lane[m])
  PROVE  Books(t, d)
<1>1. RetainedOf(t) = RetainedOf(s)
  BY DEF RetainedOf, SameLane
<1>2. \A m \in Lanes : LaneBooks(t.lane[m], t.promise[m], m, m \in t.admitted, d[m])
  <2> SUFFICES ASSUME NEW m \in Lanes PROVE LaneBooks(t.lane[m], t.promise[m], m, m \in t.admitted, d[m])
    OBVIOUS
  <2>1. LaneBooks(s.lane[m], s.promise[m], m, m \in s.admitted, d[m])
    BY DEF Books
  <2>2. GrantedIn(t.lane[m], t.promise[m]) = GrantedIn(s.lane[m], s.promise[m])
    BY DEF GrantedIn, SameLane
  <2>3. t.promise[m] = s.promise[m] /\ (m \in t.admitted <=> m \in s.admitted)
    BY DEF Alike
  <2>4. QED
    BY <2>1, <2>2, <2>3 DEF LaneBooks, SameLane
<1>3. QED
  BY <1>1, <1>2 DEF Books, Alike

\* Marking a lane.
LEMMA QueuedLane ==
  ASSUME NEW l \in Lanes, NEW v, LaneShape(v, l), NEW b \in BOOLEAN,
         NEW r, r = [v EXCEPT !.queued = b]
  PROVE  LaneShape(r, l) /\ SameLane(v, r) /\ r.queued = b
<1>1. /\ r = [pending |-> r.pending, futures |-> r.futures, next |-> r.next,
              running |-> r.running, retained |-> r.retained, queued |-> r.queued,
              stopped |-> r.stopped, owns |-> r.owns]
      /\ SameLane(v, r) /\ r.queued = b
  BY DEF LaneShape, SameLane
<1>2. QED
  BY <1>1 DEF LaneShape, SameLane

\* What Enqueue does.
Enqueued(s, t, l) ==
  /\ Shaped(t) /\ Alike(s, t) /\ t.promise = s.promise
  /\ \A m \in Lanes : SameLane(s.lane[m], t.lane[m])
  /\ \A m \in Lanes \ {l} : t.lane[m].queued = s.lane[m].queued
  /\ IF s.lane[l].pending # <<>> /\ ~s.lane[l].queued /\ ~s.lane[l].stopped
     THEN t.ready = Append(s.ready, l) /\ t.lane[l].queued
     ELSE t.ready = s.ready /\ t.lane[l].queued = s.lane[l].queued

\* What _enqueue changes: the ready queue and the lane's mark.
LEMMA EnqueueFields ==
  ASSUME NEW s, Shaped(s), NEW l \in Lanes, NEW t, t = Enqueue(s, l)
  PROVE  Enqueued(s, t, l)
<1>1. CASE s.lane[l].pending # <<>> /\ ~s.lane[l].queued /\ ~s.lane[l].stopped
  <2>1. t = [s EXCEPT !.lane[l].queued = TRUE, !.ready = Append(@, l)]
    BY <1>1 DEF Enqueue
  <2>2. PICK r : r = [s.lane[l] EXCEPT !.queued = TRUE]
    OBVIOUS
  <2>3. LaneShape(s.lane[l], l)
    BY DEF Shaped
  <2>4. LaneShape(r, l) /\ SameLane(s.lane[l], r) /\ r.queued
    <3>1. PICK v : v = s.lane[l]
      OBVIOUS
    <3>2. LaneShape(v, l) /\ TRUE \in BOOLEAN /\ r = [v EXCEPT !.queued = TRUE]
      BY <2>2, <2>3, <3>1
    <3>3. LaneShape(r, l) /\ SameLane(v, r) /\ r.queued = TRUE
      BY <3>2, QueuedLane
    <3>4. QED
      BY <3>1, <3>3
  <2>5. PICK q : q = Append(s.ready, l)
    OBVIOUS
  <2>6. q \in Seq(Lanes)
    BY <2>5 DEF Shaped
  <2>7. t = [s EXCEPT !.lane[l] = r, !.ready = q]
    BY <2>1, <2>2, <2>5
  <2>8. /\ t = [workers |-> t.workers, active |-> t.active, retained |-> t.retained,
                state |-> t.state, cancelled |-> t.cancelled, admitted |-> t.admitted,
                ready |-> t.ready, tasks |-> t.tasks, lane |-> t.lane, promise |-> t.promise]
        /\ t.lane = [s.lane EXCEPT ![l] = r]
        /\ Alike(s, t) /\ t.promise = s.promise /\ t.ready = q
    BY <2>7 DEF Shaped, Alike
  <2>9. t.lane = [m \in Lanes |-> IF m = l THEN r ELSE s.lane[m]]
    BY <2>8 DEF Shaped
  <2>10. t.lane = [m \in Lanes |-> t.lane[m]] /\ \A m \in Lanes : LaneShape(t.lane[m], m)
    BY <2>4, <2>9 DEF Shaped
  <2>11. Shaped(t)
    BY <2>6, <2>8, <2>10 DEF Shaped, Alike
  <2>12. /\ \A m \in Lanes : SameLane(s.lane[m], t.lane[m])
         /\ \A m \in Lanes \ {l} : t.lane[m].queued = s.lane[m].queued
         /\ t.lane[l].queued
    BY <2>4, <2>9 DEF SameLane
  <2>13. QED
    BY <1>1, <2>5, <2>8, <2>11, <2>12 DEF Enqueued
<1>2. CASE ~(s.lane[l].pending # <<>> /\ ~s.lane[l].queued /\ ~s.lane[l].stopped)
  <2>1. t = s
    BY <1>2 DEF Enqueue
  <2>2. QED
    BY <1>2, <2>1 DEF Enqueued, Alike, SameLane
<1>3. QED
  BY <1>1, <1>2

\* A lane with pending planes that missed the ready queue gets into it.
LEMMA EnqueueQueues ==
  ASSUME NEW s, Shaped(s), NEW l \in Lanes, NEW t, Enqueued(s, t, l),
         Going(s) => /\ IsInjective(s.ready)
                     /\ \A m \in Lanes : s.lane[m].queued <=> m \in Range(s.ready)
                     /\ \A m \in Lanes \ {l} : s.lane[m].pending # <<>> => s.lane[m].queued
                     /\ s.lane[l].stopped => s.lane[l].pending = <<>>
  PROVE  Queued(t)
<1>1. SUFFICES ASSUME Going(s)
               PROVE  /\ IsInjective(t.ready)
                      /\ \A m \in Lanes : /\ t.lane[m].queued <=> m \in Range(t.ready)
                                          /\ t.lane[m].pending # <<>> => t.lane[m].queued
  BY DEF Queued, Going, Enqueued, Alike
<1>2. CASE s.lane[l].pending # <<>> /\ ~s.lane[l].queued /\ ~s.lane[l].stopped
  <2>1. s.ready \in Seq(Lanes) /\ l \notin Range(s.ready) /\ t.ready = Append(s.ready, l)
    BY <1>1, <1>2 DEF Shaped, Enqueued
  <2>2. IsInjective(t.ready) /\ Range(t.ready) = Range(s.ready) \union {l}
    BY <1>1, <2>1, AppendAdds
  <2>3. QED
    BY <1>1, <1>2, <2>2 DEF Enqueued, SameLane
<1>3. CASE ~(s.lane[l].pending # <<>> /\ ~s.lane[l].queued /\ ~s.lane[l].stopped)
  BY <1>1, <1>3 DEF Enqueued, SameLane
<1>4. QED
  BY <1>2, <1>3

\* What the new promises of a Fill do, before the lane is put in the ready queue.
Filled(s, u, l) ==
  /\ Shaped(u) /\ Alike(s, u) /\ u.ready = s.ready
  /\ \A m \in Lanes \ {l} : u.lane[m] = s.lane[m] /\ u.promise[m] = s.promise[m]
  /\ u.lane[l].next \in s.lane[l].next..Count[l]
  /\ u.lane[l].futures = s.lane[l].futures \union (s.lane[l].next..(u.lane[l].next - 1))
  /\ Cardinality(u.lane[l].futures) <= Window[l]
  /\ Cardinality(u.lane[l].futures) = Window[l] \/ u.lane[l].next = Count[l]
  /\ IsInjective(u.lane[l].pending)
  /\ Range(u.lane[l].pending) = Range(s.lane[l].pending) \union (s.lane[l].next..(u.lane[l].next - 1))
  /\ u.lane[l].running = s.lane[l].running /\ u.lane[l].retained = s.lane[l].retained
  /\ u.lane[l].queued = s.lane[l].queued /\ u.lane[l].stopped = s.lane[l].stopped
  /\ u.lane[l].owns = s.lane[l].owns
  /\ \A i \in Planes(l) : u.promise[l][i] = IF i \in s.lane[l].next..(u.lane[l].next - 1)
                                           THEN "pending" ELSE s.promise[l][i]

\* A lane record with new promises.
Longer(v, r, n, new, p, l) ==
  /\ LaneShape(r, l)
  /\ r.next = v.next + n /\ r.futures = v.futures \union new /\ r.pending = p
  /\ r.running = v.running /\ r.retained = v.retained /\ r.queued = v.queued
  /\ r.stopped = v.stopped /\ r.owns = v.owns

\* The record of a lane with more placeholders, field by field.
LEMMA LongerLane ==
  ASSUME NEW l \in Lanes, NEW v, LaneShape(v, l), NEW n, v.next + n \in 0..Count[l],
         NEW new, new \subseteq Planes(l), NEW p \in Seq(Planes(l)), NEW q, p = v.pending \o q,
         NEW r, r = [v EXCEPT !.next = @ + n, !.futures = @ \union new, !.pending = @ \o q]
  PROVE  Longer(v, r, n, new, p, l)
<1>1. /\ r = [pending |-> r.pending, futures |-> r.futures, next |-> r.next,
              running |-> r.running, retained |-> r.retained, queued |-> r.queued,
              stopped |-> r.stopped, owns |-> r.owns]
      /\ r.next = v.next + n /\ r.futures = v.futures \union new /\ r.pending = v.pending \o q
      /\ r.running = v.running /\ r.retained = v.retained /\ r.queued = v.queued
      /\ r.stopped = v.stopped /\ r.owns = v.owns
  BY DEF LaneShape
<1>2. QED
  BY <1>1 DEF LaneShape, Longer

Consecutive(a, n) == [k \in 1..n |-> a + k - 1]

\* Consecutive planes, in order.
LEMMA ConsecutiveRun ==
  ASSUME NEW a \in Int, NEW n \in Nat, NEW T, a..(a + n - 1) \subseteq T
  PROVE  /\ Consecutive(a, n) \in Seq(T) /\ IsInjective(Consecutive(a, n))
         /\ Range(Consecutive(a, n)) = a..(a + n - 1)
<1> DEFINE q == Consecutive(a, n)
<1>1. DOMAIN q = 1..n /\ \A k \in 1..n : q[k] = a + k - 1
  BY DEF Consecutive
<1>2. q = [k \in 1..n |-> q[k]]
  BY DEF Consecutive
<1>3. \A k \in 1..n : a + k - 1 \in a..(a + n - 1)
  OBVIOUS
<1>4. \A i \in a..(a + n - 1) : i - a + 1 \in 1..n /\ a + (i - a + 1) - 1 = i
  OBVIOUS
<1> HIDE DEF q
<1>5. q \in [1..n -> T]
  BY <1>1, <1>2, <1>3
<1>6. q \in Seq(T)
  BY <1>5, SeqDef
<1>7. IsInjective(q)
  <2> SUFFICES ASSUME NEW i \in 1..n, NEW j \in 1..n, q[i] = q[j] PROVE i = j
    BY <1>1 DEF IsInjective
  <2>1. a + i - 1 = a + j - 1
    BY <1>1
  <2>2. QED
    BY <2>1
<1>8. \A i \in a..(a + n - 1) : i \in Range(q)
  BY <1>1, <1>4 DEF Range
<1>9. \A i \in Range(q) : i \in a..(a + n - 1)
  BY <1>1, <1>3 DEF Range
<1>10. Range(q) = a..(a + n - 1)
  BY <1>8, <1>9
<1>11. QED
  BY <1>6, <1>7, <1>10 DEF q

\* n promises, q in order, may be added to the lane record v.
Renewable(v, n, q, l) ==
  /\ n \in Nat /\ v.next + n \in 0..Count[l] /\ v.next + n - 1 \in Int
  /\ v.next..(v.next + n - 1) \subseteq Planes(l)
  /\ v.pending \o q \in Seq(Planes(l)) /\ IsInjective(v.pending \o q)
  /\ Range(v.pending \o q) = Range(v.pending) \union (v.next..(v.next + n - 1))
  /\ Cardinality(v.futures \union (v.next..(v.next + n - 1))) = Cardinality(v.futures) + n
  /\ Cardinality(v.futures) + n <= Window[l]
  /\ Cardinality(v.futures) + n = Window[l] \/ v.next + n = Count[l]

\* New promises and their planes.
LEMMA NewPromises ==
  ASSUME NEW d, NEW l \in Lanes, NEW v, LaneShape(v, l), NEW p, LaneBooks(v, p, l, TRUE, d[l]),
         NEW n, n = Lower(Window[l] - Cardinality(v.futures), Count[l] - v.next),
         NEW q, q = Consecutive(v.next, n)
  PROVE  Renewable(v, n, q, l)
<1> DEFINE new == v.next..(v.next + n - 1)
<1>1. Count[l] \in Nat /\ Window[l] \in Nat /\ v.next \in 0..Count[l] /\ Planes(l) = 0..(Count[l] - 1)
  BY CountAssumption, WindowAssumption, WorkersAssumption DEF LaneShape, Planes
<1>2. IsFiniteSet(v.futures) /\ Cardinality(v.futures) \in Nat
  <2>1. IsFiniteSet(Planes(l))
    <3>1. PICK b \in Int : b = Count[l] - 1
      BY <1>1
    <3>2. IsFiniteSet(0..b)
      BY FS_Interval
    <3>3. QED
      BY <1>1, <3>1, <3>2
  <2>2. QED
    BY <2>1, FS_Subset, FS_CardinalityType DEF LaneShape
<1>3. Cardinality(v.futures) <= Window[l]
  BY DEF LaneBooks
<1>4. /\ n \in Nat /\ v.next + n \in 0..Count[l] /\ Cardinality(v.futures) + n <= Window[l]
      /\ Cardinality(v.futures) + n = Window[l] \/ v.next + n = Count[l]
  <2>1. PICK c : c = Cardinality(v.futures)
    OBVIOUS
  <2>2. n = IF Window[l] - c < Count[l] - v.next THEN Window[l] - c ELSE Count[l] - v.next
    BY <2>1 DEF Lower
  <2>3. QED
    BY <1>1, <1>2, <1>3, <2>1, <2>2
<1>5. new \subseteq Planes(l)
  BY <1>1, <1>4
<1>6. q \in Seq(Planes(l)) /\ IsInjective(q) /\ Range(q) = new
  <2>1. PICK a \in Int : a = v.next
    BY <1>1
  <2>2. q \in Seq(Planes(l)) /\ IsInjective(q) /\ Range(q) = a..(a + n - 1)
    BY <1>4, <1>5, <2>1, ConsecutiveRun
  <2>3. QED
    BY <2>1, <2>2
<1>7. Range(v.pending) \cap new = {} /\ v.futures \cap new = {}
  <2>1. \A i \in new : i \in Planes(l) /\ ~(i < v.next)
    BY <1>1, <1>5
  <2>2. \A i \in new : i \notin v.futures
    BY <2>1 DEF LaneBooks
  <2>3. \A i \in new : i \notin Range(v.pending)
    BY <2>1, <2>2 DEF LaneBooks
  <2>4. QED
    BY <2>2, <2>3
<1>8. v.pending \in Seq(Planes(l)) /\ IsInjective(v.pending)
  BY DEF LaneShape, LaneBooks
<1>9. /\ v.pending \o q \in Seq(Planes(l)) /\ IsInjective(v.pending \o q)
      /\ Range(v.pending \o q) = Range(v.pending) \union new
  <2>1. PICK p1 : p1 = v.pending
    OBVIOUS
  <2>2. Range(p1) \cap Range(q) = {}
    BY <1>6, <1>7, <2>1
  <2>3. /\ p1 \o q \in Seq(Planes(l)) /\ IsInjective(p1 \o q)
        /\ Range(p1 \o q) = Range(p1) \union Range(q)
    <3>1. PICK T : T = Planes(l)
      OBVIOUS
    <3>2. p1 \in Seq(T) /\ q \in Seq(T) /\ IsInjective(p1) /\ IsInjective(q)
      BY <1>6, <1>8, <2>1, <3>1
    <3>3. /\ p1 \o q \in Seq(T) /\ IsInjective(p1 \o q)
          /\ Range(p1 \o q) = Range(p1) \union Range(q)
      BY <2>2, <3>2, JoinAdds
    <3>4. QED
      BY <3>1, <3>3
  <2>4. QED
    BY <1>6, <2>1, <2>3
<1>10. Cardinality(v.futures \union new) = Cardinality(v.futures) + n
  <2>1. IsFiniteSet(new) /\ Cardinality(new) = n
    <3>1. PICK a \in Int, b \in Int : a = v.next /\ b = v.next + n - 1
      BY <1>1, <1>4
    <3>2. IsFiniteSet(a..b) /\ Cardinality(a..b) = IF a > b THEN 0 ELSE b - a + 1
      BY FS_Interval
    <3>3. (IF a > b THEN 0 ELSE b - a + 1) = n
      BY <1>1, <1>4, <3>1
    <3>4. QED
      BY <3>1, <3>2, <3>3
  <2>2. Cardinality(v.futures \union new)
        = Cardinality(v.futures) + Cardinality(new) - Cardinality(v.futures \cap new)
    BY <1>2, <2>1, FS_Union
  <2>3. Cardinality(v.futures \cap new) = 0
    BY <1>7, FS_EmptySet
  <2>4. PICK c : c = Cardinality(v.futures)
    OBVIOUS
  <2>5. QED
    BY <1>2, <1>4, <2>1, <2>2, <2>3, <2>4
<1>11. QED
  BY <1>1, <1>4, <1>5, <1>9, <1>10 DEF Renewable

\* Fill takes new promises, then puts the lane in the ready queue.
LEMMA FillFields ==
  ASSUME NEW d, NEW s, Books(s, d), NEW l \in Lanes, l \in s.admitted, NEW t, t = Fill(s, l)
  PROVE  \E u : Filled(s, u, l) /\ t = Enqueue(u, l)
<1>1. PICK v : v = s.lane[l]
  OBVIOUS
<1>2. PICK p : p = s.promise[l]
  OBVIOUS
<1>3. LaneShape(v, l) /\ PromiseShape(p, l) /\ LaneBooks(v, p, l, TRUE, d[l])
  BY <1>1, <1>2 DEF Books, Shaped
<1>4. PICK n : n = Room(s, l)
  OBVIOUS
<1>5. n = Lower(Window[l] - Cardinality(v.futures), Count[l] - v.next)
  BY <1>1, <1>4 DEF Room
<1>6. PICK q : q = Consecutive(v.next, n)
  OBVIOUS
<1>7. /\ n \in Nat /\ v.next + n \in 0..Count[l] /\ v.next + n - 1 \in Int
      /\ v.next..(v.next + n - 1) \subseteq Planes(l)
      /\ v.pending \o q \in Seq(Planes(l)) /\ IsInjective(v.pending \o q)
      /\ Range(v.pending \o q) = Range(v.pending) \union (v.next..(v.next + n - 1))
      /\ Cardinality(v.futures \union (v.next..(v.next + n - 1))) = Cardinality(v.futures) + n
      /\ Cardinality(v.futures) + n <= Window[l]
      /\ Cardinality(v.futures) + n = Window[l] \/ v.next + n = Count[l]
  <2>1. Renewable(v, n, q, l)
    BY <1>3, <1>5, <1>6, NewPromises
  <2>2. QED
    BY <2>1 DEF Renewable
<1>8. PICK new : new = v.next..(v.next + n - 1)
  OBVIOUS
<1>9. PICK r : r = [v EXCEPT !.next = @ + n, !.futures = @ \union new, !.pending = @ \o q]
  OBVIOUS
<1>10. /\ LaneShape(r, l)
       /\ r.next = v.next + n /\ r.futures = v.futures \union new /\ r.pending = v.pending \o q
       /\ r.running = v.running /\ r.retained = v.retained /\ r.queued = v.queued
       /\ r.stopped = v.stopped /\ r.owns = v.owns
  <2>1. PICK w : w = v.pending \o q
    OBVIOUS
  <2>2. w \in Seq(Planes(l)) /\ new \subseteq Planes(l)
    BY <1>7, <1>8, <2>1
  <2>3. /\ LaneShape(r, l)
        /\ r.next = v.next + n /\ r.futures = v.futures \union new /\ r.pending = w
        /\ r.running = v.running /\ r.retained = v.retained /\ r.queued = v.queued
        /\ r.stopped = v.stopped /\ r.owns = v.owns
    <3>1. Longer(v, r, n, new, w, l)
      BY <1>3, <1>7, <1>9, <2>1, <2>2, LongerLane
    <3>2. QED
      BY <3>1 DEF Longer
  <2>4. QED
    BY <2>1, <2>3
<1>11. PICK z : z = [i \in Planes(l) |-> IF i \in new THEN "pending" ELSE p[i]]
  OBVIOUS
<1>12. PromiseShape(z, l) /\ \A i \in Planes(l) : z[i] = IF i \in new THEN "pending" ELSE p[i]
  BY <1>3, <1>11 DEF PromiseShape, Kinds
<1>13. PICK u : u = [s EXCEPT !.lane[l] = r, !.promise[l] = z]
  OBVIOUS
<1>14. /\ u = [workers |-> u.workers, active |-> u.active, retained |-> u.retained,
               state |-> u.state, cancelled |-> u.cancelled, admitted |-> u.admitted,
               ready |-> u.ready, tasks |-> u.tasks, lane |-> u.lane, promise |-> u.promise]
       /\ u.lane = [s.lane EXCEPT ![l] = r] /\ u.promise = [s.promise EXCEPT ![l] = z]
       /\ Alike(s, u) /\ u.ready = s.ready
  BY <1>13 DEF Books, Shaped, Alike
<1>15. /\ u.lane = [m \in Lanes |-> IF m = l THEN r ELSE s.lane[m]]
       /\ u.promise = [m \in Lanes |-> IF m = l THEN z ELSE s.promise[m]]
  BY <1>14 DEF Books, Shaped
<1>16. /\ u.lane = [m \in Lanes |-> u.lane[m]] /\ u.promise = [m \in Lanes |-> u.promise[m]]
       /\ \A m \in Lanes : LaneShape(u.lane[m], m) /\ PromiseShape(u.promise[m], m)
  BY <1>10, <1>12, <1>15 DEF Books, Shaped
<1>17. Shaped(u)
  BY <1>14, <1>16 DEF Books, Shaped, Alike
<1>18. /\ \A m \in Lanes \ {l} : u.lane[m] = s.lane[m] /\ u.promise[m] = s.promise[m]
       /\ u.lane[l] = r /\ u.promise[l] = z
  BY <1>15
<1>19. Filled(s, u, l)
  <2>1. new = v.next..(r.next - 1) /\ r.next \in v.next..Count[l]
    <3>1. v.next \in Int /\ Count[l] \in Int
      BY <1>3, CountAssumption DEF LaneShape
    <3>2. QED
      BY <1>7, <1>8, <1>10, <3>1
  <2>2. /\ Cardinality(r.futures) <= Window[l]
        /\ Cardinality(r.futures) = Window[l] \/ r.next = Count[l]
    BY <1>7, <1>8, <1>10
  <2>3. IsInjective(r.pending) /\ Range(r.pending) = Range(v.pending) \union new
    BY <1>7, <1>8, <1>10
  <2>4. QED
    BY <1>1, <1>2, <1>10, <1>12, <1>14, <1>17, <1>18, <2>1, <2>2, <2>3 DEF Filled
<1>20. t = Enqueue(u, l)
  <2>1. q = [k \in 1..n |-> v.next + k - 1]
    BY <1>6 DEF Consecutive
  <2>2. [s EXCEPT !.lane[l].next = @ + n, !.lane[l].futures = @ \cup new,
                  !.lane[l].pending = @ \o q,
                  !.promise[l] = [i \in Planes(l) |-> IF i \in new THEN "pending" ELSE @[i]]]
        = [s EXCEPT !.lane[l] = [s.lane[l] EXCEPT !.next = @ + n, !.futures = @ \cup new, !.pending = @ \o q],
                    !.promise[l] = [i \in Planes(l) |-> IF i \in new THEN "pending" ELSE s.promise[l][i]]]
    BY DEF Books, Shaped
  <2>3. QED
    BY <1>1, <1>2, <1>4, <1>8, <1>9, <1>11, <1>13, <2>1, <2>2 DEF Fill
<1>21. QED
  BY <1>19, <1>20

\* New promises are in the books.
LEMMA FilledBooks ==
  ASSUME NEW d, NEW s, Books(s, d), NEW l \in Lanes, l \in s.admitted, ~s.lane[l].stopped,
         NEW u, Filled(s, u, l)
  PROVE  Books(u, d)
<1>1. Shaped(u) /\ Alike(s, u)
  BY DEF Filled
<1>2. PICK new : new = s.lane[l].next..(u.lane[l].next - 1)
  OBVIOUS
<1>3. /\ s.lane[l].next \in 0..Count[l] /\ u.lane[l].next \in s.lane[l].next..Count[l] /\ Count[l] \in Nat
      /\ s.lane[l].futures \subseteq Planes(l) /\ u.lane[l].futures = s.lane[l].futures \union new
  <2>1. LaneShape(s.lane[l], l)
    BY DEF Books, Shaped
  <2>2. QED
    BY <1>2, <2>1, CountAssumption DEF Filled, LaneShape
<1>4. new \subseteq Planes(l) /\ \A i \in Planes(l) : i \in new <=> i >= s.lane[l].next /\ i < u.lane[l].next
  BY <1>2, <1>3 DEF Planes
<1>5. \A i \in Planes(l) : u.promise[l][i] = IF i \in new THEN "pending" ELSE s.promise[l][i]
  BY <1>2 DEF Filled
<1>6. LaneBooks(s.lane[l], s.promise[l], l, TRUE, d[l])
  BY DEF Books
<1>7. \A i \in new : s.promise[l][i] = "none"
  <2> SUFFICES ASSUME NEW i \in new PROVE s.promise[l][i] = "none"
    OBVIOUS
  <2>1. i \in Planes(l) /\ ~(i < s.lane[l].next)
    BY <1>3, <1>4 DEF Planes
  <2>2. QED
    BY <1>6, <2>1 DEF LaneBooks
<1>8. RunningIn(u.promise[l], l) = RunningIn(s.promise[l], l)
  BY <1>5, <1>7 DEF RunningIn
<1>9. GrantedIn(u.lane[l], u.promise[l]) = GrantedIn(s.lane[l], s.promise[l])
  BY <1>3, <1>4, <1>5, <1>7 DEF GrantedIn
<1>10. LaneBooks(u.lane[l], u.promise[l], l, TRUE, d[l])
  <2>1. \A i \in u.lane[l].futures : i < u.lane[l].next
    <3>1. \A i \in s.lane[l].futures : i \in Int /\ i < s.lane[l].next
      BY <1>3, <1>6 DEF LaneBooks, Planes
    <3>2. \A i \in new : i < u.lane[l].next
      BY <1>4
    <3>3. QED
      BY <1>3, <3>1, <3>2
  <2>2. ASSUME NEW i \in Planes(l)
        PROVE  /\ u.promise[l][i] = "none" \/ i < u.lane[l].next
               /\ u.promise[l][i] = "pending" <=> i \in Range(u.lane[l].pending)
               /\ u.promise[l][i] \in {"pending", "running"} => i \in u.lane[l].futures
    <3>1. Range(u.lane[l].pending) = Range(s.lane[l].pending) \union new
      BY <1>2 DEF Filled
    <3>2. /\ s.promise[l][i] = "none" \/ i < s.lane[l].next
          /\ s.promise[l][i] = "pending" <=> i \in Range(s.lane[l].pending)
          /\ s.promise[l][i] \in {"pending", "running"} => i \in s.lane[l].futures
      BY <1>6 DEF LaneBooks
    <3>3. CASE i \in new
      BY <1>3, <1>4, <1>5, <3>1, <3>3
    <3>4. CASE i \notin new
      <4>1. u.promise[l][i] = s.promise[l][i]
        BY <1>5, <3>4
      <4>2. i < s.lane[l].next => i < u.lane[l].next
        BY <1>3 DEF Planes
      <4>3. QED
        BY <1>3, <3>1, <3>2, <3>4, <4>1, <4>2
    <3>5. QED
      BY <3>3, <3>4
  <2>3. u.lane[l].stopped = FALSE
    BY DEF Filled, Books, Shaped, LaneShape
  <2>4. QED
    BY <1>6, <1>8, <1>9, <2>1, <2>2, <2>3 DEF LaneBooks, Filled
<1>11. RetainedOf(u) = RetainedOf(s)
  <2>1. \A m \in Lanes : u.lane[m].retained = s.lane[m].retained
    BY DEF Filled
  <2>2. QED
    BY <2>1 DEF RetainedOf
<1>12. \A i \in Planes(l) : u.promise[l][i] = "running" <=> s.promise[l][i] = "running"
  BY <1>5, <1>7
<1>13. \A m \in Lanes : /\ LaneBooks(u.lane[m], u.promise[m], m, m \in u.admitted, d[m])
                        /\ \A i \in Planes(m) : <<m, i>> \in u.tasks <=> u.promise[m][i] = "running"
  <2> SUFFICES ASSUME NEW m \in Lanes
               PROVE  /\ LaneBooks(u.lane[m], u.promise[m], m, m \in u.admitted, d[m])
                      /\ \A i \in Planes(m) : <<m, i>> \in u.tasks <=> u.promise[m][i] = "running"
    OBVIOUS
  <2>1. u.admitted = s.admitted /\ u.tasks = s.tasks
    BY <1>1 DEF Alike
  <2>2. /\ LaneBooks(s.lane[m], s.promise[m], m, m \in s.admitted, d[m])
        /\ \A i \in Planes(m) : <<m, i>> \in s.tasks <=> s.promise[m][i] = "running"
    BY DEF Books
  <2>3. CASE m = l
    <3>1. l \in u.admitted
      BY <2>1
    <3>2. LaneBooks(u.lane[l], u.promise[l], l, l \in u.admitted, d[l])
      BY <1>10, <3>1 DEF LaneBooks
    <3>3. QED
      BY <1>12, <2>1, <2>2, <2>3, <3>2
  <2>4. CASE m # l
    <3>1. u.lane[m] = s.lane[m] /\ u.promise[m] = s.promise[m]
      BY <2>4 DEF Filled
    <3>2. QED
      BY <2>1, <2>2, <3>1
  <2>5. QED
    BY <2>3, <2>4
<1>14. QED
  BY <1>1, <1>11, <1>13 DEF Books, Alike

\* What a consumer may rely on across a Fill of its lane, and of another's.
Refilled(s, t, l, d) ==
  /\ Books(t, d) /\ Queued(t) /\ Alike(s, t)
  /\ \A m \in Lanes : /\ t.lane[m].running = s.lane[m].running /\ t.lane[m].stopped = s.lane[m].stopped
                      /\ t.lane[m].owns = s.lane[m].owns
  /\ \A m \in Lanes \ {l} : SameLane(s.lane[m], t.lane[m]) /\ t.promise[m] = s.promise[m]
  /\ t.lane[l].next \in s.lane[l].next..Count[l]
  /\ t.lane[l].futures = s.lane[l].futures \union (s.lane[l].next..(t.lane[l].next - 1))
  /\ Cardinality(t.lane[l].futures) = Window[l] \/ t.lane[l].next = Count[l]
  /\ \A i \in Planes(l) : i < s.lane[l].next => t.promise[l][i] = s.promise[l][i]

\* A Fill keeps the books and the ready queue.
LEMMA FillSound ==
  ASSUME NEW d, NEW s, Books(s, d), Queued(s), NEW l \in Lanes, l \in s.admitted, ~s.lane[l].stopped,
         NEW t, t = Fill(s, l)
  PROVE  Refilled(s, t, l, d)
<1>1. PICK u : Filled(s, u, l) /\ t = Enqueue(u, l)
  BY FillFields
<1>2. Books(u, d) /\ Shaped(u)
  BY <1>1, FilledBooks DEF Filled
<1>3. Enqueued(u, t, l)
  BY <1>1, <1>2, EnqueueFields
<1>4. Shaped(t) /\ Alike(u, t) /\ t.promise = u.promise /\ \A m \in Lanes : SameLane(u.lane[m], t.lane[m])
  BY <1>3 DEF Enqueued
<1>5. Books(t, d)
  BY <1>2, <1>4, BooksAlike
<1>6. Queued(t)
  <2>1. ASSUME Going(u)
        PROVE  /\ IsInjective(u.ready)
               /\ \A m \in Lanes : u.lane[m].queued <=> m \in Range(u.ready)
               /\ \A m \in Lanes \ {l} : u.lane[m].pending # <<>> => u.lane[m].queued
               /\ u.lane[l].stopped => u.lane[l].pending = <<>>
    <3>1. Going(s)
      BY <1>1, <2>1 DEF Filled, Alike, Going
    <3>2. /\ IsInjective(s.ready)
          /\ \A m \in Lanes : /\ s.lane[m].queued <=> m \in Range(s.ready)
                              /\ s.lane[m].pending # <<>> => s.lane[m].queued
      BY <3>1 DEF Queued
    <3>3. /\ u.ready = s.ready /\ \A m \in Lanes \ {l} : u.lane[m] = s.lane[m]
          /\ u.lane[l].queued = s.lane[l].queued /\ u.lane[l].stopped = s.lane[l].stopped
      BY <1>1 DEF Filled
    <3>4. QED
      BY <3>2, <3>3
  <2>2. QED
    BY <1>2, <1>3, <2>1, EnqueueQueues
<1>7. Alike(s, t)
  BY <1>1, <1>4 DEF Filled, Alike
<1>8. \A m \in Lanes : /\ t.lane[m].running = s.lane[m].running /\ t.lane[m].stopped = s.lane[m].stopped
                       /\ t.lane[m].owns = s.lane[m].owns
  <2> SUFFICES ASSUME NEW m \in Lanes
               PROVE  /\ t.lane[m].running = s.lane[m].running /\ t.lane[m].stopped = s.lane[m].stopped
                      /\ t.lane[m].owns = s.lane[m].owns
    OBVIOUS
  <2>1. SameLane(u.lane[m], t.lane[m])
    BY <1>4
  <2>2. QED
    BY <1>1, <2>1 DEF Filled, SameLane
<1>9. \A m \in Lanes \ {l} : SameLane(s.lane[m], t.lane[m]) /\ t.promise[m] = s.promise[m]
  BY <1>1, <1>4 DEF Filled
<1>10. t.lane[l].next = u.lane[l].next /\ t.lane[l].futures = u.lane[l].futures
  BY <1>4 DEF SameLane
<1>11. \A i \in Planes(l) : i < s.lane[l].next => t.promise[l][i] = s.promise[l][i]
  <2> SUFFICES ASSUME NEW i \in Planes(l), i < s.lane[l].next PROVE t.promise[l][i] = s.promise[l][i]
    OBVIOUS
  <2>1. s.lane[l].next \in Int /\ i \in Int
    <3>1. LaneShape(s.lane[l], l) /\ Count[l] \in Nat
      BY CountAssumption DEF Books, Shaped
    <3>2. QED
      BY <3>1 DEF LaneShape, Planes
  <2>2. i \notin s.lane[l].next..(u.lane[l].next - 1)
    BY <2>1
  <2>3. QED
    BY <1>1, <1>4, <2>2 DEF Filled
<1>12. QED
  BY <1>1, <1>5, <1>6, <1>7, <1>8, <1>9, <1>10, <1>11 DEF Refilled, Filled

-----------------------------------------------------------------------------
(* One turn of the dispatch. *)

\* The pool after its first k - 1 ready lanes were passed over.
Selected(s, u, l) ==
  /\ Shaped(u) /\ Alike(s, u) /\ u.promise = s.promise
  /\ \A m \in Lanes : SameLane(s.lane[m], u.lane[m])
  /\ IsInjective(u.ready) /\ ~u.lane[l].queued
  /\ \A m \in Lanes : u.lane[m].queued <=> m \in Range(u.ready)
  /\ \A m \in Lanes \ {l} : u.lane[m].pending # <<>> => u.lane[m].queued

\* What taking one entry out of the ready queue changes.
LEMMA SelectFields ==
  ASSUME NEW d, NEW s, Books(s, d), Queued(s), Going(s), NEW k \in DOMAIN s.ready,
         NEW l, l = s.ready[k], NEW u, u = Select(s, k)
  PROVE  Selected(s, u, l)
<1>1. s.ready \in Seq(Lanes) /\ IsInjective(s.ready) /\ Shaped(s)
  BY DEF Books, Shaped, Queued
<1> DEFINE rest == Rotated(s, k)
           lanes == [m \in Lanes |-> [s.lane[m] EXCEPT !.queued = @ /\ \E j \in DOMAIN rest : rest[j] = m]]
<1>2. u = [s EXCEPT !.ready = rest, !.lane = lanes]
  BY DEF Select
<1>3. rest = Rotated(s, k)
  OBVIOUS
<1> HIDE DEF rest
<1>4. /\ rest \in Seq(Lanes) /\ IsInjective(rest)
      /\ Range(rest) \subseteq Range(s.ready) \ {s.ready[k]}
      /\ \A m \in Range(s.ready) \ {s.ready[k]} : Live(s, m) => m \in Range(rest)
  BY <1>1, <1>3, RotatedKeeps
<1>5. \A m : m \in Range(rest) <=> \E j \in DOMAIN rest : rest[j] = m
  BY DEF Range
<1>6. lanes = [m \in Lanes |-> [s.lane[m] EXCEPT !.queued = @ /\ \E j \in DOMAIN rest : rest[j] = m]]
  OBVIOUS
<1> HIDE DEF lanes
<1>7. ASSUME NEW m \in Lanes
      PROVE  /\ LaneShape(lanes[m], m) /\ SameLane(s.lane[m], lanes[m])
             /\ lanes[m].queued = (s.lane[m].queued /\ m \in Range(rest))
  <2>1. PICK v : v = s.lane[m]
    OBVIOUS
  <2>2. LaneShape(v, m)
    BY <1>1, <2>1 DEF Shaped
  <2>3. PICK b : b = (v.queued /\ \E j \in DOMAIN rest : rest[j] = m)
    OBVIOUS
  <2>4. b \in BOOLEAN
    BY <2>3
  <2>5. PICK r : r = [v EXCEPT !.queued = b]
    OBVIOUS
  <2>6. lanes[m] = r
    BY <1>6, <2>1, <2>3, <2>5
  <2>7. LaneShape(r, m) /\ SameLane(v, r) /\ r.queued = b
    BY <2>2, <2>4, <2>5, QueuedLane
  <2>8. QED
    BY <1>5, <2>1, <2>3, <2>6, <2>7
<1>8. /\ u = [workers |-> u.workers, active |-> u.active, retained |-> u.retained,
              state |-> u.state, cancelled |-> u.cancelled, admitted |-> u.admitted,
              ready |-> u.ready, tasks |-> u.tasks, lane |-> u.lane, promise |-> u.promise]
      /\ u.lane = lanes /\ u.promise = s.promise /\ Alike(s, u) /\ u.ready = rest
  BY <1>1, <1>2 DEF Shaped, Alike
<1>9. u.lane = [m \in Lanes |-> u.lane[m]]
  BY <1>6, <1>8
<1>10. Shaped(u)
  BY <1>1, <1>4, <1>7, <1>8, <1>9 DEF Shaped, Alike
<1>11. \A m \in Lanes : /\ s.lane[m].queued <=> m \in Range(s.ready)
                        /\ s.lane[m].pending # <<>> => s.lane[m].queued
  BY DEF Queued
<1>12. \A m \in Lanes : u.lane[m].queued <=> m \in Range(u.ready)
  BY <1>4, <1>7, <1>8, <1>11
<1>13. l \in Lanes
  BY <1>1, ElementOfSeq
<1>14. ~u.lane[l].queued
  BY <1>4, <1>12, <1>13, <1>8
<1>15. ASSUME NEW m \in Lanes \ {l}, u.lane[m].pending # <<>>
       PROVE  u.lane[m].queued
  <2>1. s.lane[m].pending # <<>>
    BY <1>7, <1>8, <1>15 DEF SameLane
  <2>2. ~s.lane[m].stopped
    BY <2>1 DEF Books, LaneBooks
  <2>3. Live(s, m) /\ m \in Range(s.ready)
    BY <1>11, <2>1, <2>2 DEF Live
  <2>4. QED
    BY <1>4, <1>8, <1>12, <2>3
<1>16. QED
  BY <1>4, <1>7, <1>8, <1>10, <1>12, <1>14, <1>15 DEF Selected

\* Records of a lane that lost its first pending plane, and of one granted a permit.
LEMMA PoppedLane ==
  ASSUME NEW l \in Lanes, NEW v, LaneShape(v, l), NEW p \in Seq(Planes(l)),
         NEW r, r = [v EXCEPT !.pending = p]
  PROVE  /\ LaneShape(r, l)
         /\ r.next = v.next /\ r.futures = v.futures /\ r.pending = p
         /\ r.running = v.running /\ r.retained = v.retained /\ r.queued = v.queued
         /\ r.stopped = v.stopped /\ r.owns = v.owns
<1>1. /\ r = [pending |-> r.pending, futures |-> r.futures, next |-> r.next,
              running |-> r.running, retained |-> r.retained, queued |-> r.queued,
              stopped |-> r.stopped, owns |-> r.owns]
      /\ r.next = v.next /\ r.futures = v.futures /\ r.pending = p
      /\ r.running = v.running /\ r.retained = v.retained /\ r.queued = v.queued
      /\ r.stopped = v.stopped /\ r.owns = v.owns
  BY DEF LaneShape
<1>2. QED
  BY <1>1 DEF LaneShape

\* The record of a lane with another retained count.
LEMMA HeldLane ==
  ASSUME NEW l \in Lanes, NEW v, LaneShape(v, l), NEW a \in Nat,
         NEW r, r = [v EXCEPT !.retained = a]
  PROVE  /\ LaneShape(r, l)
         /\ r.next = v.next /\ r.futures = v.futures /\ r.pending = v.pending
         /\ r.running = v.running /\ r.retained = a /\ r.stopped = v.stopped /\ r.owns = v.owns
         /\ r.queued = v.queued
<1>1. /\ r = [pending |-> r.pending, futures |-> r.futures, next |-> r.next,
              running |-> r.running, retained |-> r.retained, queued |-> r.queued,
              stopped |-> r.stopped, owns |-> r.owns]
      /\ r.next = v.next /\ r.futures = v.futures /\ r.pending = v.pending
      /\ r.running = v.running /\ r.retained = a /\ r.stopped = v.stopped /\ r.owns = v.owns
      /\ r.queued = v.queued
  BY DEF LaneShape
<1>2. QED
  BY <1>1 DEF LaneShape

\* The record of a lane with another running count.
LEMMA RunningLane ==
  ASSUME NEW l \in Lanes, NEW v, LaneShape(v, l), NEW a \in Int,
         NEW r, r = [v EXCEPT !.running = a]
  PROVE  /\ LaneShape(r, l)
         /\ r.next = v.next /\ r.futures = v.futures /\ r.pending = v.pending
         /\ r.running = a /\ r.retained = v.retained /\ r.stopped = v.stopped /\ r.owns = v.owns
         /\ r.queued = v.queued
<1>1. /\ r = [pending |-> r.pending, futures |-> r.futures, next |-> r.next,
              running |-> r.running, retained |-> r.retained, queued |-> r.queued,
              stopped |-> r.stopped, owns |-> r.owns]
      /\ r.next = v.next /\ r.futures = v.futures /\ r.pending = v.pending
      /\ r.running = a /\ r.retained = v.retained /\ r.stopped = v.stopped /\ r.owns = v.owns
      /\ r.queued = v.queued
  BY DEF LaneShape
<1>2. QED
  BY <1>1 DEF LaneShape

\* The pool after plane i of lane l got its permit, or was refused it.
Permitted(s, t, l, i, running) ==
  /\ Shaped(t)
  /\ t.workers = s.workers /\ t.state = s.state /\ t.cancelled = s.cancelled
  /\ t.admitted = s.admitted /\ t.retained = s.retained + 1
  /\ \A m \in Lanes \ {l} : SameLane(s.lane[m], t.lane[m]) /\ t.promise[m] = s.promise[m]
  /\ t.lane[l].pending = Tail(s.lane[l].pending) /\ t.lane[l].futures = s.lane[l].futures
  /\ t.lane[l].next = s.lane[l].next /\ t.lane[l].stopped = s.lane[l].stopped
  /\ t.lane[l].owns = s.lane[l].owns /\ t.lane[l].retained = s.lane[l].retained + 1
  /\ \A j \in Planes(l) \ {i} : t.promise[l][j] = s.promise[l][j]
  /\ t.promise[l][i] = IF running THEN "running" ELSE "failed"
  /\ t.tasks = IF running THEN s.tasks \union {<<l, i>>} ELSE s.tasks
  /\ t.active = IF running THEN s.active + 1 ELSE s.active
  /\ t.lane[l].running = IF running THEN s.lane[l].running + 1 ELSE s.lane[l].running

\* A grant takes the first pending plane, puts the lane back if more of them wait, and
\* counts the permit.
LEMMA GrantFields ==
  ASSUME NEW s, Shaped(s), NEW l \in Lanes, s.lane[l].pending # <<>>,
         NEW refused, NEW t, t = Grant(s, l, refused), NEW i, i = Head(s.lane[l].pending),
         Going(s) => /\ IsInjective(s.ready)
                     /\ \A m \in Lanes : s.lane[m].queued <=> m \in Range(s.ready)
                     /\ \A m \in Lanes \ {l} : s.lane[m].pending # <<>> => s.lane[m].queued,
         ~s.lane[l].stopped
  PROVE  Queued(t) /\ Permitted(s, t, l, i, refused # <<l, i>>)
<1>1. PICK v : v = s.lane[l]
  OBVIOUS
<1>2. LaneShape(v, l) /\ v.pending # <<>> /\ i = Head(v.pending)
  BY <1>1 DEF Shaped
<1>3. PICK p : p = Tail(v.pending)
  OBVIOUS
<1>4. p \in Seq(Planes(l)) /\ i \in Planes(l)
  BY <1>2, <1>3, HeadTailProperties DEF LaneShape
<1>5. PICK r : r = [v EXCEPT !.pending = p]
  OBVIOUS
<1>6. /\ LaneShape(r, l)
      /\ r.next = v.next /\ r.futures = v.futures /\ r.pending = p
      /\ r.running = v.running /\ r.retained = v.retained /\ r.queued = v.queued
      /\ r.stopped = v.stopped /\ r.owns = v.owns
  BY <1>2, <1>4, <1>5, PoppedLane
<1>7. PICK a : a = [s EXCEPT !.lane[l] = r]
  OBVIOUS
<1>8. a = [s EXCEPT !.lane[l].pending = Tail(@)]
  BY <1>1, <1>3, <1>5, <1>7
<1>9. /\ a = [workers |-> a.workers, active |-> a.active, retained |-> a.retained,
              state |-> a.state, cancelled |-> a.cancelled, admitted |-> a.admitted,
              ready |-> a.ready, tasks |-> a.tasks, lane |-> a.lane, promise |-> a.promise]
      /\ a.lane = [s.lane EXCEPT ![l] = r] /\ a.promise = s.promise
      /\ Alike(s, a) /\ a.ready = s.ready
  BY <1>7 DEF Shaped, Alike
<1>10. a.lane = [m \in Lanes |-> IF m = l THEN r ELSE s.lane[m]]
  BY <1>9 DEF Shaped
<1>11. a.lane = [m \in Lanes |-> a.lane[m]] /\ \A m \in Lanes : LaneShape(a.lane[m], m)
  BY <1>6, <1>10 DEF Shaped
<1>12. Shaped(a)
  BY <1>9, <1>11 DEF Shaped, Alike
<1>13. PICK c : c = Enqueue(a, l)
  OBVIOUS
<1>14. Enqueued(a, c, l)
  BY <1>12, <1>13, EnqueueFields
<1>15. Queued(c)
  <2>1. ASSUME Going(a)
        PROVE  /\ IsInjective(a.ready)
               /\ \A m \in Lanes : a.lane[m].queued <=> m \in Range(a.ready)
               /\ \A m \in Lanes \ {l} : a.lane[m].pending # <<>> => a.lane[m].queued
               /\ a.lane[l].stopped => a.lane[l].pending = <<>>
    <3>1. Going(s)
      BY <1>9, <2>1 DEF Going, Alike
    <3>2. \A m \in Lanes \ {l} : a.lane[m] = s.lane[m]
      BY <1>10
    <3>3. a.lane[l].queued = s.lane[l].queued /\ ~a.lane[l].stopped
      BY <1>1, <1>6, <1>10
    <3>4. QED
      BY <1>9, <3>1, <3>2, <3>3
  <2>2. QED
    BY <1>12, <1>14, <2>1, EnqueueQueues
<1>16. Shaped(c) /\ Alike(s, c) /\ c.promise = s.promise
  BY <1>9, <1>14 DEF Enqueued, Alike
<1>17. \A m \in Lanes \ {l} : SameLane(s.lane[m], c.lane[m])
  BY <1>10, <1>14 DEF Enqueued
<1>18. SameLane(r, c.lane[l])
  BY <1>10, <1>14 DEF Enqueued
<1>19. PICK w : w = c.lane[l]
  OBVIOUS
<1>20. LaneShape(w, l) /\ SameLane(r, w)
  BY <1>16, <1>18, <1>19 DEF Shaped
<1>21. PICK runs \in BOOLEAN : runs = (refused # <<l, i>>)
  OBVIOUS
<1>22. PICK h \in Nat : h = w.retained + 1
  BY <1>20 DEF LaneShape
<1>23. PICK x : x = [w EXCEPT !.retained = h]
  OBVIOUS
<1>24. /\ LaneShape(x, l)
       /\ x.next = w.next /\ x.futures = w.futures /\ x.pending = w.pending
       /\ x.running = w.running /\ x.retained = h /\ x.stopped = w.stopped /\ x.owns = w.owns
       /\ x.queued = w.queued
  BY <1>20, <1>23, HeldLane
<1>25. PICK held : held = [c EXCEPT !.retained = @ + 1, !.lane[l] = x]
  OBVIOUS
<1>26. held = [c EXCEPT !.retained = @ + 1, !.lane[l].retained = @ + 1]
  BY <1>19, <1>22, <1>23, <1>25
<1>27. /\ held = [workers |-> held.workers, active |-> held.active, retained |-> held.retained,
                  state |-> held.state, cancelled |-> held.cancelled, admitted |-> held.admitted,
                  ready |-> held.ready, tasks |-> held.tasks, lane |-> held.lane,
                  promise |-> held.promise]
       /\ held.lane = [c.lane EXCEPT ![l] = x] /\ held.promise = c.promise /\ held.ready = c.ready
       /\ held.retained = c.retained + 1 /\ held.workers = c.workers /\ held.active = c.active
       /\ held.state = c.state /\ held.cancelled = c.cancelled /\ held.admitted = c.admitted
       /\ held.tasks = c.tasks
  BY <1>16, <1>25 DEF Shaped
<1>28. held.lane[l] = x /\ c.lane = [m \in Lanes |-> c.lane[m]]
  BY <1>16, <1>27 DEF Shaped
<1>29. PICK kind : kind = IF runs THEN "running" ELSE "failed"
  OBVIOUS
<1>30. PICK z : z = [c.promise[l] EXCEPT ![i] = kind]
  OBVIOUS
<1>31. /\ PromiseShape(z, l) /\ z[i] = kind
       /\ \A j \in Planes(l) \ {i} : z[j] = s.promise[l][j]
  <2>1. PromiseShape(c.promise[l], l) /\ c.promise[l] = s.promise[l]
    BY <1>16 DEF Shaped
  <2>2. QED
    BY <1>4, <1>29, <1>30, <2>1 DEF PromiseShape, Kinds
<1>32. c.promise = [m \in Lanes |-> c.promise[m]]
  BY <1>16 DEF Shaped
<1> DEFINE Outcome(g) ==
             /\ LaneShape(g, l)
             /\ g.next = w.next /\ g.futures = w.futures /\ g.pending = w.pending
             /\ g.retained = h /\ g.stopped = w.stopped /\ g.owns = w.owns /\ g.queued = w.queued
             /\ g.running = IF runs THEN w.running + 1 ELSE w.running
             /\ t = [workers |-> t.workers, active |-> t.active, retained |-> t.retained,
                     state |-> t.state, cancelled |-> t.cancelled, admitted |-> t.admitted,
                     ready |-> t.ready, tasks |-> t.tasks, lane |-> t.lane, promise |-> t.promise]
             /\ t.lane = [m \in Lanes |-> IF m = l THEN g ELSE c.lane[m]]
             /\ t.promise = [m \in Lanes |-> IF m = l THEN z ELSE s.promise[m]]
             /\ t.workers = c.workers /\ t.state = c.state /\ t.cancelled = c.cancelled
             /\ t.admitted = c.admitted /\ t.ready = c.ready /\ t.retained = c.retained + 1
             /\ t.tasks = IF runs THEN c.tasks \union {<<l, i>>} ELSE c.tasks
             /\ t.active = IF runs THEN c.active + 1 ELSE c.active
<1>33. ASSUME ~runs
       PROVE  Outcome(x)
  <2>1. t = [held EXCEPT !.promise[l][i] = "failed"]
    BY <1>8, <1>13, <1>21, <1>26, <1>33 DEF Grant
  <2>2. t = [held EXCEPT !.promise[l] = z]
    BY <1>27, <1>29, <1>30, <1>33, <2>1
  <2>3. /\ t = [workers |-> t.workers, active |-> t.active, retained |-> t.retained,
                state |-> t.state, cancelled |-> t.cancelled, admitted |-> t.admitted,
                ready |-> t.ready, tasks |-> t.tasks, lane |-> t.lane, promise |-> t.promise]
        /\ t.lane = held.lane /\ t.promise = [held.promise EXCEPT ![l] = z]
        /\ t.workers = held.workers /\ t.state = held.state /\ t.cancelled = held.cancelled
        /\ t.admitted = held.admitted /\ t.ready = held.ready /\ t.retained = held.retained
        /\ t.tasks = held.tasks /\ t.active = held.active
    BY <1>27, <2>2
  <2>4. t.lane = [m \in Lanes |-> IF m = l THEN x ELSE c.lane[m]]
    BY <1>27, <1>28, <2>3
  <2>5. t.promise = [m \in Lanes |-> IF m = l THEN z ELSE s.promise[m]]
    BY <1>16, <1>27, <1>32, <2>3
  <2>6. QED
    BY <1>24, <1>27, <1>33, <2>3, <2>4, <2>5
<1>34. ASSUME runs
       PROVE  \E g : Outcome(g)
  <2>1. PICK y : y = [held EXCEPT !.tasks = @ \union {<<l, i>>}]
    OBVIOUS
  <2> DEFINE all == [held EXCEPT !.tasks = @ \union {<<l, i>>}, !.promise[l][i] = "running",
                                 !.active = @ + 1, !.lane[l].running = @ + 1]
  <2>2. t = all
    BY <1>8, <1>13, <1>21, <1>26, <1>34 DEF Grant
  <2>3. all = [y EXCEPT !.promise[l][i] = "running", !.active = @ + 1, !.lane[l].running = @ + 1]
    BY <1>27, <2>1
  <2>4. t = [y EXCEPT !.promise[l][i] = "running", !.active = @ + 1, !.lane[l].running = @ + 1]
    BY <2>2, <2>3
  <2>5. /\ y = [workers |-> y.workers, active |-> y.active, retained |-> y.retained,
                state |-> y.state, cancelled |-> y.cancelled, admitted |-> y.admitted,
                ready |-> y.ready, tasks |-> y.tasks, lane |-> y.lane, promise |-> y.promise]
        /\ y.lane = held.lane /\ y.promise = held.promise
        /\ y.workers = held.workers /\ y.state = held.state /\ y.cancelled = held.cancelled
        /\ y.admitted = held.admitted /\ y.ready = held.ready /\ y.retained = held.retained
        /\ y.tasks = held.tasks \union {<<l, i>>} /\ y.active = held.active
    BY <1>27, <2>1
  <2>6. PICK b \in Int : b = x.running + 1
    BY <1>24 DEF LaneShape
  <2>7. PICK g : g = [x EXCEPT !.running = b]
    OBVIOUS
  <2>8. /\ LaneShape(g, l)
        /\ g.next = x.next /\ g.futures = x.futures /\ g.pending = x.pending
        /\ g.running = b /\ g.retained = x.retained /\ g.stopped = x.stopped /\ g.owns = x.owns
        /\ g.queued = x.queued
    BY <1>24, <2>7, RunningLane
  <2>9. t = [y EXCEPT !.promise[l] = z, !.active = @ + 1, !.lane[l] = g]
    BY <1>27, <1>28, <1>29, <1>30, <1>34, <2>4, <2>5, <2>6, <2>7
  <2>10. /\ t = [workers |-> t.workers, active |-> t.active, retained |-> t.retained,
                state |-> t.state, cancelled |-> t.cancelled, admitted |-> t.admitted,
                ready |-> t.ready, tasks |-> t.tasks, lane |-> t.lane, promise |-> t.promise]
        /\ t.lane = [y.lane EXCEPT ![l] = g] /\ t.promise = [y.promise EXCEPT ![l] = z]
        /\ t.workers = y.workers /\ t.state = y.state /\ t.cancelled = y.cancelled
        /\ t.admitted = y.admitted /\ t.ready = y.ready /\ t.retained = y.retained
        /\ t.tasks = y.tasks /\ t.active = y.active + 1
    BY <2>5, <2>9
  <2>11. t.lane = [m \in Lanes |-> IF m = l THEN g ELSE c.lane[m]]
    BY <1>27, <1>28, <2>5, <2>10
  <2>12. t.promise = [m \in Lanes |-> IF m = l THEN z ELSE s.promise[m]]
    BY <1>16, <1>27, <1>32, <2>5, <2>10
  <2>13. Outcome(g)
    BY <1>24, <1>27, <1>34, <2>5, <2>6, <2>8, <2>10, <2>11, <2>12
  <2>14. QED
    BY <2>13
<1>35. PICK g : Outcome(g)
  BY <1>33, <1>34
<1>36. /\ t.lane = [m \in Lanes |-> t.lane[m]] /\ t.promise = [m \in Lanes |-> t.promise[m]]
       /\ \A m \in Lanes : LaneShape(t.lane[m], m) /\ PromiseShape(t.promise[m], m)
  BY <1>16, <1>31, <1>35 DEF Shaped
<1>37. Shaped(t)
  <2>1. t.tasks \subseteq UNION {{m} \X Planes(m) : m \in Lanes}
    <3>1. <<l, i>> \in {l} \X Planes(l)
      BY <1>4
    <3>2. QED
      BY <1>16, <1>35, <3>1 DEF Shaped
  <2>2. t.active \in Int /\ t.retained \in Nat
    BY <1>16, <1>35 DEF Shaped
  <2>3. QED
    BY <1>16, <1>35, <1>36, <2>1, <2>2 DEF Shaped
<1>38. t.lane[l] = g /\ \A m \in Lanes \ {l} : t.lane[m] = c.lane[m] /\ t.promise[m] = s.promise[m]
  BY <1>35
<1>39. t.promise[l] = z
  BY <1>35
<1>40. Queued(t)
  <2>1. /\ g.pending = c.lane[l].pending /\ g.queued = c.lane[l].queued
        /\ t.ready = c.ready /\ t.state = c.state /\ t.cancelled = c.cancelled
    BY <1>19, <1>35
  <2>2. \A m \in Lanes : t.lane[m].pending = c.lane[m].pending /\ t.lane[m].queued = c.lane[m].queued
    BY <1>38, <2>1
  <2> HIDE DEF Outcome
  <2>3. QED
    BY <1>15, <2>1, <2>2 DEF Queued, Going
<1>41. /\ w.pending = p /\ w.futures = v.futures /\ w.next = v.next /\ w.running = v.running
       /\ w.retained = v.retained /\ w.stopped = v.stopped /\ w.owns = v.owns
  BY <1>6, <1>20 DEF SameLane
<1>42. \A m \in Lanes \ {l} : SameLane(s.lane[m], t.lane[m])
  BY <1>17, <1>38
<1>43. Permitted(s, t, l, i, runs)
  <2>1. /\ t.workers = s.workers /\ t.state = s.state /\ t.cancelled = s.cancelled
        /\ t.admitted = s.admitted /\ t.retained = s.retained + 1
        /\ t.tasks = IF runs THEN s.tasks \union {<<l, i>>} ELSE s.tasks
        /\ t.active = IF runs THEN s.active + 1 ELSE s.active
    BY <1>16, <1>35 DEF Alike
  <2>2. /\ t.lane[l].pending = Tail(s.lane[l].pending) /\ t.lane[l].futures = s.lane[l].futures
        /\ t.lane[l].next = s.lane[l].next /\ t.lane[l].stopped = s.lane[l].stopped
        /\ t.lane[l].owns = s.lane[l].owns /\ t.lane[l].retained = s.lane[l].retained + 1
        /\ t.lane[l].running = IF runs THEN s.lane[l].running + 1 ELSE s.lane[l].running
    BY <1>1, <1>3, <1>22, <1>35, <1>38, <1>41
  <2>3. /\ \A j \in Planes(l) \ {i} : t.promise[l][j] = s.promise[l][j]
        /\ t.promise[l][i] = IF runs THEN "running" ELSE "failed"
    BY <1>29, <1>31, <1>39
  <2>4. QED
    BY <1>37, <1>38, <1>42, <2>1, <2>2, <2>3 DEF Permitted
<1>44. QED
  BY <1>21, <1>40, <1>43

\* Planes are finitely many.
LEMMA PlanesFinite ==
  ASSUME NEW l \in Lanes
  PROVE  IsFiniteSet(Planes(l)) /\ Planes(l) \subseteq Nat
<1>1. Count[l] \in Nat
  BY CountAssumption
<1>2. PICK b \in Int : b = Count[l] - 1
  BY <1>1
<1>3. IsFiniteSet(0..b)
  BY FS_Interval
<1>4. QED
  BY <1>1, <1>2, <1>3 DEF Planes

\* The counters of a lane count finite sets.
LEMMA LaneFinite ==
  ASSUME NEW s, Shaped(s), NEW l \in Lanes
  PROVE  /\ IsFiniteSet(RunningIn(s.promise[l], l)) /\ Cardinality(RunningIn(s.promise[l], l)) \in Nat
         /\ IsFiniteSet(GrantedIn(s.lane[l], s.promise[l]))
         /\ Cardinality(GrantedIn(s.lane[l], s.promise[l])) \in Nat
         /\ IsFiniteSet(s.lane[l].futures) /\ Cardinality(s.lane[l].futures) \in Nat
<1>1. s.lane[l].futures \subseteq Planes(l)
  BY DEF Shaped, LaneShape
<1>2. /\ RunningIn(s.promise[l], l) \subseteq Planes(l)
      /\ GrantedIn(s.lane[l], s.promise[l]) \subseteq Planes(l)
  BY <1>1 DEF RunningIn, GrantedIn
<1>3. \A S : S \subseteq Planes(l) => IsFiniteSet(S) /\ Cardinality(S) \in Nat
  BY PlanesFinite, FS_Subset, FS_CardinalityType
<1>4. QED
  BY <1>1, <1>2, <1>3

\* The retained planes of the pool, one lane changed.
LEMMA RetainedChange ==
  ASSUME NEW s, Shaped(s), NEW t, Shaped(t), NEW l \in Lanes,
         \A m \in Lanes \ {l} : t.lane[m].retained = s.lane[m].retained
  PROVE  Total(RetainedOf(t), Lanes) + s.lane[l].retained
         = Total(RetainedOf(s), Lanes) + t.lane[l].retained
<1>1. PICK a : a = RetainedOf(s)
  OBVIOUS
<1>2. PICK b : b = RetainedOf(t)
  OBVIOUS
<1>3. \A m \in Lanes : a[m] = s.lane[m].retained /\ b[m] = t.lane[m].retained
  BY <1>1, <1>2 DEF RetainedOf
<1>4. \A m \in Lanes : s.lane[m].retained \in Nat /\ t.lane[m].retained \in Nat
  BY DEF Shaped, LaneShape
<1>5. Total(b, Lanes) + a[l] = Total(a, Lanes) + b[l]
  BY <1>3, <1>4, LanesAssumption, TotalChange
<1>6. QED
  BY <1>1, <1>2, <1>3, <1>5

\* The lanes' retained planes have a total.
LEMMA RetainedTotal ==
  ASSUME NEW s, Shaped(s)
  PROVE  Total(RetainedOf(s), Lanes) \in Nat
<1>1. PICK a : a = RetainedOf(s)
  OBVIOUS
<1>2. \A m \in Lanes : a[m] \in Nat
  BY <1>1 DEF RetainedOf, Shaped, LaneShape
<1>3. QED
  BY <1>1, <1>2, LanesAssumption, TotalNat

\* The refused tasks that ran are counted.
LEMMA StraysInt ==
  ASSUME NEW d, NEW s, Books(s, d)
  PROVE  /\ Total(d, Lanes) \in Nat
         /\ \A l \in Lanes : d[l] \in Nat
         /\ IsFiniteSet(s.tasks) /\ Cardinality(s.tasks) \in Nat
<1>1. d \in [Lanes -> Nat] /\ IsFiniteSet(s.tasks)
  BY DEF Books
<1>2. \A l \in Lanes : d[l] \in Nat
  BY <1>1
<1>3. Total(d, Lanes) \in Nat
  BY <1>2, LanesAssumption, TotalNat
<1>4. QED
  BY <1>1, <1>2, <1>3, FS_CardinalityType

\* The first pending plane of a lane is i.
Front(s, l, i) ==
  /\ i \in Planes(l) /\ i \in s.lane[l].futures /\ i < s.lane[l].next
  /\ s.promise[l][i] = "pending" /\ <<l, i>> \notin s.tasks
  /\ ~s.lane[l].stopped /\ l \in s.admitted
  /\ Range(Tail(s.lane[l].pending)) = Range(s.lane[l].pending) \ {i}
  /\ IsInjective(Tail(s.lane[l].pending))

\* The first pending plane is a placeholder.
LEMMA FirstPending ==
  ASSUME NEW d, NEW s, Books(s, d), NEW l \in Lanes, s.lane[l].pending # <<>>,
         NEW i, i = Head(s.lane[l].pending)
  PROVE  Front(s, l, i)
<1>1. PICK q : q = s.lane[l].pending
  OBVIOUS
<1>2. PICK T : T = Planes(l)
  OBVIOUS
<1>3. LaneBooks(s.lane[l], s.promise[l], l, l \in s.admitted, d[l])
  BY DEF Books
<1>4. q \in Seq(T) /\ IsInjective(q) /\ q # <<>>
  BY <1>1, <1>2, <1>3 DEF Books, Shaped, LaneShape, LaneBooks
<1>5. /\ Head(q) \in Range(q) /\ Range(Tail(q)) = Range(q) \ {Head(q)} /\ IsInjective(Tail(q))
  BY <1>4, TailLoses
<1>6. Head(q) \in T
  BY <1>4, HeadTailProperties
<1>7. i \in Planes(l) /\ i \in Range(s.lane[l].pending)
  BY <1>1, <1>2, <1>5, <1>6
<1>8. s.promise[l][i] = "pending" /\ i \in s.lane[l].futures
  BY <1>3, <1>7 DEF LaneBooks
<1>9. i < s.lane[l].next /\ ~s.lane[l].stopped /\ l \in s.admitted
  BY <1>3, <1>8 DEF LaneBooks
<1>10. <<l, i>> \notin s.tasks
  BY <1>7, <1>8 DEF Books
<1>11. QED
  BY <1>1, <1>5, <1>7, <1>8, <1>9, <1>10 DEF Front

\* A permit granted, or refused, is in the books.
LEMMA PermittedBooks ==
  ASSUME NEW d, NEW s, Books(s, d), NEW l \in Lanes, s.lane[l].pending # <<>>,
         NEW i, i = Head(s.lane[l].pending), NEW b \in BOOLEAN,
         NEW t, Permitted(s, t, l, i, b)
  PROVE  Books(t, d)
<1>1. Shaped(s) /\ Shaped(t)
  BY DEF Books, Permitted
<1>2. /\ i \in Planes(l) /\ i \in s.lane[l].futures /\ i < s.lane[l].next
      /\ s.promise[l][i] = "pending" /\ <<l, i>> \notin s.tasks
      /\ ~s.lane[l].stopped /\ l \in s.admitted
      /\ Range(Tail(s.lane[l].pending)) = Range(s.lane[l].pending) \ {i}
      /\ IsInjective(Tail(s.lane[l].pending))
  <2>1. Front(s, l, i)
    BY FirstPending
  <2>2. QED
    BY <2>1 DEF Front
<1>3. LaneBooks(s.lane[l], s.promise[l], l, l \in s.admitted, d[l])
  BY DEF Books
<1>4. /\ \A j \in Planes(l) \ {i} : t.promise[l][j] = s.promise[l][j]
      /\ t.promise[l][i] = IF b THEN "running" ELSE "failed"
  BY DEF Permitted
<1>5. t.lane[l].running = Cardinality(RunningIn(t.promise[l], l)) - d[l]
  <2>1. PICK R : R = RunningIn(s.promise[l], l)
    OBVIOUS
  <2>2. IsFiniteSet(R) /\ i \notin R /\ s.lane[l].running = Cardinality(R) - d[l]
    BY <1>1, <1>2, <1>3, <2>1, LaneFinite DEF RunningIn, LaneBooks
  <2>3. CASE b
    <3>1. RunningIn(t.promise[l], l) = R \union {i}
      BY <1>2, <1>4, <2>1, <2>3 DEF RunningIn
    <3>2. Cardinality(R \union {i}) = Cardinality(R) + 1
      BY <2>2, FS_AddElement
    <3>3. t.lane[l].running = s.lane[l].running + 1
      BY <2>3 DEF Permitted
    <3>4. Cardinality(R) \in Nat /\ d[l] \in Nat
      BY <2>2, FS_CardinalityType, StraysInt
    <3>5. QED
      BY <2>2, <3>1, <3>2, <3>3, <3>4
  <2>4. CASE ~b
    <3>1. RunningIn(t.promise[l], l) = R
      BY <1>2, <1>4, <2>1, <2>4 DEF RunningIn
    <3>2. QED
      BY <2>2, <2>4, <3>1 DEF Permitted
  <2>5. QED
    BY <2>3, <2>4
<1>6. t.lane[l].retained = Cardinality(GrantedIn(t.lane[l], t.promise[l]))
  <2>1. PICK R : R = GrantedIn(s.lane[l], s.promise[l])
    OBVIOUS
  <2>2. IsFiniteSet(R) /\ i \notin R /\ s.lane[l].retained = Cardinality(R)
    BY <1>1, <1>2, <1>3, <2>1, LaneFinite DEF GrantedIn, LaneBooks
  <2>3. s.lane[l].futures \subseteq Planes(l) /\ t.lane[l].futures = s.lane[l].futures
    BY <1>1 DEF Shaped, LaneShape, Permitted
  <2>4. GrantedIn(t.lane[l], t.promise[l]) = R \union {i}
    BY <1>2, <1>4, <2>1, <2>3 DEF GrantedIn
  <2>5. Cardinality(R \union {i}) = Cardinality(R) + 1
    BY <2>2, FS_AddElement
  <2>6. QED
    BY <2>2, <2>4, <2>5 DEF Permitted
<1>7. LaneBooks(t.lane[l], t.promise[l], l, l \in t.admitted, d[l])
  <2>1. /\ t.lane[l].pending = Tail(s.lane[l].pending) /\ t.lane[l].futures = s.lane[l].futures
        /\ t.lane[l].next = s.lane[l].next /\ t.lane[l].stopped = s.lane[l].stopped
        /\ t.lane[l].owns = s.lane[l].owns /\ t.admitted = s.admitted
    BY DEF Permitted
  <2>2. ASSUME NEW j \in Planes(l)
        PROVE  /\ t.promise[l][j] = "none" \/ j < t.lane[l].next
               /\ t.promise[l][j] = "pending" <=> j \in Range(t.lane[l].pending)
               /\ t.promise[l][j] \in {"pending", "running"} => j \in t.lane[l].futures
               /\ l \in s.admitted
    <3>1. /\ s.promise[l][j] = "none" \/ j < s.lane[l].next
          /\ s.promise[l][j] = "pending" <=> j \in Range(s.lane[l].pending)
          /\ s.promise[l][j] \in {"pending", "running"} => j \in s.lane[l].futures
      BY <1>2, <1>3 DEF LaneBooks
    <3>2. CASE j = i
      BY <1>2, <1>4, <2>1, <3>2
    <3>3. CASE j # i
      BY <1>2, <1>4, <2>1, <3>1, <3>3
    <3>4. QED
      BY <3>2, <3>3
  <2>3. QED
    BY <1>2, <1>3, <1>5, <1>6, <2>1, <2>2 DEF LaneBooks
<1>8. \A m \in Lanes : LaneBooks(t.lane[m], t.promise[m], m, m \in t.admitted, d[m])
  <2> SUFFICES ASSUME NEW m \in Lanes, m # l
               PROVE  LaneBooks(t.lane[m], t.promise[m], m, m \in t.admitted, d[m])
    BY <1>7
  <2>1. LaneBooks(s.lane[m], s.promise[m], m, m \in s.admitted, d[m])
    BY DEF Books
  <2>2. SameLane(s.lane[m], t.lane[m]) /\ t.promise[m] = s.promise[m] /\ t.admitted = s.admitted
    BY DEF Permitted
  <2>3. QED
    BY <2>1, <2>2, LaneBooksSame
<1>9. ASSUME NEW m \in Lanes, NEW j \in Planes(m)
      PROVE  <<m, j>> \in t.tasks <=> t.promise[m][j] = "running"
  <2>1. <<m, j>> \in s.tasks <=> s.promise[m][j] = "running"
    BY DEF Books
  <2>2. CASE m = l /\ j = i
    BY <1>2, <1>4, <2>2 DEF Permitted
  <2>3. CASE m = l /\ j # i
    BY <1>4, <2>1, <2>3 DEF Permitted
  <2>4. CASE m # l
    BY <2>1, <2>4 DEF Permitted
  <2>5. QED
    BY <2>2, <2>3, <2>4
<1>10. IsFiniteSet(t.tasks) /\ t.active = Cardinality(t.tasks) - Total(d, Lanes)
  <2>1. PICK T : T = s.tasks
    OBVIOUS
  <2>2. IsFiniteSet(T) /\ s.active = Cardinality(T) - Total(d, Lanes) /\ <<l, i>> \notin T
    BY <1>2, <2>1 DEF Books
  <2>3. IsFiniteSet(T \union {<<l, i>>}) /\ Cardinality(T \union {<<l, i>>}) = Cardinality(T) + 1
    BY <2>2, FS_AddElement
  <2>4. CASE b
    <3>1. t.active = s.active + 1 /\ t.tasks = T \union {<<l, i>>}
      BY <2>1, <2>4 DEF Permitted
    <3>2. Cardinality(T) \in Nat /\ Total(d, Lanes) \in Nat
      BY <2>2, FS_CardinalityType, StraysInt
    <3>3. QED
      BY <2>2, <2>3, <3>1, <3>2
  <2>5. CASE ~b
    BY <2>1, <2>2, <2>5 DEF Permitted
  <2>6. QED
    BY <2>4, <2>5
<1>11. t.retained = Total(RetainedOf(t), Lanes)
  <2>1. \A m \in Lanes \ {l} : t.lane[m].retained = s.lane[m].retained
    BY DEF Permitted, SameLane
  <2>2. Total(RetainedOf(t), Lanes) + s.lane[l].retained = Total(RetainedOf(s), Lanes) + t.lane[l].retained
    BY <1>1, <2>1, RetainedChange
  <2>3. Total(RetainedOf(t), Lanes) \in Nat /\ Total(RetainedOf(s), Lanes) \in Nat
    BY <1>1, RetainedTotal
  <2>4. s.lane[l].retained \in Nat
    BY <1>1 DEF Shaped, LaneShape
  <2>5. s.retained = Total(RetainedOf(s), Lanes) /\ t.retained = s.retained + 1
        /\ t.lane[l].retained = s.lane[l].retained + 1
    BY DEF Books, Permitted
  <2>6. QED
    BY <2>2, <2>3, <2>4, <2>5
<1>12. QED
  BY <1>1, <1>8, <1>9, <1>10, <1>11 DEF Books

\* A lane with a pending plane has room in its window.
LEMMA PendingHasRoom ==
  ASSUME NEW d, NEW s, Books(s, d), NEW l \in Lanes, s.lane[l].pending # <<>>
  PROVE  s.lane[l].running < Window[l]
<1>1. PICK i : i = Head(s.lane[l].pending)
  OBVIOUS
<1>2. i \in s.lane[l].futures /\ s.promise[l][i] = "pending" /\ l \in s.admitted
  <2>1. Front(s, l, i)
    BY <1>1, FirstPending
  <2>2. QED
    BY <2>1 DEF Front
<1>3. LaneBooks(s.lane[l], s.promise[l], l, l \in s.admitted, d[l]) /\ Shaped(s)
  BY DEF Books
<1>4. PICK F : F = s.lane[l].futures
  OBVIOUS
<1>5. IsFiniteSet(F) /\ Cardinality(F) \in Nat
  BY <1>3, <1>4, LaneFinite
<1>6. IsFiniteSet(F \ {i}) /\ Cardinality(F \ {i}) = Cardinality(F) - 1
  BY <1>2, <1>4, <1>5, FS_RemoveElement
<1>7. RunningIn(s.promise[l], l) \in SUBSET (F \ {i})
  BY <1>2, <1>3, <1>4 DEF RunningIn, LaneBooks
<1>8. Cardinality(RunningIn(s.promise[l], l)) <= Cardinality(F \ {i})
  BY <1>6, <1>7, FS_Subset
<1>9. /\ s.lane[l].running = Cardinality(RunningIn(s.promise[l], l)) - d[l] /\ Cardinality(F) <= Window[l]
      /\ Window[l] \in Int /\ s.lane[l].running \in Int
  <2>1. s.lane[l].running = Cardinality(RunningIn(s.promise[l], l)) - d[l] /\ Cardinality(F) <= Window[l]
    BY <1>3, <1>4 DEF LaneBooks
  <2>2. LaneShape(s.lane[l], l)
    BY <1>3 DEF Shaped
  <2>3. s.lane[l].running \in Int
    BY <2>2 DEF LaneShape
  <2>4. QED
    BY <2>1, <2>3, WindowAssumption
<1>10. PICK c \in Int : c = Cardinality(F)
  BY <1>5
<1>11. PICK n \in Nat : n = d[l]
  BY StraysInt
<1>12. PICK e \in Nat : e = Cardinality(RunningIn(s.promise[l], l))
  BY <1>3, LaneFinite
<1>13. /\ s.lane[l].running = e - n /\ c <= Window[l] /\ e <= c - 1
       /\ Window[l] \in Int /\ s.lane[l].running \in Int
  BY <1>6, <1>8, <1>9, <1>10, <1>11, <1>12
<1>14. QED
  BY <1>13

\* The pending planes, one granted.
LEMMA PendingFinite ==
  ASSUME NEW s
  PROVE  IsFiniteSet(Pending(s)) /\ Cardinality(Pending(s)) \in Nat
<1> DEFINE P == {{l} \X Planes(l) : l \in Lanes}
<1>1. IsFiniteSet(P)
  <2> DEFINE f == [l \in Lanes |-> {l} \X Planes(l)]
  <2>1. f \in Surjection(Lanes, P)
    BY DEF Surjection
  <2>2. QED
    BY <2>1, LanesAssumption, FS_Surjection
<1>2. \A T \in P : IsFiniteSet(T)
  <2> SUFFICES ASSUME NEW l \in Lanes PROVE IsFiniteSet({l} \X Planes(l))
    OBVIOUS
  <2>1. IsFiniteSet({l})
    BY FS_Singleton
  <2>2. QED
    BY <2>1, PlanesFinite, FS_Product
<1>3. IsFiniteSet(UNION P)
  BY <1>1, <1>2, FS_UNION
<1>4. Pending(s) \in SUBSET UNION P
  BY DEF Pending
<1>5. QED
  BY <1>3, <1>4, FS_Subset, FS_CardinalityType

\* A grant shortens one pending list by one.
LEMMA PendingShrinks ==
  ASSUME NEW d, NEW s, Books(s, d), NEW l \in Lanes, s.lane[l].pending # <<>>,
         NEW i, i = Head(s.lane[l].pending), NEW b \in BOOLEAN,
         NEW t, Permitted(s, t, l, i, b)
  PROVE  Cardinality(Pending(t)) = Cardinality(Pending(s)) - 1
<1>1. i \in Planes(l) /\ s.promise[l][i] = "pending"
  <2>1. Front(s, l, i)
    BY FirstPending
  <2>2. QED
    BY <2>1 DEF Front
<1>2. PICK T : T = UNION {{m} \X Planes(m) : m \in Lanes}
  OBVIOUS
<1>3. \A x \in T : x[1] \in Lanes /\ x[2] \in Planes(x[1]) /\ x = <<x[1], x[2]>>
  BY <1>2
<1>4. <<l, i>> \in T
  BY <1>1, <1>2
<1>5. ASSUME NEW x \in T
      PROVE  t.promise[x[1]][x[2]] = "pending" <=> s.promise[x[1]][x[2]] = "pending" /\ x # <<l, i>>
  <2>1. CASE x = <<l, i>>
    BY <1>1, <2>1 DEF Permitted
  <2>2. CASE x # <<l, i>>
    <3>1. x[1] # l \/ x[2] # i
      BY <1>3, <2>2
    <3>2. t.promise[x[1]][x[2]] = s.promise[x[1]][x[2]]
      BY <1>3, <3>1 DEF Permitted
    <3>3. QED
      BY <2>2, <3>2
  <2>3. QED
    BY <2>1, <2>2
<1>6. PICK P : P = Pending(s)
  OBVIOUS
<1>7. P = {x \in T : s.promise[x[1]][x[2]] = "pending"} /\ Pending(t) = {x \in T : t.promise[x[1]][x[2]] = "pending"}
  BY <1>2, <1>6 DEF Pending
<1>8. Pending(t) = P \ {<<l, i>>} /\ <<l, i>> \in P
  BY <1>1, <1>4, <1>5, <1>7
<1>9. IsFiniteSet(P)
  BY <1>6, PendingFinite
<1>10. Cardinality(P \ {<<l, i>>}) = Cardinality(P) - 1
  BY <1>8, <1>9, FS_RemoveElement
<1>11. QED
  BY <1>6, <1>8, <1>10

\* A share is a number, the same for pools with the same workers and lanes.
LEMMA ShareInt ==
  ASSUME NEW s, Shaped(s)
  PROVE  /\ Share(s) \in Int
         /\ \A m \in Lanes : Limit(s, m, TRUE) \in Int /\ Limit(s, m, TRUE) <= Share(s)
                             /\ Limit(s, m, FALSE) = Window[m]
<1>1. PICK n : n = Cardinality(s.admitted)
  OBVIOUS
<1>2. s.admitted \in SUBSET Lanes
  BY DEF Shaped
<1>3. n \in Nat
  BY <1>1, <1>2, LanesAssumption, FS_Subset, FS_CardinalityType
<1>4. s.workers \in Int
  BY DEF Shaped
<1>5. Share(s) = IF n = 0 THEN s.workers ELSE (s.workers + n - 1) \div n
  BY <1>1 DEF Share
<1>6. Share(s) \in Int
  <2>1. CASE n = 0
    BY <1>4, <1>5, <2>1
  <2>2. CASE n # 0
    <3>1. n > 0 /\ n \in Int /\ s.workers + n - 1 \in Int
      BY <1>3, <1>4, <2>2
    <3>2. PICK w \in Int : w = s.workers + n - 1
      BY <3>1
    <3>3. w \div n \in Int
      BY <3>1
    <3>4. QED
      BY <1>5, <2>2, <3>2, <3>3
  <2>3. QED
    BY <2>1, <2>2
<1>7. \A m \in Lanes : Window[m] \in Int
  BY WindowAssumption
<1>8. QED
  BY <1>6, <1>7 DEF Limit, Lower

\* Granting a plane changes no lane's share.
LEMMA ShareSame ==
  ASSUME NEW s, NEW t, t.workers = s.workers, t.admitted = s.admitted
  PROVE  Share(t) = Share(s) /\ \A m \in Lanes : Limit(t, m, TRUE) = Limit(s, m, TRUE)
<1>1. Share(t) = Share(s)
  BY DEF Share
<1>2. QED
  BY <1>1 DEF Limit

\* No lane below its fair share has work, and nothing is left to grant.
FairDone(s) ==
  \A m \in Lanes : s.lane[m].pending = <<>> \/ s.lane[m].running >= Limit(s, m, TRUE)
Idle(s) == s.active >= s.workers \/ \A m \in Lanes : s.lane[m].pending = <<>>

\* What turns of the dispatch change.
Turned(s, t, d) ==
  /\ Books(t, d) /\ Queued(t)
  /\ t.workers = s.workers /\ t.state = s.state /\ t.cancelled = s.cancelled
  /\ t.admitted = s.admitted
  /\ \A m \in Lanes :
       /\ t.lane[m].futures = s.lane[m].futures /\ t.lane[m].next = s.lane[m].next
       /\ t.lane[m].stopped = s.lane[m].stopped /\ t.lane[m].owns = s.lane[m].owns
       /\ t.lane[m].running >= s.lane[m].running
       /\ s.lane[m].pending = <<>> => t.lane[m].pending = <<>>
       /\ \A i \in Planes(m) : s.promise[m][i] # "pending" => t.promise[m][i] = s.promise[m][i]
       /\ t.lane[m].running > s.lane[m].running => t.lane[m].running <= Share(s) \/ FairDone(t)
  /\ t.active = s.active \/ t.active <= t.workers
  /\ FairDone(s) => FairDone(t)

\* A turn grants or refuses one plane, or finds nothing to grant.
LEMMA TurnSound ==
  ASSUME NEW d, NEW s, Books(s, d), Queued(s), Going(s), NEW refused,
         NEW t, t = DispatchOne(s, refused)
  PROVE  /\ Turned(s, t, d)
         /\ \/ Idle(s) /\ t = s
            \/ ~Idle(s) /\ Cardinality(Pending(t)) = Cardinality(Pending(s)) - 1
<1>1. /\ Shaped(s) /\ s.ready \in Seq(Lanes) /\ s.active \in Int /\ s.workers \in Nat
      /\ \A m \in Lanes : s.lane[m].running \in Int
  <2>1. Shaped(s)
    BY DEF Books
  <2>2. \A m \in Lanes : LaneShape(s.lane[m], m)
    BY <2>1 DEF Shaped
  <2>3. \A m \in Lanes : s.lane[m].running \in Int
    BY <2>2 DEF LaneShape
  <2>4. s.ready \in Seq(Lanes) /\ s.active \in Int /\ s.workers \in 1..MaxWorkers
    BY <2>1 DEF Shaped
  <2>5. QED
    BY <2>1, <2>3, <2>4
<1>2. /\ IsInjective(s.ready)
      /\ \A m \in Lanes : /\ s.lane[m].queued <=> m \in Range(s.ready)
                          /\ s.lane[m].pending # <<>> => s.lane[m].queued
  BY DEF Queued
<1>3. ASSUME NEW m \in Lanes, s.lane[m].pending # <<>>
      PROVE  Live(s, m) /\ \E k \in DOMAIN s.ready : s.ready[k] = m
  <2>1. ~s.lane[m].stopped
    BY <1>3 DEF Books, LaneBooks
  <2>2. QED
    BY <1>2, <1>3, <2>1 DEF Live, Range
<1>4. CASE s.active >= s.workers \/ Choice(s) = {}
  <2>1. t = s
    BY <1>4 DEF DispatchOne
  <2>2. Idle(s)
    <3>1. CASE s.active >= s.workers
      BY <3>1 DEF Idle
    <3>2. CASE Choice(s) = {}
      <4>1. Fitting(s, FALSE) = {}
        BY <3>2 DEF Choice
      <4>2. ASSUME NEW m \in Lanes, s.lane[m].pending # <<>>
            PROVE  FALSE
        <5>1. PICK k \in DOMAIN s.ready : s.ready[k] = m /\ Live(s, s.ready[k])
          BY <1>3, <4>2
        <5>2. s.lane[m].running < Window[m]
          BY <4>2, PendingHasRoom
        <5>3. Limit(s, m, FALSE) = Window[m]
          BY DEF Limit
        <5>4. k \in Fitting(s, FALSE)
          BY <5>1, <5>2, <5>3 DEF Fitting
        <5>5. QED
          BY <4>1, <5>4
      <4>3. QED
        BY <4>2 DEF Idle
    <3>3. QED
      BY <1>4, <3>1, <3>2
  <2>3. Turned(s, t, d)
    BY <1>1, <2>1 DEF Turned
  <2>4. QED
    BY <2>1, <2>2, <2>3
<1>5. CASE ~(s.active >= s.workers) /\ Choice(s) # {}
  <2>1. PICK k : k = Min(Choice(s))
    OBVIOUS
  <2>2. k \in Choice(s) /\ k \in DOMAIN s.ready /\ Live(s, s.ready[k])
    <3>1. PICK C : C = Choice(s)
      OBVIOUS
    <3>2. C \subseteq DOMAIN s.ready /\ \A x \in C : Live(s, s.ready[x])
      BY <3>1 DEF Choice, Fitting
    <3>3. PICK n \in Nat : DOMAIN s.ready = 1..n
      BY <1>1
    <3>4. C \in SUBSET (0..n) /\ C # {}
      BY <1>5, <3>1, <3>2, <3>3
    <3>5. \E x \in C : \A y \in C : x <= y
      BY <3>4, LeastUpTo
    <3>6. k \in C
      BY <2>1, <3>1, <3>5 DEF Min
    <3>7. QED
      BY <3>1, <3>2, <3>6
  <2>3. PICK l : l = s.ready[k]
    OBVIOUS
  <2>4. l \in Lanes /\ s.lane[l].pending # <<>> /\ ~s.lane[l].stopped
    BY <1>1, <2>2, <2>3, ElementOfSeq DEF Live
  <2>5. PICK u : u = Select(s, k)
    OBVIOUS
  <2>6. t = Grant(u, l, refused)
    BY <1>5, <2>1, <2>3, <2>5 DEF DispatchOne
  <2>7. Selected(s, u, l)
    BY <2>2, <2>3, <2>5, SelectFields
  <2>8. Books(u, d)
    BY <2>7, BooksAlike DEF Selected
  <2>9. u.lane[l].pending # <<>> /\ ~u.lane[l].stopped
    BY <2>4, <2>7 DEF Selected, SameLane
  <2>10. PICK i : i = Head(u.lane[l].pending)
    OBVIOUS
  <2>11. PICK b \in BOOLEAN : b = (refused # <<l, i>>)
    OBVIOUS
  <2>12. Queued(t) /\ Permitted(u, t, l, i, refused # <<l, i>>)
    <3>1. /\ Shaped(u) /\ IsInjective(u.ready)
          /\ \A m \in Lanes : u.lane[m].queued <=> m \in Range(u.ready)
          /\ \A m \in Lanes \ {l} : u.lane[m].pending # <<>> => u.lane[m].queued
      BY <2>7 DEF Selected
    <3>2. QED
      BY <2>4, <2>6, <2>9, <2>10, <3>1, GrantFields
  <2>13. Queued(t) /\ Permitted(u, t, l, i, b)
    BY <2>11, <2>12
  <2>14. Books(t, d)
    BY <2>4, <2>8, <2>9, <2>10, <2>13, PermittedBooks
  <2>15. Cardinality(Pending(t)) = Cardinality(Pending(s)) - 1
    <3>1. Cardinality(Pending(t)) = Cardinality(Pending(u)) - 1
      BY <2>4, <2>8, <2>9, <2>10, <2>13, PendingShrinks
    <3>2. Pending(u) = Pending(s)
      BY <2>7 DEF Selected, Pending
    <3>3. QED
      BY <3>1, <3>2
  <2>16. /\ t.workers = s.workers /\ t.state = s.state /\ t.cancelled = s.cancelled
         /\ t.admitted = s.admitted /\ u.active = s.active
    BY <2>7, <2>13 DEF Selected, Alike, Permitted
  <2>17. \A m \in Lanes \ {l} : SameLane(s.lane[m], t.lane[m]) /\ t.promise[m] = s.promise[m]
    BY <2>7, <2>13 DEF Selected, SameLane, Permitted
  <2>18. SameLane(s.lane[l], u.lane[l]) /\ u.promise = s.promise
    BY <2>4, <2>7 DEF Selected
  <2>19. /\ t.lane[l].futures = s.lane[l].futures /\ t.lane[l].next = s.lane[l].next
         /\ t.lane[l].stopped = s.lane[l].stopped /\ t.lane[l].owns = s.lane[l].owns
         /\ t.lane[l].running = IF b THEN s.lane[l].running + 1 ELSE s.lane[l].running
    BY <2>13, <2>18 DEF SameLane, Permitted
  <2>20. \A j \in Planes(l) : s.promise[l][j] # "pending" => t.promise[l][j] = s.promise[l][j]
    <3>1. Front(u, l, i)
      BY <2>4, <2>8, <2>9, <2>10, FirstPending
    <3>2. s.promise[l][i] = "pending"
      BY <2>18, <3>1 DEF Front
    <3>3. QED
      BY <2>13, <2>18, <3>2 DEF Permitted
  <2>21. t.active = s.active \/ t.active <= t.workers
    <3>1. t.active = IF b THEN s.active + 1 ELSE s.active
      BY <2>13, <2>16 DEF Permitted
    <3>2. QED
      BY <1>1, <1>5, <2>16, <3>1
  <2>22. Share(t) = Share(s) /\ \A m \in Lanes : Limit(t, m, TRUE) = Limit(s, m, TRUE)
    BY <2>16, ShareSame
  <2>23. /\ Share(s) \in Int
         /\ \A m \in Lanes : Limit(s, m, TRUE) \in Int /\ Limit(s, m, TRUE) <= Share(s)
    BY <1>1, ShareInt
  <2>24. \A m \in Lanes : t.lane[m].running \in Int /\ t.lane[m].running >= s.lane[m].running
    <3>1. \A m \in Lanes \ {l} : t.lane[m].running = s.lane[m].running
      BY <2>17 DEF SameLane
    <3>2. QED
      BY <1>1, <2>4, <2>19, <3>1
  <2>25. FairDone(s) => FairDone(t)
    <3>1. SUFFICES ASSUME FairDone(s), NEW m \in Lanes, t.lane[m].pending # <<>>
                   PROVE  t.lane[m].running >= Limit(s, m, TRUE)
      BY <2>22 DEF FairDone
    <3>2. s.lane[m].pending # <<>>
      BY <2>4, <2>17, <3>1 DEF SameLane
    <3>3. s.lane[m].running >= Limit(s, m, TRUE)
      BY <3>1, <3>2 DEF FairDone
    <3>4. PICK x \in Int : x = Limit(s, m, TRUE)
      BY <2>23
    <3>5. PICK a \in Int, c \in Int : a = s.lane[m].running /\ c = t.lane[m].running /\ c >= a
      BY <1>1, <2>24, <3>1
    <3>6. a >= x
      BY <3>3, <3>4, <3>5, Zenon
    <3>7. c >= x
      BY <3>5, <3>6
    <3>8. QED
      BY <3>4, <3>5, <3>7, Zenon
  <2>26. ASSUME NEW m \in Lanes, t.lane[m].running > s.lane[m].running
         PROVE  t.lane[m].running <= Share(s) \/ FairDone(t)
    <3>1. m = l /\ t.lane[l].running = s.lane[l].running + 1
      <4>1. m = l
        <5>1. m # l => t.lane[m].running = s.lane[m].running
          BY <2>17 DEF SameLane
        <5>2. QED
          BY <1>1, <2>26, <5>1
      <4>2. QED
        BY <1>1, <2>4, <2>19, <2>26, <4>1
    <3>2. CASE k \in Fitting(s, TRUE)
      <4>1. s.lane[l].running < Limit(s, l, TRUE)
        BY <2>3, <3>2 DEF Fitting
      <4>2. PICK x \in Int : x = Limit(s, l, TRUE) /\ x <= Share(s)
        BY <2>4, <2>23
      <4>3. PICK a \in Int, y \in Int : a = s.lane[l].running /\ y = Share(s)
        BY <1>1, <2>4, <2>23
      <4>4. a < x /\ x <= y
        BY <4>1, <4>2, <4>3, Zenon
      <4>5. a + 1 <= y
        BY <4>4
      <4>6. QED
        BY <3>1, <4>3, <4>5
    <3>3. CASE k \notin Fitting(s, TRUE)
      <4>1. Fitting(s, TRUE) = {}
        BY <2>2, <3>3 DEF Choice
      <4>2. ASSUME NEW x \in Lanes, s.lane[x].pending # <<>>
            PROVE  s.lane[x].running >= Limit(s, x, TRUE)
        <5>1. PICK j \in DOMAIN s.ready : s.ready[j] = x /\ Live(s, s.ready[j])
          BY <1>3, <4>2
        <5>2. ~(s.lane[x].running < Limit(s, x, TRUE))
          BY <4>1, <5>1 DEF Fitting
        <5>3. PICK y \in Int : y = Limit(s, x, TRUE)
          BY <2>23
        <5>4. PICK a \in Int : a = s.lane[x].running
          BY <1>1
        <5>5. ~(a < y)
          BY <5>2, <5>3, <5>4, Zenon
        <5>6. a >= y
          BY <5>5
        <5>7. QED
          BY <5>3, <5>4, <5>6, Zenon
      <4>3. FairDone(s)
        BY <4>2 DEF FairDone
      <4>4. QED
        BY <2>25, <4>3
    <3>4. QED
      BY <3>2, <3>3
  <2>27. Turned(s, t, d)
    <3>1. ASSUME NEW m \in Lanes
          PROVE  /\ t.lane[m].futures = s.lane[m].futures /\ t.lane[m].next = s.lane[m].next
                 /\ t.lane[m].stopped = s.lane[m].stopped /\ t.lane[m].owns = s.lane[m].owns
                 /\ s.lane[m].pending = <<>> => t.lane[m].pending = <<>>
                 /\ \A j \in Planes(m) : s.promise[m][j] # "pending" => t.promise[m][j] = s.promise[m][j]
      <4>1. CASE m = l
        BY <2>4, <2>19, <2>20, <4>1
      <4>2. CASE m # l
        BY <2>17, <4>2 DEF SameLane
      <4>3. QED
        BY <4>1, <4>2
    <3>2. QED
      BY <2>13, <2>14, <2>16, <2>21, <2>24, <2>25, <2>26, <3>1 DEF Turned
  <2>28. QED
    BY <1>5, <2>4, <2>15, <2>27 DEF Idle
<1>6. QED
  BY <1>4, <1>5

-----------------------------------------------------------------------------
(* A dispatch. *)

\* Turns compose.
LEMMA TurnedTwice ==
  ASSUME NEW d, NEW s, NEW t, NEW u, Shaped(s), Turned(s, t, d), Turned(t, u, d)
  PROVE  Turned(s, u, d)
<1>1. Shaped(t) /\ Shaped(u)
  BY DEF Turned, Books
<1>2. Share(t) = Share(s) /\ Share(s) \in Int
  BY ShareSame, ShareInt DEF Turned
<1>3. ASSUME NEW m \in Lanes
      PROVE  /\ u.lane[m].futures = s.lane[m].futures /\ u.lane[m].next = s.lane[m].next
             /\ u.lane[m].stopped = s.lane[m].stopped /\ u.lane[m].owns = s.lane[m].owns
             /\ s.lane[m].pending = <<>> => u.lane[m].pending = <<>>
  BY DEF Turned
<1>4. ASSUME NEW m \in Lanes, NEW i \in Planes(m), s.promise[m][i] # "pending"
      PROVE  u.promise[m][i] = s.promise[m][i]
  <2>1. t.promise[m][i] = s.promise[m][i]
    BY <1>4 DEF Turned
  <2>2. QED
    BY <1>4, <2>1 DEF Turned
<1>5. ASSUME NEW m \in Lanes
      PROVE  /\ u.lane[m].running >= s.lane[m].running
             /\ u.lane[m].running > s.lane[m].running => u.lane[m].running <= Share(s) \/ FairDone(u)
  <2>1. LaneShape(s.lane[m], m) /\ LaneShape(t.lane[m], m) /\ LaneShape(u.lane[m], m)
    BY <1>1 DEF Shaped
  <2>2. PICK a \in Int, b \in Int, c \in Int :
               a = s.lane[m].running /\ b = t.lane[m].running /\ c = u.lane[m].running
    BY <2>1 DEF LaneShape
  <2>3. b >= a /\ c >= b
    BY <2>2 DEF Turned
  <2>4. b > a => b <= Share(s) \/ FairDone(t)
    BY <2>2 DEF Turned
  <2>5. c > b => c <= Share(s) \/ FairDone(u)
    BY <1>2, <2>2 DEF Turned
  <2>6. FairDone(t) => FairDone(u)
    BY DEF Turned
  <2>7. c > a => c <= Share(s) \/ FairDone(u)
    BY <2>3, <2>4, <2>5, <2>6
  <2>8. QED
    BY <2>2, <2>3, <2>7
<1>6. u.active = s.active \/ u.active <= u.workers
  <2>1. /\ t.active = s.active \/ t.active <= t.workers
        /\ u.active = t.active \/ u.active <= u.workers
        /\ u.workers = t.workers
    BY DEF Turned
  <2>2. QED
    BY <2>1
<1>7. FairDone(s) => FairDone(u)
  BY DEF Turned
<1>8. QED
  BY <1>3, <1>4, <1>5, <1>6, <1>7 DEF Turned

\* f takes turns from s, up to turn n.
Turns(f, s, refused, n) == f[0] = s /\ \A i \in 1..n : f[i] = DispatchOne(f[i - 1], refused)

\* The recursion of Dispatch has a solution.
LEMMA TurnsExist ==
  ASSUME NEW s, NEW refused, NEW n \in Nat
  PROVE  \E f : Turns(f, s, refused, n)
<1> DEFINE C == {j \in 0..n : ~ \E f : Turns(f, s, refused, j)}
<1>1. SUFFICES ASSUME C # {} PROVE FALSE
  <2>1. n \in 0..n
    OBVIOUS
  <2>2. QED
    BY <2>1
<1>2. PICK j \in C : \A y \in C : j <= y
  <2>1. C \in SUBSET (0..n)
    OBVIOUS
  <2> HIDE DEF C
  <2>2. QED
    BY <1>1, <2>1, LeastUpTo
<1>3. CASE j = 0
  <2> DEFINE f == [i \in {0} |-> s]
  <2>1. f[0] = s /\ 1..0 = {}
    OBVIOUS
  <2> HIDE DEF f
  <2>2. Turns(f, s, refused, 0)
    BY <2>1 DEF Turns
  <2>3. QED
    BY <1>2, <1>3, <2>2
<1>4. CASE j # 0
  <2>1. j \in 1..n /\ j - 1 \in 0..n /\ ~(j <= j - 1)
    BY <1>2, <1>4
  <2>2. PICK f : Turns(f, s, refused, j - 1)
    BY <1>2, <2>1
  <2>3. PICK last : last = DispatchOne(f[j - 1], refused)
    OBVIOUS
  <2> DEFINE h == [i \in 0..j |-> IF i = j THEN last ELSE f[i]]
  <2>4. h[0] = s /\ h[j] = last
    BY <2>1, <2>2 DEF Turns
  <2>5. \A i \in 0..(j - 1) : h[i] = f[i]
    BY <2>1
  <2> HIDE DEF h
  <2>6. \A i \in 1..j : h[i] = DispatchOne(h[i - 1], refused)
    <3> SUFFICES ASSUME NEW i \in 1..j PROVE h[i] = DispatchOne(h[i - 1], refused)
      OBVIOUS
    <3>1. i - 1 \in 0..(j - 1)
      BY <2>1
    <3>2. CASE i = j
      BY <2>3, <2>4, <2>5, <3>1, <3>2
    <3>3. CASE i # j
      <4>1. i \in 1..(j - 1) /\ i \in 0..(j - 1)
        BY <2>1, <3>3
      <4>2. h[i] = DispatchOne(f[i - 1], refused)
        BY <2>2, <2>5, <4>1 DEF Turns
      <4>3. QED
        BY <2>5, <3>1, <4>2
    <3>4. QED
      BY <3>2, <3>3
  <2>7. Turns(h, s, refused, j)
    BY <2>4, <2>6 DEF Turns
  <2>8. QED
    BY <1>2, <2>7
<1>5. QED
  BY <1>3, <1>4

\* Dispatch is what such turns end with, one for each pending plane.
LEMMA DispatchTurns ==
  ASSUME NEW s, NEW refused, Going(s), NEW n, n = Cardinality(Pending(s)), n \in Nat
  PROVE  \E f : Turns(f, s, refused, n) /\ Dispatch(s, refused) = f[n]
<1> DEFINE turn == CHOOSE f : f = [j \in 0..n |-> IF j = 0 THEN s ELSE DispatchOne(f[j - 1], refused)]
<1>1. Dispatch(s, refused) = turn[n]
  BY DEF Dispatch, Going
<1>2. PICK g : Turns(g, s, refused, n)
  BY TurnsExist
<1> DEFINE h == [j \in 0..n |-> g[j]]
<1>3. \A j \in 0..n : h[j] = IF j = 0 THEN s ELSE DispatchOne(h[j - 1], refused)
  <2> SUFFICES ASSUME NEW j \in 0..n PROVE h[j] = IF j = 0 THEN s ELSE DispatchOne(h[j - 1], refused)
    OBVIOUS
  <2>1. CASE j = 0
    BY <1>2, <2>1 DEF Turns
  <2>2. CASE j # 0
    <3>1. j \in 1..n /\ j - 1 \in 0..n
      BY <2>2
    <3>2. h[j - 1] = g[j - 1] /\ h[j] = g[j]
      BY <3>1
    <3>3. g[j] = DispatchOne(g[j - 1], refused)
      BY <1>2, <3>1 DEF Turns
    <3> HIDE DEF h
    <3>4. QED
      BY <2>2, <3>2, <3>3
  <2>3. QED
    BY <2>1, <2>2
<1>4. h = [j \in 0..n |-> h[j]]
  OBVIOUS
<1> HIDE DEF h
<1>5. h = [j \in 0..n |-> IF j = 0 THEN s ELSE DispatchOne(h[j - 1], refused)]
  BY <1>3, <1>4
<1>6. turn = [j \in 0..n |-> IF j = 0 THEN s ELSE DispatchOne(turn[j - 1], refused)]
  BY <1>5, Zenon
<1> HIDE DEF turn
<1>7. turn[0] = s
  <2>1. 0 \in 0..n
    OBVIOUS
  <2>2. QED
    BY <1>6, <2>1
<1>8. \A j \in 1..n : turn[j] = DispatchOne(turn[j - 1], refused)
  <2>1. \A j \in 1..n : j \in 0..n /\ j # 0
    OBVIOUS
  <2>2. QED
    BY <1>6, <2>1
<1>9. QED
  BY <1>1, <1>7, <1>8 DEF Turns

\* A dispatch keeps the books and the ready queue, and leaves nothing to grant.
LEMMA DispatchSound ==
  ASSUME NEW d, NEW s, Books(s, d), Queued(s), NEW refused,
         NEW t, t = Dispatch(s, refused)
  PROVE  Turned(s, t, d) /\ Busy(t)
<1>1. CASE ~Going(s)
  <2>1. t = s
    BY <1>1 DEF Dispatch, Going
  <2>2. Turned(s, s, d)
    <3>1. \A m \in Lanes : LaneShape(s.lane[m], m)
      BY DEF Books, Shaped
    <3>2. \A m \in Lanes : s.lane[m].running \in Int
      BY <3>1 DEF LaneShape
    <3>3. QED
      BY <3>2 DEF Turned
  <2>3. QED
    BY <1>1, <2>1, <2>2 DEF Busy
<1>2. CASE Going(s)
  <2>1. PICK n : n = Cardinality(Pending(s))
    OBVIOUS
  <2>2. n \in Nat
    BY <2>1, PendingFinite
  <2>3. PICK f : Turns(f, s, refused, n) /\ t = f[n]
    BY <1>2, <2>1, <2>2, DispatchTurns
  <2> DEFINE Good(j) == /\ Turned(s, f[j], d)
                        /\ Idle(f[j]) \/ Cardinality(Pending(f[j])) = n - j
             C == {j \in 0..n : ~Good(j)}
  <2>4. Good(0)
    <3>1. \A m \in Lanes : LaneShape(s.lane[m], m)
      BY DEF Books, Shaped
    <3>2. \A m \in Lanes : s.lane[m].running \in Int
      BY <3>1 DEF LaneShape
    <3>3. Turned(s, s, d)
      BY <3>2 DEF Turned
    <3>4. f[0] = s /\ n - 0 = n
      BY <2>2, <2>3 DEF Turns
    <3>5. QED
      BY <2>1, <3>3, <3>4
  <2>5. ASSUME NEW j \in 1..n, Good(j - 1)
        PROVE  Good(j)
    <3>1. PICK a : a = f[j - 1]
      OBVIOUS
    <3>2. PICK b : b = f[j]
      OBVIOUS
    <3>3. b = DispatchOne(a, refused)
      BY <2>3, <3>1, <3>2 DEF Turns
    <3>4. Turned(s, a, d) /\ (Idle(a) \/ Cardinality(Pending(a)) = n - (j - 1))
      BY <2>5, <3>1
    <3>5. Books(a, d) /\ Queued(a) /\ Going(a)
      BY <1>2, <3>4 DEF Turned, Going
    <3>6. /\ Turned(a, b, d)
          /\ \/ Idle(a) /\ b = a
             \/ ~Idle(a) /\ Cardinality(Pending(b)) = Cardinality(Pending(a)) - 1
      BY <3>3, <3>5, TurnSound
    <3>7. Shaped(s)
      BY DEF Books
    <3>8. Turned(s, b, d)
      BY <3>4, <3>6, <3>7, TurnedTwice
    <3>9. Idle(b) \/ Cardinality(Pending(b)) = n - j
      <4>1. CASE Idle(a)
        BY <3>6, <4>1
      <4>2. CASE ~Idle(a)
        <5>1. Cardinality(Pending(a)) = n - (j - 1)
          BY <3>4, <4>2
        <5>2. QED
          BY <2>2, <3>6, <4>2, <5>1
      <4>3. QED
        BY <4>1, <4>2
    <3>10. QED
      BY <3>2, <3>8, <3>9
  <2> HIDE DEF Good
  <2>6. Good(n)
    <3>1. SUFFICES ASSUME C # {} PROVE FALSE
      BY <2>2
    <3>2. PICK j \in C : \A y \in C : j <= y
      <4>1. C \in SUBSET (0..n)
        OBVIOUS
      <4> HIDE DEF C
      <4>2. QED
        BY <2>2, <3>1, <4>1, LeastUpTo
    <3>3. j # 0
      BY <2>4, <3>2
    <3>4. j \in 1..n /\ j - 1 \in 0..n /\ ~(j <= j - 1)
      BY <2>2, <3>2, <3>3
    <3>5. Good(j - 1)
      BY <3>2, <3>4
    <3>6. QED
      BY <2>5, <3>2, <3>4, <3>5
  <2>7. Turned(s, t, d) /\ (Idle(t) \/ Cardinality(Pending(t)) = n - n)
    BY <2>3, <2>6 DEF Good
  <2>8. Idle(t)
    <3>1. CASE Idle(t)
      BY <3>1
    <3>2. CASE Cardinality(Pending(t)) = n - n
      <4>1. Cardinality(Pending(t)) = 0
        BY <2>2, <3>2
      <4>2. Pending(t) = {}
        BY <4>1, PendingFinite, FS_EmptySet
      <4>3. ASSUME NEW m \in Lanes, t.lane[m].pending # <<>>
            PROVE  FALSE
        <5>1. PICK i : i = Head(t.lane[m].pending)
          OBVIOUS
        <5>2. Front(t, m, i)
          BY <2>7, <4>3, <5>1, FirstPending DEF Turned
        <5>3. <<m, i>> \in Pending(t)
          BY <5>2 DEF Front, Pending
        <5>4. QED
          BY <4>2, <5>3
      <4>4. QED
        BY <4>3 DEF Idle
    <3>3. QED
      BY <2>7, <3>1, <3>2
  <2>9. Cardinality(t.tasks) >= t.active /\ t.workers \in Int /\ t.active \in Int
    <3>1. Books(t, d)
      BY <2>7 DEF Turned
    <3>2. Total(d, Lanes) \in Nat /\ Cardinality(t.tasks) \in Nat
      BY <3>1, StraysInt
    <3>3. t.active = Cardinality(t.tasks) - Total(d, Lanes)
      BY <3>1 DEF Books
    <3>4. t.workers \in 1..MaxWorkers
      BY <3>1 DEF Books, Shaped
    <3>5. QED
      BY <3>2, <3>3, <3>4
  <2>10. Cardinality(t.tasks) \in Int
    BY <2>7, StraysInt DEF Turned
  <2>11. ASSUME t.active >= t.workers
         PROVE  Cardinality(t.tasks) >= t.workers
    BY <2>9, <2>10, <2>11
  <2>12. QED
    BY <2>7, <2>8, <2>11 DEF Idle, Busy
<1>3. QED
  BY <1>1, <1>2

-----------------------------------------------------------------------------
(* The critical sections, before the dispatch that ends them. *)

\* What a consumer of lane l knows stays true.
Steady(s, t, l) ==
  /\ t.state = "closed" <=> s.state = "closed"
  /\ l \in t.admitted <=> l \in s.admitted
  /\ t.lane[l].futures = s.lane[l].futures /\ t.lane[l].next = s.lane[l].next
  /\ t.lane[l].owns = s.lane[l].owns
  /\ t.lane[l].stopped = s.lane[l].stopped \/ (t.lane[l].stopped /\ l \in s.admitted)
  /\ \A i \in Planes(l) : s.promise[l][i] = "done" => t.promise[l][i] = "done"

\* The lanes of S are stopped.
Stopped(s, t, S) ==
  /\ Shaped(t) /\ Alike(s, t) /\ t.ready = s.ready
  /\ \A m \in Lanes \ S : t.lane[m] = s.lane[m] /\ t.promise[m] = s.promise[m]
  /\ \A m \in S : /\ t.lane[m].pending = <<>> /\ t.lane[m].stopped
                  /\ t.lane[m].futures = s.lane[m].futures /\ t.lane[m].next = s.lane[m].next
                  /\ t.lane[m].running = s.lane[m].running
                  /\ t.lane[m].retained = s.lane[m].retained
                  /\ t.lane[m].queued = s.lane[m].queued /\ t.lane[m].owns = s.lane[m].owns
                  /\ \A i \in Planes(m) : t.promise[m][i] =
                       IF s.promise[m][i] = "pending" THEN "cancelled" ELSE s.promise[m][i]

\* The record of a lane that was stopped.
Emptied(r, v, l) ==
  /\ LaneShape(r, l)
  /\ r.next = v.next /\ r.futures = v.futures /\ r.pending = <<>>
  /\ r.running = v.running /\ r.retained = v.retained /\ r.stopped /\ r.owns = v.owns
  /\ r.queued = v.queued

\* The record of a stopped lane.
LEMMA StoppedLane ==
  ASSUME NEW l \in Lanes, NEW v, LaneShape(v, l), NEW b \in BOOLEAN, b = TRUE,
         NEW e \in Seq(Planes(l)), e = <<>>,
         NEW r, r = [v EXCEPT !.stopped = b, !.pending = e]
  PROVE  Emptied(r, v, l)
<1>1. /\ r = [pending |-> r.pending, futures |-> r.futures, next |-> r.next,
              running |-> r.running, retained |-> r.retained, queued |-> r.queued,
              stopped |-> r.stopped, owns |-> r.owns]
      /\ r.next = v.next /\ r.futures = v.futures /\ r.pending = e
      /\ r.running = v.running /\ r.retained = v.retained /\ r.stopped = b /\ r.owns = v.owns
      /\ r.queued = v.queued
  BY DEF LaneShape
<1>2. LaneShape(r, l)
  BY <1>1 DEF LaneShape
<1>3. QED
  BY <1>1, <1>2 DEF Emptied

\* What a stop changes: pending planes of the stopped lanes are cancelled.
LEMMA StopFields ==
  ASSUME NEW s, Shaped(s), NEW S, S \subseteq Lanes, NEW t, t = Stop(s, S)
  PROVE  Stopped(s, t, S)
<1> DEFINE lanes == [l \in Lanes |-> IF l \in S
                        THEN [s.lane[l] EXCEPT !.stopped = TRUE, !.pending = <<>>]
                        ELSE s.lane[l]]
           promises == [l \in Lanes |-> [i \in Planes(l) |->
                          IF l \in S /\ s.promise[l][i] = "pending"
                          THEN "cancelled" ELSE s.promise[l][i]]]
<1>1. t = [s EXCEPT !.lane = lanes, !.promise = promises]
  BY DEF Stop
<1>2. lanes = [l \in Lanes |-> lanes[l]] /\ promises = [l \in Lanes |-> promises[l]]
  OBVIOUS
<1>3. \A m \in Lanes \ S : lanes[m] = s.lane[m]
  OBVIOUS
<1>4. ASSUME NEW m \in S
      PROVE  /\ LaneShape(lanes[m], m)
             /\ lanes[m].pending = <<>> /\ lanes[m].stopped
             /\ lanes[m].futures = s.lane[m].futures /\ lanes[m].next = s.lane[m].next
             /\ lanes[m].running = s.lane[m].running /\ lanes[m].retained = s.lane[m].retained
             /\ lanes[m].queued = s.lane[m].queued /\ lanes[m].owns = s.lane[m].owns
  <2>1. PICK v : v = s.lane[m]
    OBVIOUS
  <2>2. m \in Lanes /\ LaneShape(v, m)
    BY <2>1 DEF Shaped
  <2>3. PICK b \in BOOLEAN : b = TRUE
    OBVIOUS
  <2>4. PICK e \in Seq(Planes(m)) : e = <<>>
    BY EmptySeq
  <2>5. PICK r : r = [v EXCEPT !.stopped = b, !.pending = e]
    OBVIOUS
  <2>6. Emptied(r, v, m)
    BY <2>2, <2>3, <2>4, <2>5, StoppedLane
  <2>7. lanes[m] = r
    BY <2>1, <2>2, <2>3, <2>4, <2>5
  <2> HIDE DEF lanes
  <2>8. QED
    BY <2>1, <2>6, <2>7 DEF Emptied
<1>5. ASSUME NEW m \in Lanes
      PROVE  /\ PromiseShape(promises[m], m)
             /\ \A i \in Planes(m) : promises[m][i] =
                  IF m \in S /\ s.promise[m][i] = "pending" THEN "cancelled" ELSE s.promise[m][i]
             /\ m \notin S => promises[m] = s.promise[m]
  <2>1. PromiseShape(s.promise[m], m)
    BY DEF Shaped
  <2>2. PICK p : p = s.promise[m]
    OBVIOUS
  <2>3. promises[m] = [i \in Planes(m) |-> IF m \in S /\ p[i] = "pending" THEN "cancelled" ELSE p[i]]
    BY <2>2
  <2> HIDE DEF promises
  <2>4. PICK q : q = promises[m]
    OBVIOUS
  <2>5. q = [i \in Planes(m) |-> IF m \in S /\ p[i] = "pending" THEN "cancelled" ELSE p[i]]
    BY <2>3, <2>4
  <2>6. p = [i \in Planes(m) |-> p[i]] /\ \A i \in Planes(m) : p[i] \in Kinds
    BY <2>1, <2>2 DEF PromiseShape
  <2>7. q = [i \in Planes(m) |-> q[i]] /\ \A i \in Planes(m) : q[i] \in Kinds
    BY <2>5, <2>6 DEF Kinds
  <2>8. m \notin S => q = p
    BY <2>5, <2>6
  <2>9. QED
    BY <2>2, <2>4, <2>5, <2>7, <2>8 DEF PromiseShape
<1> HIDE DEF lanes, promises
<1>6. /\ t = [workers |-> t.workers, active |-> t.active, retained |-> t.retained,
              state |-> t.state, cancelled |-> t.cancelled, admitted |-> t.admitted,
              ready |-> t.ready, tasks |-> t.tasks, lane |-> t.lane, promise |-> t.promise]
      /\ t.lane = lanes /\ t.promise = promises /\ Alike(s, t) /\ t.ready = s.ready
  BY <1>1 DEF Shaped, Alike
<1>7. \A m \in Lanes : LaneShape(t.lane[m], m) /\ PromiseShape(t.promise[m], m)
  <2> SUFFICES ASSUME NEW m \in Lanes PROVE LaneShape(t.lane[m], m)
    BY <1>5, <1>6
  <2>1. CASE m \in S
    BY <1>4, <1>6, <2>1
  <2>2. CASE m \notin S
    BY <1>3, <1>6, <2>2 DEF Shaped
  <2>3. QED
    BY <2>1, <2>2
<1>8. Shaped(t)
  BY <1>2, <1>6, <1>7 DEF Shaped, Alike
<1>9. \A m \in Lanes \ S : t.lane[m] = s.lane[m] /\ t.promise[m] = s.promise[m]
  BY <1>3, <1>5, <1>6
<1>10. ASSUME NEW m \in S
       PROVE  \A i \in Planes(m) : t.promise[m][i] =
                IF s.promise[m][i] = "pending" THEN "cancelled" ELSE s.promise[m][i]
  BY <1>5, <1>6
<1>11. QED
  BY <1>4, <1>6, <1>8, <1>9, <1>10 DEF Stopped

\* A stop is in the books.
LEMMA StoppedBooks ==
  ASSUME NEW d, NEW s, Books(s, d), NEW S, S \subseteq Lanes, NEW t, Stopped(s, t, S)
  PROVE  Books(t, d)
<1>1. Shaped(t) /\ Shaped(s) /\ t.admitted = s.admitted /\ t.tasks = s.tasks
  BY DEF Stopped, Alike, Books
<1>2. \A m \in Lanes : /\ LaneBooks(t.lane[m], t.promise[m], m, m \in t.admitted, d[m])
                       /\ \A i \in Planes(m) : <<m, i>> \in t.tasks <=> t.promise[m][i] = "running"
  <2> SUFFICES ASSUME NEW m \in Lanes
               PROVE  /\ LaneBooks(t.lane[m], t.promise[m], m, m \in t.admitted, d[m])
                      /\ \A i \in Planes(m) : <<m, i>> \in t.tasks <=> t.promise[m][i] = "running"
    OBVIOUS
  <2>1. /\ LaneBooks(s.lane[m], s.promise[m], m, m \in s.admitted, d[m])
        /\ \A i \in Planes(m) : <<m, i>> \in s.tasks <=> s.promise[m][i] = "running"
    BY DEF Books
  <2>2. CASE m \notin S
    <3>1. t.lane[m] = s.lane[m] /\ t.promise[m] = s.promise[m]
      BY <2>2 DEF Stopped
    <3>2. QED
      BY <1>1, <2>1, <3>1
  <2>3. CASE m \in S
    <3>1. /\ t.lane[m].pending = <<>> /\ t.lane[m].stopped
          /\ t.lane[m].futures = s.lane[m].futures /\ t.lane[m].next = s.lane[m].next
          /\ t.lane[m].running = s.lane[m].running /\ t.lane[m].retained = s.lane[m].retained
          /\ t.lane[m].owns = s.lane[m].owns
          /\ \A i \in Planes(m) : t.promise[m][i] =
               IF s.promise[m][i] = "pending" THEN "cancelled" ELSE s.promise[m][i]
      BY <2>3 DEF Stopped
    <3>2. s.lane[m].futures \subseteq Planes(m)
      BY <1>1 DEF Shaped, LaneShape
    <3>3. RunningIn(t.promise[m], m) = RunningIn(s.promise[m], m)
      BY <3>1 DEF RunningIn
    <3>4. GrantedIn(t.lane[m], t.promise[m]) = GrantedIn(s.lane[m], s.promise[m])
      BY <3>1, <3>2 DEF GrantedIn
    <3>5. IsInjective(t.lane[m].pending) /\ Range(t.lane[m].pending) = {}
      BY <3>1 DEF IsInjective, Range
    <3>6. \A i \in Planes(m) : /\ t.promise[m][i] = "none" \/ i < t.lane[m].next
                               /\ t.promise[m][i] # "pending"
                               /\ t.promise[m][i] = "running" /\ m \in s.admitted
                                    => i \in t.lane[m].futures
      <4> SUFFICES ASSUME NEW i \in Planes(m)
                   PROVE  /\ t.promise[m][i] = "none" \/ i < t.lane[m].next
                          /\ t.promise[m][i] # "pending"
                          /\ t.promise[m][i] = "running" /\ m \in s.admitted
                               => i \in t.lane[m].futures
        OBVIOUS
      <4>1. /\ s.promise[m][i] = "none" \/ i < s.lane[m].next
            /\ s.promise[m][i] = "running" /\ m \in s.admitted => i \in s.lane[m].futures
        BY <2>1 DEF LaneBooks
      <4>2. QED
        BY <3>1, <4>1
    <3>7. LaneBooks(t.lane[m], t.promise[m], m, m \in t.admitted, d[m])
      BY <1>1, <2>1, <3>1, <3>3, <3>4, <3>5, <3>6 DEF LaneBooks
    <3>8. \A i \in Planes(m) : <<m, i>> \in t.tasks <=> t.promise[m][i] = "running"
      BY <1>1, <2>1, <3>1
    <3>9. QED
      BY <3>7, <3>8
  <2>4. QED
    BY <2>2, <2>3
<1>3. RetainedOf(t) = RetainedOf(s)
  <2>1. \A m \in Lanes : t.lane[m].retained = s.lane[m].retained
    BY DEF Stopped
  <2>2. QED
    BY <2>1 DEF RetainedOf
<1>4. t.active = s.active /\ t.retained = s.retained
  BY DEF Stopped, Alike
<1>5. QED
  BY <1>1, <1>2, <1>3, <1>4 DEF Books

\* The consumer of a lane knows as much, even if its lane was admitted and is stopped.
LEMMA StoppedSteady ==
  ASSUME NEW s, NEW S, NEW t, Stopped(s, t, S), NEW l \in Lanes, l \in S => l \in s.admitted
  PROVE  Steady(s, t, l)
<1>1. t.state = s.state /\ t.admitted = s.admitted
  BY DEF Stopped, Alike
<1>2. CASE l \in S
  BY <1>1, <1>2 DEF Stopped, Steady
<1>3. CASE l \notin S
  <2>1. PICK v, p : v = s.lane[l] /\ p = s.promise[l]
    OBVIOUS
  <2>2. t.lane[l] = v /\ t.promise[l] = p
    BY <1>3, <2>1 DEF Stopped
  <2>3. QED
    BY <1>1, <2>1, <2>2 DEF Steady
<1>4. QED
  BY <1>2, <1>3

\* A lane record without its futures and credit.
LEMMA ReleasedLane ==
  ASSUME NEW l \in Lanes, NEW v, LaneShape(v, l), NEW r, r = Released(v)
  PROVE  /\ LaneShape(r, l)
         /\ r.next = v.next /\ r.futures = {} /\ r.pending = v.pending
         /\ r.running = v.running /\ r.retained = 0 /\ r.stopped = v.stopped /\ ~r.owns
         /\ r.queued = v.queued
<1>1. PICK o \in BOOLEAN : o = FALSE
  OBVIOUS
<1>2. r = [v EXCEPT !.retained = 0, !.futures = {}, !.owns = o]
  BY <1>1 DEF Released
<1>3. /\ r = [pending |-> r.pending, futures |-> r.futures, next |-> r.next,
              running |-> r.running, retained |-> r.retained, queued |-> r.queued,
              stopped |-> r.stopped, owns |-> r.owns]
      /\ r.next = v.next /\ r.futures = {} /\ r.pending = v.pending
      /\ r.running = v.running /\ r.retained = 0 /\ r.stopped = v.stopped /\ r.owns = o
      /\ r.queued = v.queued
  BY <1>2 DEF LaneShape
<1>4. QED
  BY <1>1, <1>3 DEF LaneShape

\* The lane of a closed stream has left the pool.
Settled(s, t, l) ==
  /\ Shaped(t)
  /\ t.workers = s.workers /\ t.active = s.active /\ t.state = s.state
  /\ t.cancelled = s.cancelled /\ t.tasks = s.tasks /\ t.ready = s.ready
  /\ t.admitted = s.admitted \ {l} /\ t.promise = s.promise
  /\ t.retained = s.retained - s.lane[l].retained
  /\ \A m \in Lanes \ {l} : t.lane[m] = s.lane[m]
  /\ t.lane[l].futures = {} /\ t.lane[l].retained = 0 /\ ~t.lane[l].owns
  /\ t.lane[l].next = s.lane[l].next /\ t.lane[l].pending = s.lane[l].pending
  /\ t.lane[l].running = s.lane[l].running /\ t.lane[l].stopped = s.lane[l].stopped
  /\ t.lane[l].queued = s.lane[l].queued

\* What a lane retains is part of what the pool does.
LEMMA RetainedIn ==
  ASSUME NEW d, NEW s, Books(s, d), NEW l \in Lanes
  PROVE  s.retained - s.lane[l].retained \in Nat
<1>1. PICK a : a = RetainedOf(s)
  OBVIOUS
<1>2. \A m \in Lanes : LaneShape(s.lane[m], m)
  BY DEF Books, Shaped
<1>3. \A m \in Lanes : a[m] = s.lane[m].retained /\ a[m] \in Nat
  BY <1>1, <1>2 DEF RetainedOf, LaneShape
<1>4. a[l] <= Total(a, Lanes) /\ Total(a, Lanes) \in Nat
  BY <1>3, LanesAssumption, TotalBounds, TotalNat
<1>5. s.retained = Total(a, Lanes)
  BY <1>1 DEF Books
<1>6. PICK n \in Nat : n = Total(a, Lanes)
  BY <1>4
<1>7. QED
  BY <1>3, <1>4, <1>5, <1>6

\* What settling a joined lane changes.
LEMMA SettleFields ==
  ASSUME NEW d, NEW s, Books(s, d), NEW l \in Lanes, NEW t, t = Settle(s, l)
  PROVE  Settled(s, t, l)
<1>1. PICK v : v = s.lane[l]
  OBVIOUS
<1>2. PICK r : r = Released(v)
  OBVIOUS
<1>3. LaneShape(v, l) /\ Shaped(s)
  BY <1>1 DEF Books, Shaped
<1>4. /\ LaneShape(r, l)
      /\ r.next = v.next /\ r.futures = {} /\ r.pending = v.pending
      /\ r.running = v.running /\ r.retained = 0 /\ r.stopped = v.stopped /\ ~r.owns
      /\ r.queued = v.queued
  BY <1>2, <1>3, ReleasedLane
<1>5. PICK n \in Nat : n = s.retained - s.lane[l].retained
  BY RetainedIn
<1>6. t = [s EXCEPT !.retained = n, !.admitted = @ \ {l}, !.lane[l] = r]
  BY <1>1, <1>2, <1>5 DEF Settle
<1>7. /\ t = [workers |-> t.workers, active |-> t.active, retained |-> t.retained,
              state |-> t.state, cancelled |-> t.cancelled, admitted |-> t.admitted,
              ready |-> t.ready, tasks |-> t.tasks, lane |-> t.lane, promise |-> t.promise]
      /\ t.lane = [s.lane EXCEPT ![l] = r]
      /\ t.workers = s.workers /\ t.active = s.active /\ t.state = s.state
      /\ t.cancelled = s.cancelled /\ t.tasks = s.tasks /\ t.ready = s.ready
      /\ t.admitted = s.admitted \ {l} /\ t.promise = s.promise /\ t.retained = n
  BY <1>3, <1>6 DEF Shaped
<1>8. t.lane = [m \in Lanes |-> IF m = l THEN r ELSE s.lane[m]]
  BY <1>3, <1>7 DEF Shaped
<1>9. t.lane = [m \in Lanes |-> t.lane[m]] /\ \A m \in Lanes : LaneShape(t.lane[m], m)
  BY <1>3, <1>4, <1>8 DEF Shaped
<1>10. Shaped(t)
  BY <1>3, <1>7, <1>9 DEF Shaped
<1>11. t.lane[l] = r /\ \A m \in Lanes \ {l} : t.lane[m] = s.lane[m]
  BY <1>8
<1>12. QED
  BY <1>1, <1>4, <1>5, <1>7, <1>10, <1>11 DEF Settled

\* A lane none of whose planes waits, and none of whose counted ones runs, may leave.
LEMMA LeftBooks ==
  ASSUME NEW d, NEW s, Books(s, d), NEW l \in Lanes, s.lane[l].running <= 0, s.lane[l].pending = <<>>,
         NEW r, r.futures = {}, r.retained = 0, r.next = s.lane[l].next,
         r.pending = s.lane[l].pending, r.running = s.lane[l].running
  PROVE  LaneBooks(r, s.promise[l], l, FALSE, d[l])
<1>1. LaneBooks(s.lane[l], s.promise[l], l, l \in s.admitted, d[l]) /\ Shaped(s)
  BY DEF Books
<1>2. Range(s.lane[l].pending) = {}
  BY DEF Range
<1>3. \A i \in Planes(l) : s.promise[l][i] # "pending"
  BY <1>1, <1>2 DEF LaneBooks
<1>4. GrantedIn(r, s.promise[l]) = {} /\ Cardinality({}) = 0
  BY FS_EmptySet DEF GrantedIn
<1>5. Window[l] \in Nat
  BY WindowAssumption
<1>6. QED
  BY <1>1, <1>2, <1>3, <1>4, <1>5 DEF LaneBooks

\* So the books survive a stream's end.
LEMMA SettledBooks ==
  ASSUME NEW d, NEW s, Books(s, d), NEW l \in Lanes, s.lane[l].running = 0, s.lane[l].pending = <<>>,
         NEW t, Settled(s, t, l)
  PROVE  Books(t, d)
<1>1. Shaped(s) /\ Shaped(t) /\ t.admitted = s.admitted \ {l} /\ t.promise = s.promise
  BY DEF Books, Settled
<1>2. LaneBooks(t.lane[l], s.promise[l], l, FALSE, d[l])
  <2>1. PICK r : r = t.lane[l]
    OBVIOUS
  <2>2. /\ r.futures = {} /\ r.retained = 0 /\ r.next = s.lane[l].next
        /\ r.pending = s.lane[l].pending /\ r.running = s.lane[l].running
    BY <2>1 DEF Settled
  <2>3. s.lane[l].running <= 0
    OBVIOUS
  <2>4. LaneBooks(r, s.promise[l], l, FALSE, d[l])
    BY <2>2, <2>3, LeftBooks
  <2>5. QED
    BY <2>1, <2>4
<1>3. \A m \in Lanes : LaneBooks(t.lane[m], t.promise[m], m, m \in t.admitted, d[m])
  <2> SUFFICES ASSUME NEW m \in Lanes PROVE LaneBooks(t.lane[m], t.promise[m], m, m \in t.admitted, d[m])
    OBVIOUS
  <2>1. CASE m = l
    <3>1. ~(m \in t.admitted)
      BY <1>1, <2>1
    <3>2. QED
      BY <1>1, <1>2, <2>1, <3>1 DEF LaneBooks
  <2>2. CASE m # l
    <3>1. t.lane[m] = s.lane[m] /\ (m \in t.admitted <=> m \in s.admitted)
      BY <1>1, <2>2 DEF Settled
    <3>2. LaneBooks(s.lane[m], s.promise[m], m, m \in s.admitted, d[m])
      BY DEF Books
    <3>3. QED
      BY <1>1, <3>1, <3>2 DEF LaneBooks
  <2>3. QED
    BY <2>1, <2>2
<1>4. t.retained = Total(RetainedOf(t), Lanes)
  <2>1. \A m \in Lanes \ {l} : t.lane[m].retained = s.lane[m].retained
    BY DEF Settled
  <2>2. Total(RetainedOf(t), Lanes) + s.lane[l].retained = Total(RetainedOf(s), Lanes) + t.lane[l].retained
    BY <1>1, <2>1, RetainedChange
  <2>3. Total(RetainedOf(t), Lanes) \in Nat /\ Total(RetainedOf(s), Lanes) \in Nat
    BY <1>1, RetainedTotal
  <2>4. s.lane[l].retained \in Nat
    BY <1>1 DEF Shaped, LaneShape
  <2>5. s.retained = Total(RetainedOf(s), Lanes) /\ t.retained = s.retained - s.lane[l].retained
        /\ t.lane[l].retained = 0
    BY DEF Books, Settled
  <2>6. QED
    BY <2>2, <2>3, <2>4, <2>5
<1>5. /\ IsFiniteSet(t.tasks) /\ t.active = Cardinality(t.tasks) - Total(d, Lanes)
      /\ \A m \in Lanes : \A i \in Planes(m) : <<m, i>> \in t.tasks <=> t.promise[m][i] = "running"
  BY <1>1 DEF Books, Settled
<1>6. QED
  BY <1>1, <1>3, <1>4, <1>5 DEF Books

-----------------------------------------------------------------------------
(* The other critical sections. *)

\* The books do not depend on the state, the allowance or the ready queue.
LEMMA BooksKept ==
  ASSUME NEW d, NEW s, Books(s, d), NEW t, Shaped(t), t.tasks = s.tasks, t.active = s.active,
         t.retained = s.retained, t.lane = s.lane, t.promise = s.promise, t.admitted = s.admitted
  PROVE  Books(t, d)
<1>1. RetainedOf(t) = RetainedOf(s)
  BY DEF RetainedOf
<1>2. \A m \in Lanes : /\ LaneBooks(t.lane[m], t.promise[m], m, m \in t.admitted, d[m])
                       /\ \A i \in Planes(m) : <<m, i>> \in t.tasks <=> t.promise[m][i] = "running"
  BY DEF Books
<1>3. QED
  BY <1>1, <1>2 DEF Books

\* s and t have the same lanes, promises and tasks.
Same(s, t) ==
  /\ Shaped(t) /\ t.tasks = s.tasks /\ t.active = s.active /\ t.retained = s.retained
  /\ t.lane = s.lane /\ t.promise = s.promise

\* A change of the allowance.
LEMMA ResizeFields ==
  ASSUME NEW s, Shaped(s), NEW w \in 1..MaxWorkers, NEW t, t = [s EXCEPT !.workers = w]
  PROVE  /\ Same(s, t) /\ t.workers = w /\ t.state = s.state /\ t.cancelled = s.cancelled
         /\ t.admitted = s.admitted /\ t.ready = s.ready
<1>1. /\ t = [workers |-> t.workers, active |-> t.active, retained |-> t.retained,
              state |-> t.state, cancelled |-> t.cancelled, admitted |-> t.admitted,
              ready |-> t.ready, tasks |-> t.tasks, lane |-> t.lane, promise |-> t.promise]
      /\ t.tasks = s.tasks /\ t.active = s.active /\ t.retained = s.retained
      /\ t.lane = s.lane /\ t.promise = s.promise
      /\ t.workers = w /\ t.state = s.state /\ t.cancelled = s.cancelled
      /\ t.admitted = s.admitted /\ t.ready = s.ready
  BY DEF Shaped
<1>2. Shaped(t)
  BY <1>1 DEF Shaped
<1>3. QED
  BY <1>1, <1>2 DEF Same

\* A run that ends: no lane is ready, and no dispatch follows.
Ended(s, t, st) ==
  /\ Same(s, t) /\ t.workers = s.workers /\ t.state = st /\ t.cancelled
  /\ t.admitted = s.admitted

\* What cancelling or closing the run sets, once its lanes are stopped.
LEMMA EndFields ==
  ASSUME NEW s, Shaped(s), NEW b \in BOOLEAN, b = TRUE, NEW e \in Seq(Lanes), e = <<>>,
         NEW st \in {"open", "joining"},
         NEW t, t = [s EXCEPT !.cancelled = b, !.ready = e, !.state = st]
  PROVE  Ended(s, t, st)
<1>1. /\ t = [workers |-> t.workers, active |-> t.active, retained |-> t.retained,
              state |-> t.state, cancelled |-> t.cancelled, admitted |-> t.admitted,
              ready |-> t.ready, tasks |-> t.tasks, lane |-> t.lane, promise |-> t.promise]
      /\ t.tasks = s.tasks /\ t.active = s.active /\ t.retained = s.retained
      /\ t.lane = s.lane /\ t.promise = s.promise
      /\ t.workers = s.workers /\ t.state = st /\ t.cancelled = b
      /\ t.admitted = s.admitted /\ t.ready = e
  BY DEF Shaped
<1>2. Shaped(t)
  BY <1>1 DEF Shaped
<1>3. QED
  BY <1>1, <1>2 DEF Same, Ended

\* A stream that starts.
LEMMA AdmitFields ==
  ASSUME NEW s, Shaped(s), NEW l \in Lanes, NEW t, t = [s EXCEPT !.admitted = @ \union {l}]
  PROVE  /\ Same(s, t) /\ t.workers = s.workers /\ t.state = s.state /\ t.cancelled = s.cancelled
         /\ t.admitted = s.admitted \union {l} /\ t.ready = s.ready
<1>1. /\ t = [workers |-> t.workers, active |-> t.active, retained |-> t.retained,
              state |-> t.state, cancelled |-> t.cancelled, admitted |-> t.admitted,
              ready |-> t.ready, tasks |-> t.tasks, lane |-> t.lane, promise |-> t.promise]
      /\ t.tasks = s.tasks /\ t.active = s.active /\ t.retained = s.retained
      /\ t.lane = s.lane /\ t.promise = s.promise
      /\ t.workers = s.workers /\ t.state = s.state /\ t.cancelled = s.cancelled
      /\ t.admitted = s.admitted \union {l} /\ t.ready = s.ready
  BY DEF Shaped
<1>2. t.admitted \subseteq Lanes
  BY <1>1 DEF Shaped
<1>3. Shaped(t)
  BY <1>1, <1>2 DEF Shaped
<1>4. QED
  BY <1>1, <1>3 DEF Same

\* The lane of a new stream owes nothing.
LEMMA AdmitBooks ==
  ASSUME NEW d, NEW s, Books(s, d), NEW l \in Lanes, s.lane[l].owns,
         \A i \in Planes(l) : s.promise[l][i] = "none",
         NEW t, Same(s, t), t.admitted = s.admitted \union {l}
  PROVE  Books(t, d)
<1>1. RetainedOf(t) = RetainedOf(s)
  BY DEF RetainedOf, Same
<1>2. ASSUME NEW m \in Lanes
      PROVE  LaneBooks(t.lane[m], t.promise[m], m, m \in t.admitted, d[m])
  <2>1. LaneBooks(s.lane[m], s.promise[m], m, m \in s.admitted, d[m])
    BY DEF Books
  <2>2. t.lane[m] = s.lane[m] /\ t.promise[m] = s.promise[m]
    BY DEF Same
  <2>3. CASE m = l
    BY <2>1, <2>2, <2>3 DEF LaneBooks
  <2>4. CASE m # l
    <3>1. m \in t.admitted <=> m \in s.admitted
      BY <2>4
    <3>2. QED
      BY <2>1, <2>2, <3>1 DEF LaneBooks
  <2>5. QED
    BY <2>3, <2>4
<1>3. \A m \in Lanes : \A i \in Planes(m) : <<m, i>> \in t.tasks <=> t.promise[m][i] = "running"
  <2>1. \A m \in Lanes : \A i \in Planes(m) : <<m, i>> \in s.tasks <=> s.promise[m][i] = "running"
    BY DEF Books
  <2>2. t.tasks = s.tasks /\ t.promise = s.promise
    BY DEF Same
  <2>3. PICK T, P : T = s.tasks /\ P = s.promise
    OBVIOUS
  <2>4. t.tasks = T /\ t.promise = P
    BY <2>2, <2>3
  <2>5. \A m \in Lanes : \A i \in Planes(m) : <<m, i>> \in T <=> P[m][i] = "running"
    BY <2>1, <2>3
  <2>6. QED
    BY <2>4, <2>5
<1>4. QED
  BY <1>1, <1>2, <1>3 DEF Books, Same

\* The pool after the operation on plane i of lane l returned.
Returned(s, t, l, i) ==
  /\ Shaped(t)
  /\ t.workers = s.workers /\ t.state = s.state /\ t.cancelled = s.cancelled
  /\ t.admitted = s.admitted /\ t.ready = s.ready /\ t.retained = s.retained
  /\ \A m \in Lanes \ {l} : t.lane[m] = s.lane[m] /\ t.promise[m] = s.promise[m]
  /\ t.lane[l].pending = s.lane[l].pending /\ t.lane[l].futures = s.lane[l].futures
  /\ t.lane[l].next = s.lane[l].next /\ t.lane[l].stopped = s.lane[l].stopped
  /\ t.lane[l].owns = s.lane[l].owns /\ t.lane[l].retained = s.lane[l].retained
  /\ t.lane[l].queued = s.lane[l].queued /\ t.lane[l].running = s.lane[l].running - 1
  /\ \A j \in Planes(l) \ {i} : t.promise[l][j] = s.promise[l][j]
  /\ t.promise[l][i] \in {"done", "failed"}
  /\ t.tasks = s.tasks \ {<<l, i>>} /\ t.active = s.active - 1

\* What runs is counted.
LEMMA RunningCounts ==
  ASSUME NEW d, NEW s, Books(s, d), NEW l \in Lanes, NEW i \in Planes(l), s.promise[l][i] = "running"
  PROVE  s.active - 1 \in Int /\ s.lane[l].running - 1 \in Int
<1>1. Shaped(s)
  BY DEF Books
<1>2. LaneShape(s.lane[l], l) /\ s.active \in Int
  BY <1>1 DEF Shaped
<1>3. QED
  BY <1>2 DEF LaneShape

\* What returning the permit changes.
LEMMA ReturnFields ==
  ASSUME NEW d, NEW s, Books(s, d), NEW l \in Lanes, NEW i \in Planes(l), s.promise[l][i] = "running",
         NEW outcome \in {"done", "failed"}, NEW u,
         u = [s EXCEPT !.tasks = @ \ {<<l, i>>}, !.active = @ - 1, !.lane[l].running = @ - 1],
         NEW t, t = [u EXCEPT !.promise[l][i] = outcome]
  PROVE  Returned(s, t, l, i)
<1>1. Shaped(s)
  BY DEF Books
<1>2. PICK v : v = s.lane[l]
  OBVIOUS
<1>3. LaneShape(v, l)
  BY <1>1, <1>2 DEF Shaped
<1>4. PICK b \in Int : b = v.running - 1
  BY <1>2, RunningCounts
<1>5. PICK a \in Int : a = s.active - 1
  BY RunningCounts
<1>6. PICK g : g = [v EXCEPT !.running = b]
  OBVIOUS
<1>7. /\ LaneShape(g, l)
      /\ g.next = v.next /\ g.futures = v.futures /\ g.pending = v.pending
      /\ g.running = b /\ g.retained = v.retained /\ g.stopped = v.stopped /\ g.owns = v.owns
      /\ g.queued = v.queued
  BY <1>3, <1>6, RunningLane
<1>8. PICK z : z = [s.promise[l] EXCEPT ![i] = outcome]
  OBVIOUS
<1>9. PromiseShape(z, l) /\ z[i] = outcome /\ \A j \in Planes(l) \ {i} : z[j] = s.promise[l][j]
  <2>1. PromiseShape(s.promise[l], l)
    BY <1>1 DEF Shaped
  <2>2. QED
    BY <1>8, <2>1 DEF PromiseShape, Kinds
<1>10. PICK T : T = s.tasks \ {<<l, i>>}
  OBVIOUS
<1>11. u = [s EXCEPT !.tasks = T, !.active = a, !.lane[l] = g]
  BY <1>2, <1>4, <1>5, <1>6, <1>10
<1>12. /\ u = [workers |-> u.workers, active |-> u.active, retained |-> u.retained,
               state |-> u.state, cancelled |-> u.cancelled, admitted |-> u.admitted,
               ready |-> u.ready, tasks |-> u.tasks, lane |-> u.lane, promise |-> u.promise]
       /\ u.lane = [s.lane EXCEPT ![l] = g] /\ u.promise = s.promise
       /\ u.workers = s.workers /\ u.state = s.state /\ u.cancelled = s.cancelled
       /\ u.admitted = s.admitted /\ u.ready = s.ready /\ u.retained = s.retained
       /\ u.tasks = T /\ u.active = a
  BY <1>1, <1>11 DEF Shaped
<1>13. t = [u EXCEPT !.promise[l] = z]
  BY <1>8, <1>12
<1>14. /\ t = [workers |-> t.workers, active |-> t.active, retained |-> t.retained,
               state |-> t.state, cancelled |-> t.cancelled, admitted |-> t.admitted,
               ready |-> t.ready, tasks |-> t.tasks, lane |-> t.lane, promise |-> t.promise]
       /\ t.lane = [s.lane EXCEPT ![l] = g] /\ t.promise = [s.promise EXCEPT ![l] = z]
       /\ t.workers = s.workers /\ t.state = s.state /\ t.cancelled = s.cancelled
       /\ t.admitted = s.admitted /\ t.ready = s.ready /\ t.retained = s.retained
       /\ t.tasks = T /\ t.active = a
  BY <1>12, <1>13
<1>15. /\ t.lane = [m \in Lanes |-> IF m = l THEN g ELSE s.lane[m]]
       /\ t.promise = [m \in Lanes |-> IF m = l THEN z ELSE s.promise[m]]
  BY <1>1, <1>14 DEF Shaped
<1>16. /\ t.lane = [m \in Lanes |-> t.lane[m]] /\ t.promise = [m \in Lanes |-> t.promise[m]]
       /\ \A m \in Lanes : LaneShape(t.lane[m], m) /\ PromiseShape(t.promise[m], m)
  BY <1>1, <1>7, <1>9, <1>15 DEF Shaped
<1>17. Shaped(t)
  <2>1. t.tasks \subseteq UNION {{m} \X Planes(m) : m \in Lanes}
    BY <1>1, <1>10, <1>14 DEF Shaped
  <2>2. QED
    BY <1>1, <1>14, <1>16, <2>1 DEF Shaped
<1>18. /\ t.lane[l] = g /\ t.promise[l] = z
       /\ \A m \in Lanes \ {l} : t.lane[m] = s.lane[m] /\ t.promise[m] = s.promise[m]
  BY <1>15
<1>19. /\ t.lane[l].pending = s.lane[l].pending /\ t.lane[l].futures = s.lane[l].futures
       /\ t.lane[l].next = s.lane[l].next /\ t.lane[l].stopped = s.lane[l].stopped
       /\ t.lane[l].owns = s.lane[l].owns /\ t.lane[l].retained = s.lane[l].retained
       /\ t.lane[l].queued = s.lane[l].queued /\ t.lane[l].running = s.lane[l].running - 1
  BY <1>2, <1>4, <1>7, <1>18
<1>20. /\ \A j \in Planes(l) \ {i} : t.promise[l][j] = s.promise[l][j]
       /\ t.promise[l][i] \in {"done", "failed"}
  BY <1>9, <1>18
<1>21. t.tasks = s.tasks \ {<<l, i>>} /\ t.active = s.active - 1
  BY <1>5, <1>10, <1>14
<1>22. QED
  BY <1>14, <1>17, <1>18, <1>19, <1>20, <1>21 DEF Returned

\* Its permit is given back in the books.
LEMMA ReturnedBooks ==
  ASSUME NEW d, NEW s, Books(s, d), NEW l \in Lanes, NEW i \in Planes(l), s.promise[l][i] = "running",
         NEW t, Returned(s, t, l, i)
  PROVE  Books(t, d)
<1>1. Shaped(s) /\ Shaped(t)
  BY DEF Books, Returned
<1>2. LaneBooks(s.lane[l], s.promise[l], l, l \in s.admitted, d[l])
  BY DEF Books
<1>3. i < s.lane[l].next
  BY <1>2 DEF LaneBooks
<1>4. \A j \in Planes(l) \ {i} : t.promise[l][j] = s.promise[l][j]
  BY DEF Returned
<1>5. t.promise[l][i] \in {"done", "failed"}
  BY DEF Returned
<1>6. t.lane[l].running = Cardinality(RunningIn(t.promise[l], l)) - d[l]
  <2>1. PICK R : R = RunningIn(s.promise[l], l)
    OBVIOUS
  <2>2. IsFiniteSet(R) /\ i \in R /\ s.lane[l].running = Cardinality(R) - d[l]
    BY <1>1, <1>2, <2>1, LaneFinite DEF RunningIn, LaneBooks
  <2>3. RunningIn(t.promise[l], l) = R \ {i}
    BY <1>4, <1>5, <2>1 DEF RunningIn
  <2>4. Cardinality(R \ {i}) = Cardinality(R) - 1
    BY <2>2, FS_RemoveElement
  <2>5. t.lane[l].running = s.lane[l].running - 1
    BY DEF Returned
  <2>6. PICK c \in Nat : c = Cardinality(R)
    BY <2>2, FS_CardinalityType
  <2>7. PICK n \in Nat : n = d[l]
    BY StraysInt
  <2>8. QED
    BY <2>2, <2>3, <2>4, <2>5, <2>6, <2>7
<1>7. t.lane[l].retained = Cardinality(GrantedIn(t.lane[l], t.promise[l]))
  <2>1. s.lane[l].futures \subseteq Planes(l) /\ t.lane[l].futures = s.lane[l].futures
    BY <1>1 DEF Shaped, LaneShape, Returned
  <2>2. \A j \in Planes(l) : t.promise[l][j] \in {"running", "done", "failed"}
                             <=> s.promise[l][j] \in {"running", "done", "failed"}
    BY <1>4, <1>5
  <2>3. GrantedIn(t.lane[l], t.promise[l]) = GrantedIn(s.lane[l], s.promise[l])
    BY <2>1, <2>2 DEF GrantedIn
  <2>4. t.lane[l].retained = s.lane[l].retained
    BY DEF Returned
  <2>5. QED
    BY <1>2, <2>3, <2>4 DEF LaneBooks
<1>8. LaneBooks(t.lane[l], t.promise[l], l, l \in t.admitted, d[l])
  <2>1. /\ t.lane[l].pending = s.lane[l].pending /\ t.lane[l].futures = s.lane[l].futures
        /\ t.lane[l].next = s.lane[l].next /\ t.lane[l].stopped = s.lane[l].stopped
        /\ t.lane[l].owns = s.lane[l].owns /\ t.admitted = s.admitted
    BY DEF Returned
  <2>2. ASSUME NEW j \in Planes(l)
        PROVE  /\ t.promise[l][j] = "none" \/ j < t.lane[l].next
               /\ t.promise[l][j] = "pending" <=> j \in Range(t.lane[l].pending)
               /\ t.promise[l][j] = "pending" \/ (t.promise[l][j] = "running" /\ l \in s.admitted)
                    => j \in t.lane[l].futures
    <3>1. /\ s.promise[l][j] = "none" \/ j < s.lane[l].next
          /\ s.promise[l][j] = "pending" <=> j \in Range(s.lane[l].pending)
          /\ s.promise[l][j] = "pending" \/ (s.promise[l][j] = "running" /\ l \in s.admitted)
               => j \in s.lane[l].futures
      BY <1>2 DEF LaneBooks
    <3>2. CASE j = i
      BY <1>3, <1>5, <2>1, <3>1, <3>2
    <3>3. CASE j # i
      BY <1>4, <2>1, <3>1, <3>3
    <3>4. QED
      BY <3>2, <3>3
  <2>3. s.lane[l].running \in Int /\ t.lane[l].running = s.lane[l].running - 1
    <3>1. LaneShape(s.lane[l], l)
      BY <1>1 DEF Shaped
    <3>2. QED
      BY <3>1 DEF LaneShape, Returned
  <2>4. l \in t.admitted \/ (t.lane[l].futures = {} /\ t.lane[l].running <= 0)
    BY <1>2, <2>1, <2>3 DEF LaneBooks
  <2>5. QED
    BY <1>2, <1>6, <1>7, <2>1, <2>2, <2>4 DEF LaneBooks
<1>9. \A m \in Lanes : LaneBooks(t.lane[m], t.promise[m], m, m \in t.admitted, d[m])
  <2> SUFFICES ASSUME NEW m \in Lanes, m # l
               PROVE  LaneBooks(t.lane[m], t.promise[m], m, m \in t.admitted, d[m])
    BY <1>8
  <2>1. LaneBooks(s.lane[m], s.promise[m], m, m \in s.admitted, d[m])
    BY DEF Books
  <2>2. t.lane[m] = s.lane[m] /\ t.promise[m] = s.promise[m] /\ t.admitted = s.admitted
    BY DEF Returned
  <2>3. QED
    BY <2>1, <2>2
<1>10. ASSUME NEW m \in Lanes, NEW j \in Planes(m)
       PROVE  <<m, j>> \in t.tasks <=> t.promise[m][j] = "running"
  <2>1. <<m, j>> \in s.tasks <=> s.promise[m][j] = "running"
    BY DEF Books
  <2>2. t.tasks = s.tasks \ {<<l, i>>}
    BY DEF Returned
  <2>3. CASE m = l /\ j = i
    BY <1>5, <2>2, <2>3
  <2>4. CASE m = l /\ j # i
    BY <1>4, <2>1, <2>2, <2>4
  <2>5. CASE m # l
    <3>1. t.promise[m] = s.promise[m]
      BY <2>5 DEF Returned
    <3>2. QED
      BY <2>1, <2>2, <2>5, <3>1
  <2>6. QED
    BY <2>3, <2>4, <2>5
<1>11. IsFiniteSet(t.tasks) /\ t.active = Cardinality(t.tasks) - Total(d, Lanes)
  <2>1. PICK T : T = s.tasks
    OBVIOUS
  <2>2. IsFiniteSet(T) /\ s.active = Cardinality(T) - Total(d, Lanes) /\ <<l, i>> \in T
    BY <2>1 DEF Books
  <2>3. IsFiniteSet(T \ {<<l, i>>}) /\ Cardinality(T \ {<<l, i>>}) = Cardinality(T) - 1
    BY <2>2, FS_RemoveElement
  <2>4. t.tasks = T \ {<<l, i>>} /\ t.active = s.active - 1
    BY <2>1 DEF Returned
  <2>5. PICK c \in Nat : c = Cardinality(T)
    BY <2>2, FS_CardinalityType
  <2>6. PICK n \in Nat : n = Total(d, Lanes)
    BY StraysInt
  <2>7. QED
    BY <2>2, <2>3, <2>4, <2>5, <2>6
<1>12. t.retained = Total(RetainedOf(t), Lanes)
  <2>1. \A m \in Lanes : t.lane[m].retained = s.lane[m].retained
    BY DEF Returned
  <2>2. RetainedOf(t) = RetainedOf(s)
    BY <2>1 DEF RetainedOf
  <2>3. t.retained = s.retained
    BY DEF Returned
  <2>4. QED
    BY <2>2, <2>3 DEF Books
<1>13. QED
  BY <1>1, <1>9, <1>10, <1>11, <1>12 DEF Books

\* The pool after the consumer of lane l gave up its plane i.
Freed(s, t, l, i) ==
  /\ Shaped(t)
  /\ t.workers = s.workers /\ t.state = s.state /\ t.cancelled = s.cancelled
  /\ t.admitted = s.admitted /\ t.ready = s.ready /\ t.active = s.active /\ t.tasks = s.tasks
  /\ t.promise = s.promise /\ t.retained = s.retained - 1
  /\ \A m \in Lanes \ {l} : t.lane[m] = s.lane[m]
  /\ t.lane[l].pending = s.lane[l].pending /\ t.lane[l].futures = s.lane[l].futures \ {i}
  /\ t.lane[l].next = s.lane[l].next /\ t.lane[l].stopped = s.lane[l].stopped
  /\ t.lane[l].owns = s.lane[l].owns /\ t.lane[l].running = s.lane[l].running
  /\ t.lane[l].queued = s.lane[l].queued /\ t.lane[l].retained = s.lane[l].retained - 1

GivenUp(r, v, l, i, a) ==
  /\ LaneShape(r, l)
  /\ r.next = v.next /\ r.futures = v.futures \ {i} /\ r.pending = v.pending
  /\ r.running = v.running /\ r.retained = a /\ r.stopped = v.stopped /\ r.owns = v.owns
  /\ r.queued = v.queued

\* The record of a lane whose previous plane is given up.
LEMMA ConsumedLane ==
  ASSUME NEW l \in Lanes, NEW v, LaneShape(v, l), NEW a \in Nat, NEW i,
         NEW r, r = [v EXCEPT !.futures = @ \ {i}, !.retained = a]
  PROVE  GivenUp(r, v, l, i, a)
<1>1. /\ r = [pending |-> r.pending, futures |-> r.futures, next |-> r.next,
              running |-> r.running, retained |-> r.retained, queued |-> r.queued,
              stopped |-> r.stopped, owns |-> r.owns]
      /\ r.next = v.next /\ r.futures = v.futures \ {i} /\ r.pending = v.pending
      /\ r.running = v.running /\ r.retained = a /\ r.stopped = v.stopped /\ r.owns = v.owns
      /\ r.queued = v.queued
  BY DEF LaneShape
<1>2. r.futures \subseteq Planes(l)
  BY <1>1 DEF LaneShape
<1>3. LaneShape(r, l)
  BY <1>1, <1>2 DEF LaneShape
<1>4. QED
  BY <1>1, <1>3 DEF GivenUp

\* What is retained is counted.
LEMMA RetainedCounts ==
  ASSUME NEW d, NEW s, Books(s, d), NEW l \in Lanes, NEW i \in s.lane[l].futures,
         s.promise[l][i] \in {"running", "done", "failed"}
  PROVE  s.retained - 1 \in Nat /\ s.lane[l].retained - 1 \in Nat
<1>1. LaneBooks(s.lane[l], s.promise[l], l, l \in s.admitted, d[l]) /\ Shaped(s)
  BY DEF Books
<1>2. s.lane[l].retained - 1 \in Nat
  <2>1. PICK R : R = GrantedIn(s.lane[l], s.promise[l])
    OBVIOUS
  <2>2. IsFiniteSet(R) /\ i \in R /\ s.lane[l].retained = Cardinality(R)
    BY <1>1, <2>1, LaneFinite DEF GrantedIn, LaneBooks
  <2>3. IsFiniteSet(R \ {i}) /\ Cardinality(R \ {i}) = Cardinality(R) - 1
    BY <2>2, FS_RemoveElement
  <2>4. Cardinality(R \ {i}) \in Nat
    BY <2>3, FS_CardinalityType
  <2>5. QED
    BY <2>2, <2>3, <2>4
<1>3. s.retained \in Nat /\ s.lane[l].retained \in Nat
  BY <1>1 DEF Shaped, LaneShape
<1>4. s.retained - s.lane[l].retained \in Nat
  BY RetainedIn
<1>5. QED
  BY <1>2, <1>3, <1>4

\* What giving up the previous plane changes.
LEMMA FreeFields ==
  ASSUME NEW d, NEW s, Books(s, d), NEW l \in Lanes, NEW i \in s.lane[l].futures,
         s.promise[l][i] \in {"running", "done", "failed"},
         NEW t, t = [s EXCEPT !.lane[l].futures = @ \ {i}, !.lane[l].retained = @ - 1,
                              !.retained = @ - 1]
  PROVE  Freed(s, t, l, i)
<1>1. Shaped(s)
  BY DEF Books
<1>2. PICK v : v = s.lane[l]
  OBVIOUS
<1>3. LaneShape(v, l)
  BY <1>1, <1>2 DEF Shaped
<1>4. PICK b \in Nat : b = v.retained - 1
  BY <1>2, RetainedCounts
<1>5. PICK a \in Nat : a = s.retained - 1
  BY RetainedCounts
<1>6. PICK g : g = [v EXCEPT !.futures = @ \ {i}, !.retained = b]
  OBVIOUS
<1>7. /\ LaneShape(g, l)
      /\ g.next = v.next /\ g.futures = v.futures \ {i} /\ g.pending = v.pending
      /\ g.running = v.running /\ g.retained = b /\ g.stopped = v.stopped /\ g.owns = v.owns
      /\ g.queued = v.queued
  <2>1. GivenUp(g, v, l, i, b)
    BY <1>3, <1>6, ConsumedLane
  <2>2. QED
    BY <2>1 DEF GivenUp
<1>8. t = [s EXCEPT !.lane[l] = g, !.retained = a]
  <2>1. PICK f : f = v.futures \ {i}
    OBVIOUS
  <2>2. g = [v EXCEPT !.futures = f, !.retained = v.retained - 1]
    BY <1>4, <1>6, <2>1
  <2>3. v = [pending |-> v.pending, futures |-> v.futures, next |-> v.next,
             running |-> v.running, retained |-> v.retained, queued |-> v.queued,
             stopped |-> v.stopped, owns |-> v.owns]
    BY <1>3 DEF LaneShape
  <2>4. s.lane = [m \in Lanes |-> s.lane[m]]
    BY <1>1 DEF Shaped
  <2>5. QED
    BY <1>2, <1>5, <2>1, <2>2, <2>3, <2>4
<1>9. /\ t = [workers |-> t.workers, active |-> t.active, retained |-> t.retained,
              state |-> t.state, cancelled |-> t.cancelled, admitted |-> t.admitted,
              ready |-> t.ready, tasks |-> t.tasks, lane |-> t.lane, promise |-> t.promise]
      /\ t.lane = [s.lane EXCEPT ![l] = g] /\ t.promise = s.promise
      /\ t.workers = s.workers /\ t.state = s.state /\ t.cancelled = s.cancelled
      /\ t.admitted = s.admitted /\ t.ready = s.ready /\ t.retained = a
      /\ t.tasks = s.tasks /\ t.active = s.active
  BY <1>1, <1>8 DEF Shaped
<1>10. t.lane = [m \in Lanes |-> IF m = l THEN g ELSE s.lane[m]]
  BY <1>1, <1>9 DEF Shaped
<1>11. t.lane = [m \in Lanes |-> t.lane[m]] /\ \A m \in Lanes : LaneShape(t.lane[m], m)
  BY <1>1, <1>7, <1>10 DEF Shaped
<1>12. Shaped(t)
  BY <1>1, <1>9, <1>11 DEF Shaped
<1>13. t.lane[l] = g /\ \A m \in Lanes \ {l} : t.lane[m] = s.lane[m]
  BY <1>10
<1>14. /\ t.lane[l].pending = s.lane[l].pending /\ t.lane[l].futures = s.lane[l].futures \ {i}
       /\ t.lane[l].next = s.lane[l].next /\ t.lane[l].stopped = s.lane[l].stopped
       /\ t.lane[l].owns = s.lane[l].owns /\ t.lane[l].running = s.lane[l].running
       /\ t.lane[l].queued = s.lane[l].queued /\ t.lane[l].retained = s.lane[l].retained - 1
  BY <1>2, <1>4, <1>7, <1>13
<1>15. QED
  BY <1>5, <1>9, <1>12, <1>13, <1>14 DEF Freed

\* A plane given up owes nothing more.
LEMMA FreedBooks ==
  ASSUME NEW d, NEW s, Books(s, d), NEW l \in Lanes, NEW i \in s.lane[l].futures, s.promise[l][i] = "done",
         NEW t, Freed(s, t, l, i)
  PROVE  Books(t, d) /\ Cardinality(t.lane[l].futures) = Cardinality(s.lane[l].futures) - 1
<1>1. Shaped(s) /\ Shaped(t)
  BY DEF Books, Freed
<1>2. LaneBooks(s.lane[l], s.promise[l], l, l \in s.admitted, d[l])
  BY DEF Books
<1>3. /\ t.lane[l].pending = s.lane[l].pending /\ t.lane[l].futures = s.lane[l].futures \ {i}
      /\ t.lane[l].next = s.lane[l].next /\ t.lane[l].stopped = s.lane[l].stopped
      /\ t.lane[l].owns = s.lane[l].owns /\ t.lane[l].running = s.lane[l].running
      /\ t.lane[l].retained = s.lane[l].retained - 1
  BY DEF Freed
<1>4. t.promise = s.promise /\ t.admitted = s.admitted
  BY DEF Freed
<1>5. /\ Cardinality(t.lane[l].futures) = Cardinality(s.lane[l].futures) - 1
      /\ Cardinality(t.lane[l].futures) <= Window[l]
  <2>1. PICK F : F = s.lane[l].futures
    OBVIOUS
  <2>2. IsFiniteSet(F) /\ Cardinality(F) \in Nat
    BY <1>1, <2>1, LaneFinite
  <2>3. Cardinality(F \ {i}) = Cardinality(F) - 1
    BY <2>1, <2>2, FS_RemoveElement
  <2>4. Cardinality(F) <= Window[l] /\ Window[l] \in Int
    BY <1>2, <2>1, WindowAssumption DEF LaneBooks
  <2>5. QED
    BY <1>3, <2>1, <2>2, <2>3, <2>4
<1>6. t.lane[l].retained = Cardinality(GrantedIn(t.lane[l], t.promise[l]))
  <2>1. PICK R : R = GrantedIn(s.lane[l], s.promise[l])
    OBVIOUS
  <2>2. IsFiniteSet(R) /\ i \in R /\ s.lane[l].retained = Cardinality(R)
    BY <1>1, <1>2, <2>1, LaneFinite DEF GrantedIn, LaneBooks
  <2>3. GrantedIn(t.lane[l], t.promise[l]) = R \ {i}
    BY <1>3, <1>4, <2>1 DEF GrantedIn
  <2>4. Cardinality(R \ {i}) = Cardinality(R) - 1
    BY <2>2, FS_RemoveElement
  <2>5. QED
    BY <1>3, <2>2, <2>3, <2>4
<1>7. LaneBooks(t.lane[l], t.promise[l], l, l \in t.admitted, d[l])
  <2>1. ASSUME NEW j \in Planes(l)
        PROVE  /\ t.promise[l][j] = "none" \/ j < t.lane[l].next
               /\ t.promise[l][j] = "pending" <=> j \in Range(t.lane[l].pending)
               /\ t.promise[l][j] = "pending" \/ (t.promise[l][j] = "running" /\ l \in s.admitted)
                    => j \in t.lane[l].futures
    <3>1. /\ s.promise[l][j] = "none" \/ j < s.lane[l].next
          /\ s.promise[l][j] = "pending" <=> j \in Range(s.lane[l].pending)
          /\ s.promise[l][j] = "pending" \/ (s.promise[l][j] = "running" /\ l \in s.admitted)
               => j \in s.lane[l].futures
      BY <1>2 DEF LaneBooks
    <3>2. QED
      BY <1>3, <1>4, <3>1
  <2>2. QED
    BY <1>2, <1>3, <1>4, <1>5, <1>6, <2>1 DEF LaneBooks
<1>8. \A m \in Lanes : LaneBooks(t.lane[m], t.promise[m], m, m \in t.admitted, d[m])
  <2> SUFFICES ASSUME NEW m \in Lanes, m # l
               PROVE  LaneBooks(t.lane[m], t.promise[m], m, m \in t.admitted, d[m])
    BY <1>7
  <2>1. LaneBooks(s.lane[m], s.promise[m], m, m \in s.admitted, d[m])
    BY DEF Books
  <2>2. t.lane[m] = s.lane[m]
    BY DEF Freed
  <2>3. QED
    BY <1>4, <2>1, <2>2
<1>9. /\ IsFiniteSet(t.tasks) /\ t.active = Cardinality(t.tasks) - Total(d, Lanes)
      /\ \A m \in Lanes : \A j \in Planes(m) : <<m, j>> \in t.tasks <=> t.promise[m][j] = "running"
  <2>1. t.tasks = s.tasks /\ t.active = s.active
    BY DEF Freed
  <2>2. QED
    BY <1>4, <2>1 DEF Books
<1>10. t.retained = Total(RetainedOf(t), Lanes)
  <2>1. \A m \in Lanes \ {l} : t.lane[m].retained = s.lane[m].retained
    BY DEF Freed
  <2>2. Total(RetainedOf(t), Lanes) + s.lane[l].retained = Total(RetainedOf(s), Lanes) + t.lane[l].retained
    BY <1>1, <2>1, RetainedChange
  <2>3. Total(RetainedOf(t), Lanes) \in Nat /\ Total(RetainedOf(s), Lanes) \in Nat
    BY <1>1, RetainedTotal
  <2>4. s.lane[l].retained \in Nat
    BY <1>1 DEF Shaped, LaneShape
  <2>5. s.retained = Total(RetainedOf(s), Lanes) /\ t.retained = s.retained - 1
        /\ t.lane[l].retained = s.lane[l].retained - 1
    BY DEF Books, Freed
  <2>6. QED
    BY <2>2, <2>3, <2>4, <2>5
<1>11. QED
  BY <1>1, <1>5, <1>8, <1>9, <1>10 DEF Books

\* Only the lanes of the pool retain anything.
LEMMA RetainedByAdmitted ==
  ASSUME NEW d, NEW s, Books(s, d)
  PROVE  s.retained = Total(RetainedOf(s), s.admitted)
<1>1. PICK a : a = RetainedOf(s)
  OBVIOUS
<1>2. Shaped(s) /\ s.admitted \in SUBSET Lanes
  BY DEF Books, Shaped
<1>3. \A m \in Lanes : a[m] = s.lane[m].retained /\ a[m] \in Nat
  BY <1>1, <1>2 DEF RetainedOf, Shaped, LaneShape
<1>4. ASSUME NEW m \in Lanes \ s.admitted
      PROVE  a[m] = 0
  <2>1. LaneBooks(s.lane[m], s.promise[m], m, m \in s.admitted, d[m])
    BY DEF Books
  <2>2. s.lane[m].futures = {} /\ s.lane[m].retained = Cardinality(GrantedIn(s.lane[m], s.promise[m]))
    BY <2>1 DEF LaneBooks
  <2>3. GrantedIn(s.lane[m], s.promise[m]) = {}
    BY <2>2 DEF GrantedIn
  <2>4. QED
    BY <1>3, <2>2, <2>3, FS_EmptySet
<1>5. PICK P \in SUBSET Lanes : P = s.admitted
  BY <1>2
<1>6. IsFiniteSet(P) /\ IsFiniteSet(Lanes \ P)
  BY LanesAssumption, FS_Subset
<1>7. Total(a, Lanes) = Total(a, P) + Total(a, Lanes \ P)
  BY <1>3, LanesAssumption, TotalSplit
<1>8. Total(a, Lanes \ P) = 0
  BY <1>4, <1>5, <1>6, TotalZero
<1>9. Total(a, P) \in Nat
  BY <1>3, <1>6, TotalNat
<1>10. s.retained = Total(a, Lanes)
  BY <1>1 DEF Books
<1>11. QED
  BY <1>1, <1>5, <1>7, <1>8, <1>9, <1>10

\* The pool after close joined its executor.
Disbanded(s, t) ==
  /\ Shaped(t)
  /\ t.workers = s.workers /\ t.active = s.active /\ t.tasks = s.tasks /\ t.ready = s.ready
  /\ t.cancelled = s.cancelled /\ t.promise = s.promise
  /\ t.state = "closed" /\ t.admitted = {} /\ t.retained = 0
  /\ \A m \in Lanes \ s.admitted : t.lane[m] = s.lane[m]
  /\ \A m \in s.admitted : /\ t.lane[m].futures = {} /\ t.lane[m].retained = 0
                           /\ t.lane[m].next = s.lane[m].next /\ t.lane[m].pending = s.lane[m].pending
                           /\ t.lane[m].running = s.lane[m].running
                           /\ t.lane[m].stopped = s.lane[m].stopped

\* What the end of the run changes.
LEMMA DisbandFields ==
  ASSUME NEW d, NEW s, Books(s, d), NEW a, a = RetainedOf(s), NEW st \in {"closed"}, NEW none \in SUBSET {},
         NEW t, t = [s EXCEPT !.state = st, !.admitted = none,
                              !.retained = @ - Total(a, s.admitted),
                              !.lane = [l \in Lanes |-> IF l \in s.admitted
                                                      THEN Released(s.lane[l]) ELSE s.lane[l]]]
  PROVE  Disbanded(s, t)
<1> DEFINE lanes == [l \in Lanes |-> IF l \in s.admitted THEN Released(s.lane[l]) ELSE s.lane[l]]
<1>1. Shaped(s)
  BY DEF Books
<1>2. s.retained - Total(a, s.admitted) = 0
  BY <1>1, RetainedByAdmitted DEF Shaped
<1>3. PICK z \in Nat : z = 0
  OBVIOUS
<1>4. t = [s EXCEPT !.state = st, !.admitted = none, !.retained = z, !.lane = lanes]
  BY <1>2, <1>3
<1>5. /\ lanes = [l \in Lanes |-> lanes[l]]
      /\ \A m \in Lanes \ s.admitted : lanes[m] = s.lane[m]
  OBVIOUS
<1>6. ASSUME NEW m \in Lanes, m \in s.admitted
      PROVE  /\ LaneShape(lanes[m], m)
             /\ lanes[m].futures = {} /\ lanes[m].retained = 0
             /\ lanes[m].next = s.lane[m].next /\ lanes[m].pending = s.lane[m].pending
             /\ lanes[m].running = s.lane[m].running /\ lanes[m].stopped = s.lane[m].stopped
  <2>1. PICK v : v = s.lane[m]
    OBVIOUS
  <2>2. LaneShape(v, m)
    BY <1>1, <2>1 DEF Shaped
  <2>3. PICK r : r = Released(v)
    OBVIOUS
  <2>4. /\ LaneShape(r, m)
        /\ r.next = v.next /\ r.futures = {} /\ r.pending = v.pending
        /\ r.running = v.running /\ r.retained = 0 /\ r.stopped = v.stopped /\ ~r.owns
        /\ r.queued = v.queued
    BY <2>2, <2>3, ReleasedLane
  <2>5. lanes[m] = r
    BY <1>6, <2>1, <2>3
  <2> HIDE DEF lanes
  <2>6. QED
    BY <2>1, <2>4, <2>5
<1> HIDE DEF lanes
<1>7. /\ t = [workers |-> t.workers, active |-> t.active, retained |-> t.retained,
              state |-> t.state, cancelled |-> t.cancelled, admitted |-> t.admitted,
              ready |-> t.ready, tasks |-> t.tasks, lane |-> t.lane, promise |-> t.promise]
      /\ t.lane = lanes /\ t.promise = s.promise
      /\ t.workers = s.workers /\ t.state = st /\ t.cancelled = s.cancelled
      /\ t.admitted = none /\ t.ready = s.ready /\ t.retained = z
      /\ t.tasks = s.tasks /\ t.active = s.active
  BY <1>1, <1>4 DEF Shaped
<1>8. \A m \in Lanes : LaneShape(lanes[m], m)
  <2> SUFFICES ASSUME NEW m \in Lanes PROVE LaneShape(lanes[m], m)
    OBVIOUS
  <2>1. LaneShape(s.lane[m], m)
    BY <1>1 DEF Shaped
  <2>2. QED
    BY <1>5, <1>6, <2>1
<1>9. Shaped(t)
  BY <1>1, <1>5, <1>7, <1>8 DEF Shaped
<1>10. \A m \in Lanes \ s.admitted : t.lane[m] = s.lane[m]
  BY <1>5, <1>7
<1>11. s.admitted \subseteq Lanes
  BY <1>1 DEF Shaped
<1>12. \A m \in s.admitted : /\ t.lane[m].futures = {} /\ t.lane[m].retained = 0
                             /\ t.lane[m].next = s.lane[m].next
                             /\ t.lane[m].pending = s.lane[m].pending
                             /\ t.lane[m].running = s.lane[m].running
                             /\ t.lane[m].stopped = s.lane[m].stopped
  BY <1>6, <1>7, <1>11
<1>13. QED
  BY <1>3, <1>7, <1>9, <1>10, <1>12 DEF Disbanded

\* With nothing running, and every lane stopped, the books close.
LEMMA DisbandedBooks ==
  ASSUME NEW d, NEW s, Books(s, d), s.tasks = {}, \A m \in s.admitted : s.lane[m].stopped,
         NEW t, Disbanded(s, t)
  PROVE  Books(t, d)
<1>1. Shaped(s) /\ Shaped(t) /\ t.admitted = {} /\ t.promise = s.promise /\ s.admitted \subseteq Lanes
  BY DEF Books, Disbanded, Shaped
<1>2. ASSUME NEW m \in Lanes
      PROVE  LaneBooks(t.lane[m], t.promise[m], m, m \in t.admitted, d[m]) /\ t.lane[m].retained = 0
  <2>1. LaneBooks(s.lane[m], s.promise[m], m, m \in s.admitted, d[m])
    BY DEF Books
  <2>2. CASE m \in s.admitted
    <3>1. s.lane[m].pending = <<>>
      BY <2>1, <2>2 DEF LaneBooks
    <3>2. s.lane[m].running <= 0
      <4>1. \A i \in Planes(m) : s.promise[m][i] # "running"
        BY DEF Books
      <4>2. RunningIn(s.promise[m], m) = {}
        BY <4>1 DEF RunningIn
      <4>3. s.lane[m].running = 0 - d[m] /\ d[m] \in Nat
        BY <2>1, <4>2, FS_EmptySet, StraysInt DEF LaneBooks
      <4>4. QED
        BY <4>3
    <3>3. PICK r : r = t.lane[m]
      OBVIOUS
    <3>4. /\ r.futures = {} /\ r.retained = 0 /\ r.next = s.lane[m].next
          /\ r.pending = s.lane[m].pending /\ r.running = s.lane[m].running
      BY <2>2, <3>3 DEF Disbanded
    <3>5. LaneBooks(r, s.promise[m], m, FALSE, d[m])
      BY <3>1, <3>2, <3>4, LeftBooks
    <3>6. QED
      BY <1>1, <3>3, <3>4, <3>5 DEF LaneBooks
  <2>3. CASE m \notin s.admitted
    <3>1. t.lane[m] = s.lane[m] /\ m \notin t.admitted
      BY <1>1, <2>3 DEF Disbanded
    <3>2. LaneBooks(t.lane[m], t.promise[m], m, m \in t.admitted, d[m])
      BY <1>1, <2>1, <2>3, <3>1 DEF LaneBooks
    <3>3. s.lane[m].futures = {} /\ s.lane[m].retained = Cardinality(GrantedIn(s.lane[m], s.promise[m]))
      BY <2>1, <2>3 DEF LaneBooks
    <3>4. GrantedIn(s.lane[m], s.promise[m]) = {}
      BY <3>3 DEF GrantedIn
    <3>5. QED
      BY <3>1, <3>2, <3>3, <3>4, FS_EmptySet
  <2>4. QED
    BY <2>2, <2>3
<1>3. t.retained = Total(RetainedOf(t), Lanes)
  <2>1. PICK a : a = RetainedOf(t)
    OBVIOUS
  <2>2. \A m \in Lanes : a[m] = 0
    BY <1>2, <2>1 DEF RetainedOf
  <2>3. Total(a, Lanes) = 0
    BY <2>2, LanesAssumption, TotalZero
  <2>4. QED
    BY <2>1, <2>3 DEF Disbanded
<1>4. /\ IsFiniteSet(t.tasks) /\ t.active = Cardinality(t.tasks) - Total(d, Lanes)
      /\ \A m \in Lanes : \A j \in Planes(m) : <<m, j>> \in t.tasks <=> t.promise[m][j] = "running"
  <2>1. t.tasks = s.tasks /\ t.active = s.active
    BY DEF Disbanded
  <2>2. QED
    BY <1>1, <2>1 DEF Books
<1>5. QED
  BY <1>1, <1>2, <1>3, <1>4 DEF Books

-----------------------------------------------------------------------------
(* The consumers. *)

\* The record of the consumer of lane l.
ReaderShape(r, l) ==
  /\ r = [pc |-> r.pc, next |-> r.next, previous |-> r.previous]
  /\ r.pc \in {"absent", "ready", "check", "fetch", "wait", "missed", "closing", "joining", "closed"}
  /\ r.next \in 0..Count[l] /\ r.previous \in Planes(l) \union {NoPlane}

\* The lane of a stream that has not started.
Fresh(s, l) ==
  /\ s.lane[l].next = 0 /\ s.lane[l].futures = {} /\ ~s.lane[l].stopped /\ s.lane[l].owns
  /\ l \notin s.admitted

\* The window, seen from a consumer that expects plane r.next and may hold the one before.
InWindow(r, s, l) ==
  /\ r.next <= s.lane[l].next
  /\ s.lane[l].futures = (r.next..(s.lane[l].next - 1))
                         \union (IF r.previous = NoPlane THEN {} ELSE {r.previous})
  /\ r.previous = NoPlane /\ ~s.lane[l].stopped =>
       Cardinality(s.lane[l].futures) = Window[l] \/ s.lane[l].next = Count[l]
  /\ r.previous # NoPlane =>
       r.pc = "ready" /\ r.previous < r.next /\ s.promise[l][r.previous] = "done"
  /\ r.pc \in {"fetch", "wait"} => r.next < s.lane[l].next

\* What the consumer of lane l, whose record is r, may rely on.
Consuming(r, s, l) ==
  /\ ReaderShape(r, l)
  /\ r.pc = "absent" => Fresh(s, l) /\ r.next = 0 /\ r.previous = NoPlane
  /\ r.pc \notin {"absent", "closed"} /\ s.state # "closed" => l \in s.admitted
  /\ r.pc \in {"ready", "check", "fetch", "wait"} /\ s.state # "closed" => InWindow(r, s, l)
  /\ r.pc \in {"fetch", "wait"} => r.next < Count[l]
  /\ r.pc = "missed" => s.state = "closed"
  /\ r.pc = "joining" => s.lane[l].stopped

\* The refusals are counted, and what they leave behind are tasks.
Refusing == refusals \in 0..MaxRefusals /\ kept \subseteq UNION {{l} \X Planes(l) : l \in Lanes}
Filed == Refusing' /\ UNCHANGED strays

\* The invariant: a sound pool with nothing left to grant, and consumers in step with it.
Consumers == \A l \in Lanes : Consuming(reader[l], pool, l)
Inv == /\ Sound(pool, strays) /\ Busy(pool) /\ Consumers
       /\ reader = [l \in Lanes |-> reader[l]] /\ Refusing

\* A dispatch keeps what a consumer knows.
LEMMA TurnedSteady ==
  ASSUME NEW d, NEW s, NEW t, Turned(s, t, d), NEW l \in Lanes
  PROVE  Steady(s, t, l)
<1>1. /\ t.state = s.state /\ t.admitted = s.admitted
      /\ t.lane[l].futures = s.lane[l].futures /\ t.lane[l].next = s.lane[l].next
      /\ t.lane[l].owns = s.lane[l].owns /\ t.lane[l].stopped = s.lane[l].stopped
  BY DEF Turned
<1>2. \A i \in Planes(l) : s.promise[l][i] = "done" => t.promise[l][i] = "done"
  BY DEF Turned
<1>3. QED
  BY <1>1, <1>2 DEF Steady

\* So do two such changes, one after the other.
LEMMA SteadyThen ==
  ASSUME NEW s, NEW t, NEW u, NEW l \in Lanes, Steady(s, t, l), Steady(t, u, l)
  PROVE  Steady(s, u, l)
<1>1. \A i \in Planes(l) : s.promise[l][i] = "done" => u.promise[l][i] = "done"
  BY DEF Steady
<1>2. u.lane[l].stopped = s.lane[l].stopped \/ (u.lane[l].stopped /\ l \in s.admitted)
  BY DEF Steady
<1>3. QED
  BY <1>1, <1>2 DEF Steady

\* What a consumer relies on, it may go on relying on.
LEMMA StillConsuming ==
  ASSUME NEW s, NEW t, NEW l \in Lanes, Steady(s, t, l), NEW r, Consuming(r, s, l)
  PROVE  Consuming(r, t, l)
<1>1. ReaderShape(r, l)
  BY DEF Consuming
<1>2. r.pc = "absent" => Fresh(t, l) /\ r.next = 0 /\ r.previous = NoPlane
  BY DEF Consuming, Steady, Fresh
<1>3. InWindow(r, s, l) => InWindow(r, t, l)
  <2>1. r.previous # NoPlane => r.previous \in Planes(l)
    BY <1>1 DEF ReaderShape
  <2>2. t.lane[l].futures = s.lane[l].futures /\ t.lane[l].next = s.lane[l].next
        /\ (~t.lane[l].stopped => ~s.lane[l].stopped)
    BY DEF Steady
  <2>3. r.previous # NoPlane /\ s.promise[l][r.previous] = "done" => t.promise[l][r.previous] = "done"
    BY <2>1 DEF Steady
  <2>4. QED
    BY <2>2, <2>3 DEF InWindow
<1>4. /\ t.state = "closed" <=> s.state = "closed"
      /\ l \in t.admitted <=> l \in s.admitted
      /\ s.lane[l].stopped => t.lane[l].stopped
  BY DEF Steady
<1>5. QED
  BY <1>1, <1>2, <1>3, <1>4 DEF Consuming

\* A dispatch leaves a closing pool as it must be.
LEMMA TurnedClosings ==
  ASSUME NEW d, NEW s, Closings(s), Shaped(s), NEW t, Turned(s, t, d)
  PROVE  Closings(t)
<1>1. /\ t.state = s.state /\ t.cancelled = s.cancelled /\ t.admitted = s.admitted
      /\ \A m \in Lanes : t.lane[m].stopped = s.lane[m].stopped
  BY DEF Turned
<1>2. s.admitted \subseteq Lanes
  BY DEF Shaped
<1>3. QED
  BY <1>1, <1>2 DEF Closings

\* A critical section ends with a dispatch: s is the pool before it.
LEMMA AfterDispatch ==
  ASSUME NEW d, Refusing, NEW s, Sound(s, d), DispatchAfter(s)
  PROVE  /\ Turned(s, pool', d) /\ Sound(pool', d) /\ Busy(pool')
         /\ Filed
<1>1. PICK refused \in {NoTask} \union (IF refusals < MaxRefusals THEN Pending(s) ELSE {}) :
        /\ pool' = Dispatch(s, refused)
        /\ refusals' = refusals + (IF refused = NoTask THEN 0 ELSE 1)
        /\ UNCHANGED kept \/ (refused # NoTask /\ kept' = kept \union {refused})
        /\ UNCHANGED strays
  BY DEF DispatchAfter
<1>2. Books(s, d) /\ Queued(s) /\ Closings(s) /\ Shaped(s)
  BY DEF Sound, Books
<1>3. PICK t : t = pool'
  OBVIOUS
<1>4. Turned(s, t, d) /\ Busy(t)
  <2>1. t = Dispatch(s, refused)
    BY <1>1, <1>3
  <2>2. QED
    BY <1>2, <2>1, DispatchSound
<1>5. Sound(t, d)
  <2>1. Books(t, d) /\ Queued(t)
    BY <1>4 DEF Turned
  <2>2. Closings(t)
    BY <1>2, <1>4, TurnedClosings
  <2>3. QED
    BY <2>1, <2>2 DEF Sound
<1>6. Filed
  <2>1. MaxRefusals \in Nat
    BY RefusalAssumption
  <2>2. refused # NoTask => refusals < MaxRefusals /\ refused \in Pending(s)
    BY <1>1
  <2>3. refusals' \in 0..MaxRefusals
    <3>1. CASE refused = NoTask
      BY <1>1, <2>1, <3>1 DEF Refusing
    <3>2. CASE refused # NoTask
      BY <1>1, <2>1, <2>2, <3>2 DEF Refusing
    <3>3. QED
      BY <3>1, <3>2
  <2>4. Pending(s) \subseteq UNION {{l} \X Planes(l) : l \in Lanes}
    BY DEF Pending
  <2>5. kept' \subseteq UNION {{l} \X Planes(l) : l \in Lanes}
    <3> DEFINE U == UNION {{l} \X Planes(l) : l \in Lanes}
    <3>1. kept \subseteq U /\ Pending(s) \subseteq U
      BY <2>4 DEF Refusing
    <3> HIDE DEF U
    <3>2. kept' \subseteq U
      BY <1>1, <2>2, <3>1
    <3>3. QED
      BY <3>2 DEF U
  <2>6. QED
    BY <1>1, <2>3, <2>5 DEF Filed, Refusing
<1>7. QED
  BY <1>3, <1>4, <1>5, <1>6

\* What such an action gives: the consumers of the lanes of S know s as they knew the pool.
LEMMA DispatchKeeps ==
  ASSUME Inv, NEW s, Sound(s, strays), DispatchAfter(s),
         NEW S \in SUBSET Lanes, \A m \in S : Steady(pool, s, m)
  PROVE  /\ Turned(s, pool', strays) /\ Sound(pool', strays) /\ Busy(pool')
         /\ Filed
         /\ \A m \in S : Consuming(reader[m], pool', m)
<1>1. Refusing
  BY DEF Inv
<1>2. Turned(s, pool', strays) /\ Sound(pool', strays) /\ Busy(pool') /\ Filed
  BY <1>1, AfterDispatch
<1>3. ASSUME NEW m \in S
      PROVE  Consuming(reader[m], pool', m)
  <2>1. PICK t : t = pool'
    OBVIOUS
  <2>2. PICK r : r = reader[m]
    OBVIOUS
  <2>3. Consuming(r, pool, m)
    BY <2>2 DEF Inv, Consumers
  <2>4. Turned(s, t, strays)
    BY <1>2, <2>1
  <2>5. Steady(s, t, m)
    BY <2>4, TurnedSteady
  <2>6. Steady(pool, t, m)
    BY <2>5, SteadyThen
  <2>7. Consuming(r, t, m)
    BY <2>3, <2>6, StillConsuming
  <2>8. QED
    BY <2>1, <2>2, <2>7
<1>4. QED
  BY <1>2, <1>3

-----------------------------------------------------------------------------
(* The invariant. *)

\* One consumer moves; the others go on as they were.
LEMMA Whole ==
  ASSUME Sound(pool', strays), Busy(pool'), Filed,
         reader = [m \in Lanes |-> reader[m]],
         NEW l \in Lanes, NEW r, reader' = [reader EXCEPT ![l] = r], Consuming(r, pool', l),
         \A m \in Lanes \ {l} : Consuming(reader[m], pool', m)
  PROVE  Inv'
<1>1. reader' = [m \in Lanes |-> IF m = l THEN r ELSE reader[m]]
  OBVIOUS
<1>2. reader' = [m \in Lanes |-> reader'[m]]
  BY <1>1
<1>3. ASSUME NEW m \in Lanes
      PROVE  Consuming(reader[m]', pool', m)
  <2>1. CASE m = l
    <3>1. reader[m]' = r
      BY <1>1, <2>1
    <3>2. QED
      BY <2>1, <3>1
  <2>2. CASE m # l
    <3>1. reader[m]' = reader[m]
      BY <1>1, <2>2
    <3>2. QED
      BY <2>2, <3>1
  <2>3. QED
    BY <2>1, <2>2
<1>4. QED
  BY <1>2, <1>3 DEF Inv, Consumers, Filed

\* None moves.
LEMMA WholeStill ==
  ASSUME Sound(pool', strays), Busy(pool'), Filed,
         reader = [m \in Lanes |-> reader[m]], reader' = reader,
         \A m \in Lanes : Consuming(reader[m], pool', m)
  PROVE  Inv'
<1>1. ASSUME NEW m \in Lanes
      PROVE  Consuming(reader[m]', pool', m)
  <2>1. reader[m]' = reader[m]
    OBVIOUS
  <2>2. QED
    BY <2>1
<1>2. reader' = [m \in Lanes |-> reader'[m]]
  OBVIOUS
<1>3. QED
  BY <1>1, <1>2 DEF Inv, Consumers, Filed

\* A consumer's next place.
Moved(r, q, pc) ==
  /\ q = [pc |-> q.pc, next |-> q.next, previous |-> q.previous]
  /\ q.pc = pc /\ q.next = r.next /\ q.previous = r.previous

\* A step of the program counter moves one consumer alone.
LEMMA GotoMoves ==
  ASSUME NEW l \in Lanes, NEW pc, Goto(l, pc), reader = [m \in Lanes |-> reader[m]],
         ReaderShape(reader[l], l)
  PROVE  \E q : Moved(reader[l], q, pc) /\ reader' = [reader EXCEPT ![l] = q]
<1>1. PICK r : r = reader[l]
  OBVIOUS
<1>2. PICK q : q = [r EXCEPT !.pc = pc]
  OBVIOUS
<1>3. Moved(r, q, pc)
  BY <1>1, <1>2 DEF Moved, ReaderShape
<1>4. reader' = [reader EXCEPT ![l] = q]
  BY <1>1, <1>2 DEF Goto
<1>5. QED
  BY <1>1, <1>3, <1>4

\* A step that leaves the pool alone.
LEMMA StandStill ==
  ASSUME Inv, pool' = pool, UNCHANGED submissions, NEW l \in Lanes, NEW r,
         reader' = [reader EXCEPT ![l] = r], Consuming(r, pool, l)
  PROVE  Inv'
<1>1. Sound(pool', strays) /\ Busy(pool') /\ reader = [m \in Lanes |-> reader[m]]
  BY DEF Inv
<1>2. Filed
  BY DEF Inv, Filed, Refusing, submissions
<1>3. Consuming(r, pool', l) /\ \A m \in Lanes \ {l} : Consuming(reader[m], pool', m)
  BY DEF Inv, Consumers
<1>4. QED
  BY <1>1, <1>2, <1>3, Whole

\* What a consumer knows while its window holds.
LEMMA WindowKnown ==
  ASSUME Inv, NEW l \in Lanes
  PROVE  /\ Consuming(reader[l], pool, l) /\ ReaderShape(reader[l], l)
         /\ reader = [m \in Lanes |-> reader[m]] /\ LaneShape(pool.lane[l], l)
         /\ LaneBooks(pool.lane[l], pool.promise[l], l, l \in pool.admitted, strays[l])
<1>1. Consuming(reader[l], pool, l) /\ reader = [m \in Lanes |-> reader[m]] /\ Sound(pool, strays)
  BY DEF Inv, Consumers
<1>2. ReaderShape(reader[l], l)
  BY <1>1 DEF Consuming
<1>3. Books(pool, strays)
  BY <1>1 DEF Sound
<1>4. Shaped(pool) /\ LaneBooks(pool.lane[l], pool.promise[l], l, l \in pool.admitted, strays[l])
  BY <1>3 DEF Books
<1>5. LaneShape(pool.lane[l], l)
  BY <1>4 DEF Shaped
<1>6. QED
  BY <1>1, <1>2, <1>4, <1>5

\* Checking for a stop keeps the invariant.
LEMMA CheckKeeps ==
  ASSUME Inv, NEW l \in Lanes, Check(l)
  PROVE  Inv'
<1>1. PICK r : r = reader[l]
  OBVIOUS
<1>2. Consuming(r, pool, l) /\ ReaderShape(r, l) /\ LaneShape(pool.lane[l], l)
  BY <1>1, WindowKnown
<1>3. PICK pc : pc = IF pool.lane[l].stopped \/ r.next >= Count[l] THEN "closing" ELSE "fetch"
  OBVIOUS
<1>4. Goto(l, pc) /\ r.pc = "check" /\ pool' = pool /\ UNCHANGED submissions
  BY <1>1, <1>3 DEF Check
<1>5. PICK q : Moved(r, q, pc) /\ reader' = [reader EXCEPT ![l] = q]
  <2>1. reader = [m \in Lanes |-> reader[m]] /\ ReaderShape(reader[l], l)
    BY WindowKnown
  <2>2. \E q : Moved(reader[l], q, pc) /\ reader' = [reader EXCEPT ![l] = q]
    BY <1>4, <2>1, GotoMoves
  <2>3. QED
    BY <1>1, <2>2
<1>6. ReaderShape(q, l)
  BY <1>2, <1>3, <1>5 DEF ReaderShape, Moved
<1>7. CASE pc = "closing"
  <2>1. Consuming(q, pool, l)
    BY <1>2, <1>4, <1>5, <1>6, <1>7 DEF Consuming, Moved
  <2>2. QED
    BY <1>4, <1>5, <2>1, StandStill
<1>8. CASE pc = "fetch"
  <2>1. r.next < Count[l] /\ ~pool.lane[l].stopped
    BY <1>2, <1>3, <1>8, CountAssumption DEF ReaderShape
  <2>2. ASSUME pool.state # "closed"
        PROVE  InWindow(q, pool, l)
    <3>1. InWindow(r, pool, l)
      BY <1>2, <1>4, <2>2 DEF Consuming
    <3>2. r.previous = NoPlane
      BY <1>4, <3>1 DEF InWindow
    <3>3. r.next < pool.lane[l].next
      <4>1. SUFFICES ASSUME ~(r.next < pool.lane[l].next) PROVE FALSE
        OBVIOUS
      <4>2. r.next \in Int /\ pool.lane[l].next \in Int /\ Count[l] \in Int
        BY <1>2, CountAssumption DEF ReaderShape, LaneShape
      <4>3. r.next <= pool.lane[l].next
        BY <3>1 DEF InWindow
      <4>4. r.next..(pool.lane[l].next - 1) = {}
        BY <4>1, <4>2
      <4>5. pool.lane[l].futures = {}
        BY <3>1, <3>2, <4>4 DEF InWindow
      <4>6. Cardinality(pool.lane[l].futures) = 0 /\ Window[l] \in 1..MaxWorkers
        BY <4>5, FS_EmptySet, WindowAssumption
      <4>7. Cardinality(pool.lane[l].futures) # Window[l]
        BY <4>6
      <4>8. pool.lane[l].next = Count[l]
        BY <2>1, <3>1, <3>2, <4>7 DEF InWindow
      <4>9. QED
        BY <2>1, <4>1, <4>2, <4>3, <4>8
    <3>4. QED
      BY <1>5, <3>1, <3>2, <3>3 DEF InWindow, Moved
  <2>3. Consuming(q, pool, l)
    <3>1. q.pc = "fetch" /\ q.next = r.next
      BY <1>5, <1>8 DEF Moved
    <3>2. pool.state # "closed" => l \in pool.admitted
      BY <1>2, <1>4 DEF Consuming
    <3>3. QED
      BY <1>6, <2>1, <2>2, <3>1, <3>2 DEF Consuming
  <2>4. QED
    BY <1>4, <1>5, <2>3, StandStill
<1>9. QED
  BY <1>3, <1>7, <1>8

\* Reading the next promise outside the lock keeps the invariant.
LEMMA FetchKeeps ==
  ASSUME Inv, NEW l \in Lanes, Fetch(l)
  PROVE  Inv'
<1>1. PICK r : r = reader[l]
  OBVIOUS
<1>2. Consuming(r, pool, l) /\ ReaderShape(r, l) /\ LaneShape(pool.lane[l], l)
  BY <1>1, WindowKnown
<1>3. PICK pc : pc = IF r.next \in pool.lane[l].futures THEN "wait" ELSE "missed"
  OBVIOUS
<1>4. Goto(l, pc) /\ r.pc = "fetch" /\ pool' = pool /\ UNCHANGED submissions
  BY <1>1, <1>3 DEF Fetch
<1>5. PICK q : Moved(r, q, pc) /\ reader' = [reader EXCEPT ![l] = q]
  <2>1. reader = [m \in Lanes |-> reader[m]] /\ ReaderShape(reader[l], l)
    BY WindowKnown
  <2>2. \E q : Moved(reader[l], q, pc) /\ reader' = [reader EXCEPT ![l] = q]
    BY <1>4, <2>1, GotoMoves
  <2>3. QED
    BY <1>1, <2>2
<1>6. ReaderShape(q, l)
  BY <1>2, <1>3, <1>5 DEF ReaderShape, Moved
<1>7. r.next < Count[l]
  BY <1>2, <1>4 DEF Consuming
<1>8. q.pc = pc /\ q.next = r.next /\ q.previous = r.previous
  BY <1>5 DEF Moved
<1>9. pool.state # "closed" => l \in pool.admitted /\ InWindow(r, pool, l)
  BY <1>2, <1>4 DEF Consuming
<1>10. ASSUME pool.state # "closed"
       PROVE  r.next \in pool.lane[l].futures
  <2>1. InWindow(r, pool, l)
    BY <1>9, <1>10
  <2>2. r.next < pool.lane[l].next
    BY <1>4, <2>1 DEF InWindow
  <2>3. r.next \in Int /\ pool.lane[l].next \in Int
    BY <1>2, CountAssumption DEF ReaderShape, LaneShape
  <2>4. r.next \in r.next..(pool.lane[l].next - 1)
    BY <2>2, <2>3
  <2>5. QED
    BY <2>1, <2>4 DEF InWindow
<1>11. ASSUME pool.state # "closed"
       PROVE  InWindow(q, pool, l)
  <2>1. InWindow(r, pool, l)
    BY <1>9, <1>11
  <2>2. r.previous = NoPlane
    BY <1>4, <2>1 DEF InWindow
  <2>3. QED
    BY <1>4, <1>8, <2>1, <2>2 DEF InWindow
<1>12. Consuming(q, pool, l)
  <2>1. CASE pc = "wait"
    BY <1>6, <1>7, <1>8, <1>9, <1>11, <2>1 DEF Consuming
  <2>2. CASE pc = "missed"
    <3>1. pool.state = "closed"
      BY <1>3, <1>10, <2>2
    <3>2. QED
      BY <1>6, <1>8, <2>2, <3>1 DEF Consuming
  <2>3. QED
    BY <1>3, <2>1, <2>2
<1>13. QED
  BY <1>4, <1>5, <1>12, StandStill

\* Taking a result, or its failure, keeps the invariant.
LEMMA TakeKeeps ==
  ASSUME Inv, NEW l \in Lanes, Take(l)
  PROVE  Inv'
<1>1. PICK r : r = reader[l]
  OBVIOUS
<1>2. Consuming(r, pool, l) /\ ReaderShape(r, l) /\ LaneShape(pool.lane[l], l)
  BY <1>1, WindowKnown
<1>3. r.pc = "wait" /\ pool' = pool /\ UNCHANGED submissions
  BY <1>1 DEF Take
<1>4. r.next < Count[l] /\ (pool.state # "closed" => l \in pool.admitted /\ InWindow(r, pool, l))
  BY <1>2, <1>3 DEF Consuming
<1>5. CASE pool.promise[l][r.next] = "done" /\
           reader' = [reader EXCEPT ![l] = [pc |-> "ready", next |-> r.next + 1, previous |-> r.next]]
  <2>1. PICK q : q = [pc |-> "ready", next |-> r.next + 1, previous |-> r.next]
    OBVIOUS
  <2>2. r.next \in Int /\ r.next >= 0 /\ Count[l] \in Int /\ pool.lane[l].next \in Int
    BY <1>2, CountAssumption DEF ReaderShape, LaneShape
  <2>3. q = [pc |-> q.pc, next |-> q.next, previous |-> q.previous]
    BY <2>1
  <2>4. q.pc = "ready" /\ q.next = r.next + 1 /\ q.previous = r.next
    BY <2>1
  <2>5. q.next \in 0..Count[l] /\ q.previous \in Planes(l) /\ q.previous # NoPlane /\ q.previous < q.next
    BY <1>4, <2>2, <2>4 DEF Planes, NoPlane
  <2>6. ReaderShape(q, l)
    BY <2>3, <2>4, <2>5 DEF ReaderShape
  <2>7. ASSUME pool.state # "closed"
        PROVE  InWindow(q, pool, l)
    <3>1. InWindow(r, pool, l)
      BY <1>4, <2>7
    <3>2. r.previous = NoPlane /\ r.next < pool.lane[l].next
      BY <1>3, <3>1 DEF InWindow
    <3>3. r.next..(pool.lane[l].next - 1) = ((r.next + 1)..(pool.lane[l].next - 1)) \union {r.next}
      BY <2>2, <3>2
    <3>4. pool.lane[l].futures = (q.next..(pool.lane[l].next - 1)) \union {q.previous}
      BY <2>4, <3>1, <3>2, <3>3 DEF InWindow
    <3>5. q.next <= pool.lane[l].next
      BY <2>2, <2>4, <3>2
    <3>6. QED
      BY <1>5, <2>4, <2>5, <3>4, <3>5 DEF InWindow
  <2>8. Consuming(q, pool, l)
    BY <1>4, <2>4, <2>6, <2>7 DEF Consuming
  <2>9. QED
    BY <1>3, <1>5, <2>1, <2>8, StandStill
<1>6. CASE Goto(l, "closing")
  <2>1. PICK pc : pc = "closing"
    OBVIOUS
  <2>2. PICK q : Moved(r, q, pc) /\ reader' = [reader EXCEPT ![l] = q]
    <3>1. reader = [m \in Lanes |-> reader[m]] /\ ReaderShape(reader[l], l)
      BY WindowKnown
    <3>2. \E q : Moved(reader[l], q, pc) /\ reader' = [reader EXCEPT ![l] = q]
      BY <1>6, <2>1, <3>1, GotoMoves
    <3>3. QED
      BY <1>1, <3>2
  <2>3. ReaderShape(q, l)
    BY <1>2, <2>1, <2>2 DEF ReaderShape, Moved
  <2>4. q.pc = "closing"
    BY <2>1, <2>2 DEF Moved
  <2>5. Consuming(q, pool, l)
    BY <1>4, <2>3, <2>4 DEF Consuming
  <2>6. QED
    BY <1>3, <2>2, <2>5, StandStill
<1>7. QED
  BY <1>1, <1>5, <1>6 DEF Take

\* Closing an iterator early keeps the invariant.
LEMMA AbandonKeeps ==
  ASSUME Inv, NEW l \in Lanes, Abandon(l)
  PROVE  Inv'
<1>1. PICK r : r = reader[l]
  OBVIOUS
<1>2. Consuming(r, pool, l) /\ ReaderShape(r, l)
  BY <1>1, WindowKnown
<1>3. PICK pc : pc = "closing"
  OBVIOUS
<1>4. Goto(l, pc) /\ r.pc = "ready" /\ pool' = pool /\ UNCHANGED submissions
  BY <1>1, <1>3 DEF Abandon
<1>5. PICK q : Moved(r, q, pc) /\ reader' = [reader EXCEPT ![l] = q]
  <2>1. reader = [m \in Lanes |-> reader[m]] /\ ReaderShape(reader[l], l)
    BY WindowKnown
  <2>2. \E q : Moved(reader[l], q, pc) /\ reader' = [reader EXCEPT ![l] = q]
    BY <1>4, <2>1, GotoMoves
  <2>3. QED
    BY <1>1, <2>2
<1>6. ReaderShape(q, l)
  BY <1>2, <1>3, <1>5 DEF ReaderShape, Moved
<1>7. q.pc = "closing"
  BY <1>3, <1>5 DEF Moved
<1>8. pool.state # "closed" => l \in pool.admitted
  BY <1>2, <1>4 DEF Consuming
<1>9. Consuming(q, pool, l)
  BY <1>6, <1>7, <1>8 DEF Consuming
<1>10. QED
  BY <1>4, <1>5, <1>9, StandStill

\* t comes after p by a dispatch from a pool in which no more is granted than in p.
Cleared(p, t, d) ==
  \E s : /\ Shaped(s) /\ Turned(s, t, d) /\ s.active <= p.active
         /\ \A m \in Lanes : s.lane[m].running <= p.lane[m].running

\* Nothing is granted.
Quiet(p, t) ==
  t.active = p.active /\ \A m \in Lanes : t.lane[m].running = p.lane[m].running

\* Permits are only taken back.
Lowered(p, t) ==
  /\ t.active = p.active - 1
  /\ \A m \in Lanes : t.lane[m].running \in {p.lane[m].running, p.lane[m].running - 1}

\* A stream starts.
LEMMA OrderedPlanesKeeps ==
  ASSUME Inv, NEW l \in Lanes, OrderedPlanes(l)
  PROVE  Inv' /\ Cleared(pool, pool', strays)
<1>1. PICK p : p = pool
  OBVIOUS
<1>2. PICK r : r = reader[l]
  OBVIOUS
<1>3. Consuming(r, p, l) /\ ReaderShape(r, l) /\ reader = [m \in Lanes |-> reader[m]]
  BY <1>1, <1>2, WindowKnown
<1>4. Sound(p, strays) /\ Books(p, strays) /\ Queued(p) /\ Closings(p) /\ Shaped(p)
  BY <1>1 DEF Inv, Sound, Books
<1>5. r.pc = "absent" /\ Going(p)
  BY <1>1, <1>2 DEF OrderedPlanes, Going
<1>6. Fresh(p, l) /\ r.next = 0 /\ r.previous = NoPlane
  BY <1>3, <1>5 DEF Consuming
<1>7. PICK u : u = [p EXCEPT !.admitted = @ \union {l}]
  OBVIOUS
<1>8. /\ Same(p, u) /\ u.workers = p.workers /\ u.state = p.state /\ u.cancelled = p.cancelled
      /\ u.admitted = p.admitted \union {l} /\ u.ready = p.ready
  BY <1>4, <1>7, AdmitFields
<1>9. Books(u, strays)
  <2>1. LaneBooks(p.lane[l], p.promise[l], l, l \in p.admitted, strays[l])
    BY <1>4 DEF Books
  <2>2. \A i \in Planes(l) : ~(i < 0)
    BY PlanesFinite
  <2>3. \A i \in Planes(l) : p.promise[l][i] = "none"
    BY <1>6, <2>1, <2>2 DEF LaneBooks, Fresh
  <2>4. p.lane[l].owns
    BY <1>6 DEF Fresh
  <2>5. QED
    BY <1>4, <1>8, <2>3, <2>4, AdmitBooks
<1>10. Queued(u)
  BY <1>4, <1>8 DEF Queued, Going, Same
<1>11. PICK s : s = Fill(u, l)
  OBVIOUS
<1>12. Refilled(u, s, l, strays)
  <2>1. l \in u.admitted /\ ~u.lane[l].stopped
    BY <1>6, <1>8 DEF Same, Fresh
  <2>2. QED
    BY <1>9, <1>10, <1>11, <2>1, FillSound
<1>13. s.state = u.state /\ s.cancelled = u.cancelled /\ s.admitted = u.admitted
       /\ s.active = u.active /\ s.workers = u.workers
  BY <1>12 DEF Refilled, Alike
<1>14. Sound(s, strays)
  <2>1. Closings(s)
    BY <1>5, <1>8, <1>13 DEF Closings, Going
  <2>2. QED
    BY <1>12, <2>1 DEF Refilled, Sound
<1>15. ASSUME NEW m \in Lanes \ {l}
       PROVE  Steady(p, s, m)
  <2>1. SameLane(u.lane[m], s.lane[m]) /\ s.promise[m] = u.promise[m]
    BY <1>12 DEF Refilled
  <2>2. u.lane = p.lane /\ u.promise = p.promise
    BY <1>8 DEF Same
  <2>3. /\ s.lane[m].futures = p.lane[m].futures /\ s.lane[m].next = p.lane[m].next
        /\ s.lane[m].owns = p.lane[m].owns /\ s.lane[m].stopped = p.lane[m].stopped
    BY <2>1, <2>2 DEF SameLane
  <2>4. m \in s.admitted <=> m \in p.admitted
    BY <1>8, <1>13
  <2>5. QED
    BY <1>8, <1>13, <2>1, <2>2, <2>3, <2>4 DEF Steady
<1>16. DispatchAfter(s)
  BY <1>1, <1>7, <1>11 DEF OrderedPlanes
<1>17. /\ Turned(s, pool', strays) /\ Sound(pool', strays) /\ Busy(pool') /\ Filed
       /\ \A m \in Lanes \ {l} : Consuming(reader[m], pool', m)
  BY <1>1, <1>14, <1>15, <1>16, DispatchKeeps
<1>18. PICK pc : pc = "ready"
  OBVIOUS
<1>19. PICK q : Moved(r, q, pc) /\ reader' = [reader EXCEPT ![l] = q]
  <2>1. Goto(l, pc) /\ ReaderShape(reader[l], l)
    BY <1>2, <1>3, <1>18 DEF OrderedPlanes
  <2>2. \E q : Moved(reader[l], q, pc) /\ reader' = [reader EXCEPT ![l] = q]
    BY <1>3, <2>1, GotoMoves
  <2>3. QED
    BY <1>2, <2>2
<1>20. ReaderShape(q, l) /\ q.pc = "ready" /\ q.next = 0 /\ q.previous = NoPlane
  BY <1>3, <1>6, <1>18, <1>19 DEF ReaderShape, Moved
<1>21. PICK t : t = pool'
  OBVIOUS
<1>22. InWindow(q, t, l)
  <2>1. t.lane[l].futures = s.lane[l].futures /\ t.lane[l].next = s.lane[l].next
    BY <1>17, <1>21 DEF Turned
  <2>2. /\ s.lane[l].next \in u.lane[l].next..Count[l]
        /\ s.lane[l].futures = u.lane[l].futures \union (u.lane[l].next..(s.lane[l].next - 1))
        /\ Cardinality(s.lane[l].futures) = Window[l] \/ s.lane[l].next = Count[l]
    BY <1>12 DEF Refilled
  <2>3. u.lane[l].next = 0 /\ u.lane[l].futures = {}
    BY <1>6, <1>8 DEF Same, Fresh
  <2>4. 0 <= s.lane[l].next /\ s.lane[l].futures = 0..(s.lane[l].next - 1)
    BY <2>2, <2>3
  <2>5. QED
    BY <1>20, <2>1, <2>2, <2>4 DEF InWindow
<1>23. Consuming(q, t, l)
  <2>1. l \in t.admitted
    BY <1>8, <1>13, <1>17, <1>21 DEF Turned
  <2>2. QED
    BY <1>20, <1>22, <2>1 DEF Consuming
<1>24. Inv'
  BY <1>3, <1>17, <1>19, <1>21, <1>23, Whole
<1>25. s.active <= p.active
  <2>1. s.active = p.active /\ p.active \in Int
    BY <1>4, <1>8, <1>13 DEF Same, Shaped
  <2>2. QED
    BY <2>1
<1>26. \A m \in Lanes : s.lane[m].running <= p.lane[m].running
  <2> SUFFICES ASSUME NEW m \in Lanes PROVE s.lane[m].running <= p.lane[m].running
    OBVIOUS
  <2>1. s.lane[m].running = p.lane[m].running
    BY <1>8, <1>12 DEF Refilled, Same
  <2>2. p.lane[m].running \in Int
    BY <1>4 DEF Shaped, LaneShape
  <2>3. QED
    BY <2>1, <2>2
<1>27. Shaped(s)
  BY <1>12 DEF Refilled, Books
<1>28. QED
  BY <1>1, <1>17, <1>24, <1>25, <1>26, <1>27 DEF Cleared

\* The allowance changes.
LEMMA ResizeKeeps ==
  ASSUME Inv, NEW w \in 1..MaxWorkers, Resize(w)
  PROVE  Inv' /\ Cleared(pool, pool', strays)
<1>1. PICK p : p = pool
  OBVIOUS
<1>2. Sound(p, strays) /\ Books(p, strays) /\ Queued(p) /\ Closings(p) /\ Shaped(p)
  BY <1>1 DEF Inv, Sound, Books
<1>3. PICK s : s = [p EXCEPT !.workers = w]
  OBVIOUS
<1>4. /\ Same(p, s) /\ s.workers = w /\ s.state = p.state /\ s.cancelled = p.cancelled
      /\ s.admitted = p.admitted /\ s.ready = p.ready
  BY <1>2, <1>3, ResizeFields
<1>5. Books(s, strays)
  BY <1>2, <1>4, BooksKept DEF Same
<1>6. Queued(s)
  BY <1>2, <1>4 DEF Queued, Going, Same
<1>7. Closings(s)
  BY <1>2, <1>4 DEF Closings, Same
<1>8. Sound(s, strays)
  BY <1>5, <1>6, <1>7 DEF Sound
<1>9. DispatchAfter(s) /\ reader' = reader
  BY <1>1, <1>3 DEF Resize
<1>10. \A m \in Lanes : Steady(p, s, m)
  BY <1>4 DEF Steady, Same
<1>11. /\ Turned(s, pool', strays) /\ Sound(pool', strays) /\ Busy(pool') /\ Filed
       /\ \A m \in Lanes : Consuming(reader[m], pool', m)
  BY <1>1, <1>8, <1>9, <1>10, DispatchKeeps
<1>12. Inv'
  <2>1. reader = [m \in Lanes |-> reader[m]]
    BY DEF Inv
  <2>2. QED
    BY <1>9, <1>11, <2>1, WholeStill
<1>13. Shaped(s) /\ s.active <= p.active /\ \A m \in Lanes : s.lane[m].running <= p.lane[m].running
  <2>1. p.active \in Int /\ \A m \in Lanes : p.lane[m].running \in Int
    BY <1>2 DEF Shaped, LaneShape
  <2>2. s.active = p.active /\ s.lane = p.lane /\ Shaped(s)
    BY <1>4 DEF Same
  <2>3. QED
    BY <2>1, <2>2
<1>14. QED
  BY <1>1, <1>11, <1>12, <1>13 DEF Cleared

\* An operation returns.
LEMMA RunKeeps ==
  ASSUME Inv, NEW l \in Lanes, NEW i \in Planes(l),
         NEW outcome \in {"done", "failed"}, Run(l, i, outcome)
  PROVE  Inv' /\ Cleared(pool, pool', strays)
<1>1. PICK p : p = pool
  OBVIOUS
<1>2. Sound(p, strays) /\ Books(p, strays) /\ Queued(p) /\ Closings(p) /\ Shaped(p)
  BY <1>1 DEF Inv, Sound, Books
<1>3. p.promise[l][i] = "running"
  <2>1. <<l, i>> \in p.tasks
    BY <1>1 DEF Run
  <2>2. QED
    BY <1>2, <2>1 DEF Books
<1>4. PICK u : u = [p EXCEPT !.tasks = @ \ {<<l, i>>}, !.active = @ - 1, !.lane[l].running = @ - 1]
  OBVIOUS
<1>5. PICK s : s = [u EXCEPT !.promise[l][i] = outcome]
  OBVIOUS
<1>6. DispatchAfter(s) /\ reader' = reader
  BY <1>1, <1>3, <1>4, <1>5 DEF Run
<1>7. Returned(p, s, l, i)
  BY <1>2, <1>3, <1>4, <1>5, ReturnFields
<1>8. Books(s, strays)
  BY <1>2, <1>3, <1>7, ReturnedBooks
<1>9. s.state = p.state /\ s.cancelled = p.cancelled /\ s.admitted = p.admitted /\ s.ready = p.ready
  BY <1>7 DEF Returned
<1>10. ASSUME NEW m \in Lanes
       PROVE  /\ s.lane[m].pending = p.lane[m].pending /\ s.lane[m].queued = p.lane[m].queued
              /\ s.lane[m].stopped = p.lane[m].stopped /\ s.lane[m].futures = p.lane[m].futures
              /\ s.lane[m].next = p.lane[m].next /\ s.lane[m].owns = p.lane[m].owns
  <2>1. CASE m = l
    BY <1>7, <2>1 DEF Returned
  <2>2. CASE m # l
    <3>1. s.lane[m] = p.lane[m]
      BY <1>7, <2>2 DEF Returned
    <3>2. QED
      BY <3>1
  <2>3. QED
    BY <2>1, <2>2
<1>11. Queued(s)
  BY <1>2, <1>9, <1>10 DEF Queued, Going
<1>12. Closings(s)
  <2>1. p.admitted \subseteq Lanes
    BY <1>2 DEF Shaped
  <2>2. QED
    BY <1>2, <1>9, <1>10, <2>1 DEF Closings
<1>13. Sound(s, strays)
  BY <1>8, <1>11, <1>12 DEF Sound
<1>14. ASSUME NEW m \in Lanes
       PROVE  Steady(p, s, m)
  <2>1. \A j \in Planes(m) : p.promise[m][j] = "done" => s.promise[m][j] = "done"
    <3>1. CASE m = l
      BY <1>3, <1>7, <3>1 DEF Returned
    <3>2. CASE m # l
      <4>1. s.promise[m] = p.promise[m]
        BY <1>7, <3>2 DEF Returned
      <4>2. QED
        BY <4>1
    <3>3. QED
      BY <3>1, <3>2
  <2>2. QED
    BY <1>9, <1>10, <2>1 DEF Steady
<1>15. /\ Turned(s, pool', strays) /\ Sound(pool', strays) /\ Busy(pool') /\ Filed
       /\ \A m \in Lanes : Consuming(reader[m], pool', m)
  BY <1>1, <1>6, <1>13, <1>14, DispatchKeeps
<1>16. Inv'
  <2>1. reader = [m \in Lanes |-> reader[m]]
    BY DEF Inv
  <2>2. QED
    BY <1>6, <1>15, <2>1, WholeStill
<1>17. s.active <= p.active
  <2>1. s.active = p.active - 1 /\ p.active \in Int
    BY <1>2, <1>7 DEF Returned, Shaped
  <2>2. QED
    BY <2>1
<1>18. \A m \in Lanes : s.lane[m].running <= p.lane[m].running
  <2> SUFFICES ASSUME NEW m \in Lanes PROVE s.lane[m].running <= p.lane[m].running
    OBVIOUS
  <2>1. s.lane[m].running = p.lane[m].running \/ s.lane[m].running = p.lane[m].running - 1
    BY <1>7 DEF Returned
  <2>2. p.lane[m].running \in Int
    BY <1>2 DEF Shaped, LaneShape
  <2>3. QED
    BY <2>1, <2>2
<1>19. Shaped(s)
  BY <1>7 DEF Returned
<1>20. QED
  BY <1>1, <1>15, <1>16, <1>17, <1>18, <1>19 DEF Cleared

\* The pool after a refused task of lane l ran, and gave back a permit it did not hold.
Shorted(s, t, l) ==
  /\ Shaped(t)
  /\ t.workers = s.workers /\ t.state = s.state /\ t.cancelled = s.cancelled
  /\ t.admitted = s.admitted /\ t.ready = s.ready /\ t.retained = s.retained
  /\ t.tasks = s.tasks /\ t.promise = s.promise /\ t.active = s.active - 1
  /\ \A m \in Lanes \ {l} : t.lane[m] = s.lane[m]
  /\ t.lane[l].pending = s.lane[l].pending /\ t.lane[l].futures = s.lane[l].futures
  /\ t.lane[l].next = s.lane[l].next /\ t.lane[l].stopped = s.lane[l].stopped
  /\ t.lane[l].owns = s.lane[l].owns /\ t.lane[l].retained = s.lane[l].retained
  /\ t.lane[l].queued = s.lane[l].queued /\ t.lane[l].running = s.lane[l].running - 1

\* What a refused task changes when it runs.
LEMMA ShortFields ==
  ASSUME NEW s, Shaped(s), NEW l \in Lanes,
         NEW t, t = [s EXCEPT !.active = @ - 1, !.lane[l].running = @ - 1]
  PROVE  Shorted(s, t, l)
<1>1. PICK v : v = s.lane[l]
  OBVIOUS
<1>2. LaneShape(v, l)
  BY <1>1 DEF Shaped
<1>3. PICK b \in Int : b = v.running - 1
  BY <1>2 DEF LaneShape
<1>4. PICK a \in Int : a = s.active - 1
  BY DEF Shaped
<1>5. PICK g : g = [v EXCEPT !.running = b]
  OBVIOUS
<1>6. /\ LaneShape(g, l)
      /\ g.next = v.next /\ g.futures = v.futures /\ g.pending = v.pending
      /\ g.running = b /\ g.retained = v.retained /\ g.stopped = v.stopped /\ g.owns = v.owns
      /\ g.queued = v.queued
  BY <1>2, <1>5, RunningLane
<1>7. t = [s EXCEPT !.active = a, !.lane[l] = g]
  BY <1>1, <1>3, <1>4, <1>5
<1>8. /\ t = [workers |-> t.workers, active |-> t.active, retained |-> t.retained,
              state |-> t.state, cancelled |-> t.cancelled, admitted |-> t.admitted,
              ready |-> t.ready, tasks |-> t.tasks, lane |-> t.lane, promise |-> t.promise]
      /\ t.lane = [s.lane EXCEPT ![l] = g] /\ t.promise = s.promise
      /\ t.workers = s.workers /\ t.state = s.state /\ t.cancelled = s.cancelled
      /\ t.admitted = s.admitted /\ t.ready = s.ready /\ t.retained = s.retained
      /\ t.tasks = s.tasks /\ t.active = a
  BY <1>7 DEF Shaped
<1>9. t.lane = [m \in Lanes |-> IF m = l THEN g ELSE s.lane[m]]
  BY <1>8 DEF Shaped
<1>10. t.lane = [m \in Lanes |-> t.lane[m]] /\ \A m \in Lanes : LaneShape(t.lane[m], m)
  BY <1>6, <1>9 DEF Shaped
<1>11. Shaped(t)
  BY <1>8, <1>10 DEF Shaped
<1>12. t.lane[l] = g /\ \A m \in Lanes \ {l} : t.lane[m] = s.lane[m]
  BY <1>9
<1>13. /\ t.lane[l].pending = s.lane[l].pending /\ t.lane[l].futures = s.lane[l].futures
       /\ t.lane[l].next = s.lane[l].next /\ t.lane[l].stopped = s.lane[l].stopped
       /\ t.lane[l].owns = s.lane[l].owns /\ t.lane[l].retained = s.lane[l].retained
       /\ t.lane[l].queued = s.lane[l].queued /\ t.lane[l].running = s.lane[l].running - 1
  BY <1>1, <1>3, <1>6, <1>12
<1>14. QED
  BY <1>4, <1>8, <1>11, <1>12, <1>13 DEF Shorted

\* In the books it is one stray more.
LEMMA ShortBooks ==
  ASSUME NEW d, NEW s, Books(s, d), NEW l \in Lanes, NEW t, Shorted(s, t, l),
         NEW e, e = [d EXCEPT ![l] = @ + 1]
  PROVE  Books(t, e)
<1>1. Shaped(s) /\ Shaped(t) /\ t.promise = s.promise /\ t.admitted = s.admitted
  BY DEF Books, Shorted
<1>2. d \in [Lanes -> Nat]
  BY DEF Books
<1>3. e \in [Lanes -> Nat] /\ e[l] = d[l] + 1 /\ \A m \in Lanes \ {l} : e[m] = d[m]
  BY <1>2
<1>4. LaneBooks(t.lane[l], t.promise[l], l, l \in t.admitted, e[l])
  <2>1. PICK v, p : v = s.lane[l] /\ p = s.promise[l]
    OBVIOUS
  <2>2. LaneBooks(v, p, l, l \in s.admitted, d[l])
    BY <2>1 DEF Books
  <2>3. PICK w : w = t.lane[l]
    OBVIOUS
  <2>4. /\ w.pending = v.pending /\ w.futures = v.futures /\ w.next = v.next
        /\ w.stopped = v.stopped /\ w.owns = v.owns /\ w.retained = v.retained
        /\ w.running = v.running - 1
    BY <2>1, <2>3 DEF Shorted
  <2>5. PICK c \in Nat : c = Cardinality(RunningIn(p, l))
    BY <1>1, <2>1, LaneFinite
  <2>6. PICK n \in Nat : n = d[l] /\ e[l] = n + 1
    BY <1>2, <1>3
  <2>7. v.running = c - n
    BY <2>2, <2>5, <2>6 DEF LaneBooks
  <2>8. w.running = c - (n + 1) /\ (v.running <= 0 => w.running <= 0)
    BY <2>4, <2>7
  <2>9. w.running = Cardinality(RunningIn(p, l)) - e[l]
    BY <2>5, <2>6, <2>8
  <2>10. GrantedIn(w, p) = GrantedIn(v, p)
    BY <2>4 DEF GrantedIn
  <2>11. LaneBooks(w, p, l, l \in s.admitted, e[l])
    BY <2>2, <2>4, <2>8, <2>9, <2>10 DEF LaneBooks
  <2>12. QED
    BY <1>1, <2>1, <2>3, <2>11
<1>5. ASSUME NEW m \in Lanes
      PROVE  LaneBooks(t.lane[m], t.promise[m], m, m \in t.admitted, e[m])
  <2>1. CASE m = l
    BY <1>4, <2>1
  <2>2. CASE m # l
    <3>1. t.lane[m] = s.lane[m] /\ e[m] = d[m]
      BY <1>3, <2>2 DEF Shorted
    <3>2. LaneBooks(s.lane[m], s.promise[m], m, m \in s.admitted, d[m])
      BY DEF Books
    <3>3. QED
      BY <1>1, <3>1, <3>2
  <2>3. QED
    BY <2>1, <2>2
<1>6. IsFiniteSet(t.tasks) /\ t.active = Cardinality(t.tasks) - Total(e, Lanes)
  <2>1. \A m \in Lanes : d[m] \in Nat /\ e[m] \in Nat
    BY <1>2, <1>3
  <2>2. \A m \in Lanes \ {l} : d[m] = e[m]
    BY <1>3
  <2>3. PICK f, g : f = d /\ g = e
    OBVIOUS
  <2>4. Total(e, Lanes) + d[l] = Total(d, Lanes) + e[l]
    <3>1. (\A m \in Lanes : f[m] \in Nat /\ g[m] \in Nat) /\ \A m \in Lanes \ {l} : f[m] = g[m]
      BY <2>1, <2>2, <2>3
    <3>2. Total(g, Lanes) + f[l] = Total(f, Lanes) + g[l]
      BY <3>1, LanesAssumption, TotalChange
    <3>3. QED
      BY <2>3, <3>2
  <2>5. PICK a \in Nat, b \in Nat : a = Total(d, Lanes) /\ b = Total(e, Lanes)
    BY <2>1, LanesAssumption, TotalNat
  <2>6. PICK n \in Nat : n = d[l] /\ e[l] = n + 1
    BY <1>2, <1>3
  <2>7. b = a + 1
    BY <2>4, <2>5, <2>6
  <2>8. PICK c \in Nat : c = Cardinality(s.tasks)
    BY StraysInt
  <2>9. s.active = c - a /\ t.active = s.active - 1
    BY <2>5, <2>8 DEF Books, Shorted
  <2>10. t.active = c - b
    BY <2>7, <2>9
  <2>11. t.tasks = s.tasks /\ IsFiniteSet(s.tasks)
    BY DEF Books, Shorted
  <2>12. QED
    BY <2>5, <2>8, <2>10, <2>11
<1>7. t.retained = Total(RetainedOf(t), Lanes)
  <2>1. ASSUME NEW m \in Lanes
        PROVE  t.lane[m].retained = s.lane[m].retained
    BY DEF Shorted
  <2>2. RetainedOf(t) = RetainedOf(s)
    BY <2>1 DEF RetainedOf
  <2>3. t.retained = s.retained
    BY DEF Shorted
  <2>4. QED
    BY <2>2, <2>3 DEF Books
<1>8. \A m \in Lanes : \A j \in Planes(m) : <<m, j>> \in t.tasks <=> t.promise[m][j] = "running"
  <2>1. \A m \in Lanes : \A j \in Planes(m) : <<m, j>> \in s.tasks <=> s.promise[m][j] = "running"
    BY DEF Books
  <2>2. t.tasks = s.tasks
    BY DEF Shorted
  <2>3. QED
    BY <1>1, <2>1, <2>2
<1>9. QED
  BY <1>1, <1>3, <1>5, <1>6, <1>7, <1>8 DEF Books

\* A refused task that runs keeps the invariant.
LEMMA RunRefusedKeeps ==
  ASSUME Inv, NEW l \in Lanes, NEW i \in Planes(l), RunRefused(l, i)
  PROVE  Inv' /\ Lowered(pool, pool')
<1>1. PICK p : p = pool
  OBVIOUS
<1>2. PICK t : t = pool'
  OBVIOUS
<1>3. PICK d : d = strays
  OBVIOUS
<1>4. PICK e : e = strays'
  OBVIOUS
<1>5. Sound(p, d) /\ Books(p, d) /\ Queued(p) /\ Closings(p) /\ Shaped(p) /\ Busy(p)
  BY <1>1, <1>3 DEF Inv, Sound, Books
<1>6. Shorted(p, t, l)
  <2>1. t = [p EXCEPT !.active = @ - 1, !.lane[l].running = @ - 1]
    BY <1>1, <1>2 DEF RunRefused
  <2>2. QED
    BY <1>5, <2>1, ShortFields
<1>7. Books(t, e)
  <2>1. e = [d EXCEPT ![l] = @ + 1]
    BY <1>3, <1>4 DEF RunRefused
  <2>2. QED
    BY <1>5, <1>6, <2>1, ShortBooks
<1>8. /\ t.state = p.state /\ t.cancelled = p.cancelled /\ t.admitted = p.admitted
      /\ t.ready = p.ready /\ t.tasks = p.tasks /\ t.workers = p.workers /\ t.promise = p.promise
  BY <1>6 DEF Shorted
<1>9. ASSUME NEW m \in Lanes
      PROVE  /\ t.lane[m].pending = p.lane[m].pending /\ t.lane[m].queued = p.lane[m].queued
             /\ t.lane[m].stopped = p.lane[m].stopped /\ t.lane[m].futures = p.lane[m].futures
             /\ t.lane[m].next = p.lane[m].next /\ t.lane[m].owns = p.lane[m].owns
  <2>1. CASE m = l
    BY <1>6, <2>1 DEF Shorted
  <2>2. CASE m # l
    <3>1. t.lane[m] = p.lane[m]
      BY <1>6, <2>2 DEF Shorted
    <3>2. QED
      BY <3>1
  <2>3. QED
    BY <2>1, <2>2
<1>10. Queued(t)
  BY <1>5, <1>8, <1>9 DEF Queued, Going
<1>11. Closings(t)
  <2>1. p.admitted \subseteq Lanes
    BY <1>5 DEF Shaped
  <2>2. QED
    BY <1>5, <1>8, <1>9, <2>1 DEF Closings
<1>12. Busy(t)
  BY <1>5, <1>8, <1>9 DEF Busy, Going
<1>13. Sound(t, e)
  BY <1>7, <1>10, <1>11 DEF Sound
<1>14. ASSUME NEW m \in Lanes
       PROVE  Consuming(reader[m], t, m)
  <2>1. PICK r : r = reader[m]
    OBVIOUS
  <2>2. Consuming(r, p, m)
    BY <1>1, <2>1 DEF Inv, Consumers
  <2>3. Steady(p, t, m)
    BY <1>8, <1>9 DEF Steady
  <2>4. Consuming(r, t, m)
    BY <2>2, <2>3, StillConsuming
  <2>5. QED
    BY <2>1, <2>4
<1>15. reader' = reader /\ refusals' = refusals /\ kept' = kept \ {<<l, i>>}
  BY DEF RunRefused
<1>16. Refusing'
  BY <1>15 DEF Inv, Refusing
<1>17. Consumers'
  <2>1. \A m \in Lanes : Consuming(reader'[m], pool', m)
    BY <1>2, <1>14, <1>15
  <2>2. QED
    BY <2>1 DEF Consumers
<1>18. reader' = [m \in Lanes |-> reader'[m]]
  BY <1>15 DEF Inv
<1>19. Inv'
  BY <1>2, <1>4, <1>12, <1>13, <1>16, <1>17, <1>18 DEF Inv
<1>20. Lowered(p, t)
  BY <1>6 DEF Lowered, Shorted
<1>21. QED
  BY <1>1, <1>2, <1>19, <1>20

\* A consumer gives up its last plane, and its window moves on.
LEMMA ConsumeMoves ==
  ASSUME NEW l \in Lanes, NEW r, ReaderShape(r, l),
         NEW q, q = [r EXCEPT !.pc = "check", !.previous = NoPlane]
  PROVE  ReaderShape(q, l) /\ q.pc = "check" /\ q.next = r.next /\ q.previous = NoPlane
<1>1. /\ q = [pc |-> q.pc, next |-> q.next, previous |-> q.previous]
      /\ q.pc = "check" /\ q.next = r.next /\ q.previous = NoPlane
  BY DEF ReaderShape
<1>2. QED
  BY <1>1 DEF ReaderShape

\* Giving up the previous plane keeps the invariant.
LEMMA ConsumeKeeps ==
  ASSUME Inv, NEW l \in Lanes, Consume(l)
  PROVE  Inv' /\ (Cleared(pool, pool', strays) \/ Quiet(pool, pool'))
<1>1. PICK p : p = pool
  OBVIOUS
<1>2. PICK r : r = reader[l]
  OBVIOUS
<1>3. /\ Consuming(r, p, l) /\ ReaderShape(r, l) /\ reader = [m \in Lanes |-> reader[m]]
      /\ LaneShape(p.lane[l], l) /\ LaneBooks(p.lane[l], p.promise[l], l, l \in p.admitted, strays[l])
  BY <1>1, <1>2, WindowKnown
<1>4. Sound(p, strays) /\ Books(p, strays) /\ Queued(p) /\ Closings(p) /\ Shaped(p)
  BY <1>1 DEF Inv, Sound, Books
<1>5. PICK q : q = [r EXCEPT !.pc = "check", !.previous = NoPlane]
  OBVIOUS
<1>6. ReaderShape(q, l) /\ q.pc = "check" /\ q.next = r.next /\ q.previous = NoPlane
  BY <1>3, <1>5, ConsumeMoves
<1>7. r.pc = "ready" /\ reader' = [reader EXCEPT ![l] = q]
  <2>1. r.pc = "ready"
    BY <1>2 DEF Consume
  <2>2. reader' = [reader EXCEPT ![l].pc = "check", ![l].previous = NoPlane]
    BY DEF Consume
  <2>3. QED
    BY <1>2, <1>3, <1>5, <2>1, <2>2
<1>8. p.state # "closed" => l \in p.admitted /\ InWindow(r, p, l)
  BY <1>3, <1>7 DEF Consuming
<1>9. PICK i : i = r.previous
  OBVIOUS
<1>10. CASE i \notin p.lane[l].futures
  <2>1. pool' = pool /\ UNCHANGED submissions
    BY <1>1, <1>2, <1>9, <1>10 DEF Consume
  <2>2. ASSUME p.state # "closed"
        PROVE  InWindow(q, p, l)
    <3>1. InWindow(r, p, l)
      BY <1>8, <2>2
    <3>2. r.previous = NoPlane
      BY <1>9, <1>10, <3>1 DEF InWindow
    <3>3. QED
      BY <1>6, <3>1, <3>2 DEF InWindow
  <2>3. Consuming(q, p, l)
    BY <1>6, <1>8, <2>2 DEF Consuming
  <2>4. Inv'
    BY <1>1, <1>7, <2>1, <2>3, StandStill
  <2>5. QED
    BY <2>1, <2>4 DEF Quiet
<1>11. CASE i \in p.lane[l].futures
  <2>1. p.state # "closed" /\ l \in p.admitted
    BY <1>3, <1>4, <1>11 DEF LaneBooks, Closings
  <2>2. InWindow(r, p, l) /\ i \in Planes(l)
    BY <1>3, <1>8, <1>11, <2>1 DEF LaneShape
  <2>3. i # NoPlane
    <3>1. Planes(l) \subseteq Nat
      BY PlanesFinite
    <3>2. QED
      BY <2>2, <3>1 DEF NoPlane
  <2>4. p.promise[l][i] = "done" /\ i < r.next
    BY <1>9, <2>2, <2>3 DEF InWindow
  <2>5. PICK u : u = [p EXCEPT !.lane[l].futures = @ \ {i}, !.lane[l].retained = @ - 1,
                               !.retained = @ - 1]
    OBVIOUS
  <2>6. Freed(p, u, l, i)
    BY <1>4, <1>11, <2>4, <2>5, FreeFields
  <2>7. Books(u, strays)
    BY <1>4, <1>11, <2>4, <2>6, FreedBooks
  <2>8. /\ u.state = p.state /\ u.cancelled = p.cancelled /\ u.admitted = p.admitted
        /\ u.ready = p.ready /\ u.active = p.active /\ u.promise = p.promise
        /\ u.lane[l].futures = p.lane[l].futures \ {i} /\ u.lane[l].next = p.lane[l].next
    BY <2>6 DEF Freed
  <2>9. ASSUME NEW m \in Lanes
        PROVE  /\ u.lane[m].pending = p.lane[m].pending /\ u.lane[m].queued = p.lane[m].queued
               /\ u.lane[m].stopped = p.lane[m].stopped /\ u.lane[m].running = p.lane[m].running
               /\ m # l => u.lane[m] = p.lane[m]
    <3>1. CASE m = l
      BY <2>6, <3>1 DEF Freed
    <3>2. CASE m # l
      <4>1. u.lane[m] = p.lane[m]
        BY <2>6, <3>2 DEF Freed
      <4>2. QED
        BY <4>1
    <3>3. QED
      BY <3>1, <3>2
  <2>10. Queued(u)
    BY <1>4, <2>8, <2>9 DEF Queued, Going
  <2>11. Closings(u)
    <3>1. p.admitted \subseteq Lanes
      BY <1>4 DEF Shaped
    <3>2. QED
      BY <1>4, <2>8, <2>9, <3>1 DEF Closings
  <2>12. PICK s : s = IF u.lane[l].stopped THEN u ELSE Fill(u, l)
    OBVIOUS
  <2>13. DispatchAfter(s)
    BY <1>1, <1>2, <1>9, <1>11, <2>5, <2>12 DEF Consume
  <2>14. p.lane[l].futures = (r.next..(p.lane[l].next - 1)) \union {i} /\ r.next <= p.lane[l].next
    BY <1>9, <2>2, <2>3 DEF InWindow
  <2>15. r.next \in Int /\ i \in Int /\ p.lane[l].next \in Int
    BY <1>3, <2>2, CountAssumption DEF ReaderShape, LaneShape, Planes
  <2>16. i \notin r.next..(p.lane[l].next - 1)
    BY <2>4, <2>15
  <2>17. u.lane[l].futures = r.next..(p.lane[l].next - 1)
    BY <2>8, <2>14, <2>16
  <2> DEFINE Goal == /\ Sound(s, strays) /\ Shaped(s) /\ s.active = p.active
                     /\ s.state = p.state /\ s.admitted = p.admitted
                     /\ \A m \in Lanes : s.lane[m].running = p.lane[m].running
                     /\ \A m \in Lanes \ {l} : Steady(p, s, m)
                     /\ r.next <= s.lane[l].next
                     /\ s.lane[l].futures = r.next..(s.lane[l].next - 1)
                     /\ s.lane[l].stopped \/ Cardinality(s.lane[l].futures) = Window[l]
                                          \/ s.lane[l].next = Count[l]
  <2>18. ASSUME u.lane[l].stopped PROVE Goal
    <3>1. s = u
      BY <2>12, <2>18
    <3>2. Sound(u, strays)
      BY <2>7, <2>10, <2>11 DEF Sound
    <3>3. \A m \in Lanes \ {l} : Steady(p, u, m)
      BY <2>8, <2>9 DEF Steady
    <3>4. r.next <= u.lane[l].next /\ u.lane[l].futures = r.next..(u.lane[l].next - 1)
      BY <2>8, <2>14, <2>17
    <3>5. Shaped(u)
      BY <2>6 DEF Freed
    <3>6. QED
      BY <2>8, <2>9, <2>18, <3>1, <3>2, <3>3, <3>4, <3>5
  <2>19. ASSUME ~u.lane[l].stopped PROVE Goal
    <3>1. s = Fill(u, l)
      BY <2>12, <2>19
    <3>2. l \in u.admitted
      BY <2>1, <2>8
    <3>3. Refilled(u, s, l, strays)
      BY <2>7, <2>10, <2>19, <3>1, <3>2, FillSound
    <3>4. s.state = u.state /\ s.cancelled = u.cancelled /\ s.admitted = u.admitted /\ s.active = u.active
      BY <3>3 DEF Refilled, Alike
    <3>5. \A m \in Lanes : s.lane[m].running = u.lane[m].running /\ s.lane[m].stopped = u.lane[m].stopped
      BY <3>3 DEF Refilled
    <3>6. Closings(s)
      <4>1. u.admitted \subseteq Lanes
        BY <2>7 DEF Books, Shaped
      <4>2. QED
        BY <2>11, <3>4, <3>5, <4>1 DEF Closings
    <3>7. Sound(s, strays) /\ Shaped(s)
      BY <3>3, <3>6 DEF Refilled, Sound, Books
    <3>8. ASSUME NEW m \in Lanes \ {l}
          PROVE  Steady(p, s, m)
      <4>1. SameLane(u.lane[m], s.lane[m]) /\ s.promise[m] = u.promise[m]
        BY <3>3 DEF Refilled
      <4>2. u.lane[m] = p.lane[m]
        BY <2>9
      <4>3. /\ s.lane[m].futures = p.lane[m].futures /\ s.lane[m].next = p.lane[m].next
            /\ s.lane[m].owns = p.lane[m].owns /\ s.lane[m].stopped = p.lane[m].stopped
        BY <4>1, <4>2 DEF SameLane
      <4>4. s.state = p.state /\ s.admitted = p.admitted /\ s.promise[m] = p.promise[m]
        BY <2>8, <3>4, <4>1
      <4>5. QED
        BY <4>3, <4>4 DEF Steady
    <3>9. /\ s.lane[l].next \in u.lane[l].next..Count[l]
          /\ s.lane[l].futures = u.lane[l].futures \union (u.lane[l].next..(s.lane[l].next - 1))
          /\ Cardinality(s.lane[l].futures) = Window[l] \/ s.lane[l].next = Count[l]
      BY <3>3 DEF Refilled
    <3>10. r.next <= s.lane[l].next /\ s.lane[l].futures = r.next..(s.lane[l].next - 1)
      <4>1. s.lane[l].next \in Int /\ p.lane[l].next <= s.lane[l].next
        BY <2>8, <2>15, <3>9
      <4>2. r.next..(s.lane[l].next - 1)
            = (r.next..(p.lane[l].next - 1)) \union (p.lane[l].next..(s.lane[l].next - 1))
        BY <2>14, <2>15, <4>1
      <4>3. QED
        BY <2>8, <2>14, <2>15, <2>17, <3>9, <4>1, <4>2
    <3>11. QED
      BY <2>8, <2>9, <3>4, <3>5, <3>7, <3>8, <3>9, <3>10
  <2>20. Goal
    BY <2>18, <2>19
  <2>21. /\ Turned(s, pool', strays) /\ Sound(pool', strays) /\ Busy(pool') /\ Filed
         /\ \A m \in Lanes \ {l} : Consuming(reader[m], pool', m)
    BY <1>1, <2>13, <2>20, DispatchKeeps
  <2>22. PICK t : t = pool'
    OBVIOUS
  <2>23. /\ t.lane[l].futures = s.lane[l].futures /\ t.lane[l].next = s.lane[l].next
         /\ t.lane[l].stopped = s.lane[l].stopped /\ l \in t.admitted
    BY <2>1, <2>20, <2>21, <2>22 DEF Turned
  <2>24. InWindow(q, t, l)
    BY <1>6, <2>20, <2>23 DEF InWindow
  <2>25. Consuming(q, t, l)
    BY <1>6, <2>23, <2>24 DEF Consuming
  <2>26. Inv'
    BY <1>3, <1>7, <2>21, <2>22, <2>25, Whole
  <2>27. s.active <= p.active /\ \A m \in Lanes : s.lane[m].running <= p.lane[m].running
    <3>1. p.active \in Int /\ \A m \in Lanes : p.lane[m].running \in Int
      BY <1>4 DEF Shaped, LaneShape
    <3>2. QED
      BY <2>20, <3>1
  <2>28. Cleared(p, pool', strays)
    BY <2>20, <2>21, <2>27 DEF Cleared
  <2>29. QED
    BY <1>1, <2>26, <2>28
<1>12. QED
  BY <1>10, <1>11

\* The run stops admitting: st is the state it is left in.
LEMMA EndKeeps ==
  ASSUME Inv, pool.state = "open", NEW st \in {"open", "joining"},
         pool' = [Stop(pool, pool.admitted) EXCEPT !.cancelled = TRUE, !.ready = <<>>, !.state = st],
         reader' = reader, UNCHANGED submissions
  PROVE  Inv' /\ Quiet(pool, pool')
<1>1. PICK p : p = pool
  OBVIOUS
<1>2. Sound(p, strays) /\ Books(p, strays) /\ Closings(p) /\ Shaped(p) /\ p.admitted \subseteq Lanes
  BY <1>1 DEF Inv, Sound, Books, Shaped
<1>3. PICK S : S = p.admitted
  OBVIOUS
<1>4. PICK s : s = Stop(p, S)
  OBVIOUS
<1>5. Stopped(p, s, S)
  BY <1>2, <1>3, <1>4, StopFields
<1>6. Books(s, strays) /\ Shaped(s)
  <2>1. S \subseteq Lanes
    BY <1>2, <1>3
  <2>2. Books(s, strays)
    BY <1>2, <1>5, <2>1, StoppedBooks
  <2>3. QED
    BY <2>2 DEF Books
<1>7. PICK b \in BOOLEAN : b = TRUE
  OBVIOUS
<1>8. PICK e \in Seq(Lanes) : e = <<>>
  BY EmptySeq
<1>9. PICK t : t = [s EXCEPT !.cancelled = b, !.ready = e, !.state = st]
  OBVIOUS
<1>10. t = pool'
  BY <1>1, <1>3, <1>4, <1>7, <1>8, <1>9
<1>11. /\ Same(s, t) /\ t.workers = s.workers /\ t.state = st /\ t.cancelled
       /\ t.admitted = s.admitted
  <2>1. Ended(s, t, st)
    BY <1>6, <1>7, <1>8, <1>9, EndFields
  <2>2. QED
    BY <2>1 DEF Ended
<1>12. Books(t, strays)
  BY <1>6, <1>11, BooksKept DEF Same
<1>13. t.lane = s.lane /\ t.promise = s.promise /\ t.active = s.active /\ s.admitted = p.admitted
       /\ s.active = p.active /\ ~Going(t)
  BY <1>5, <1>11 DEF Same, Stopped, Alike, Going
<1>14. Closings(t)
  <2>1. \A m \in S : s.lane[m].stopped
    BY <1>5 DEF Stopped
  <2>2. QED
    BY <1>3, <1>11, <1>13, <2>1 DEF Closings
<1>15. Sound(t, strays) /\ Busy(t)
  BY <1>12, <1>13, <1>14 DEF Sound, Queued, Busy
<1>16. ASSUME NEW m \in Lanes
       PROVE  Steady(p, t, m)
  <2>1. Steady(p, s, m)
    <3>1. m \in S => m \in p.admitted
      BY <1>3
    <3>2. QED
      BY <1>5, <3>1, StoppedSteady
  <2>2. p.state # "closed" /\ t.state # "closed"
    BY <1>1, <1>11
  <2>3. QED
    BY <1>11, <1>13, <2>1, <2>2 DEF Steady
<1>17. \A m \in Lanes : Consuming(reader[m], t, m)
  <2> SUFFICES ASSUME NEW m \in Lanes PROVE Consuming(reader[m], t, m)
    OBVIOUS
  <2>1. PICK r : r = reader[m]
    OBVIOUS
  <2>2. Consuming(r, p, m)
    BY <1>1, <2>1 DEF Inv, Consumers
  <2>3. Consuming(r, t, m)
    BY <1>16, <2>2, StillConsuming
  <2>4. QED
    BY <2>1, <2>3
<1>18. Inv'
  <2>1. reader = [m \in Lanes |-> reader[m]] /\ Filed
    BY DEF Inv, Filed, Refusing, submissions
  <2>2. QED
    BY <1>10, <1>15, <1>17, <2>1, WholeStill
<1>19. ASSUME NEW m \in Lanes
       PROVE  t.lane[m].running = p.lane[m].running
  BY <1>5, <1>13 DEF Stopped
<1>20. QED
  BY <1>1, <1>10, <1>13, <1>18, <1>19 DEF Quiet

\* A cancellation keeps the invariant.
LEMMA CancelKeeps ==
  ASSUME Inv, Cancel
  PROVE  Inv' /\ Quiet(pool, pool')
<1>1. PICK s : s = Stop(pool, pool.admitted)
  OBVIOUS
<1>2. PICK p : p = pool
  OBVIOUS
<1>3. Shaped(p) /\ p.admitted \subseteq Lanes
  BY <1>2 DEF Inv, Sound, Books, Shaped
<1>4. PICK S : S = p.admitted
  OBVIOUS
<1>5. Stopped(p, s, S)
  BY <1>1, <1>2, <1>3, <1>4, StopFields
<1>6. Shaped(s) /\ s.state = "open"
  BY <1>2, <1>5 DEF Stopped, Alike, Cancel
<1>7. pool' = [s EXCEPT !.cancelled = TRUE, !.ready = <<>>]
  BY <1>1 DEF Cancel
<1>8. PICK st \in {"open", "joining"} : st = "open"
  OBVIOUS
<1>9. pool' = [s EXCEPT !.cancelled = TRUE, !.ready = <<>>, !.state = st]
  BY <1>6, <1>7, <1>8 DEF Shaped
<1>10. pool.state = "open" /\ reader' = reader /\ UNCHANGED submissions
  BY DEF Cancel
<1>11. QED
  BY <1>1, <1>9, <1>10, EndKeeps

\* The close of a run keeps the invariant.
LEMMA CloseKeeps ==
  ASSUME Inv, Close
  PROVE  Inv' /\ Quiet(pool, pool')
<1>1. PICK st \in {"open", "joining"} : st = "joining"
  OBVIOUS
<1>2. pool' = [Stop(pool, pool.admitted) EXCEPT !.cancelled = TRUE, !.ready = <<>>, !.state = st]
  BY <1>1 DEF Close
<1>3. pool.state = "open" /\ reader' = reader /\ UNCHANGED submissions
  BY DEF Close
<1>4. QED
  BY <1>2, <1>3, EndKeeps

\* The executor has joined its threads.
LEMMA CloseJoinedKeeps ==
  ASSUME Inv, CloseJoined
  PROVE  Inv' /\ Quiet(pool, pool')
<1>1. PICK p : p = pool
  OBVIOUS
<1>2. Sound(p, strays) /\ Books(p, strays) /\ Closings(p) /\ Shaped(p)
  BY <1>1 DEF Inv, Sound, Books
<1>3. p.state = "joining" /\ p.tasks = {} /\ reader' = reader /\ UNCHANGED submissions
  BY <1>1 DEF CloseJoined, Joined
<1>4. PICK a : a = RetainedOf(p)
  OBVIOUS
<1>5. PICK st \in {"closed"} : st = "closed"
  OBVIOUS
<1>6. PICK none \in SUBSET {} : none = {}
  OBVIOUS
<1>7. PICK t : t = [p EXCEPT !.state = st, !.admitted = none,
                             !.retained = @ - Total(a, p.admitted),
                             !.lane = [l \in Lanes |-> IF l \in p.admitted
                                                     THEN Released(p.lane[l]) ELSE p.lane[l]]]
  OBVIOUS
<1>8. t = pool'
  <2>1. a = Retained
    BY <1>1, <1>4 DEF RetainedOf, Retained
  <2>2. pool' = [p EXCEPT !.state = "closed", !.admitted = {},
                          !.retained = @ - Total(Retained, p.admitted),
                          !.lane = [l \in Lanes |-> IF l \in p.admitted
                                                  THEN Released(p.lane[l]) ELSE p.lane[l]]]
    BY <1>1 DEF CloseJoined
  <2>3. QED
    BY <1>5, <1>6, <1>7, <2>1, <2>2
<1>9. Disbanded(p, t)
  BY <1>2, <1>4, <1>7, DisbandFields
<1>10. \A m \in p.admitted : p.lane[m].stopped
  BY <1>2, <1>3 DEF Closings
<1>11. Books(t, strays)
  BY <1>2, <1>3, <1>9, <1>10, DisbandedBooks
<1>12. t.state = "closed" /\ t.admitted = {} /\ t.cancelled /\ ~Going(t)
  <2>1. t.cancelled = p.cancelled /\ p.cancelled
    BY <1>2, <1>3, <1>9 DEF Disbanded, Closings
  <2>2. QED
    BY <1>9, <2>1 DEF Disbanded, Going
<1>13. Sound(t, strays) /\ Busy(t)
  BY <1>11, <1>12 DEF Sound, Queued, Closings, Busy
<1>14. ASSUME NEW m \in Lanes
       PROVE  /\ t.lane[m].running = p.lane[m].running
              /\ t.lane[m].stopped = p.lane[m].stopped
              /\ m \notin p.admitted => t.lane[m] = p.lane[m]
  <2>1. CASE m \in p.admitted
    BY <1>9, <2>1 DEF Disbanded
  <2>2. CASE m \notin p.admitted
    <3>1. t.lane[m] = p.lane[m]
      BY <1>9, <2>2 DEF Disbanded
    <3>2. QED
      BY <2>2, <3>1
  <2>3. QED
    BY <2>1, <2>2
<1>15. ASSUME NEW m \in Lanes
       PROVE  Consuming(reader[m], t, m)
  <2>1. PICK r : r = reader[m]
    OBVIOUS
  <2>2. Consuming(r, p, m)
    BY <1>1, <2>1 DEF Inv, Consumers
  <2>3. ReaderShape(r, m)
    BY <2>2 DEF Consuming
  <2>4. ASSUME r.pc = "absent"
        PROVE  Fresh(t, m) /\ r.next = 0 /\ r.previous = NoPlane
    <3>1. Fresh(p, m) /\ r.next = 0 /\ r.previous = NoPlane
      BY <2>2, <2>4 DEF Consuming
    <3>2. t.lane[m] = p.lane[m] /\ m \notin t.admitted
      BY <1>12, <1>14, <3>1 DEF Fresh
    <3>3. QED
      BY <3>1, <3>2 DEF Fresh
  <2>5. r.pc \in {"fetch", "wait"} => r.next < Count[m]
    BY <2>2 DEF Consuming
  <2>6. r.pc = "joining" => t.lane[m].stopped
    BY <1>14, <2>2 DEF Consuming
  <2>7. Consuming(r, t, m)
    BY <1>12, <2>3, <2>4, <2>5, <2>6 DEF Consuming
  <2>8. QED
    BY <2>1, <2>7
<1>16. Inv'
  <2>1. reader = [m \in Lanes |-> reader[m]] /\ Filed
    BY <1>3 DEF Inv, Filed, Refusing, submissions
  <2>2. QED
    BY <1>3, <1>8, <1>13, <1>15, <2>1, WholeStill
<1>17. t.active = p.active
  BY <1>9 DEF Disbanded
<1>18. QED
  BY <1>1, <1>8, <1>14, <1>16, <1>17 DEF Quiet

\* A pool in which lane l is stopped.
Halted(p, s, l, d) ==
  /\ Sound(s, d) /\ Busy(s) /\ s.active = p.active
  /\ s.state = p.state /\ s.admitted = p.admitted
  /\ s.lane[l].stopped
  /\ \A m \in Lanes : s.lane[m].running = p.lane[m].running
  /\ \A m \in Lanes \ {l} : s.lane[m] = p.lane[m] /\ s.promise[m] = p.promise[m]

\* Stopping one lane keeps the pool sound.
LEMMA HaltSound ==
  ASSUME NEW d, NEW p, Sound(p, d), Busy(p), NEW l \in Lanes, NEW s, s = Stop(p, {l})
  PROVE  Halted(p, s, l, d)
<1>1. Books(p, d) /\ Queued(p) /\ Closings(p) /\ Shaped(p) /\ p.admitted \subseteq Lanes
  BY DEF Sound, Books, Shaped
<1>2. PICK S : S = {l}
  OBVIOUS
<1>3. S \subseteq Lanes /\ s = Stop(p, S)
  BY <1>2
<1>4. Stopped(p, s, S)
  BY <1>1, <1>3, StopFields
<1>5. Books(s, d)
  BY <1>1, <1>3, <1>4, StoppedBooks
<1>6. /\ s.state = p.state /\ s.cancelled = p.cancelled /\ s.admitted = p.admitted
      /\ s.active = p.active /\ s.workers = p.workers /\ s.ready = p.ready
      /\ s.tasks = p.tasks
  BY <1>4 DEF Stopped, Alike
<1>7. /\ s.lane[l].stopped /\ s.lane[l].pending = <<>> /\ s.lane[l].queued = p.lane[l].queued
      /\ s.lane[l].running = p.lane[l].running
  BY <1>2, <1>4 DEF Stopped
<1>8. \A m \in Lanes \ {l} : s.lane[m] = p.lane[m] /\ s.promise[m] = p.promise[m]
  BY <1>2, <1>4 DEF Stopped
<1>9. Queued(s)
  BY <1>1, <1>6, <1>7, <1>8 DEF Queued, Going
<1>10. Closings(s)
  BY <1>1, <1>6, <1>7, <1>8 DEF Closings
<1>11. Busy(s)
  BY <1>6, <1>7, <1>8 DEF Busy, Going
<1>12. QED
  BY <1>5, <1>6, <1>7, <1>8, <1>9, <1>10, <1>11 DEF Halted, Sound

\* Closing a lane keeps the invariant.
LEMMA CloseLaneKeeps ==
  ASSUME Inv, NEW l \in Lanes, CloseLane(l)
  PROVE  Inv' /\ (Cleared(pool, pool', strays) \/ Quiet(pool, pool'))
<1>1. PICK p : p = pool
  OBVIOUS
<1>2. PICK r : r = reader[l]
  OBVIOUS
<1>3. Consuming(r, p, l) /\ ReaderShape(r, l) /\ reader = [m \in Lanes |-> reader[m]]
  BY <1>1, <1>2, WindowKnown
<1>4. Sound(p, strays) /\ Busy(p) /\ Refusing
  BY <1>1 DEF Inv
<1>5. PICK s : s = IF r.pc = "joining" THEN p ELSE Stop(p, {l})
  OBVIOUS
<1>6. r.pc \in {"closing", "missed", "joining"}
  BY <1>2 DEF CloseLane
<1>7. IF s.lane[l].running # 0
      THEN pool' = s /\ Goto(l, "joining") /\ UNCHANGED submissions
      ELSE DispatchAfter(Settle(s, l)) /\ Goto(l, "closed")
  BY <1>1, <1>2, <1>5 DEF CloseLane
<1>8. Halted(p, s, l, strays)
  <2>1. CASE r.pc = "joining"
    <3>1. s = p
      BY <1>5, <2>1
    <3>2. p.lane[l].stopped
      BY <1>3, <2>1 DEF Consuming
    <3>3. QED
      BY <1>4, <3>1, <3>2 DEF Halted
  <2>2. CASE r.pc # "joining"
    <3>1. s = Stop(p, {l})
      BY <1>5, <2>2
    <3>2. QED
      BY <1>4, <3>1, HaltSound
  <2>3. QED
    BY <2>1, <2>2
<1>9. /\ Sound(s, strays) /\ Busy(s) /\ s.active = p.active /\ s.state = p.state /\ s.admitted = p.admitted
      /\ s.lane[l].stopped /\ \A m \in Lanes : s.lane[m].running = p.lane[m].running
      /\ \A m \in Lanes \ {l} : s.lane[m] = p.lane[m] /\ s.promise[m] = p.promise[m]
  BY <1>8 DEF Halted
<1>10. \A m \in Lanes \ {l} : Steady(p, s, m)
  BY <1>9 DEF Steady
<1>11. CASE s.lane[l].running # 0
  <2>1. PICK pc : pc = "joining"
    OBVIOUS
  <2>2. PICK q : Moved(r, q, pc) /\ reader' = [reader EXCEPT ![l] = q]
    <3>1. Goto(l, pc) /\ ReaderShape(reader[l], l)
      BY <1>2, <1>3, <1>7, <1>11, <2>1
    <3>2. \E q : Moved(reader[l], q, pc) /\ reader' = [reader EXCEPT ![l] = q]
      BY <1>3, <3>1, GotoMoves
    <3>3. QED
      BY <1>2, <3>2
  <2>3. ReaderShape(q, l) /\ q.pc = "joining"
    BY <1>3, <2>1, <2>2 DEF ReaderShape, Moved
  <2>4. p.state # "closed" => l \in p.admitted
    BY <1>3, <1>6 DEF Consuming
  <2>5. Consuming(q, s, l)
    BY <1>9, <2>3, <2>4 DEF Consuming
  <2>6. ASSUME NEW m \in Lanes \ {l}
        PROVE  Consuming(reader[m], s, m)
    <3>1. PICK o : o = reader[m]
      OBVIOUS
    <3>2. Consuming(o, p, m)
      BY <1>1, <3>1 DEF Inv, Consumers
    <3>3. Consuming(o, s, m)
      BY <1>10, <3>2, StillConsuming
    <3>4. QED
      BY <3>1, <3>3
  <2>7. pool' = s /\ Filed
    BY <1>4, <1>7, <1>11 DEF Filed, Refusing, submissions
  <2>8. Inv'
    BY <1>3, <1>9, <2>2, <2>5, <2>6, <2>7, Whole
  <2>9. QED
    BY <1>1, <1>9, <2>7, <2>8 DEF Quiet
<1>12. CASE s.lane[l].running = 0
  <2>1. Books(s, strays) /\ Queued(s) /\ Closings(s) /\ Shaped(s)
    BY <1>9 DEF Sound, Books
  <2>2. s.lane[l].pending = <<>>
    <3>1. LaneBooks(s.lane[l], s.promise[l], l, l \in s.admitted, strays[l])
      BY <2>1 DEF Books
    <3>2. QED
      BY <1>9, <3>1 DEF LaneBooks
  <2>3. PICK u : u = Settle(s, l)
    OBVIOUS
  <2>4. Settled(s, u, l)
    BY <2>1, <2>3, SettleFields
  <2>5. Books(u, strays)
    BY <1>12, <2>1, <2>2, <2>4, SettledBooks
  <2>6. /\ u.state = s.state /\ u.cancelled = s.cancelled /\ u.admitted = s.admitted \ {l}
        /\ u.ready = s.ready /\ u.active = s.active /\ u.promise = s.promise
    BY <2>4 DEF Settled
  <2>7. ASSUME NEW m \in Lanes
        PROVE  /\ u.lane[m].pending = s.lane[m].pending /\ u.lane[m].queued = s.lane[m].queued
               /\ u.lane[m].stopped = s.lane[m].stopped /\ u.lane[m].running = s.lane[m].running
               /\ m # l => u.lane[m] = s.lane[m]
    <3>1. CASE m = l
      BY <2>4, <3>1 DEF Settled
    <3>2. CASE m # l
      <4>1. u.lane[m] = s.lane[m]
        BY <2>4, <3>2 DEF Settled
      <4>2. QED
        BY <4>1
    <3>3. QED
      BY <3>1, <3>2
  <2>8. Queued(u)
    BY <2>1, <2>6, <2>7 DEF Queued, Going
  <2>9. Closings(u)
    <3>1. s.admitted \subseteq Lanes
      BY <2>1 DEF Shaped
    <3>2. QED
      BY <2>1, <2>6, <2>7, <3>1 DEF Closings
  <2>10. Sound(u, strays)
    BY <2>5, <2>8, <2>9 DEF Sound
  <2>11. ASSUME NEW m \in Lanes \ {l}
         PROVE  Steady(p, u, m)
    <3>1. u.lane[m] = p.lane[m] /\ u.promise[m] = p.promise[m]
      BY <1>9, <2>6, <2>7
    <3>2. u.state = p.state /\ (m \in u.admitted <=> m \in p.admitted)
      BY <1>9, <2>6
    <3>3. QED
      BY <3>1, <3>2 DEF Steady
  <2>12. DispatchAfter(u)
    BY <1>7, <1>12, <2>3
  <2>13. /\ Turned(u, pool', strays) /\ Sound(pool', strays) /\ Busy(pool') /\ Filed
         /\ \A m \in Lanes \ {l} : Consuming(reader[m], pool', m)
    BY <1>1, <2>10, <2>11, <2>12, DispatchKeeps
  <2>14. PICK pc : pc = "closed"
    OBVIOUS
  <2>15. PICK q : Moved(r, q, pc) /\ reader' = [reader EXCEPT ![l] = q]
    <3>1. Goto(l, pc) /\ ReaderShape(reader[l], l)
      BY <1>2, <1>3, <1>7, <1>12, <2>14
    <3>2. \E q : Moved(reader[l], q, pc) /\ reader' = [reader EXCEPT ![l] = q]
      BY <1>3, <3>1, GotoMoves
    <3>3. QED
      BY <1>2, <3>2
  <2>16. ReaderShape(q, l) /\ q.pc = "closed"
    BY <1>3, <2>14, <2>15 DEF ReaderShape, Moved
  <2>17. Consuming(q, pool', l)
    <3>1. PICK t : t = pool'
      OBVIOUS
    <3>2. Consuming(q, t, l)
      BY <2>16 DEF Consuming
    <3>3. QED
      BY <3>1, <3>2
  <2>18. Inv'
    BY <1>3, <2>13, <2>15, <2>17, Whole
  <2>19. u.active <= p.active /\ \A m \in Lanes : u.lane[m].running <= p.lane[m].running
    <3>1. u.active = p.active /\ \A m \in Lanes : u.lane[m].running = p.lane[m].running
      BY <1>9, <2>6, <2>7
    <3>2. Shaped(p)
      BY <1>4 DEF Sound, Books
    <3>3. p.active \in Int /\ \A m \in Lanes : p.lane[m].running \in Int
      BY <3>2 DEF Shaped, LaneShape
    <3>4. QED
      BY <3>1, <3>3
  <2>20. Shaped(u)
    BY <2>5 DEF Books
  <2>21. Cleared(p, pool', strays)
    BY <2>13, <2>19, <2>20 DEF Cleared
  <2>22. QED
    BY <1>1, <2>18, <2>21
<1>13. QED
  BY <1>11, <1>12

\* The invariant holds at first.
LEMMA NewLaneShape ==
  ASSUME NEW l \in Lanes
  PROVE  /\ LaneShape(NewLane, l)
         /\ NewLane.pending = <<>> /\ NewLane.futures = {} /\ NewLane.next = 0
         /\ NewLane.running = 0 /\ NewLane.retained = 0 /\ ~NewLane.queued
         /\ ~NewLane.stopped /\ NewLane.owns
<1>1. PICK b \in BOOLEAN, c \in BOOLEAN, e \in Seq(Planes(l)) : ~b /\ c /\ e = <<>>
  BY EmptySeq
<1>2. PICK r : r = [pending |-> e, futures |-> {}, next |-> 0, running |-> 0,
                    retained |-> 0, queued |-> b, stopped |-> b, owns |-> c]
  OBVIOUS
<1>3. NewLane = r
  <2>1. b = FALSE /\ c = TRUE
    BY <1>1
  <2>2. QED
    BY <1>1, <1>2, <2>1 DEF NewLane
<1>4. /\ r = [pending |-> r.pending, futures |-> r.futures, next |-> r.next,
              running |-> r.running, retained |-> r.retained, queued |-> r.queued,
              stopped |-> r.stopped, owns |-> r.owns]
      /\ r.pending = e /\ r.futures = {} /\ r.next = 0
      /\ r.running = 0 /\ r.retained = 0 /\ r.queued = b
      /\ r.stopped = b /\ r.owns = c
  BY <1>2
<1>5. Count[l] \in Nat
  BY CountAssumption
<1>6. LaneShape(r, l)
  BY <1>4, <1>5 DEF LaneShape
<1>7. QED
  BY <1>1, <1>3, <1>4, <1>6

\* A pool as it is made.
New(s) ==
  /\ s = [workers |-> s.workers, active |-> s.active, retained |-> s.retained,
          state |-> s.state, cancelled |-> s.cancelled, admitted |-> s.admitted,
          ready |-> s.ready, tasks |-> s.tasks, lane |-> s.lane, promise |-> s.promise]
  /\ s.workers \in 1..MaxWorkers /\ s.active = 0 /\ s.retained = 0 /\ s.state = "open"
  /\ s.cancelled = FALSE /\ s.admitted = {} /\ s.ready = <<>> /\ s.tasks = {}
  /\ s.lane = [l \in Lanes |-> NewLane]
  /\ s.promise = [l \in Lanes |-> [i \in Planes(l) |-> "none"]]

\* The new pool has its types.
LEMMA NewShaped ==
  ASSUME NEW s, New(s)
  PROVE  Shaped(s)
<1>1. \A l \in Lanes : LaneShape(s.lane[l], l)
  BY NewLaneShape DEF New
<1>2. \A l \in Lanes : PromiseShape(s.promise[l], l)
  BY DEF New, PromiseShape, Kinds
<1>3. s.ready \in Seq(Lanes)
  BY EmptySeq DEF New
<1>4. s.lane = [l \in Lanes |-> s.lane[l]] /\ s.promise = [l \in Lanes |-> s.promise[l]]
  BY DEF New
<1>5. s.cancelled \in BOOLEAN /\ s.state \in {"open", "joining", "closed"}
  BY DEF New
<1>6. QED
  BY <1>1, <1>2, <1>3, <1>4, <1>5 DEF New, Shaped

\* The new pool is sound.
LEMMA NewSound ==
  ASSUME NEW d \in [Lanes -> {0}], NEW s, New(s)
  PROVE  Sound(s, d) /\ Busy(s)
<1>1. Shaped(s)
  BY NewShaped
<1>2. ASSUME NEW l \in Lanes
      PROVE  /\ s.lane[l].pending = <<>> /\ s.lane[l].futures = {} /\ s.lane[l].next = 0
             /\ s.lane[l].running = 0 /\ s.lane[l].retained = 0 /\ ~s.lane[l].queued
             /\ ~s.lane[l].stopped /\ s.lane[l].owns
             /\ \A i \in Planes(l) : s.promise[l][i] = "none"
  <2>1. s.lane[l] = NewLane /\ s.promise[l] = [i \in Planes(l) |-> "none"]
    BY DEF New
  <2>2. QED
    BY <2>1, NewLaneShape
<1>3. ASSUME NEW l \in Lanes
      PROVE  LaneBooks(s.lane[l], s.promise[l], l, l \in s.admitted, d[l])
  <2>1. RunningIn(s.promise[l], l) = {} /\ GrantedIn(s.lane[l], s.promise[l]) = {}
    BY <1>2 DEF RunningIn, GrantedIn
  <2>2. Cardinality({}) = 0 /\ Window[l] \in 1..MaxWorkers /\ MaxWorkers \in Nat
    BY FS_EmptySet, WindowAssumption, WorkersAssumption
  <2>3. IsInjective(s.lane[l].pending) /\ Range(s.lane[l].pending) = {}
    BY <1>2 DEF IsInjective, Range
  <2>4. \A i \in Planes(l) : s.promise[l][i] = "none"
    BY <1>2
  <2>5. s.lane[l].running = Cardinality(RunningIn(s.promise[l], l)) - d[l]
    <3>1. d[l] = 0
      OBVIOUS
    <3>2. s.lane[l].running = 0 /\ Cardinality(RunningIn(s.promise[l], l)) = 0
      BY <1>2, <2>1, <2>2
    <3>3. QED
      BY <3>1, <3>2
  <2>6. s.lane[l].retained = Cardinality(GrantedIn(s.lane[l], s.promise[l]))
    BY <1>2, <2>1, <2>2
  <2>7. Cardinality(s.lane[l].futures) <= Window[l]
    <3>1. Cardinality(s.lane[l].futures) = 0
      BY <1>2, <2>2
    <3>2. Window[l] \in Nat
      BY <2>2
    <3>3. QED
      BY <3>1, <3>2
  <2>8. QED
    BY <1>2, <2>3, <2>4, <2>5, <2>6, <2>7 DEF LaneBooks
<1>4. s.retained = Total(RetainedOf(s), Lanes)
  <2>1. PICK a : a = RetainedOf(s)
    OBVIOUS
  <2>2. \A m \in Lanes : a[m] = 0
    BY <1>2, <2>1 DEF RetainedOf
  <2>3. Total(a, Lanes) = 0
    BY <2>2, LanesAssumption, TotalZero
  <2>4. QED
    BY <2>1, <2>3 DEF New
<1>5. Books(s, d)
  <2>1. IsFiniteSet(s.tasks) /\ s.active = Cardinality(s.tasks) - Total(d, Lanes)
    <3>1. \A m \in Lanes : d[m] = 0
      OBVIOUS
    <3>2. Total(d, Lanes) = 0
      BY <3>1, LanesAssumption, TotalZero
    <3>3. s.active = 0 /\ IsFiniteSet(s.tasks) /\ Cardinality(s.tasks) = 0
      BY FS_EmptySet DEF New
    <3>4. QED
      BY <3>2, <3>3
  <2>2. d \in [Lanes -> Nat]
    OBVIOUS
  <2>3. \A l \in Lanes : \A i \in Planes(l) : <<l, i>> \in s.tasks <=> s.promise[l][i] = "running"
    BY <1>2 DEF New
  <2>4. QED
    BY <1>1, <1>3, <1>4, <2>1, <2>3, <2>2 DEF Books
<1>6. Queued(s)
  <2>1. IsInjective(s.ready) /\ Range(s.ready) = {}
    BY DEF New, IsInjective, Range
  <2>2. QED
    BY <1>2, <2>1 DEF Queued
<1>7. Closings(s)
  BY DEF New, Closings
<1>8. Busy(s)
  BY <1>2 DEF Busy
<1>9. QED
  BY <1>5, <1>6, <1>7, <1>8 DEF Sound

\* The invariant holds at first.
LEMMA InvInit == Init => Inv
<1> SUFFICES ASSUME Init PROVE Inv
  OBVIOUS
<1>1. New(pool)
  BY DEF Init, New
<1>2. Sound(pool, strays) /\ Busy(pool)
  <2>1. strays \in [Lanes -> {0}]
    BY DEF Init
  <2>2. QED
    BY <1>1, <2>1, NewSound
<1>3. reader = [l \in Lanes |-> [pc |-> "absent", next |-> 0, previous |-> NoPlane]]
  BY DEF Init
<1>4. reader = [l \in Lanes |-> reader[l]]
  BY <1>3
<1>5. ASSUME NEW l \in Lanes
      PROVE  Consuming(reader[l], pool, l)
  <2>1. PICK r : r = [pc |-> "absent", next |-> 0, previous |-> NoPlane]
    OBVIOUS
  <2>2. reader[l] = r
    BY <1>3, <2>1
  <2>3. /\ r = [pc |-> r.pc, next |-> r.next, previous |-> r.previous]
        /\ r.pc = "absent" /\ r.next = 0 /\ r.previous = NoPlane
    BY <2>1
  <2>4. ReaderShape(r, l)
    BY <2>3, CountAssumption DEF ReaderShape
  <2>5. Fresh(pool, l)
    <3>1. pool.lane[l] = NewLane /\ pool.admitted = {}
      BY <1>1 DEF New
    <3>2. QED
      BY <3>1, NewLaneShape DEF Fresh
  <2>6. Consuming(r, pool, l)
    BY <2>3, <2>4, <2>5 DEF Consuming
  <2>7. QED
    BY <2>2, <2>6
<1>6. Refusing
  BY RefusalAssumption DEF Init, Refusing
<1>7. QED
  BY <1>2, <1>4, <1>5, <1>6 DEF Inv, Consumers

\* Every step keeps the invariant, and changes the pool by a section that ends in a
\* dispatch or not at all where permits are concerned.
LEMMA InvNext ==
  ASSUME Inv, [Next]_vars
  PROVE  Inv' /\ (\/ vars' = vars \/ Cleared(pool, pool', strays) \/ Quiet(pool, pool')
                 \/ Lowered(pool, pool'))
<1>1. CASE vars' = vars
  <2>1. pool' = pool /\ reader' = reader /\ UNCHANGED submissions
    BY <1>1 DEF vars
  <2>2. Sound(pool', strays) /\ Busy(pool') /\ Filed
        /\ reader = [m \in Lanes |-> reader[m]] /\ \A m \in Lanes : Consuming(reader[m], pool', m)
    BY <2>1 DEF Inv, Consumers, Filed, Refusing, submissions
  <2>3. QED
    BY <1>1, <2>1, <2>2, WholeStill
<1>2. ASSUME NEW l \in Lanes, OrderedPlanes(l)
      PROVE  Inv' /\ Cleared(pool, pool', strays)
  BY <1>2, OrderedPlanesKeeps
<1>3. ASSUME NEW l \in Lanes, Consume(l)
      PROVE  Inv' /\ (Cleared(pool, pool', strays) \/ Quiet(pool, pool'))
  BY <1>3, ConsumeKeeps
<1>4. ASSUME NEW l \in Lanes, Check(l) \/ Fetch(l) \/ Take(l) \/ Abandon(l)
      PROVE  Inv' /\ Quiet(pool, pool')
  <2>1. Inv'
    BY <1>4, CheckKeeps, FetchKeeps, TakeKeeps, AbandonKeeps
  <2>2. pool' = pool
    BY <1>4 DEF Check, Fetch, Take, Abandon
  <2>3. QED
    BY <2>1, <2>2 DEF Quiet
<1>5. ASSUME NEW l \in Lanes, CloseLane(l)
      PROVE  Inv' /\ (Cleared(pool, pool', strays) \/ Quiet(pool, pool'))
  BY <1>5, CloseLaneKeeps
<1>6. ASSUME NEW l \in Lanes, NEW i \in Planes(l), NEW outcome \in {"done", "failed"},
             Run(l, i, outcome)
      PROVE  Inv' /\ Cleared(pool, pool', strays)
  BY <1>6, RunKeeps
<1>7. ASSUME NEW w \in 1..MaxWorkers, Resize(w)
      PROVE  Inv' /\ Cleared(pool, pool', strays)
  BY <1>7, ResizeKeeps
<1>8. ASSUME Cancel \/ Close \/ CloseJoined
      PROVE  Inv' /\ Quiet(pool, pool')
  BY <1>8, CancelKeeps, CloseKeeps, CloseJoinedKeeps
<1>9. ASSUME NEW l \in Lanes, NEW i \in Planes(l), RunRefused(l, i)
      PROVE  Inv' /\ Lowered(pool, pool')
  BY <1>9, RunRefusedKeeps
<1>10. QED
  BY <1>1, <1>2, <1>3, <1>4, <1>5, <1>6, <1>7, <1>8, <1>9 DEF Next, Consumer

\* The invariant holds in every reachable state.
THEOREM PoolIsSound ==
  Spec => []Inv
<1>1. Inv /\ [Next]_vars => Inv'
  BY InvNext
<1>2. QED
  BY <1>1, InvInit, PTL DEF Spec

-----------------------------------------------------------------------------
(* What the invariant says of the scheduler. *)

\* The tasks of a lane are its running planes, which its permits count but for the strays.
LEMMA TasksAreRunning ==
  ASSUME Inv, NEW l \in Lanes
  PROVE  /\ pool.lane[l].running = Cardinality(TasksOf(l)) - strays[l]
         /\ Cardinality(TasksOf(l)) \in Nat /\ strays[l] \in Nat
<1>1. Books(pool, strays) /\ Shaped(pool)
  BY DEF Inv, Sound, Books
<1>2. PICK R : R = RunningIn(pool.promise[l], l)
  OBVIOUS
<1>3. pool.lane[l].running = Cardinality(R) - strays[l] /\ IsFiniteSet(R)
  BY <1>1, <1>2, LaneFinite DEF Books, LaneBooks
<1>4. TasksOf(l) = {<<l, i>> : i \in R}
  <2>1. ASSUME NEW i \in R
        PROVE  <<l, i>> \in TasksOf(l)
    <3>1. i \in Planes(l) /\ pool.promise[l][i] = "running"
      BY <1>2 DEF RunningIn
    <3>2. <<l, i>> \in pool.tasks
      BY <1>1, <3>1 DEF Books
    <3>3. QED
      BY <3>2 DEF TasksOf
  <2>2. ASSUME NEW t \in TasksOf(l)
        PROVE  \E i \in R : t = <<l, i>>
    <3>1. t \in pool.tasks /\ t[1] = l
      BY DEF TasksOf
    <3>2. PICK m \in Lanes : t \in {m} \X Planes(m)
      <4>1. pool.tasks \subseteq UNION {{m} \X Planes(m) : m \in Lanes}
        BY <1>1 DEF Shaped
      <4>2. QED
        BY <3>1, <4>1
    <3>3. PICK i \in Planes(l) : t = <<l, i>>
      BY <3>1, <3>2
    <3>4. pool.promise[l][i] = "running"
      BY <1>1, <3>1, <3>3 DEF Books
    <3>5. QED
      BY <1>2, <3>3, <3>4 DEF RunningIn
  <2>3. QED
    BY <2>1, <2>2
<1>5. ExistsBijection(R, TasksOf(l))
  <2> DEFINE f == [i \in R |-> <<l, i>>]
  <2>1. f \in [R -> TasksOf(l)]
    BY <1>4
  <2>2. \A i, j \in R : f[i] = f[j] => i = j
    OBVIOUS
  <2>3. \A t \in TasksOf(l) : \E i \in R : f[i] = t
    BY <1>4
  <2> HIDE DEF f
  <2>4. f \in Bijection(R, TasksOf(l))
    BY <2>1, <2>2, <2>3, Fun_IsBij
  <2>5. QED
    BY <2>4 DEF ExistsBijection
<1>6. Cardinality(R) = Cardinality(TasksOf(l))
  BY <1>3, <1>5, FS_Bijection
<1>7. Cardinality(R) \in Nat /\ strays[l] \in Nat
  BY <1>1, <1>3, FS_CardinalityType, StraysInt
<1>8. QED
  BY <1>3, <1>6, <1>7

\* Each lane retains no more than its window.
LEMMA RetainedWithin ==
  ASSUME Inv
  PROVE  pool.retained <= Total(Window, pool.admitted)
<1>1. PICK p : p = pool
  OBVIOUS
<1>2. Books(p, strays) /\ Shaped(p)
  BY <1>1 DEF Inv, Sound, Books
<1>3. PICK a : a = RetainedOf(p)
  OBVIOUS
<1>4. PICK S : S = p.admitted
  OBVIOUS
<1>5. p.retained = Total(a, S)
  BY <1>2, <1>3, <1>4, RetainedByAdmitted
<1>6. S \subseteq Lanes /\ IsFiniteSet(S)
  <2>1. S \subseteq Lanes
    BY <1>2, <1>4 DEF Shaped
  <2>2. QED
    BY <2>1, LanesAssumption, FS_Subset
<1>7. ASSUME NEW m \in S
      PROVE  a[m] \in Nat /\ Window[m] \in Nat /\ a[m] <= Window[m]
  <2>1. m \in Lanes
    BY <1>6
  <2>2. LaneBooks(p.lane[m], p.promise[m], m, m \in p.admitted, strays[m])
    BY <1>2, <2>1 DEF Books
  <2>3. PICK G : G = GrantedIn(p.lane[m], p.promise[m])
    OBVIOUS
  <2>4. PICK F : F = p.lane[m].futures
    OBVIOUS
  <2>5. G \in SUBSET F /\ IsFiniteSet(F) /\ Cardinality(F) \in Nat /\ Cardinality(G) \in Nat
    BY <1>2, <2>1, <2>3, <2>4, LaneFinite DEF GrantedIn
  <2>6. Cardinality(G) <= Cardinality(F)
    BY <2>5, FS_Subset
  <2>7. a[m] = Cardinality(G) /\ Cardinality(F) <= Window[m]
    BY <1>3, <2>1, <2>2, <2>3, <2>4 DEF RetainedOf, LaneBooks
  <2>8. Window[m] \in 1..MaxWorkers /\ MaxWorkers \in Nat
    BY <2>1, WindowAssumption, WorkersAssumption
  <2>9. QED
    BY <2>5, <2>6, <2>7, <2>8
<1>8. Total(a, S) <= Total(Window, S)
  BY <1>6, <1>7, TotalGrows
<1>9. QED
  BY <1>1, <1>4, <1>5, <1>8

\* The invariant gives the types.
LEMMA InvTypes == Inv => TypeOK
<1> SUFFICES ASSUME Inv PROVE TypeOK
  OBVIOUS
<1>1. Shaped(pool) /\ Refusing
  BY DEF Inv, Sound, Books
<1>2. ASSUME NEW l \in Lanes
      PROVE  /\ pool.lane[l].futures \subseteq Planes(l) /\ pool.lane[l].next \in 0..Count[l]
             /\ \A i \in Planes(l) : pool.promise[l][i] \in
                  {"none", "pending", "running", "done", "failed", "cancelled"}
             /\ reader[l].pc \in {"absent", "ready", "check", "fetch", "wait", "missed",
                                  "closing", "joining", "closed"}
             /\ reader[l].next \in 0..Count[l]
  <2>1. LaneShape(pool.lane[l], l) /\ PromiseShape(pool.promise[l], l)
    BY <1>1 DEF Shaped
  <2>2. ReaderShape(reader[l], l)
    BY DEF Inv, Consumers, Consuming
  <2>3. QED
    BY <2>1, <2>2 DEF LaneShape, PromiseShape, Kinds, ReaderShape
<1>3. strays \in [Lanes -> Nat]
  BY DEF Inv, Sound, Books
<1>4. QED
  BY <1>1, <1>2, <1>3 DEF Shaped, Refusing, TypeOK

\* The invariant gives exact counters.
LEMMA InvCredits == Inv => CreditsExact
<1> SUFFICES ASSUME Inv PROVE CreditsExact
  OBVIOUS
<1>1. Books(pool, strays) /\ TypeOK
  BY InvTypes DEF Inv, Sound
<1>2. pool.active = Cardinality(pool.tasks) - Total(strays, Lanes)
  BY <1>1 DEF Books
<1>3. pool.retained = Total(Retained, Lanes)
  <2>1. Retained = RetainedOf(pool)
    BY DEF Retained, RetainedOf
  <2>2. QED
    BY <1>1, <2>1 DEF Books
<1>4. ASSUME NEW l \in Lanes
      PROVE  /\ pool.lane[l].running = Cardinality(TasksOf(l)) - strays[l]
             /\ pool.lane[l].retained = Cardinality(Granted(l))
             /\ Cardinality(pool.lane[l].futures) <= Window[l]
  <2>1. LaneBooks(pool.lane[l], pool.promise[l], l, l \in pool.admitted, strays[l])
    BY <1>1 DEF Books
  <2>2. Granted(l) = GrantedIn(pool.lane[l], pool.promise[l])
    BY DEF Granted, GrantedIn
  <2>3. pool.lane[l].running = Cardinality(TasksOf(l)) - strays[l]
    BY TasksAreRunning
  <2>4. QED
    BY <2>1, <2>2, <2>3 DEF LaneBooks
<1>5. pool.retained <= Total(Window, pool.admitted)
  BY RetainedWithin
<1>6. QED
  BY <1>1, <1>2, <1>3, <1>4, <1>5 DEF CreditsExact

\* The invariant leaves no work stranded.
LEMMA InvStranded == Inv => NoStrandedWork
<1> SUFFICES ASSUME Inv, pool.state = "open" /\ ~pool.cancelled,
                    NEW l \in Lanes, pool.lane[l].pending # <<>>
             PROVE  /\ Cardinality(pool.tasks) >= pool.workers
                    /\ Cardinality({k \in DOMAIN pool.ready : pool.ready[k] = l}) = 1
  BY DEF NoStrandedWork
<1>1. Going(pool) /\ Busy(pool) /\ Queued(pool)
  BY DEF Going, Inv, Sound
<1>2. IsInjective(pool.ready) /\ l \in Range(pool.ready)
  BY <1>1 DEF Queued
<1>3. PICK q : q = pool.ready
  OBVIOUS
<1>4. PICK k \in DOMAIN q : q[k] = l
  BY <1>2, <1>3 DEF Range
<1>5. \A j \in DOMAIN q : q[j] = l => j = k
  BY <1>2, <1>3, <1>4 DEF IsInjective
<1>6. {j \in DOMAIN q : q[j] = l} = {k}
  BY <1>4, <1>5
<1>7. Cardinality({k}) = 1
  BY FS_Singleton
<1>8. Cardinality(pool.tasks) >= pool.workers
  BY <1>1 DEF Busy
<1>9. QED
  BY <1>3, <1>6, <1>7, <1>8

\* The invariant gives clean closes.
LEMMA InvClean == Inv => ClosingIsClean
<1> SUFFICES ASSUME Inv PROVE ClosingIsClean
  OBVIOUS
<1>1. ASSUME NEW l \in Lanes, ~pool.lane[l].owns
      PROVE  Cardinality(TasksOf(l)) <= strays[l]
  <2>1. Books(pool, strays)
    BY DEF Inv, Sound
  <2>2. LaneBooks(pool.lane[l], pool.promise[l], l, l \in pool.admitted, strays[l])
    BY <2>1 DEF Books
  <2>3. pool.lane[l].running <= 0
    BY <1>1, <2>2 DEF LaneBooks
  <2>4. PICK c \in Nat, n \in Nat : c = Cardinality(TasksOf(l)) /\ n = strays[l]
    BY TasksAreRunning
  <2>5. pool.lane[l].running = c - n
    BY <2>4, TasksAreRunning
  <2>6. c <= n
    BY <2>3, <2>5
  <2>7. QED
    BY <2>4, <2>6
<1>2. ASSUME NEW l \in Lanes, reader[l].pc = "missed"
      PROVE  pool.state = "closed"
  <2>1. Consuming(reader[l], pool, l)
    BY DEF Inv, Consumers
  <2>2. QED
    BY <1>2, <2>1 DEF Consuming
<1>3. QED
  BY <1>1, <1>2 DEF ClosingIsClean

\* What a step may not do about shares.
FairStep ==
  /\ pool'.active > pool.active => pool'.active <= pool'.workers
  /\ \A l, m \in Lanes :
       /\ pool'.lane[l].running > pool.lane[l].running
       /\ pool'.lane[l].running > Share(pool')
       => \/ pool'.lane[m].pending = <<>>
          \/ pool'.lane[m].running >= Limit(pool', m, TRUE)

\* A dispatch that follows lends last.
LEMMA ClearedIsFair ==
  ASSUME NEW d, NEW p, Shaped(p), NEW t, Shaped(t), Cleared(p, t, d)
  PROVE  /\ t.active > p.active => t.active <= t.workers
         /\ \A l, m \in Lanes :
              /\ t.lane[l].running > p.lane[l].running
              /\ t.lane[l].running > Share(t)
              => t.lane[m].pending = <<>> \/ t.lane[m].running >= Limit(t, m, TRUE)
<1>1. PICK s : /\ Shaped(s) /\ Turned(s, t, d) /\ s.active <= p.active
               /\ \A m \in Lanes : s.lane[m].running <= p.lane[m].running
  BY DEF Cleared
<1>2. t.active > p.active => t.active <= t.workers
  <2>1. t.active = s.active \/ t.active <= t.workers
    BY <1>1 DEF Turned
  <2>2. t.active \in Int /\ p.active \in Int /\ s.active \in Int
    BY <1>1 DEF Shaped
  <2>3. QED
    BY <1>1, <2>1, <2>2
<1>3. ASSUME NEW l \in Lanes, NEW m \in Lanes, t.lane[l].running > p.lane[l].running,
             t.lane[l].running > Share(t)
      PROVE  t.lane[m].pending = <<>> \/ t.lane[m].running >= Limit(t, m, TRUE)
  <2>1. Share(t) = Share(s) /\ Share(s) \in Int
    BY <1>1, ShareSame, ShareInt DEF Turned
  <2>2. t.lane[l].running \in Int /\ s.lane[l].running \in Int /\ p.lane[l].running \in Int
    BY <1>1 DEF Shaped, LaneShape
  <2>3. s.lane[l].running <= p.lane[l].running
    BY <1>1
  <2>4. t.lane[l].running > s.lane[l].running /\ ~(t.lane[l].running <= Share(s))
    BY <1>3, <2>1, <2>2, <2>3
  <2>5. FairDone(t)
    BY <1>1, <2>4 DEF Turned
  <2>6. QED
    BY <2>5 DEF FairDone
<1>4. QED
  BY <1>2, <1>3

\* Every step puts fair shares first.
LEMMA InvFair ==
  ASSUME Inv, [Next]_vars, vars' # vars
  PROVE  FairStep
<1>1. Inv' /\ (Cleared(pool, pool', strays) \/ Quiet(pool, pool') \/ Lowered(pool, pool'))
  BY InvNext
<1>2. PICK p : p = pool
  OBVIOUS
<1>3. PICK t : t = pool'
  OBVIOUS
<1>4. Shaped(p) /\ Shaped(t)
  <2>1. Shaped(pool)
    BY DEF Inv, Sound, Books
  <2>2. Shaped(pool')
    BY <1>1 DEF Inv, Sound, Books
  <2>3. QED
    BY <1>2, <1>3, <2>1, <2>2
<1>5. CASE Cleared(p, t, strays)
  BY <1>2, <1>3, <1>4, <1>5, ClearedIsFair DEF FairStep
<1>6. CASE Quiet(p, t)
  <2>1. t.active = p.active /\ \A m \in Lanes : t.lane[m].running = p.lane[m].running
    BY <1>6 DEF Quiet
  <2>2. p.active \in Int /\ \A m \in Lanes : p.lane[m].running \in Int
    BY <1>4 DEF Shaped, LaneShape
  <2>3. ~(t.active > p.active) /\ \A m \in Lanes : ~(t.lane[m].running > p.lane[m].running)
    BY <2>1, <2>2
  <2>4. QED
    BY <1>2, <1>3, <2>3 DEF FairStep
<1>7. CASE Lowered(p, t)
  <2>1. /\ t.active = p.active - 1
        /\ \A m \in Lanes : t.lane[m].running \in {p.lane[m].running, p.lane[m].running - 1}
    BY <1>7 DEF Lowered
  <2>2. p.active \in Int /\ \A m \in Lanes : p.lane[m].running \in Int
    BY <1>4 DEF Shaped, LaneShape
  <2>3. ~(t.active > p.active) /\ \A m \in Lanes : ~(t.lane[m].running > p.lane[m].running)
    BY <2>1, <2>2
  <2>4. QED
    BY <1>2, <1>3, <2>3 DEF FairStep
<1>8. QED
  BY <1>1, <1>2, <1>3, <1>5, <1>6, <1>7

-----------------------------------------------------------------------------
(* The theorems. *)

\* Permits and retention are counted exactly, whatever executor.submit does to the tasks
\* it refuses: the executor's operations, less one for each refused task that ran, the
\* granted planes, and no lane beyond the window its caller funded.
THEOREM PermitsAreExact ==
  Spec => []CreditsExact
<1>1. Spec => []Inv
  BY PoolIsSound
<1>2. QED
  BY <1>1, InvCredits, PTL

\* While a lane has a plane to run, as many tasks as there are permits are in the executor,
\* refused tasks that ran or not, and the lane stands once in the ready queue: every
\* critical section dispatches to the end.
THEOREM NoPermitIsIdle ==
  Spec => []NoStrandedWork
<1>1. Spec => []Inv
  BY PoolIsSound
<1>2. QED
  BY <1>1, InvStranded, PTL

\* A stream gives up its operation only with none of its planes in the executor, but for
\* one for each refused task of it that ran, and a consumer misses a promise only in a
\* closed run.
THEOREM ClosesHarmNobody ==
  Spec => []ClosingIsClean
<1>1. Spec => []Inv
  BY PoolIsSound
<1>2. QED
  BY <1>1, InvClean, PTL

\* A step lends a permit above a lane's fair share only when no lane below its
\* own has work, and grants none above the allowance.
THEOREM SharesComeFirst ==
  Spec => FairShareFirst
<1>1. Spec => []Inv
  BY PoolIsSound
<1>2. Inv /\ [Next]_vars => [FairStep]_vars
  BY InvFair
<1>3. QED
  BY <1>1, <1>2, PTL DEF Spec, FairShareFirst, FairStep

=============================================================================
