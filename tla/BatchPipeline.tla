--------------------------- MODULE BatchPipeline ---------------------------
(***************************************************************************)
(* The bookkeeping of OrderedBatchPipeline, src/XTA/pta_batch_pipeline.py: *)
(* a queue that holds submitted batches in order (`pending`), the          *)
(* reservations their producer has not submitted yet, and the bytes of     *)
(* both.  A queue belongs to one thread at a time, so each operator below  *)
(* is what that thread does between two waits.                             *)
(***************************************************************************)
EXTENDS Integers, Sequences, FiniteSets, Totals

CONSTANT Capacity   \* running, queued and reserved batches of a queue
ASSUME CapacityAssumption == Capacity \in Nat \ {0}

NoError == <<>>

NewQueue(Batches) ==
  [pending |-> <<>>, reserved |-> {}, bytes |-> 0, error |-> NoError,
   charge |-> [b \in Batches |-> 0], closed |-> FALSE]

Retained(q) == Len(q.pending) + Cardinality(q.reserved)

\* An oversized batch is admitted alone.
Fits(q, n, limit) ==
  Retained(q) < Capacity /\ (q.bytes + n <= limit \/ Retained(q) = 0)

\* A reservation may take n bytes: they fit beside the others, or there are none.
FitsResized(q, b, n, limit) ==
  q.bytes - q.charge[b] + n <= limit \/ Retained(q) = 1

Reserve(q, b, n) ==
  [q EXCEPT !.reserved = @ \cup {b}, !.bytes = @ + n, !.charge[b] = n]

Resize(q, b, n) == [q EXCEPT !.bytes = @ - q.charge[b] + n, !.charge[b] = n]

Submit(q, b) == [q EXCEPT !.reserved = @ \ {b}, !.pending = Append(@, b)]

\* mutant: the bytes of a cancelled reservation stay counted
CancelKeepingBytes(q, b) == [q EXCEPT !.reserved = @ \ {b}]

\* Cancellation of a reservation, without effect once it was submitted.
Cancel(q, b) ==
  IF b \in q.reserved
  THEN [q EXCEPT !.reserved = @ \ {b}, !.bytes = @ - q.charge[b]]
  ELSE q

Remember(q, e) == [q EXCEPT !.error = IF @ = NoError THEN e ELSE @]

\* mutant: the error of a collected batch is dropped
CollectedQuietly(q, raised) ==
  [q EXCEPT !.pending = Tail(@), !.bytes = @ - q.charge[Head(q.pending)]]

\* The oldest batch leaves the queue; its future, or the callback on its result,
\* may have raised.
Collected(q, raised) ==
  LET b == Head(q.pending)
      popped == [q EXCEPT !.pending = Tail(@), !.bytes = @ - q.charge[b]]
  IN  IF raised THEN Remember(popped, b) ELSE popped

\* Closed to further batches, every reservation returned.
Shut(q) ==
  [q EXCEPT !.closed = TRUE, !.reserved = {}, !.bytes = @ - Total(q.charge, q.reserved)]
=============================================================================
