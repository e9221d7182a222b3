-------------------------- MODULE PublicationTask --------------------------
(***************************************************************************)
(* One frame task of the PTA GPU worker, GpuPublicationTask of             *)
(* src/XTA/pta_gpu_publication.py with the loop that drives it             *)
(* (pta_workers.py): two queues of BatchPipeline, one inside the other.    *)
(* The task thread reserves, fills and submits a GPU batch at a time; the  *)
(* GPU consumer, one thread, publishes a batch by submitting host batches  *)
(* to the second queue; one host thread writes those.  The collector of    *)
(* the host queue is the GPU consumer, until the task closes.              *)
(*                                                                         *)
(* A batch is <<b>> in the GPU queue and <<b, k>> in the host queue.  A    *)
(* call of a queue is a `call` record of its thread, advanced by the steps *)
(* of the first section up to "returned" or "raised".  The RuntimeError of *)
(* a closed queue, and that of a producer blocked by its own reservations, *)
(* are results "raised" like the others.                                   *)
(***************************************************************************)
EXTENDS BatchPipeline, SequencesExt

CONSTANTS GpuBytes,    \* bytes of the task's GPU batches, a sequence
          HostWork,    \* per GPU batch, its host batches: [bytes, sized]
          GpuLimit, HostLimit,
          MaxFaults,      \* bound on the failures of any kind
          MaxInterrupts   \* bound on the waits the task thread is interrupted in

ASSUME WorkAssumption ==
  /\ GpuBytes \in Seq(Nat) /\ HostWork \in Seq(Seq([bytes : Nat, sized : BOOLEAN]))
  /\ Len(GpuBytes) = Len(HostWork)
ASSUME LimitAssumption == GpuLimit \in Nat /\ HostLimit \in Nat

VARIABLES queue,     \* the two queues
          inbox,     \* the batches each executor has not finished, in order
          state,     \* the future of a batch
          call,      \* the queue call each thread is in
          producer,  \* the task thread
          consumer,  \* the GPU consumer
          poisoned,  \* GpuPublicationResources.poisoned
          merged,    \* the batches whose result reached merge_published
          faults, interrupts
bounds == <<faults, interrupts>>
vars == <<queue, inbox, state, call, producer, consumer, poisoned, merged, bounds>>

Pipes == {"gpu", "host"}
GpuBatches == {<<b>> : b \in DOMAIN GpuBytes}
HostBatches == UNION {{<<b, k>> : k \in DOMAIN HostWork[b]} : b \in DOMAIN HostWork}
Batches == GpuBatches \cup HostBatches
Limit == [p \in Pipes |-> IF p = "gpu" THEN GpuLimit ELSE HostLimit]
Interruption == <<0>>
\* How the worker writes its images: with the encoder and nothing else, with the
\* encoder until it fails, or without one.
Codecs == {"nvjpeg", "auto", "opencv"}
NoCall == [pc |-> "none", op |-> "none", pipe |-> "gpu", batch |-> NoError, bytes |-> 0]

Init ==
  /\ queue = [p \in Pipes |-> NewQueue(Batches)]
  /\ inbox = [p \in Pipes |-> <<>>]
  /\ state = [b \in Batches |-> "new"]
  /\ call = [t \in {"task", "consumer"} |-> NoCall]
  /\ producer = [stage |-> "next", batch |-> 1, failed |-> FALSE]
  /\ consumer \in {[stage |-> "idle", batch |-> 0, op |-> 1, failed |-> FALSE, codec |-> c] :
                     c \in Codecs}
  /\ poisoned = FALSE
  /\ merged = <<>>
  /\ faults = 0 /\ interrupts = 0

Fault == faults < MaxFaults /\ faults' = faults + 1 /\ UNCHANGED interrupts
--------------------------------------------------------------------------
(* Calls of a queue *)

\* reserve, resize or close, up to its first look at a batch.
Enter(t, op, p, b, n) ==
  call' = [call EXCEPT ![t] =
    [op |-> op, pipe |-> p, batch |-> b, bytes |-> n,
     pc |-> CASE queue[p].closed -> IF op = "close" THEN "returned" ELSE "raised"
              [] ~queue[p].closed /\ op = "close" -> "drain"
              [] OTHER -> "sweep"]]

Goto(t, pc) == call' = [call EXCEPT ![t].pc = pc]
Leave(t) == call' = [call EXCEPT ![t] = NoCall]
Returned(t) == call[t].pc = "returned"
Raised(t) == call[t].pc = "raised"

Settled(b) == state[b] \in {"done", "failed"}
HeadSettled(q) == q.pending # <<>> /\ Settled(Head(q.pending))

Admits(c) ==
  LET q == queue[c.pipe]
  IN  IF c.op = "reserve" THEN Fits(q, c.bytes, Limit[c.pipe])
                          ELSE FitsResized(q, c.batch, c.bytes, Limit[c.pipe])

\* mutant: a call out of room waits without collecting
CollectingReady(c) == c.pc \in {"sweep", "drain", "refused", "fail"}

Collecting(c) ==
  c.pc \in {"sweep", "drain", "refused", "fail"} \/ (c.pc = "admit" /\ ~Admits(c))

\* A collection is over: an error in it, unless the call is failing already,
\* shuts the queue and the rest is collected before it is raised.
Resume(t, q) ==
  LET c == call[t]
      fails == q.error # NoError /\ c.pc \notin {"refused", "fail"}
  IN  /\ queue' = [queue EXCEPT ![c.pipe] = IF fails THEN Shut(q) ELSE q]
      /\ call' = [call EXCEPT ![t].pc = IF fails THEN "fail" ELSE @]

\* The oldest batch is collected; `raises` when merge_published does.
Collect(t) ==
  LET c == call[t]
      q == queue[c.pipe]
      b == Head(q.pending)
      ok == state[b] = "done"
  IN  /\ Collecting(c) /\ HeadSettled(q)
      /\ \E raises \in BOOLEAN :
           /\ IF raises THEN ok /\ c.pipe = "gpu" /\ Fault ELSE UNCHANGED bounds
           /\ Resume(t, Collected(q, raises \/ ~ok))
      /\ merged' = IF ok /\ c.pipe = "gpu" THEN Append(merged, b) ELSE merged
      /\ UNCHANGED <<inbox, state, producer, consumer, poisoned>>

\* get_ready found the oldest batch still running.
SweepEnds(t) ==
  /\ call[t].pc = "sweep" /\ ~HeadSettled(queue[call[t].pipe])
  /\ Goto(t, "admit")
  /\ UNCHANGED <<queue, inbox, state, producer, consumer, poisoned, merged, bounds>>

Admit(t) ==
  LET c == call[t]
      q == queue[c.pipe]
  IN  /\ c.pc = "admit" /\ (Admits(c) \/ q.pending = <<>>)
      /\ IF Admits(c)
         THEN /\ queue' = [queue EXCEPT ![c.pipe] = IF c.op = "reserve"
                                           THEN Reserve(q, c.batch, c.bytes)
                                           ELSE Resize(q, c.batch, c.bytes)]
              /\ Goto(t, "returned")
         ELSE Goto(t, "raised") /\ UNCHANGED queue
      /\ UNCHANGED <<inbox, state, producer, consumer, poisoned, merged, bounds>>

\* Nothing is left to collect.
Collapsed(c) == c.pc \in {"drain", "refused", "fail"} /\ queue[c.pipe].pending = <<>>

Finish(t) ==
  LET c == call[t]
      q == queue[c.pipe]
  IN  /\ Collapsed(c)
      /\ queue' = [queue EXCEPT ![c.pipe] =
                     Shut(IF c.pc = "refused" THEN Remember(q, c.batch) ELSE q)]
      /\ Goto(t, IF c.pc = "drain" THEN "returned" ELSE "raised")
      /\ UNCHANGED <<inbox, state, producer, consumer, poisoned, merged, bounds>>

\* The submission of a reserved batch; an executor that refuses it leaves the
\* batch to its producer.
SubmitTo(t, p, b) ==
  /\ queue' = [queue EXCEPT ![p] = Submit(@, b)]
  /\ inbox' = [inbox EXCEPT ![p] = Append(@, b)]
  /\ state' = [state EXCEPT ![b] = "queued"]
  /\ UNCHANGED <<call, bounds>>

RefusedBy(t, p, b) ==
  /\ Fault
  /\ queue' = [queue EXCEPT ![p] = Cancel(@, b)]
  /\ call' = [call EXCEPT ![t] = [NoCall EXCEPT !.pc = "refused", !.pipe = p, !.batch = b]]
  /\ UNCHANGED <<inbox, state>>

\* KeyboardInterrupt in the task thread's wait for the oldest batch: it is
\* remembered and leaves the queue, whatever its consumer is doing.
Interrupt ==
  LET c == call["task"]
      q == queue[c.pipe]
  IN  /\ interrupts < MaxInterrupts
      /\ interrupts' = interrupts + 1 /\ UNCHANGED faults
      /\ Collecting(c) /\ q.pending # <<>> /\ ~HeadSettled(q) /\ c.pc # "sweep"
      /\ Resume("task", Remember(Collected(q, FALSE), Interruption))
      /\ UNCHANGED <<inbox, state, producer, consumer, poisoned, merged>>

CallStep(t) == Collect(t) \/ SweepEnds(t) \/ Admit(t) \/ Finish(t)
--------------------------------------------------------------------------
(* The task thread *)

Batch == <<producer.batch>>

\* The task's body ends, with or without an exception, and its context closes.
Closing(failed) == producer' = [producer EXCEPT !.stage = "close", !.failed = failed]

TaskReserve ==
  /\ producer.stage = "next" /\ producer.batch <= Len(GpuBytes)
  /\ IF poisoned
     THEN Closing(TRUE) /\ UNCHANGED call
     ELSE /\ Enter("task", "reserve", "gpu", Batch, GpuBytes[producer.batch])
          /\ producer' = [producer EXCEPT !.stage = "reserving"]
  /\ UNCHANGED <<queue, inbox, state, consumer, poisoned, merged, bounds>>

TaskReserved ==
  /\ producer.stage = "reserving" /\ (Returned("task") \/ Raised("task"))
  /\ IF Raised("task")
     THEN poisoned' = TRUE /\ Closing(TRUE)
     ELSE producer' = [producer EXCEPT !.stage = "policy"] /\ UNCHANGED poisoned
  /\ Leave("task")
  /\ UNCHANGED <<queue, inbox, state, consumer, merged, bounds>>

\* The policy call or the snapshot of its output fails; out of memory, the batch
\* is cut and its parts reserve again.
PolicyFails ==
  /\ producer.stage = "policy"
  /\ Fault
  /\ queue' = [queue EXCEPT !["gpu"] = Cancel(@, Batch)]
  /\ \/ Closing(TRUE)
     \/ producer' = [producer EXCEPT !.stage = "next"]
  /\ UNCHANGED <<inbox, state, call, consumer, poisoned, merged>>

TaskSubmit ==
  /\ producer.stage = "policy"
  /\ \/ /\ SubmitTo("task", "gpu", Batch)
        /\ producer' = [producer EXCEPT !.stage = "next", !.batch = @ + 1]
     \/ /\ RefusedBy("task", "gpu", Batch)
        /\ producer' = [producer EXCEPT !.stage = "submitting"]
  /\ UNCHANGED <<consumer, poisoned, merged>>

TaskRefused ==
  /\ producer.stage = "submitting" /\ Raised("task")
  /\ Closing(TRUE) /\ Leave("task")
  /\ UNCHANGED <<queue, inbox, state, consumer, poisoned, merged, bounds>>

TaskDone ==
  /\ producer.stage = "next" /\ producer.batch > Len(GpuBytes)
  /\ Closing(FALSE)
  /\ UNCHANGED <<queue, inbox, state, call, consumer, poisoned, merged, bounds>>

\* GpuPublicationTask.close: the GPU queue, then the host queue.
CloseGpu ==
  /\ producer.stage = "close"
  /\ Enter("task", "close", "gpu", NoError, 0)
  /\ producer' = [producer EXCEPT !.stage = "closing gpu"]
  /\ UNCHANGED <<queue, inbox, state, consumer, poisoned, merged, bounds>>

\* mutant: the host queue is closed only after a successful GPU queue
SkipHost(pc) == pc = "raised"
\* The host queue follows, whatever the GPU queue said.
SkipsHost(pc) == FALSE

CloseHost ==
  /\ producer.stage = "closing gpu" /\ (Returned("task") \/ Raised("task"))
  /\ IF SkipsHost(call["task"].pc)
     THEN Leave("task") /\ producer' = [producer EXCEPT !.stage = "ended", !.failed = TRUE]
     ELSE /\ Enter("task", "close", "host", NoError, 0)
          /\ producer' = [producer EXCEPT !.stage = "closing host",
                                          !.failed = @ \/ Raised("task")]
  /\ poisoned' = (poisoned \/ Raised("task"))
  /\ UNCHANGED <<queue, inbox, state, consumer, merged, bounds>>

TaskEnd ==
  /\ producer.stage = "closing host" /\ (Returned("task") \/ Raised("task"))
  /\ producer' = [producer EXCEPT !.stage = "ended", !.failed = @ \/ Raised("task")]
  /\ poisoned' = (poisoned \/ Raised("task"))
  /\ Leave("task")
  /\ UNCHANGED <<queue, inbox, state, consumer, merged, bounds>>

TaskStep ==
  \/ CallStep("task") \/ TaskReserve \/ TaskReserved \/ PolicyFails \/ TaskSubmit
  \/ TaskRefused \/ TaskDone \/ CloseGpu \/ CloseHost \/ TaskEnd
--------------------------------------------------------------------------
(* The GPU consumer, _consume_gpu and the host batches it submits *)

HostBatch == <<consumer.batch, consumer.op>>
Work == HostWork[consumer.batch]

At(stage) == consumer' = [consumer EXCEPT !.stage = stage]

\* The images of a batch come next: for the encoder, or for the consumer itself
\* once there is no encoder.
Images == consumer.op <= Len(Work) /\ Work[consumer.op].sized
WithoutEncoder == Images /\ consumer.codec \in {"opencv", "fallen"}
MayFallBack == Images /\ consumer.codec = "auto"

\* An exception leaves a `with` block: an unused reservation is returned.
Unwind == queue' = [queue EXCEPT !["host"] = Cancel(@, HostBatch)]

\* The exception leaves _publish_gpu_policy_batch too: the resources are poisoned,
\* and the fence comes next.
Break ==
  /\ Unwind
  /\ poisoned' = TRUE
  /\ consumer' = [consumer EXCEPT !.stage = "fence", !.failed = TRUE]

\* _write_gpu_image_batch swallows it, an error of the host queue included: the
\* encoder is given up for good and the consumer goes on.
FallBack ==
  /\ Unwind
  /\ consumer' = [consumer EXCEPT !.stage = "work", !.codec = "fallen"]
  /\ UNCHANGED poisoned

\* A batch is taken; after a failure it is put aside unread and fails.
Take ==
  /\ consumer.stage = "idle" /\ inbox["gpu"] # <<>>
  /\ LET b == Head(inbox["gpu"])
     IN  IF poisoned
         THEN /\ state' = [state EXCEPT ![b] = "failed"]
              /\ inbox' = [inbox EXCEPT !["gpu"] = Tail(@)]
              /\ UNCHANGED consumer
         ELSE /\ consumer' = [consumer EXCEPT !.stage = "work", !.batch = b[1], !.op = 1,
                                              !.failed = FALSE]
              /\ UNCHANGED <<state, inbox>>
  /\ UNCHANGED <<queue, call, producer, poisoned, merged, bounds>>

\* The encoder's batches reserve their slot first, of unknown size.
HostReserve ==
  /\ consumer.stage = "work" /\ consumer.op <= Len(Work) /\ ~WithoutEncoder
  /\ Enter("consumer", "reserve", "host", HostBatch,
           IF Work[consumer.op].sized THEN 0 ELSE Work[consumer.op].bytes)
  /\ At("reserving")
  /\ UNCHANGED <<queue, inbox, state, producer, poisoned, merged, bounds>>

HostReserved ==
  /\ consumer.stage = "reserving" /\ Returned("consumer")
  /\ At(IF Work[consumer.op].sized THEN "encode" ELSE "submit")
  /\ Leave("consumer")
  /\ UNCHANGED <<queue, inbox, state, producer, poisoned, merged, bounds>>

Encode ==
  /\ consumer.stage = "encode"
  /\ Enter("consumer", "resize", "host", HostBatch, Work[consumer.op].bytes)
  /\ At("resizing")
  /\ UNCHANGED <<queue, inbox, state, producer, poisoned, merged, bounds>>

HostResized ==
  /\ consumer.stage = "resizing" /\ Returned("consumer")
  /\ At("submit") /\ Leave("consumer")
  /\ UNCHANGED <<queue, inbox, state, producer, poisoned, merged, bounds>>

HostSubmit ==
  /\ consumer.stage = "submit"
  /\ \/ /\ SubmitTo("consumer", "host", HostBatch)
        /\ consumer' = [consumer EXCEPT !.stage = "work", !.op = @ + 1]
     \/ RefusedBy("consumer", "host", HostBatch) /\ At("submitting")
  /\ UNCHANGED <<producer, poisoned, merged>>

HostRaised ==
  /\ consumer.stage \in {"reserving", "resizing", "submitting"} /\ Raised("consumer")
  /\ IF MayFallBack THEN FallBack ELSE Break
  /\ Leave("consumer")
  /\ UNCHANGED <<inbox, state, producer, merged, bounds>>

\* A download, the encoder or anything else between the calls fails; of the images,
\* only a device that cannot be fenced is no reason to fall back.
ConsumeFails ==
  /\ consumer.stage \in {"work", "encode", "submit"}
  /\ Fault
  /\ Break \/ (MayFallBack /\ FallBack)
  /\ UNCHANGED <<inbox, state, call, producer, merged>>

\* Without an encoder the consumer writes the images where it is.
WriteImages ==
  /\ consumer.stage = "work" /\ WithoutEncoder
  /\ state' = [state EXCEPT ![HostBatch] = "done"]
  /\ consumer' = [consumer EXCEPT !.op = @ + 1]
  /\ UNCHANGED <<queue, inbox, call, producer, poisoned, merged, bounds>>

\* The stream is fenced and the future gets its answer.
Fence ==
  /\ consumer.stage = "fence" \/ (consumer.stage = "work" /\ consumer.op > Len(Work))
  /\ \E raises \in BOOLEAN :
       /\ IF raises THEN Fault ELSE UNCHANGED bounds
       /\ poisoned' = (poisoned \/ raises)
       /\ state' = [state EXCEPT ![<<consumer.batch>>] =
                      IF raises \/ consumer.failed THEN "failed" ELSE "done"]
  /\ inbox' = [inbox EXCEPT !["gpu"] = Tail(@)]
  /\ At("idle")
  /\ UNCHANGED <<queue, call, producer, merged>>

ConsumerStep ==
  \/ CallStep("consumer") \/ Take \/ HostReserve \/ HostReserved \/ Encode
  \/ HostResized \/ HostSubmit \/ HostRaised \/ ConsumeFails
  \/ WriteImages \/ Fence

\* The host thread writes its oldest batch.
Write ==
  /\ inbox["host"] # <<>>
  /\ \E raises \in BOOLEAN :
       /\ IF raises THEN Fault ELSE UNCHANGED bounds
       /\ state' = [state EXCEPT ![Head(inbox["host"])] = IF raises THEN "failed" ELSE "done"]
  /\ inbox' = [inbox EXCEPT !["host"] = Tail(@)]
  /\ UNCHANGED <<queue, call, producer, consumer, poisoned, merged>>

Stopped == producer.stage = "ended" /\ UNCHANGED vars

Next == TaskStep \/ ConsumerStep \/ Write \/ Stopped

Fairness == WF_vars(TaskStep) /\ WF_vars(ConsumerStep) /\ WF_vars(Write)
Spec == Init /\ [][Next]_vars /\ Fairness

\* The same, with interruptions of the task thread.
InterruptedSpec == Init /\ [][Next \/ Interrupt]_vars /\ Fairness
--------------------------------------------------------------------------
(* Properties *)

Held(p) == ToSet(queue[p].pending) \cup queue[p].reserved
Exclusive(p) == Retained(queue[p]) = 1 /\ queue[p].bytes > Limit[p]

\* The bytes of a queue are those of the batches and reservations it holds, at
\* most Capacity of them, within the limit unless a single oversized one is
\* alone; and an error left by a call finds the queue shut (pending_bytes,
\* _fits, _resize, _finish_failed).
BooksExact ==
  \A p \in Pipes :
    /\ queue[p].bytes = Total(queue[p].charge, Held(p))
    /\ Retained(queue[p]) <= Capacity
    /\ queue[p].bytes <= Limit[p] \/ Exclusive(p)
    /\ queue[p].closed => queue[p].reserved = {}
    /\ queue[p].error # NoError =>
         queue[p].closed \/ \E t \in DOMAIN call : call[t].pipe = p /\ call[t].pc = "refused"

Gone(b) == Settled(b) /\ \A p \in Pipes : b \notin Held(p)
Before(a, b) == Len(a) = Len(b) /\ (a[1] < b[1] \/ (a[1] = b[1] /\ a[Len(a)] < b[Len(b)]))

\* When the task ends, with success or with an error, both executors are done
\* with every batch of it: no consumer outlives the buffers it was given.  Before
\* that the host queue never has two collectors: the task thread calls it only
\* when the GPU consumer has stopped for good (the close of GpuPublicationTask).
TaskJoined ==
  /\ call["task"].pc # "none" /\ call["task"].pipe = "host" =>
       consumer.stage = "idle" /\ inbox["gpu"] = <<>>
  /\ producer.stage = "ended" =>
    /\ consumer.stage = "idle"
    /\ \A p \in Pipes : inbox[p] = <<>> /\ Held(p) = {} /\ queue[p].closed

\* A task that succeeds has published every GPU batch and counted each result once
\* and in order, and every host batch too, unless its encoder fell back: then the
\* error of a host batch may have been taken for the encoder's.  Results are never
\* counted twice or out of order in a failed one either (merge_published).  The
\* error of a queue is its first in submission order, and no failure of a collected
\* batch goes without one (_remember_error, _collect_one).
OutcomeIsTrue ==
  /\ \A b \in Batches :
       LET q == queue[IF b \in GpuBatches THEN "gpu" ELSE "host"]
       IN  /\ Gone(b) /\ state[b] = "failed" => q.error # NoError
           /\ q.error = b => \A a \in Batches : Before(a, b) => state[a] = "done"
  /\ ToSet(merged) = {b \in GpuBatches : state[b] = "done" /\ Gone(b)}
  /\ \A i, j \in DOMAIN merged : i < j => Before(merged[i], merged[j])
  /\ producer.stage = "ended" /\ ~producer.failed =>
       \A b \in IF consumer.codec = "fallen" THEN GpuBatches ELSE Batches :
         state[b] = "done" /\ Gone(b)

\* The task always ends: neither queue waits for a batch that waits for it.
TaskEnds == <>(producer.stage = "ended")
=============================================================================
