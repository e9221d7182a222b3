---------------------------- MODULE LtaWorkerPool ----------------------------
(***************************************************************************)
(* LtaWorkerPool and _worker_main of src/XTA/lta_workers.py: one process   *)
(* for every slot, fed through a queue of its own, all answering on one    *)
(* event queue.  A task stands for the attempt it carries: a record with   *)
(* the fields work and slot that differs between two attempts.             *)
(*                                                                         *)
(* One thread of the parent calls the pool.  The children run, fail and    *)
(* die at any moment; what a dying child had not yet put on the event      *)
(* queue is lost.                                                          *)
(***************************************************************************)
EXTENDS Sequences, FiniteSets

CONSTANTS
  PoolSlots, Work,
  Nothing,          \* no task, no expected attempt
  Stop              \* _StopWorker

VARIABLES
  inbox,            \* _task_queues
  running,          \* the task each process executes
  alive,            \* slots whose process is alive
  answers,          \* _event_queue, without the ready events taken by _await_ready
  expected          \* _expected_attempts

pool == <<inbox, running, alive, answers, expected>>

\* The pool after _await_ready: every process is up and none has a task.
PoolInit ==
  /\ inbox = [s \in PoolSlots |-> <<>>]
  /\ running = [s \in PoolSlots |-> Nothing]
  /\ alive = PoolSlots
  /\ answers = <<>>
  /\ expected = [w \in Work |-> Nothing]

AllAlive == alive = PoolSlots         \* check_liveness returns
AnySettled == alive # PoolSlots       \* mutant
WorkersSettled == alive = {}          \* workers_settled
-----------------------------------------------------------------------------
(* The parent.                                                             *)

Submit(task) ==
  /\ AllAlive
  /\ expected' = [expected EXCEPT ![task.work] = task]
  /\ inbox' = [inbox EXCEPT ![task.slot] = Append(@, task)]
  /\ UNCHANGED <<running, alive, answers>>

\* An error of an attempt that is no longer expected is skipped; a result is
\* accepted from the expected attempt on the slot it was submitted to.
Stale(event) == event.kind = "error" /\ expected[event.task.work] # event.task
Accepted(event) ==
  event.kind = "result" /\ expected[event.task.work] = event.task /\ event.slot = event.task.slot

Take == answers # <<>> /\ answers' = Tail(answers) /\ UNCHANGED <<inbox, running, alive>>

\* An event that is no result of an expected attempt settles its own attempt only.
Discard ==
  /\ Take
  /\ LET task == Head(answers).task IN
       expected' = [expected EXCEPT ![task.work] = IF @ = task THEN Nothing ELSE @]

\* wait_result returns.
ReceiveOnly == Take /\ Accepted(Head(answers)) /\ UNCHANGED expected   \* mutant
Receive ==
  /\ Take /\ Accepted(Head(answers))
  /\ expected' = [expected EXCEPT ![Head(answers).task.work] = Nothing]

\* shutdown: every live process is told to stop ...
StopAll ==
  /\ inbox' = [s \in PoolSlots |-> IF s \in alive THEN Append(inbox[s], Stop) ELSE inbox[s]]
  /\ UNCHANGED <<running, alive, answers, expected>>

\* ... and terminated when it has not left within the time given to it.
Terminate(s) ==
  /\ s \in alive
  /\ alive' = alive \ {s}
  /\ running' = [running EXCEPT ![s] = Nothing]
  /\ UNCHANGED <<inbox, answers, expected>>
-----------------------------------------------------------------------------
(* The children.                                                           *)

Start(s) ==
  /\ s \in alive /\ running[s] = Nothing /\ inbox[s] # <<>> /\ Head(inbox[s]) # Stop
  /\ running' = [running EXCEPT ![s] = Head(inbox[s])]
  /\ inbox' = [inbox EXCEPT ![s] = Tail(@)]
  /\ UNCHANGED <<alive, answers, expected>>

Answer(s, kind) ==
  /\ s \in alive /\ running[s] # Nothing
  /\ answers' = Append(answers, [kind |-> kind, task |-> running[s], slot |-> s])
  /\ running' = [running EXCEPT ![s] = Nothing]
  /\ UNCHANGED <<inbox, alive, expected>>

Leave(s) ==
  /\ s \in alive /\ running[s] = Nothing /\ inbox[s] # <<>> /\ Head(inbox[s]) = Stop
  /\ inbox' = [inbox EXCEPT ![s] = Tail(@)]
  /\ alive' = alive \ {s}
  /\ UNCHANGED <<running, answers, expected>>

Die(s) == Terminate(s)

Child(s) == Start(s) \/ Answer(s, "result") \/ Answer(s, "error") \/ Leave(s) \/ Die(s)
=============================================================================
