--------------------------- MODULE ProjectionQueue ---------------------------
(***************************************************************************)
(* ComponentProjectionQueue of src/XTA/projection_queue.py: the bounded    *)
(* handoff of component inputs from interpolation to the threads that      *)
(* project them.                                                           *)
(*                                                                         *)
(* A job is one call of submit or try_submit.  Its life has two threads:   *)
(* the producer that calls submit (`prod`), and the executor thread that   *)
(* runs the wrapper `run` (`work`).  One Condition guards all the          *)
(* accounting; an action is one section under that lock, or one step of    *)
(* the executor outside it.  A thread in Condition.wait is in `parked`     *)
(* and only notify_all, or the timeout of a dynamic working budget, takes  *)
(* it out.                                                                 *)
(***************************************************************************)
EXTENDS Integers, FiniteSets, Totals

CONSTANTS
  Jobs,          \* the submissions
  SourceBytes,   \* source_bytes of each, a function
  WorkingBytes,  \* working_bytes of each, a function
  Workers, MaxPending, MaxSource, MaxWorking,  \* constructor arguments
  Budgets        \* what working_budget() may return; {} when it is None

ASSUME QueueAssumption ==
  /\ IsFiniteSet(Jobs)
  /\ SourceBytes \in [Jobs -> Nat]
  /\ WorkingBytes \in [Jobs -> Nat]
  /\ {Workers, MaxPending, MaxSource, MaxWorking} \subseteq Nat \ {0}
  /\ Budgets \subseteq Nat \ {0}

NoError == "none"
ASSUME NoErrorAssumption == NoError \notin Jobs

\* A blocked older job is overtaken at most this often (projection_queue.py:69).
MaxBypasses == 2

\* `limit` of project(): 0 stands for None.
Samples == IF Budgets = {} THEN {0} ELSE Budgets
Dynamic == Budgets # {}
\* The allowance never changes: nothing is probed, or every probe returns the same.
Steady == Budgets \subseteq {MaxWorking}

ProducerStates == {"idle", "submitting", "handoff", "attaching", "unplaced", "returned", "raised"}
WorkStates == {"none", "queued", "probing", "checking", "running", "succeeded", "failed",
               "resolved", "rejected", "cancelled"}
ExecutorStates == {"up", "closing", "cancelling", "draining", "down"}

VARIABLES
  prod,        \* program counter of the thread inside submit / try_submit
  work,        \* program counter of the executor's wrapper for the job
  sample,      \* the budget project() probed outside the lock
  parked,      \* jobs whose thread sleeps in Condition.wait
  waiting,     \* keys of _waiting
  ahead,       \* insertion order of _waiting: the tickets in front of each one
  bypasses,    \* second field of a _waiting entry
  patience,    \* history, read by properties only: how many younger inputs may
               \* still be granted before each waiting one
  pending, source, active, working,   \* _pending, _source, _active, _working
  maxWorking,  \* _max_working
  oversized,   \* _oversized_active
  closed, aborted, error,             \* _closed, _aborted, _error
  granted, revoked, retired,          \* the flags of the closures, as sets of jobs
  executor     \* the ThreadPoolExecutor and the owner that shuts it down

ledger  == <<waiting, ahead, bypasses, patience, pending, source>>
credit  == <<active, working, maxWorking, oversized>>
control == <<closed, aborted, executor>>
vars == <<prod, work, sample, parked, ledger, credit, control, error, granted, revoked, retired>>

Init ==
  /\ prod = [j \in Jobs |-> "idle"]
  /\ work = [j \in Jobs |-> "none"]
  /\ sample = [j \in Jobs |-> 0]
  /\ parked = {} /\ waiting = {}
  /\ ahead = [j \in Jobs |-> {}]
  /\ bypasses = [j \in Jobs |-> 0]
  /\ patience = [j \in Jobs |-> 0]
  /\ pending = 0 /\ source = 0 /\ active = 0 /\ working = 0
  /\ maxWorking = MaxWorking
  /\ oversized = FALSE
  /\ closed = FALSE /\ aborted = FALSE
  /\ error = NoError
  /\ granted = {} /\ revoked = {} /\ retired = {}
  /\ executor = "up"

Step(f, j, s) == [f EXCEPT ![j] = s]
NotifyAll == parked' = {}

-----------------------------------------------------------------------------
(* Working-credit admission: _fitting_waiter_locked. *)

\* Mutants of Fits: no exception for a job alone; no limit unless an oversized job runs.
FitsNeverAlone(j, limit) == ~oversized /\ working + WorkingBytes[j] <= limit
FitsUnlessOversized(j, limit) == active = 0 \/ ~oversized
Fits(j, limit) == active = 0 \/ (~oversized /\ working + WorkingBytes[j] <= limit)

Oldest(j) == j \in waiting /\ ahead[j] = {}

\* Mutant of FittingWaiter: a blocked older job is bypassed as often as others fit.
FittingWaiterAnyone(j, limit) ==
  active < Workers /\ j \in waiting /\ Fits(j, limit) /\ \A k \in ahead[j] : ~Fits(k, limit)
\* The oldest ticket if it fits; otherwise, while it has been bypassed less than
\* twice, the first other ticket that does.
FittingWaiter(j, limit) ==
  /\ active < Workers
  /\ j \in waiting
  /\ Fits(j, limit)
  /\ \A k \in ahead[j] : ~Fits(k, limit) /\ (Oldest(k) => bypasses[k] < MaxBypasses)

\* Removal of a ticket from the insertion-ordered _waiting.
Forget(j) ==
  /\ waiting' = waiting \ {j}
  /\ ahead' = [k \in Jobs |-> IF k = j THEN {} ELSE ahead[k] \ {j}]

-----------------------------------------------------------------------------
(* submit and try_submit, in the producer's thread. *)

\* Mutant of HasRoom: any input is admitted while the bytes already held are within the limit.
HasRoomLate(j) == pending < MaxPending /\ source <= MaxSource
HasRoom(j) == pending < MaxPending /\ (pending = 0 \/ source + SourceBytes[j] <= MaxSource)

Refuse(j) ==
  /\ error # NoError \/ closed
  /\ prod' = Step(prod, j, "raised")
  /\ UNCHANGED <<ledger, parked>>

\* A new ticket is the youngest; each input waiting now, and itself, may let MaxBypasses pass.
Admit(j) ==
  /\ error = NoError /\ ~closed /\ HasRoom(j)
  /\ prod' = Step(prod, j, "handoff")
  /\ pending' = pending + 1
  /\ source' = source + SourceBytes[j]
  /\ waiting' = waiting \union {j}
  /\ ahead' = [ahead EXCEPT ![j] = waiting]
  /\ bypasses' = [bypasses EXCEPT ![j] = 0]
  /\ patience' = Step(patience, j, MaxBypasses * (Cardinality(waiting) + 1))
  /\ UNCHANGED parked

Sleep(j) ==
  /\ error = NoError /\ ~closed /\ ~HasRoom(j)
  /\ parked' = parked \union {j}
  /\ prod' = Step(prod, j, "submitting")
  /\ UNCHANGED ledger

\* One pass of the blocking loop: the first, or one after a wake-up.
Submit(j) ==
  /\ prod[j] \in {"idle", "submitting"} /\ j \notin parked
  /\ Refuse(j) \/ Admit(j) \/ Sleep(j)
  /\ UNCHANGED <<work, sample, credit, control, error, granted, revoked, retired>>

\* A full queue answers None and leaves everything as it was: no step.
TrySubmit(j) ==
  /\ prod[j] = "idle"
  /\ Refuse(j) \/ Admit(j)
  /\ UNCHANGED <<work, sample, credit, control, error, granted, revoked, retired>>

\* Mutant of retire: not idempotent.
RetireTwice(j, failure) ==
  /\ retired' = retired \union {j} /\ Forget(j)
  /\ pending' = pending - 1 /\ source' = source - SourceBytes[j]
  /\ error' = IF failure # NoError /\ error = NoError THEN failure ELSE error
  /\ NotifyAll /\ UNCHANGED <<bypasses, patience>>

\* retire(): idempotent; only the first error is kept.
Retire(j, failure) ==
  IF j \in retired THEN UNCHANGED <<ledger, parked, error, retired>>
  ELSE /\ retired' = retired \union {j}
       /\ Forget(j)
       /\ pending' = pending - 1
       /\ source' = source - SourceBytes[j]
       /\ error' = IF failure # NoError /\ error = NoError THEN failure ELSE error
       /\ NotifyAll
       /\ patience' = Step(patience, j, 0)
       /\ UNCHANGED bypasses

\* executor.submit(run) returns a future.
Enqueue(j) ==
  /\ prod[j] = "handoff" /\ executor \in {"up", "closing", "cancelling"}
  /\ prod' = Step(prod, j, "attaching")
  /\ work' = Step(work, j, "queued")
  /\ UNCHANGED <<sample, parked, ledger, credit, control, error, granted, revoked, retired>>

\* executor.submit raises: after its shutdown nothing was enqueued; a thread that
\* cannot be started leaves the wrapper in the executor's queue.
EnqueueRaises(j) ==
  /\ prod[j] = "handoff"
  /\ prod' = Step(prod, j, "unplaced")
  /\ \/ executor \in {"draining", "down"} /\ UNCHANGED work
     \/ executor \in {"up", "closing", "cancelling"} /\ work' = Step(work, j, "queued")
  /\ UNCHANGED <<sample, parked, ledger, credit, control, error, granted, revoked, retired>>

\* Mutant of Revoke: `granted` is not looked at.
RevokeAlways(j) ==
  /\ prod[j] = "unplaced"
  /\ prod' = Step(prod, j, "raised")
  /\ revoked' = revoked \union {j} /\ Retire(j, NoError)
  /\ UNCHANGED <<work, sample, credit, control, granted>>

\* The except clause around executor.submit.
Revoke(j) ==
  /\ prod[j] = "unplaced"
  /\ prod' = Step(prod, j, "raised")
  /\ IF j \in granted
       THEN UNCHANGED <<ledger, parked, error, retired, revoked>>
       ELSE revoked' = revoked \union {j} /\ Retire(j, NoError)
  /\ UNCHANGED <<work, sample, credit, control, granted>>

\* add_done_callback(completed); the callback of a future that is done runs here.
Attach(j) ==
  /\ prod[j] = "attaching"
  /\ prod' = Step(prod, j, "returned")
  /\ IF work[j] = "cancelled" THEN Retire(j, NoError)
                              ELSE UNCHANGED <<ledger, parked, error, retired>>
  /\ UNCHANGED <<work, sample, credit, control, granted, revoked>>

-----------------------------------------------------------------------------
(* The executor thread: run() and project(). *)

Threads == {j \in Jobs : work[j] \in {"probing", "checking", "running", "succeeded", "failed"}}

\* One of max_workers = _max_pending threads takes a queued wrapper.
Start(j) ==
  /\ work[j] = "queued" /\ Cardinality(Threads) < MaxPending
  /\ work' = Step(work, j, "probing")
  /\ UNCHANGED <<prod, sample, parked, ledger, credit, control, error, granted, revoked, retired>>

\* First locked look at `revoked`, then the probe without the lock; a probe of the
\* operating system may raise.
Probe(j) ==
  /\ work[j] = "probing" /\ j \notin parked
  /\ \/ j \in revoked /\ work' = Step(work, j, "failed") /\ UNCHANGED sample
     \/ /\ j \notin revoked
        /\ \/ \E limit \in Samples : sample' = Step(sample, j, limit)
                                     /\ work' = Step(work, j, "checking")
           \/ Dynamic /\ work' = Step(work, j, "failed") /\ UNCHANGED sample
  /\ UNCHANGED <<prod, parked, ledger, credit, control, error, granted, revoked, retired>>

NewLimit(j) == IF sample[j] = 0 THEN maxWorking ELSE sample[j]

Grant(j) ==
  /\ FittingWaiter(j, NewLimit(j))
  /\ bypasses' = [k \in Jobs |-> IF k # j /\ Oldest(k) /\ ~Oldest(j)
                                   THEN bypasses[k] + 1 ELSE bypasses[k]]
  /\ patience' = [k \in Jobs |-> IF k = j THEN 0
                                 ELSE IF k \in ahead[j] THEN patience[k] - 1 ELSE patience[k]]
  /\ Forget(j)
  /\ granted' = granted \union {j}
  /\ oversized' = (WorkingBytes[j] > NewLimit(j))
  /\ active' = active + 1
  /\ working' = working + WorkingBytes[j]
  /\ NotifyAll
  /\ work' = Step(work, j, "running")
  /\ UNCHANGED <<pending, source>>

\* wait(timeout): the timeout exists only with a dynamic budget.
Park(j) ==
  /\ ~FittingWaiter(j, NewLimit(j))
  /\ parked' = parked \union {j}
  /\ work' = Step(work, j, "probing")
  /\ UNCHANGED <<ledger, granted, oversized, active, working>>

\* The second locked section: the flags are read again, the probed limit becomes the
\* queue's, and the job runs or waits.
Check(j) ==
  /\ work[j] = "checking"
  /\ sample' = Step(sample, j, 0)
  /\ IF j \in revoked \/ aborted
       THEN /\ work' = Step(work, j, "failed")
            /\ UNCHANGED <<parked, ledger, credit, granted>>
       ELSE /\ maxWorking' = NewLimit(j)
            /\ Grant(j) \/ Park(j)
  /\ UNCHANGED <<prod, control, error, revoked, retired>>

Timeout(j) ==
  /\ Dynamic /\ work[j] = "probing" /\ j \in parked
  /\ parked' = parked \ {j}
  /\ UNCHANGED <<prod, work, sample, ledger, credit, control, error, granted, revoked, retired>>

\* Mutant of Release: the credit comes back without a notification.
ReleaseSilently(j) ==
  /\ work[j] = "running"
  /\ \E outcome \in {"succeeded", "failed"} : work' = Step(work, j, outcome)
  /\ active' = active - 1 /\ working' = working - WorkingBytes[j]
  /\ oversized' = (oversized /\ active' # 0)
  /\ UNCHANGED <<prod, sample, maxWorking, ledger, control, error, granted, revoked, retired, parked>>

\* fn returns or raises; the finally clause gives the working credit back.
Release(j) ==
  /\ work[j] = "running"
  /\ \E outcome \in {"succeeded", "failed"} : work' = Step(work, j, outcome)
  /\ active' = active - 1
  /\ working' = working - WorkingBytes[j]
  /\ oversized' = (oversized /\ active' # 0)
  /\ NotifyAll
  /\ UNCHANGED <<prod, sample, maxWorking, ledger, control, error, granted, revoked, retired>>

\* retire() in run(), after which the future holds the result or the exception.
Settle(j) ==
  /\ \/ work[j] = "succeeded" /\ work' = Step(work, j, "resolved") /\ Retire(j, NoError)
     \/ work[j] = "failed" /\ work' = Step(work, j, "rejected") /\ Retire(j, j)
  /\ UNCHANGED <<prod, sample, credit, control, granted, revoked>>

\* Future.cancel of a wrapper no thread has taken, by its holder or by the executor's
\* shutdown; a callback that is attached retires the job.
Cancel(j) ==
  /\ work[j] = "queued"
  /\ prod[j] = "returned" \/ executor = "draining"
  /\ work' = Step(work, j, "cancelled")
  /\ IF prod[j] = "returned" THEN Retire(j, NoError)
                             ELSE UNCHANGED <<ledger, parked, error, retired>>
  /\ UNCHANGED <<prod, sample, credit, control, granted, revoked>>

-----------------------------------------------------------------------------
(* abort and shutdown, by the pipeline that owns the queue. *)

Abort ==
  /\ executor = "up" /\ ~aborted
  /\ closed' = TRUE /\ aborted' = TRUE
  /\ NotifyAll
  /\ UNCHANGED <<prod, work, sample, ledger, credit, executor, error, granted, revoked, retired>>

\* shutdown(cancel_futures): the locked sections before the executor's own shutdown.
Shutdown ==
  /\ executor = "up"
  /\ \/ executor' = "closing" /\ UNCHANGED aborted
     \/ executor' = "cancelling" /\ aborted' = TRUE
  /\ closed' = TRUE
  /\ NotifyAll
  /\ UNCHANGED <<prod, work, sample, ledger, credit, error, granted, revoked, retired>>

\* executor.shutdown: no submission is accepted any more; with cancel_futures the
\* queued wrappers are cancelled one by one.
StopExecutor ==
  /\ \/ executor = "closing" /\ executor' = "down"
     \/ executor = "cancelling" /\ executor' = "draining"
     \/ executor = "draining" /\ executor' = "down" /\ \A j \in Jobs : work[j] # "queued"
  /\ UNCHANGED <<prod, work, sample, parked, ledger, credit, closed, aborted, error,
                 granted, revoked, retired>>

-----------------------------------------------------------------------------
Producer(j) == Submit(j) \/ TrySubmit(j) \/ Enqueue(j) \/ EnqueueRaises(j) \/ Revoke(j) \/ Attach(j)
Worker(j) == Start(j) \/ Probe(j) \/ Check(j) \/ Timeout(j) \/ Release(j) \/ Settle(j)
Owner == Abort \/ Shutdown \/ StopExecutor

Next == (\E j \in Jobs : Producer(j) \/ Worker(j) \/ Cancel(j)) \/ Owner

Spec == Init /\ [][Next]_vars

-----------------------------------------------------------------------------
(* Properties. *)

\* Type invariant of the queue's state.
TypeOK ==
  /\ prod \in [Jobs -> ProducerStates]
  /\ work \in [Jobs -> WorkStates]
  /\ sample \in [Jobs -> Samples \union {0}]
  /\ ahead \in [Jobs -> SUBSET Jobs]
  /\ bypasses \in [Jobs -> 0..MaxBypasses]
  /\ patience \in [Jobs -> Int]
  /\ parked \subseteq Jobs /\ waiting \subseteq Jobs
  /\ granted \subseteq Jobs /\ revoked \subseteq Jobs /\ retired \subseteq Jobs
  /\ pending \in Nat /\ source \in Nat /\ active \in Nat /\ working \in Nat
  /\ maxWorking \in Nat \ {0}
  /\ oversized \in BOOLEAN /\ closed \in BOOLEAN /\ aborted \in BOOLEAN
  /\ error \in Jobs \union {NoError}
  /\ executor \in ExecutorStates

Admitted == {j \in Jobs : prod[j] \in {"handoff", "attaching", "unplaced", "returned"}} \union granted
Held == Admitted \ retired
Running == {j \in Jobs : work[j] = "running"}

\* The counters say what the threads really hold: an input is charged from its
\* admission to its one retirement, a projection from its grant to its release, on
\* every path out (result, failure, cancellation, revocation, abort).
LedgerExact ==
  /\ pending = Cardinality(Held)
  /\ source = Total(SourceBytes, Held)
  /\ active = Cardinality(Running)
  /\ working = Total(WorkingBytes, Running)
  /\ waiting = Held \ granted

\* Retained inputs stay within the pending and byte limits; an input larger than the
\* byte limit is retained alone ("One job larger than a byte limit may run alone").
RetentionBounded == pending <= MaxPending /\ (source > MaxSource => pending = 1)

\* With a steady allowance, projections exceed it only as one oversized job alone.
WorkingBounded ==
  /\ active <= Workers
  /\ oversized => active = 1
  /\ Steady /\ working > MaxWorking => oversized

\* Both limits of the queue hold through every path on which an input or its working
\* bytes are given back, the oversized input that must be alone included.
LimitsHold == RetentionBounded /\ WorkingBounded

\* No endless stream of small inputs postpones an older large one: an input that was
\* admitted behind n waiting ones is overtaken by at most MaxBypasses * (n + 1) younger
\* ones before it is granted or retired, by MaxBypasses when it was the oldest ("Two
\* backfills overlap a blocked older job", lines 67-68).  Counted apart from the code's own
\* counter, over grants, retirements and revocations of any input in the queue.
OvertakingBounded == \A j \in Jobs : patience[j] >= 0

\* A submission that was revoked after executor.submit raised never projects, even
\* though its wrapper may still sit in the executor's queue and be started later.
RevokedNeverRuns == revoked \intersect granted = {} /\ revoked \subseteq retired

\* No thread sleeps through the event it waits for: a submitter with room (or with a
\* refusal due) is awake, and with a steady allowance, where no timeout is needed, so
\* is the waiter that fits.
NoLostWakeup ==
  /\ \A j \in Jobs : prod[j] = "submitting" /\ j \in parked =>
                       error = NoError /\ ~closed /\ ~HasRoom(j)
  /\ Steady => \A j \in parked : ~FittingWaiter(j, maxWorking)

\* Backpressure never becomes starvation: every input is submitted once, and in the end
\* each that was admitted is retired, no submitter is left blocked, and a shutdown has
\* brought every wrapper to its end, so that the join of the executor returns.
NobodyStarves ==
  <>[](/\ Held = {} /\ \A j \in Jobs : prod[j] # "submitting"
       /\ executor = "down" =>
            \A j \in Jobs : work[j] \in {"none", "resolved", "rejected", "cancelled"})

-----------------------------------------------------------------------------
(* Refinement of the abstract handoff. *)

\* The owner of an input, read from the flags; the guards exclude each other.
OwnerOf(j) == CASE j \notin Admitted \union retired -> "producer"
                [] j \in retired -> "gone"
                [] j \in Held \ granted -> "queue"
                [] j \in Held \intersect granted /\ work[j] = "running" -> "projector"
                [] j \in Held \intersect granted /\ work[j] # "running" -> "settling"

Handoff == INSTANCE OwnershipHandoff WITH
  owner <- [j \in Jobs |-> OwnerOf(j)], budget <- maxWorking

\* The counters, flags and tickets implement the abstract handoff, whose guards are
\* written over the sets of inputs themselves.
ImplementsHandoff == Handoff!Spec
=============================================================================
