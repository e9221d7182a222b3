# A verification project for XTA

XTA segments volumes with a 2D detector along many views (TTA), builds training
sets (PTA) and propagates masks with SAM sessions on GPUs (LTA). Around the
numeric kernels lies a good deal of scheduling: bounded queues between thread
pools, GPU sessions with leases and an ordered publication, an exchange of masks
between tiles that must run dry, buffers whose memory is booked before they exist,
parents that share lanes and a ledger of credit,
and an append-only archive that must survive crashes. This directory models that
part in TLA+, checks it with TLC and proves part of it with TLAPS. Everything is
translated from the code under `src/XTA`; `PROJECT.json` maps each definition to
the lines it stands for.

    tlc -workers 2 -config ProjectionQueue.cfg MCProjectionQueue.tla
    tlapm ProjectionQueueProofs.tla

## Inventory

**Component projection queue** (`projection_queue.py`). State: pending and
source-byte ledgers, waiting tickets with a bypass count, active projections
and working bytes, a working limit that may be probed from the OS, flags, the
executor; publications deferred outside the queue. Operations: `submit`,
`try_submit`, the wrapper `run`, retirement from three places, `abort`, `shutdown`;
`try_admit`, `cancel` and settlement of a deferred publication. Called by the
preparing threads and the scheduler loop of the TTA pipeline. Hard: two kinds of
waiters on one condition, a budget probed outside the lock, `submit` raising after
the executor queued the work, two threads that admit deferred publications one
after the other. Correct when the ledgers are exact, the limits hold, no input
waits for ever or is overtaken more often than its bypasses pay for, a revoked input
never runs, and a failing run leaves no future that holds its input.

**LTA view-affinity scheduler** (`lta_scheduler.py`). State: the plan, per-view
generations and seals, a queue per device, open dependencies, leases by slot,
results, a commit cursor, backprojection claims. Operations: register, seal,
claim (own queue or help), complete, fail, skip, claim/complete/fail a commit
batch, claim/complete/fail a backprojection. Hard: late answers of failed leases, a
plan sorted anew under a cursor, generations and backprojection gating each other.
Correct when each window is in one place, results are published once and in plan
order, generations follow one another, a device has one use at a time.

**LTA worker pool** (`lta_workers.py`). State: a task queue per process, one event
queue, the expected attempts. Operations: submit, poll for a result, skip or refuse
what is stale, liveness, shutdown, terminate. Hard: a dead worker whose answer is in
the queue, a timeout racing a late answer.

**LTA window coordinator** (`lta_window_execution.py`, `lta_execution.py`). One
loop that dispatches leases to processes, waits with a lease timeout, reduces
results, skips branches without seeds, publishes, opens relay generations, closes
the pool and projects the view. Correct when its own checks never fail, its books
agree with the scheduler's and the pool's, and it ends whatever the workers do.

**LTA relay frontier** (`lta_frontier.py`, `lta_frontier_execution.py`,
`lta_coverage.py`, `lta_relay_episodes.py`). State: mailboxes keyed by tile, frame
and direction with accumulated pixels, a leased wave, the coverage ledger, the
relays of the next generation. Hard: seeds that arrive while an older revision is
executed, a wave answered in any order, a loop of tiles that feed each other.
Correct when no pixel is forgotten, the waves do not depend on timing, and the
exchange settles.

**Native pull scheduler** (`native_pull_scheduling.py`). State: lanes with a
window of promises, a ready queue, permit and retention counters, the executor.
Operations: open a stream, resize, consume, close a stream, cancel, close. Hard:
consumers outside the lock, early closes that must join readers, fair shares
with lending, failing submissions. Correct when counters and windows hold, no
permit idles beside work, a stalled consumer harms nobody, cleanup returns.

**PTA batch pipeline** (`pta_batch_pipeline.py`) and the **publication task** that
nests two of them (`pta_gpu_publication.py`, `pta_workers.py`). State: ordered
batches, reservations, bytes, the first error, a flag that poisons the resources.
Operations: reserve, resize, submit, cancel, collect, close, the failure drain.
Hard: two queues one inside the other, a collector that changes, an oversized batch
that must be alone, an encoder that may fall back while its queue has failed. Correct when bytes are exact and bounded, the first error is
kept, nothing runs after the task and no failure is reported as a success.

**Detector workspaces** (`detector_workspaces.py`, `tta_background.py`). State:
speculative detector arrays built by one background thread, the memory credit of
each, records in order of request. Operations: request, drain (adopt, requalify),
failure, retirement behind live aliases, shutdown from anywhere. Correct when
credit is returned only after the arrays, and every request is answered.

**Artifact archive** (`artifact_archive.py`). State: a TAR file, its durable
image, the writer lock, lent snapshots. Operations: append a transaction, scan,
read. Hard: exceptions, process death and power loss at every write. Correct when
readers see whole transactions, acknowledged ones stay, and an interrupted
append hides nothing.

**SAM parent admission** (`sam_resources.py`, `sam_parent_staging.py`,
`sam_retry_groups.py`, the byte pool in `interpolation.py`). State: one ledger of
transient bytes with leases, holds, protections and an oversize flag; a queue of
deferred parents with lanes and dense room. Operations: protect, admit, borrow a
bank, lend to a retry group, settle in any order; defer, checkpoint, pump, restore,
reclaim dense room, abort. Hard: a lane is held while credit is awaited, credit is
kept for parents that wait for a lane, a probe between two locked sections. Correct
when the ledger is exact, protections are kept, and every parent is prepared.

**Not modelled**, with the reasons in `PROJECT.json`: view preparation leases
(`view_prepare.py`), the TTA loop as a whole, its terminal and lifecycle, YOLO CPU
input, PTA planning, publication memory, run transport, caches, SAM device pools and
image prefetch, confidence evidence, reconciliation, the numeric kernels, the command
line, the native codecs and tools.

They interact by calls. The TTA pipeline feeds the projection queue, whose
projections may pull planes through the native pull scheduler; its loop adopts
detector workspaces and pumps the queue of SAM parents, whose retry groups borrow
from the credit of the parent they run in. The coordinator owns the LTA scheduler, the worker pool and
the frontier. A GPU consumer of PTA is at once consumer of one batch queue and
producer of another. Every mode publishes through JSON documents and the archive.

## Modules

| module | models |
|---|---|
| `ProjectionQueue` | the queue: `prod` and `work` are the two threads of an input, an action is one section under the condition or one step outside it, `parked` the threads inside `Condition.wait` |
| `OwnershipHandoff` | what it promises: an accepted input has one owner until it is settled once |
| `DeferredProjection` | extends the queue by its callers: the flush of a view's publications, the deferred ones, the scheduler loop, other views' blocking submits, and the teardown with its order of cancel, abort, join, shutdown |
| `LtaScheduler` | one action per call of the class; a lease is a record with a `token`, because the code compares claims by identity |
| `OrderedPublication` | what it promises: work settled once, published once in plan order, closed views complete |
| `LtaOwners` | `assign_view_owners`, a recursive function; gives the instances their owners |
| `LtaWorkerPool` | the pool and its child processes, one action per call of the parent or step of a child |
| `LtaCoordinator` | extends the scheduler, instantiates the pool: the coordinator is one thread whose place is `at`; an exception sets `outcome` and goes to the shutdown |
| `CanonicalFrontier` | the frontier's data as pure functions: windows and slabs, mailboxes, waves, tracking, coverage, handoff, continuations, relays |
| `RelayFrontier` | the driver: generations, waves, sessions on slots, the barrier |
| `RelayWaves` | what it promises: one deterministic step per wave |
| `NativePullScheduler` | the pool under its lock is one record, a critical section a function of it (the dispatch that ends it included); a consumer has a program counter |
| `BatchPipeline` | the books of one ordered queue, a function per section between two waits |
| `PublicationTask` | two such queues, the task thread, the GPU consumer and the host thread; a call of a queue is a record with a program counter |
| `DetectorWorkspaces` | the main thread, the background worker, live aliases, and a shutdown that is a sequence of steps |
| `SamParentCredit` | the ledger: one action per section under its condition; `Waits` is the decision of the waiting loop, the probe's answer a parameter |
| `SamParentStaging` | extends it by the queue and the life of a parent, `place`, from its arrival to its retirement |
| `ArtifactArchive` | the file as a sequence of blocks, `_scan` as one pass over them, an append as a plan of block writes and fsyncs taken one at a time |
| `Totals` | the sum of a function over a finite set, written so that it can be proved about |
| `DataProofs`, `ProjectionQueueProofs`, `NativePullProofs`, `PublicationProofs`, `LtaCoordinatorProofs`, `CustodyProofs`, `SamParentProofs`, `RelayFrontierProofs` | theorems |
| `MC...` | instances for TLC |

Correspondence of the less obvious points.

*Queue*: `granted`, `revoked`, `retired` are the flags of the closures, as sets;
`work = "queued"` while the executor holds the wrapper, which is also possible
after `submit` raised; the oldest ticket is the one with nothing `ahead`.
*Deferred publications*: `child` is the future a view waits for, `prod` and `work`
the queue's side of the same job; a preparation that is running when the teardown
makes its cancellation pass is watched by a callback instead.

*LTA*: a window is its plan order; `waiting` is `_waiting_dependencies` and its
inverse `_dependency_children`. Calls that raise change nothing and are not
actions; the late `complete` or `fail` of a dead lease is tried in every state and
must be disabled. In the coordinator these calls have a caller: `Verdict` lists
the checks it makes on an answer, in their order, and each has an outcome.

*Frontier*: a mask is a set of pixels and the tracker is a choice, `flow`, fixed for
the run: what follows from a mask in the next frame. Continuations are in the same
tile and enter the mailboxes at the barrier; relays go to the neighbours and wait for
the next generation.

*Native pull*: `sleeping` are the closers not notified yet. *Batch pipeline*: a
batch of the outer queue is `<<b>>`, of the inner one `<<b, k>>`. *Detector
workspaces*: `credit` is the dense-memory lease, `current` the set of plans that
know every RAM promise made so far. *SAM parents*: a lane is held in the places
`restoring`, `asking` and `working`; `holds` counts who borrows from a lease (`bank`
says which of producer and scheduler hold the tracker scope, `request` where a retry
group is). A wait for credit with its timeout is the state in which `Admit` is not
enabled. *Archive*: `platter` holds the contents a power
loss may leave, every content since the last fsync; `lent` is the snapshot the
writer lends to readers of its process.

## Runs

| run | instance and question |
|---|---|
| `queue` | a job larger than the source limit, one larger than the working limit and an ordinary one, two threads, failures, refusals of the executor, abort and shutdown at any point, probes that fail, time-outs, an allowance that stays the same; besides, the second of these among four ordinary ones without a fault, three pending at a time: ledgers and limits, no lost wake-up, no revoked input running, bounded overtaking, the handoff contract as a refinement |
| `deferred_projection` | a view that flushes a heavy and a light publication, a wide layer submitted by another view, a budget of 2 or 8 that changes under the probes, any failure and the teardown: one owner in component order, nothing starves, nothing stays held |
| `lta_relay` | two views on two devices, a window with two parents, helpers, a generation registered while the run goes on, one failure of any kind, late answers, skips: generations, counters, one use per device, late answers refused, `OrderedPublication` |
| `lta_coordinator` | the loop, the scheduler and three worker processes over a branching chain, an independent window and a relay generation; workers fail, hang and die, leases end: the coordinator's own checks, the three books, seeds, devices free for the projection, the end of the run |
| `relay_frontier` | three tiles in a row, three kinds of tracker per tile, two slots: no pixel forgotten, coverage closed under the overlaps, attempts that grow, `RelayWaves`, settlement |
| `workspaces` | three groups, one RAM promise, every failure and shutdown point: credit covers arrays, shutdown settles, requests are answered |
| `native_pull` | two streams and two resizable permits, one stream wider than its fair share, failing planes, one refusal of the executor, clean or after it queued the task, early closes, cancel and close at any point; only one consumer is willing: permits and retention, no idle permit, fair shares, clean closes, the stream of the willing consumer ends |
| `publication_task` | four GPU batches and five host batches, oversized and late-sized ones, an encoder that is required, may fall back or is absent, up to three failures of any kind: budgets, first error, joined consumers, a true outcome, no deadlock of the nested queues |
| `archive` | three appends over two names of one and two blocks, any two faults: atomic exposure, what callers were told is what readers see, bytes in readers' hands never change |
| `archive_torn_twice` | *violation*: a second interrupted append runs into the first one's tail |
| `sam_parents` | two expensive parents and a cheap one on three lanes, one of them and a tile above the whole capacity, a retry group, a codec reservation, errors of their own, a stop at any point: an exact ledger, kept protections, every parent prepared unless it failed by itself or was stopped |
| `sam_lanes_full` | *violation*: expensive parents in every lane and a cheap one that arrives then wait for each other |

Four more configurations are for readers and are no runs: `NativePullRefused.cfg`,
`ArtifactArchiveLink.cfg`, `PublicationInterrupted.cfg` and
`DetectorWorkspacesCancelled.cfg`, see below.

**Bounds.** The queue needs one oversized input of each kind and one ordinary one
to meet every branch of its limits. Overtaking takes more: a bypass needs one input
that runs and two that wait, so that `MaxPending` is 3 in `queue`, and a third bypass
of the same input would need four light ones. The constraint `FewOrFlawless` keeps
this affordable: three inputs through everything, or all but `wide` without a fault
and from one producer. In `deferred_projection` two are pending, so that the third
always finds the queue full once, and budgets of 2 and 8 put the heavy input on either
side of the allowance. In `lta_relay` one failure (`MaxFailures`) gives one dead lease and one
new one for the same window, the smallest case of a late answer. `lta_coordinator`
has three devices, so that one can help while another has died, and `MaxFailures`
2: production gives a run up after the first failed session, so that the second
failure is the one of the publication or projection behind it. `RelayFrontier`
has five frames in slabs of two, so that there are terminal and inner boundaries in
both directions, and a middle tile with two neighbours; runs of seven and more
generations occur, and `MaxGenerations` is the code's own bound (twice frames times
tiles, 30), which is never reached. `WaveLimit` 3 cuts a slab into several waves.
`NativePull` gives one lane four planes in a window of two, so that results
stay unconsumed while the window moves, and two lanes on two permits, so that a
share is one permit and the wide lane must borrow. The publication task has a
capacity of two, an oversized batch in either queue, and three failures, enough for
an error in each queue and one in the drain. Three detector groups put one in the
worker, one in its queue and one waiting for adoption. In the archive two faults
are the smallest number that leave an old tail and then stop short inside it,
payloads of one and two blocks let a short transaction end inside a longer one, and
the third append reads what the first two left. `sam_parents` has two expensive
parents and three lanes: they compete for credit while a lane stays for the cheap one;
with as many of them as lanes there is the deadlock of `sam_lanes_full`. One of them
and the tile are larger than the capacity until dense room is reclaimed, and the
probe's answers 5, 14 and 40 deny a parent alone, deny only its extra, and deny
nothing. `Scopes` bounds the tracker scopes of a lease. `MaxRefusals`, `MaxFaults`,
`MaxFailures`, `MaxInterrupts`, `MaxPromises`, `Scopes` and `Calls` are the only
counters that are cut.

**Fairness.** *Deferred projection*: each submitting thread, each executor thread,
the preparing thread, the callbacks, the loop (its wait ends with every heartbeat),
the teardown and, once begun, the executor's shutdown are weakly fair; nothing has
to be submitted and nothing has to fail. *Coordinator*: its thread is weakly fair; a
lease that is looked at again and again ends (strong fairness, since each poll in
between disables the action), and a worker that does not leave is terminated, as the
code does after its timeout; nothing is asked of the workers. *Frontier*: the driver
is one loop, and a wait ends in a result or an error, which the coordinator's lease
timeout justifies. *Workspaces*: the main loop drains, the worker works, and a failed
record ends the loop. *Publication task*: its three threads. *Native pull*:
operations that were accepted return, *willing* consumers go on and a closing run joins
its executor; nothing is asked of tasks that were refused (there may be no thread for
them), of the other consumers, of cancel, resize and close. *SAM parents*: one weak
fairness for everything that goes on by itself (executor lanes, the pump at each turn
of the loop, settlements, waits that are woken or time out); nothing has to arrive, to
borrow, to be revoked, reclaimed or stopped, and above all nothing has to fail: a parent
that could go on only by its own error (`Fail`) counts as stuck, and it is withdrawn
only after a stop. A checkpoint of regular files is written by a thread of the
preparation executor (`sam_parent_staging.py:1277`), so that it is sure to end only while
a lane is free. The probe of physical memory answers
any of `Headrooms` each time; when nothing else can happen a waiting parent is
assumed to meet, in the end, an answer that lets it go on, since it probes at every
time-out and no memory is held by anyone then. As a single fairness condition it never promises one thread anything while others are
busy; what is bounded here ends, which is enough. Schedulers alone
(`lta_relay`) and the archive have no liveness property.

**Deadlock** is checked in `lta_coordinator`, `relay_frontier` and
`publication_task`, whose specifications stutter only where they have ended. The
other systems really stop anywhere their callers do (shut down, all appends made);
what must not stop there is stated as `NoLostWakeup`, `NoStrandedWork` and the
liveness properties.

## What the violations show

* `sam_lanes_full`. Cheap parents get up to `min(2, workers - 1)` selected slots,
  whether or not a lane is free, and every selected one protects its credit. When
  expensive parents hold all lanes, as `test_no_cpu_backlog_uses_all_parent_lanes`
  shows they may, and still wait for credit, a cheap parent that arrives takes away
  the extra they wait for (`extra_blocked` with others' protections), and gets no
  lane. Nothing is in use and nobody goes on. Driving the unchanged classes into
  this order shows the same; an error or the stop of the run ends it.
* `archive_torn_twice`. The file is never truncated, so an append that raised or
  died leaves its blocks. If a later append dies between its members and its
  COMMIT, the scan runs into the old blocks and raises `ArchiveError` for the whole
  file, where the documents say that committed transactions stay readable. Running
  the class with these two faults shows the same error. `ExposureIsAtomic` includes
  that one fault alone is harmless.

Disagreements without a run, each with a configuration where there is one:

* `NativePullRefused.cfg`: `ThreadPoolExecutor.submit` queues the task before it
  starts a thread. If the start fails, `_dispatch_locked` returns the permit and fails
  the promise, yet the task may run: `_run` decrements the counters again and
  `set_exception`/`set_result` raises before the dispatch and the notification.
  `lane.running` becomes -1 and `_close_lane` waits for ever, or, while another plane of
  the stream runs, sees 0 and releases the storage under its reader, where the comment at
  `native_pull_scheduling.py:217` says "Submission failure owns no running reader."
  `projection_queue.py` handles the same case. TLC finds `RefusalOwnsNoReader`, which is
  that comment, violated; running the class with a failing `Thread.start` shows the same
  hang. The run `native_pull` has this refusal too: `strays` counts the refused tasks that
  ran, and its properties say what then still holds. The retention stays exact, permits are short
  by that number, no permit idles beside work, streams without such a task still end.
* `ArtifactArchiveLink.cfg`: only the append that creates the file fsyncs its
  directory, after its COMMIT. If that append fails, no later one does. This bites
  only on file systems where fsync of a new file does not make its name durable
  (`DirectoryMayForget`). TLC finds `AcknowledgedIsKept` violated.
* `PublicationInterrupted.cfg`: a `KeyboardInterrupt` inside the wait for the oldest
  batch (`pta_batch_pipeline.py:249`) is remembered like the batch's own error and the
  batch is popped while its consumer still runs; the comment at lines 87-91 says that
  the queue owns it until then. TLC finds `TaskJoined` violated.
* `DetectorWorkspacesCancelled.cfg`: arrays sent back for another qualification sit in
  the worker's queue; a shutdown that cancels the item there returns their credit and
  nobody closes them, where the comment at `detector_workspaces.py:96` says "Keep the
  same arrays and charge." TLC finds `ArraysKeepTheirCharge` violated; the run
  `workspaces` checks `CreditCoversArrays`, which excepts this one case.
* The codec mode "auto" of `_write_gpu_image_batch` (`pta_workers.py:1273-1282`) takes
  every exception of its block for a failure of the encoder, also the first error of the
  host queue, which `reserve_host` raises. The consumer falls back to OpenCV, the GPU
  batch succeeds, and the close of the host queue, which is closed by then, returns
  without its error (`pta_batch_pipeline.py:287`): the task reports success although a
  host batch was not published. `OutcomeIsTrue` excepts just this case; without the
  exception TLC finds it. The program never sets this mode (`pta_config.py:535` knows
  "nvjpeg" and "opencv"), and no test combines it with a publication task.
* `pta_batch_pipeline.py:187` calls an executor that may queue and then raise, and
  takes it that no transfer occurred, like the native pull scheduler; its executors have one
  thread that is started early, so that the model lets the refusal be clean.

## What is proved

Eight modules hold theorems, for every value of the constants that satisfies the
named assumptions. Each state invariant below is proved from an inductive one, that TLC
also checked on the instance of the corresponding run before it was proved.
`DataProofs` holds what they have in common: that the sum over a finite set (`Totals`)
exists and is unique, shown by a minimal counterexample because the prover has no
induction over data, how it changes with its set, least and greatest elements of finite
sets, and what appending, taking the tail and removing a position do to sequences
without repetition.

`ProjectionQueueProofs` (`QueueAssumption`, `NoErrorAssumption`: any finite set of jobs,
sizes, limits, workers, budgets): `TypeOK`, `LedgerExact`, `LimitsHold`
(`RetentionBounded` and `WorkingBounded`), `RevokedNeverRuns`,
`OvertakingBounded`, `NoLostWakeup` and `ImplementsHandoff`. The invariant `IInv` adds which phases of the two threads go
together with which flags (`Phases`), that tickets are totally ordered by `ahead`,
only the oldest was ever overtaken and an input that does not wait has nothing ahead
(`Order`), that the limit is the constructor's while no other budget is ever probed
(`SteadyLimit`), and the counters as sums. Overtaking is counted by a history
variable of its own, `patience`: an input that starts to wait behind n others gets
`MaxBypasses * (n + 1)`, and loses one when a younger one is granted before it. That it
never runs out is inductive only together with the code's counter: the patience of an
input and the bypasses the oldest one has suffered are enough for everything ahead of it
and itself. For the wakeups `WInv` adds who may be parked. The refinement shows, step by step, that one input changes hands in a way
`OwnershipHandoff` allows, or none does.

The last part of that module is about `DeferredProjection`: every step of the view's
flush, the loop and the teardown is a step of the queue (`DeferralUsesTheQueue`), so that
all of the above holds there too, and `OneOwnerInOrder`. `DInv` adds what a future's
state says about its job in the queue, and that the publications which entered the queue
are a prefix (`Line`), which needs that a later one is not admitted while an earlier one
is deferred.

`LtaCoordinatorProofs`, about the scheduler alone (`WorkAssumption`, `ConstructorAssumption`, `ResultAssumption`: any
plans, dependency graphs, devices, generations and failures): `OnePlaceOneUse`,
`GenerationsInOrder`, `LateAnswersAreRefused`, and the refinement of
`OrderedPublication`. Here `IInv` ties the dependency index to the results (`PlanSound`),
says that all earlier generations of an opened window are sealed (`Opened`, without
which work of an earlier generation could still be registered), that leases have fresh
tokens, and that what is published is a prefix of the plan with the cursor as its length
(`Frontier`): registration sorts behind everything planned, hence never shifts it.

The same module, about the coordinator (in addition `CoordinatorAssumption`: chains of windows within a
generation, planned windows of generation 0 at the start, one view): the coordinator's
runs are runs of the scheduler (`CoordinatorUsesTheScheduler`), so that every scheduler
theorem holds in it, `BooksAreSound`, `SeedsDecide` and `DevicesAreFreeForProjection`.
`CInv` adds to `IInv` where each task travels (`Carried`), that a queued window
has a seed or is about to be skipped (`Seeds`), that settled windows were reduced
(`Reductions`) and that generations before the current one are published (`Planned`).
That the loop cannot stall is the hardest part: the least unpublished window has no
open dependency, so that it is leased, or to be published, or can be claimed.

`CustodyProofs` is about the two components that keep something for others. On the
workspaces (any groups and promises): `CreditCoversArrays` and `ShutdownSettles`. `IInv`
says for each group at which station of its way it is, what its credit stands for there,
and which records the shutdown still waits for.

On the archive (`BlocksAssumption`, `CallsAssumption`, `FaultsAssumption`: any names with
any number of blocks, any number of calls and faults): `ExposureIsAtomic` on any disk of
the model, and `CallersAreToldTheTruth` and the action property `LentBytesNeverChange`
where power loss does not forget the name of a new file (`~DirectoryMayForget`, as in the
run; `ArtifactArchiveLink.cfg` shows what goes wrong otherwise). The invariant `Custody` says
that there is a plan for every append that has begun: where it starts, its blocks and its
steps. The file, and every content a power loss may leave, is a patchwork of blocks of
these plans (`Image`): each block lies in its place (`Faithful`); a later append starts no
earlier in the file (`Layered`) and where the walk is between two transactions
(`Rooted`); a transaction whose first block is there is whole up to its last block there
(`Whole`); an undone one has lost its first block (`Undone`) and an acknowledged one is
committed (`Kept`). The writer is at some step of its plan, or of the undo, and the
contents hold what that step implies (`Working`). Three arguments carry the proof. A walk
over any such content reads whole transactions or stops (`Readings`): data blocks left
over from an earlier, longer append are never taken for members of a later one, because
the walk refuses a header or a COMMIT of another transaction than the pending one. A write behind the committed prefix
keeps the content an image (`ImageWritten`). And what lies behind the prefix is calm until
the first fault (`Calm`: blocks of the open append, then nothing but zeros), so that the
walk meets no corruption. TLC checked this invariant with the plans as a history variable.

`SamParentProofs` (`CreditAssumption`, `StagingAssumption`; any parents, retry groups,
callers, sizes and capacities, about the whole specification of `SamParentStaging`):
`CreditIsExact` and the action property `ProtectionIsKept`. The ledger is exact only
together with what each holder of a lease may still give back (`Holdings`, `Callbacks`,
`Banks`).

`PublicationProofs` (`CapacityAssumption`, `WorkAssumption`, `LimitAssumption`: any
batches with natural sizes, limits, a positive capacity, any number of failures; the
code raises on negative bytes and on limits below one): `BooksExact`, `TaskJoined` and
`OutcomeIsTrue`.
One lemma per operation of `BatchPipeline` shows that it keeps the books of one queue
(`Sound`). That a step only meets queues on which these operations are allowed needs
the rest: a batch that is reserved is new to its queue, for the GPU queue because its
producer counts up, for the host queue because its consumer does and all host batches
still waiting belong to answered batches or to the one in its hands (`Contents`); who
holds which reservation at which point of a call (`TaskCalls`, `ConsumerCalls`); and that
whoever closes a queue empties it (`Closings`). The last one gives the task thread the
host queue: it closes that queue after the GPU queue, which is then empty, so that the
consumer has nothing in hand and is in no call (`Endings`).

For the outcome `OInv` adds that batches enter and leave each queue in their order, that
its error is the first of them that was not done and that the results counted are those
of the batches collected (`InOrder`); that what was submitted is what lies below the
cursor of its producer (`Produced`, `Consumed`: a GPU batch that is done has submitted
all its host batches); and what a task that has not failed knows when it closes
(`Ends`). The last is the point of the proof: a `close` that finds its queue already
closed returns without looking at its error. That hides nothing, because the GPU queue is
open when a task without a failure closes it, and a host queue closed before its time was
closed by a consumer whose GPU batch fails for it (`Broken`), which the task learns from
the GPU queue, or whose encoder fell back over it (`Fallen`), which the theorem excepts
for the host batches.

`NativePullProofs` (any finite set of lanes, any planes, windows, workers, failures,
resizes and closes, and any number of refusals of either kind): `CreditsExact`, `NoStrandedWork`, `FairShareFirst` and
`ClosingIsClean`. Because a critical section is a function of the pool, each function
has a lemma that says which books it keeps (`Books`, `Queued`, `Closings`) and what it
leaves alone. A dispatch grants one plane after the other until none fits; that it ends
with nothing left to grant (`Busy`) is shown with the least number of pending planes for
which it would not. Fair shares need more than the state between two sections: within a
dispatch a lane is taken above its share only in a pass that found no lane below
(`Turned`), and shares do not change while permits are granted. The consumers, who read
the pool outside the lock, keep their place in the window (`InWindow`): the planes with
a promise are those from the next one expected to the last one filled, and the previous
one until it is given up.

`RelayFrontierProofs` (`FrontierAssumption`: the frames, the limits and the rank of a
mailbox are naturals; `OriginsAssumption`: seeds lie inside the windows; any tiles,
overlaps and slots, and any tracker: masks are sets, and nothing is assumed of what
`flow` does with them): `CoverageIsComplete`, `AttemptsGrow` and the refinement of
`RelayWaves`. The invariant `IInv` says what each stage leaves empty (`Stages`), that a
leased mailbox keeps the pixels it was leased with (`Leases`), that what was executed
lies in its mailbox and is covered once answered, and differs from what a dirty mailbox
waits with (`Executions`), and, for a frontier that has not settled yet, that where the
coverage of a tile becomes visible to a neighbour the neighbour's mailbox knows of it,
or is about to: from its mask, the seeds on their way to it, what the wave has emitted
or what an answered session will emit (`Relayed`). That a settled frontier is closed
follows when the last three are empty and no mailbox is dirty. The recursion of a
tracked session is a function over the frames whose existence is shown by a least
counterexample (`Course`), and so is the fact that a wave exists while a mailbox is
dirty. In the refinement a wave is over in `RelayWaves` the moment it is leased; what
remains to be shown is that the answers, in any order, add up to the coverage and
relays that this step had decided.

**Only model-checked.** Liveness and everything that needs ENABLED is out of the
prover's reach; `Settles` of the frontier is among it. What a
recursive function computes for every input (the owner
assignment, a tracked session) would need induction, which the prover cannot do here;
where a theorem needs one (`Course`, the dispatch loop, the walk of `_scan` over the
contents that can arise) a least counterexample gives what is needed and no more.
`AcknowledgedIsKept` on a disk that forgets names and the other configurations without a
run are refuted by TLC, as described above.

## What the models leave out

* Queue: its statistics and `prepared_view_waitables`, which read.
* LTA scheduler: `admit_spatial_relay`, a set of keys seen; stale commit and
  backprojection claims, refused like stale leases. The constructor also accepts
  static plans whose generations do not follow the plan order within a view; such a
  plan would stall, production passes generation 0 only, and the instances are
  monotone. Production aborts the run after a failed session or publication; the
  retries the class offers are modelled.
* Pool and coordinator: the staggered startup and its timeouts, planning and payloads
  (whether evidence verifies is a choice), audits, the older whole-chain path.
* Frontier: one lineage (lineages share only sessions), hole filling, minimum sizes,
  the SQLite files and the validation of artifacts; the prediction on the prompt frame
  is the prompt.
* Native pull: the module-level registration, peaks, a second thread in `close`.
* Workspaces: shutdowns nested in a cancellation callback, `BackgroundDrainBudget`,
  whose rotation is decided by a clock.
* SAM parents: the image staging pool and what parents lend it, startup credit, the
  codec reservation that only tries, mask packing, parents with a bounded dense size;
  the order in which candidates are probed (any order, so that progress does not
  depend on it); detector shadows that are deferred without a checkpoint. A checkpoint
  never fails; a restore or an unsupported request that fails (`Fail`) ends its parent,
  and the run, which stops in the code, may go on here. Capacity never shrinks, so that no protection is dropped.
* Archive: the index cache keyed by file times, taken as exact; name conflicts;
  extension headers; payloads that look like TAR blocks or are all zero. Writes reach
  the disk in order; storage that reorders the writes between two fsyncs is
  not modelled.
* All other components of the inventory. Most of the repository's lines are numeric
  kernels, geometry, codecs, option parsing and tests, where a state machine has
  nothing to say; the map covers the concurrent core.

## Plan

1. `ViewLeases`: byte ledgers against the phases of a view's lease, retirement once
   per input, receipts in any order.
2. The image staging pool on top of `SamParentCredit`, and the SAM device pools.
