---------------------------- MODULE LtaCoordinator ----------------------------
(***************************************************************************)
(* One LTA execution: the loop of _drive_windows_with_coverage             *)
(* (src/XTA/lta_window_execution.py) between the scheduler and the worker  *)
(* pool, the shutdown of the pool and the projection that follows it       *)
(* (src/XTA/lta_execution.py).                                             *)
(*                                                                         *)
(* The coordinator is one thread; the workers run beside it.  It stops at  *)
(* the first exception, so `outcome` is set once: "finished", the fault it *)
(* met, or the assertion of its own that failed.                           *)
(*                                                                         *)
(* Windows form chains: each has at most one predecessor, whose result     *)
(* holds the seeds it starts from, or shows that there are none.           *)
(***************************************************************************)
EXTENDS LtaScheduler, FiniteSetsExt

CONSTANTS Nothing, Stop

\* What _plan_window_tasks and the execution give the scheduler: chains of windows within
\* one generation, the first of them planned before the run, and one view_key.
ASSUME CoordinatorAssumption ==
  /\ \A w \in Work : \A d, e \in Deps[w] : d = e /\ Generation[d] = Generation[w]
  /\ \A w \in Initial : Generation[w] = 0
  /\ \E v \in Views : Views = {v}
  /\ Devices \subseteq Nat
  /\ HeadOrder /\ AllowTailAssist /\ MaxFailures > 0
  /\ Nothing \notin Leases /\ Stop \notin Leases \union {Nothing}

VARIABLES
  inbox, running, alive, answers, expected,   \* LtaWorkerPool
  at,            \* where the coordinator is
  turn,          \* slots already offered work by _dispatch_available
  offer,         \* the claim it is about to submit
  book,          \* the values of its own `active`
  reduced,       \* reduced_work_ids
  seeded,        \* windows whose payload names a seed artifact
  branches,      \* windows skip_branch has still to skip
  generation,
  forced,        \* slots the shutdown terminated
  outcome

Pool == INSTANCE LtaWorkerPool WITH PoolSlots <- Slots

pool == <<inbox, running, alive, answers, expected>>
hands == <<offer, book, reduced, seeded, branches, generation, forced>>
own == <<at, turn, hands, outcome>>
all == <<vars, pool, own>>

View1 == CHOOSE v \in Views : TRUE
Offspring(w) == {c \in registered : w \in Deps[c]}     \* children[w]

CoordinatorInit ==
  /\ Init /\ Pool!PoolInit
  /\ at = "open" /\ turn = 0
  /\ offer = Nothing /\ book = {} /\ reduced = {} /\ branches = {}
  /\ seeded = {w \in Initial : Deps[w] = {}}
  /\ generation = 0 /\ forced = {} /\ outcome = "running"

\* Any exception leaves the loop and shuts the pool down.
Raise(why) == at' = "shutdown" /\ outcome' = why
GoOn(place) == at' = place /\ UNCHANGED outcome

MarkReady ==
  /\ at = "open"
  /\ MarkProjectionReady(View1)
  /\ GoOn("dispatch") /\ UNCHANGED <<pool, turn, hands>>
-----------------------------------------------------------------------------
(* _dispatch_available, at the head of the loop and again after a result.  *)

DeviceRank(d) == Cardinality({e \in Devices : e < d})
TurnOf(s) == s.index * Cardinality(Devices) + DeviceRank(s.device) + 1
Booked == {c.slot : c \in book}

Servable(s) ==
  /\ Free(s)
  /\ \/ OwnPositions(s.device) # {}
     \/ queue[s.device] = <<>> /\ \E o \in Devices \ {s.device} : HelpPositions(o) # {}

\* Slots of the rest of this pass for which the scheduler has a claim.
OnOffer == {s \in Slots : TurnOf(s) > turn /\ s \notin Booked /\ Servable(s)}

ClaimNext ==
  /\ at \in {"dispatch", "redispatch"} /\ offer = Nothing
  /\ \E s \in OnOffer :
       /\ \A r \in OnOffer : TurnOf(s) <= TurnOf(r)
       /\ Claim(s)
       /\ turn' = TurnOf(s)
       /\ offer' = CHOOSE c \in active' : c \notin active
  /\ UNCHANGED <<pool, at, book, reduced, seeded, branches, generation, forced, outcome>>

SubmitOffer ==
  /\ offer # Nothing /\ Pool!Submit(offer)
  /\ book' = book \union {offer} /\ offer' = Nothing
  /\ UNCHANGED <<vars, at, turn, reduced, seeded, branches, generation, forced, outcome>>

\* submit finds a dead worker: the claim is given back before the exception goes on.
SubmitRaises ==
  /\ offer # Nothing /\ ~Pool!AllAlive
  /\ Fail(offer, TRUE)
  /\ offer' = Nothing
  /\ Raise("died")
  /\ UNCHANGED <<pool, turn, book, reduced, seeded, branches, generation, forced>>

Dispatched ==
  /\ at \in {"dispatch", "redispatch"} /\ offer = Nothing /\ OnOffer = {}
  /\ turn' = 0
  /\ GoOn(IF at = "dispatch" /\ book # {} THEN "wait" ELSE "commit")
  /\ UNCHANGED <<vars, pool, hands>>
-----------------------------------------------------------------------------
(* Waiting for one result.                                                 *)

\* The lease of the oldest task is over: looked at before and after the poll,
\* whatever the event queue holds.
LeaseRenewed ==              \* mutant: every look at a lease starts it again
  /\ at = "wait" /\ book = {}
  /\ Raise("lease")
  /\ UNCHANGED <<vars, pool, turn, hands>>
LeaseEnds ==
  /\ at = "wait"
  /\ Raise("lease")
  /\ UNCHANGED <<vars, pool, turn, hands>>

\* No event within the poll: the loop begins again.
PollAgain ==
  /\ at = "wait" /\ answers = <<>> /\ Pool!AllAlive
  /\ GoOn("dispatch") /\ UNCHANGED <<vars, pool, turn, hands>>

\* wait_result finds a dead worker behind the empty queue.
WorkerDied ==
  /\ at = "wait" /\ answers = <<>> /\ ~Pool!AllAlive
  /\ Raise("died") /\ UNCHANGED <<vars, pool, turn, hands>>

\* What an answer that is not reduced stops the run with.
Claimed(event) == {c \in book : c.work = event.task.work}
Verdict(event) ==
  IF event.kind = "error" THEN "worker error"
  ELSE IF ~Pool!Accepted(event) THEN "stale result"
  ELSE IF Claimed(event) = {} THEN "unclaimed"
  ELSE IF \E c \in Claimed(event) : c.slot # event.slot THEN "mismatched"
  ELSE IF ~(Claimed(event) \subseteq active) THEN "refused"
  ELSE "reduced"

AnswerRaises ==
  /\ at = "wait" /\ Pool!Discard
  /\ LET event == Head(answers) IN
       IF Pool!Stale(event) THEN GoOn("wait")
       ELSE Verdict(event) # "reduced" /\ Raise(Verdict(event))
  /\ UNCHANGED <<vars, turn, hands>>

Answered(c) ==
  Pool!Receive /\ Verdict(Head(answers)) = "reduced" /\ c \in Claimed(Head(answers))

\* Reducing the result of c fails: its evidence does not verify.
ReductionFails(c) ==
  /\ at = "wait" /\ Answered(c)
  /\ book' = book \ {c}
  /\ Raise("evidence")
  /\ UNCHANGED <<vars, turn, offer, reduced, seeded, branches, generation, forced>>

\* mutant: the children are left to the scheduler
KeepingAll(c, given) == {}
KeepingOnly(c, given) == Offspring(c.work) \ given

\* The result is reduced and accepted; `given` are the children it leaves a seed for
\* that is not covered already.
Reduce(c, given) ==
  /\ at = "wait" /\ Answered(c)
  /\ Complete(c)
  /\ book' = book \ {c}
  /\ reduced' = reduced \union {c.work}
  /\ seeded' = seeded \union given
  /\ branches' = KeepingOnly(c, given)
  /\ GoOn("skip") /\ UNCHANGED <<turn, offer, generation, forced>>

\* skip_branch: the window and everything behind it.
Behind(w) == Offspring(w)
SkipBranch ==
  /\ at = "skip" /\ branches # {}
  /\ LET w == Min(branches) IN
       IF w \in Queued /\ GenerationReady(w)
         THEN Skip(w) /\ branches' = (branches \ {w}) \union Behind(w) /\ UNCHANGED <<at, outcome>>
         ELSE Raise("refused") /\ UNCHANGED <<vars, branches>>
  /\ UNCHANGED <<pool, turn, offer, book, reduced, seeded, generation, forced>>

Skipping ==
  /\ at = "skip" /\ branches = {}
  /\ GoOn("redispatch") /\ UNCHANGED <<vars, pool, turn, hands>>
-----------------------------------------------------------------------------
(* Publication and the end of a generation.                                *)

StartCommit ==
  /\ at = "commit" /\ ClaimCommittable
  /\ UNCHANGED <<pool, own>>

Unreduced == {w \in batch : result[w] # Skipped} \ reduced

Commit ==
  /\ at = "commit" /\ Unreduced = {} /\ CompleteCommit
  /\ reduced' = reduced \ batch
  /\ UNCHANGED <<pool, at, turn, offer, book, seeded, branches, generation, forced, outcome>>

\* A manifest does not verify, or a window was never reduced.
CommitRaises ==
  /\ at = "commit" /\ FailCommit
  /\ Raise(IF Unreduced = {} THEN "evidence" ELSE "unreduced")
  /\ UNCHANGED <<pool, turn, hands>>

Published == at = "commit" /\ batch = {} /\ ReadyPrefix = {}
ReadyCount == Cardinality(UNION {{queue[d][i] : i \in OwnPositions(d)} : d \in Devices})

Unsettled ==
  /\ Published /\ ~Settled(View1, generation)
  /\ IF book # {} \/ (Pool!AllAlive /\ ReadyCount > 0) THEN GoOn("dispatch")
     ELSE Raise(IF Pool!AllAlive THEN "stalled" ELSE "died")
  /\ UNCHANGED <<vars, pool, turn, hands>>

\* continue_relays plans another generation, finds none, or fails.
NextGeneration ==
  /\ Published /\ Settled(View1, generation)
  /\ \E S \in SUBSET (Work \ registered) :
       /\ S # {} /\ Register(View1, generation + 1, S)
       /\ seeded' = seeded \union {w \in S : Deps[w] = {}}
  /\ generation' = generation + 1
  /\ GoOn("seal") /\ UNCHANGED <<pool, turn, offer, book, reduced, branches, forced>>

SealNext ==
  /\ at = "seal" /\ SealGeneration(View1, generation)
  /\ GoOn("dispatch") /\ UNCHANGED <<pool, turn, hands>>

LastGeneration ==
  /\ Published /\ Settled(View1, generation)
  /\ SealView(View1)
  /\ Raise(IF book = {} THEN "finished" ELSE "sealed with claims")
  /\ UNCHANGED <<pool, turn, hands>>

ContinuationFails ==
  /\ Published /\ Settled(View1, generation)
  /\ Raise("relays") /\ UNCHANGED <<vars, pool, turn, hands>>
-----------------------------------------------------------------------------
(* shutdown of the pool, then the projection of the settled view.          *)

Shutdown ==
  /\ at = "shutdown" /\ Pool!StopAll
  /\ GoOn("join") /\ UNCHANGED <<vars, turn, hands>>

Terminate(s) ==
  /\ at = "join" /\ Pool!Terminate(s)
  /\ forced' = forced \union {s}
  /\ UNCHANGED <<vars, at, turn, offer, book, reduced, seeded, branches, generation, outcome>>

Joined ==
  /\ at = "join" /\ Pool!WorkersSettled
  /\ IF outcome # "finished" THEN GoOn("ended")
     ELSE IF forced = {} THEN GoOn("project") ELSE at' = "ended" /\ outcome' = "forced"
  /\ UNCHANGED <<vars, pool, turn, hands>>

Projectable == Returnable(View1) /\ Owner[View1] \notin BusyDevices

Project ==
  /\ at = "project" /\ backprojecting = {}
  /\ IF Projectable THEN ClaimBackprojection(Owner[View1]) /\ UNCHANGED <<at, outcome>>
     ELSE at' = "ended" /\ outcome' = "not admitted" /\ UNCHANGED vars
  /\ UNCHANGED <<pool, turn, hands>>

Projected ==
  /\ at = "project"
  /\ \/ CompleteBackprojection(View1) /\ UNCHANGED outcome
     \/ FailBackprojection(View1) /\ outcome' = "projection"
  /\ at' = "ended" /\ UNCHANGED <<pool, turn, hands>>
-----------------------------------------------------------------------------
Coordinator ==
  \/ MarkReady \/ ClaimNext \/ SubmitOffer \/ SubmitRaises \/ Dispatched
  \/ PollAgain \/ WorkerDied \/ AnswerRaises
  \/ \E c \in book : \/ ReductionFails(c)
                     \/ \E given \in SUBSET Offspring(c.work) : Reduce(c, given)
  \/ SkipBranch \/ Skipping
  \/ StartCommit \/ Commit \/ CommitRaises
  \/ Unsettled \/ NextGeneration \/ SealNext \/ LastGeneration \/ ContinuationFails
  \/ Shutdown \/ Joined \/ Project \/ Projected

Worker(s) == Pool!Child(s) /\ UNCHANGED <<vars, own>>

CoordinatorNext ==
  \/ Coordinator
  \/ LeaseEnds
  \/ \E s \in Slots : Worker(s) \/ Terminate(s)
  \/ at = "ended" /\ UNCHANGED all

CoordinatorSpec == CoordinatorInit /\ [][CoordinatorNext]_all

\* The coordinator's thread runs; time passes, so a lease that is looked at again
\* and again ends and a worker that does not leave is terminated.  Nothing is
\* asked of the workers.
CoordinatorFairSpec ==
  /\ CoordinatorSpec
  /\ WF_all(Coordinator)
  /\ SF_all(LeaseEnds)
  /\ \A s \in Slots : WF_all(Terminate(s))
-----------------------------------------------------------------------------
Places == {"open", "dispatch", "redispatch", "wait", "skip", "commit", "seal",
           "shutdown", "join", "project", "ended"}

CoordinatorTypeOK ==
  /\ TypeOK /\ at \in Places /\ turn \in 0..Cardinality(Slots)
  /\ offer \in Leases \union {Nothing} /\ book \subseteq Leases
  /\ {reduced, seeded, branches} \subseteq SUBSET Work
  /\ generation \in Generations /\ forced \subseteq Slots

\* No check the coordinator makes on itself and on the scheduler fails, whatever
\* order the answers come in: the run stops only for a fault of a worker, of
\* the evidence, or of the time (lta_window_execution.py:289, 293-298, 376, 429-435;
\* lta_execution.py:1931 "settled LTA view was not admitted for backprojection").
AssertionsHold ==
  outcome \notin {"stale result", "unclaimed", "mismatched", "refused", "unreduced",
                  "stalled", "sealed with claims", "not admitted"}

\* While the loop runs the three books of open windows agree: the scheduler's leases,
\* the coordinator's `active` and the attempts the pool expects.  Each of them is in
\* one place, the queue of its slot, its process, or the event queue, unless its
\* worker has died; and nothing else is under way.
Travelling(c) ==
  Cardinality({s \in Slots : c = running[s]} \union
              {i \in DOMAIN inbox[c.slot] : inbox[c.slot][i] = c})
    + Cardinality({i \in DOMAIN answers : answers[i].task = c})
BooksAgree ==
  outcome = "running" /\ at # "skip" =>
    /\ CoordinatorTypeOK
    /\ active = book \union ({offer} \ {Nothing})
    /\ {expected[w] : w \in Work} \ {Nothing} = book
    /\ \A c \in book : Travelling(c) = 1 \/ (Travelling(c) = 0 /\ c.slot \notin alive)
    /\ \A s \in Slots : Range(inbox[s]) \union {running[s]} \subseteq book \union {Nothing}
    /\ \A i \in DOMAIN answers : answers[i].task \in book

\* The loop is sound: its own checks never fail, because the three books agree.
BooksAreSound == AssertionsHold /\ BooksAgree

\* A window runs only from a seed its predecessor left, and it is skipped only
\* without one: no session starts on a payload without seeds, no seeded
\* window is lost with a skipped branch.
SeedsDecide ==
  /\ Leased \subseteq seeded
  /\ \A w \in Completed : result[w] = Skipped <=> w \notin seeded

\* The view is projected back only when no worker holds a device any more, and
\* when each of its windows is published.
DevicesAreFreeForProjection ==
  backprojecting \union backprojected # {} => alive = {} /\ committed = registered

\* The run ends, even if workers hang or die: it is finished or says why not, and
\* no worker outlives it.
Ends == <>(at = "ended" /\ outcome # "running" /\ alive = {})
=============================================================================
