------------------------ MODULE NativePullScheduler ------------------------
(***************************************************************************)
(* The shared CPU pool of native projections,                              *)
(* src/XTA/native_pull_scheduling.py.  Each stream (a lane) owns a window  *)
(* of promises that its consumer takes in order; the pool hands a bounded  *)
(* and resizable number of CPU permits to the lanes' pending planes, fair  *)
(* shares first, and lends what is left.                                   *)
(*                                                                         *)
(* `pool` is everything the scheduler keeps under its one lock, so an      *)
(* action on it is a whole critical section, the dispatch that ends it     *)
(* included.  A consumer runs outside the lock: each of its reads and      *)
(* waits is a step of its own.  At most MaxRefusals calls of               *)
(* executor.submit raise.  ThreadPoolExecutor.submit puts the task in its  *)
(* queue before it starts a thread, so a refused task may be `kept` and    *)
(* run all the same; `strays` counts those that did.                       *)
(***************************************************************************)
EXTENDS Integers, Sequences, FiniteSets, Totals

CONSTANTS Lanes,             \* the streams of a run
          Count,             \* planes of each stream
          Window,            \* funded result window of each stream
          MaxWorkers,        \* the executor's threads
          Willing,           \* the consumers that keep consuming
          MaxRefusals        \* bound on the submissions that raise

ASSUME LanesAssumption == IsFiniteSet(Lanes)
ASSUME CountAssumption == Count \in [Lanes -> Nat]
ASSUME WorkersAssumption == MaxWorkers \in Nat \ {0}
ASSUME WindowAssumption == Window \in [Lanes -> 1 .. MaxWorkers]
ASSUME WillingAssumption == Willing \subseteq Lanes
ASSUME RefusalAssumption == MaxRefusals \in Nat

VARIABLES pool,      \* the scheduler and its lanes, under the lock
          reader,    \* each stream's consumer
          sleeping,  \* closers waiting on the condition, not yet notified
          refusals,
          kept,      \* refused tasks that wait in the executor's queue
          strays     \* history: the refused tasks of each lane that ran
submissions == <<refusals, kept, strays>>
vars == <<pool, reader, sleeping, submissions>>

NoPlane == -1
NoTask == <<>>
Planes(l) == 0 .. Count[l] - 1
Lower(i, j) == IF i < j THEN i ELSE j

NewLane == [pending |-> <<>>, futures |-> {}, next |-> 0, running |-> 0,
            retained |-> 0, queued |-> FALSE, stopped |-> FALSE, owns |-> TRUE]

Init ==
  /\ pool \in [workers : 1 .. MaxWorkers, active : {0}, retained : {0},
               state : {"open"}, cancelled : {FALSE}, admitted : {{}},
               ready : {<<>>}, tasks : {{}}, lane : {[l \in Lanes |-> NewLane]},
               promise : {[l \in Lanes |-> [i \in Planes(l) |-> "none"]]}]
  /\ reader = [l \in Lanes |-> [pc |-> "absent", next |-> 0, previous |-> NoPlane]]
  /\ sleeping = {}
  /\ refusals = 0 /\ kept = {}
  /\ strays = [l \in Lanes |-> 0]
--------------------------------------------------------------------------
(* Critical sections, as functions of the pool *)

Enqueue(s, l) ==
  IF s.lane[l].pending # <<>> /\ ~s.lane[l].queued /\ ~s.lane[l].stopped
  THEN [s EXCEPT !.lane[l].queued = TRUE, !.ready = Append(@, l)]
  ELSE s

\* Room in the window, where every promise not yet consumed counts.
Room(s, l) ==
  Lower(Window[l] - Cardinality(s.lane[l].futures), Count[l] - s.lane[l].next)

\* _fill_locked: new promises up to the window.
Fill(s, l) ==
  LET first == s.lane[l].next
      new == first .. first + Room(s, l) - 1
  IN  Enqueue([s EXCEPT !.lane[l].next = @ + Room(s, l),
                        !.lane[l].futures = @ \cup new,
                        !.lane[l].pending = @ \o [k \in 1 .. Room(s, l) |-> first + k - 1],
                        !.promise[l] = [i \in Planes(l) |->
                                          IF i \in new THEN "pending" ELSE @[i]]], l)

\* The fair share of a lane: the permits over the lanes, rounded up.
Share(s) ==
  LET n == Cardinality(s.admitted)
  IN  IF n = 0 THEN s.workers ELSE (s.workers + n - 1) \div n

Limit(s, l, fair) == IF fair THEN Lower(Window[l], Share(s)) ELSE Window[l]
Live(s, l) == s.lane[l].pending # <<>> /\ ~s.lane[l].stopped
Fitting(s, fair) ==
  {k \in DOMAIN s.ready : /\ Live(s, s.ready[k])
                          /\ s.lane[s.ready[k]].running < Limit(s, s.ready[k], fair)}

\* The ready queue after a pass over it that stopped at position k: a lane at
\* its limit went to the back, a stopped one was dropped.
Rotated(s, k) ==
  LET passed[j \in 0 .. k - 1] ==
        IF j = 0 THEN SubSeq(s.ready, k + 1, Len(s.ready))
        ELSE IF Live(s, s.ready[j]) THEN Append(passed[j - 1], s.ready[j]) ELSE passed[j - 1]
  IN  passed[k - 1]

Select(s, k) ==
  LET rest == Rotated(s, k)
  IN  [s EXCEPT !.ready = rest,
                !.lane = [l \in Lanes |-> [s.lane[l] EXCEPT !.queued =
                            @ /\ \E j \in DOMAIN rest : rest[j] = l]]]

\* The grant of a permit to the first pending plane of l; submit raises if that
\* plane is `refused`: the permit is taken back, the result is not.
Grant(s, l, refused) ==
  LET i == Head(s.lane[l].pending)
      popped == Enqueue([s EXCEPT !.lane[l].pending = Tail(@)], l)
      held == [popped EXCEPT !.retained = @ + 1, !.lane[l].retained = @ + 1]
  IN  IF refused = <<l, i>>
      THEN [held EXCEPT !.promise[l][i] = "failed"]
      ELSE [held EXCEPT !.tasks = @ \cup {<<l, i>>}, !.promise[l][i] = "running",
                        !.active = @ + 1, !.lane[l].running = @ + 1]

\* mutants: no lending; lending before fair shares
ChoiceFairOnly(s) == Fitting(s, TRUE)
ChoiceGreedy(s) == Fitting(s, FALSE)

\* The ready positions to choose from: lanes below their fair share, else, with
\* a permit to lend, lanes below their window.
Choice(s) == IF Fitting(s, TRUE) # {} THEN Fitting(s, TRUE) ELSE Fitting(s, FALSE)

\* One turn of the loop.
DispatchOne(s, refused) ==
  IF s.active >= s.workers \/ Choice(s) = {} THEN s
  ELSE LET k == Min(Choice(s)) IN Grant(Select(s, k), s.ready[k], refused)

Pending(s) == {t \in UNION {{l} \X Planes(l) : l \in Lanes} :
                 s.promise[t[1]][t[2]] = "pending"}

Dispatch(s, refused) ==
  LET turn[n \in 0 .. Cardinality(Pending(s))] ==
        IF n = 0 THEN s ELSE DispatchOne(turn[n - 1], refused)
  IN  IF s.state # "open" \/ s.cancelled THEN s
      ELSE turn[Cardinality(Pending(s))]

\* The end of a critical section that changed s: at most one submission of the
\* dispatch raises, and the executor may have queued its task before it does.
DispatchAfter(s) ==
  \E refused \in {NoTask} \cup (IF refusals < MaxRefusals THEN Pending(s) ELSE {}) :
    LET after == Dispatch(s, refused)
    IN  /\ pool' = after
        /\ refusals' = refusals + (IF refused = NoTask THEN 0 ELSE 1)
        /\ refused # NoTask => after.promise[refused[1]][refused[2]] = "failed"
        /\ UNCHANGED kept \/ (refused # NoTask /\ kept' = kept \cup {refused})
        /\ UNCHANGED strays

\* Stopping a lane cancels what waits and leaves what runs.
Stop(s, stopped) ==
  [s EXCEPT !.lane = [l \in Lanes |-> IF l \in stopped
                        THEN [s.lane[l] EXCEPT !.stopped = TRUE, !.pending = <<>>]
                        ELSE s.lane[l]],
            !.promise = [l \in Lanes |-> [i \in Planes(l) |->
                          IF l \in stopped /\ s.promise[l][i] = "pending"
                          THEN "cancelled" ELSE s.promise[l][i]]]]

Released(lane) == [lane EXCEPT !.retained = 0, !.futures = {}, !.owns = FALSE]

\* mutant: the lane's credit is not returned to the pool
SettleKeepingCredit(s, l) ==
  [s EXCEPT !.admitted = @ \ {l}, !.lane[l] = Released(@)]

Settle(s, l) ==
  [s EXCEPT !.retained = @ - s.lane[l].retained, !.admitted = @ \ {l},
            !.lane[l] = Released(@)]
--------------------------------------------------------------------------
(* The scheduler's operations *)

\* mutant: nobody is notified
NotifyNobody == UNCHANGED sleeping
Notify == sleeping' = {}
Goto(l, pc) == reader' = [reader EXCEPT ![l].pc = pc]

OrderedPlanes(l) ==
  /\ reader[l].pc = "absent"
  /\ pool.state = "open" /\ ~pool.cancelled
  /\ DispatchAfter(Fill([pool EXCEPT !.admitted = @ \cup {l}], l))
  /\ Goto(l, "ready")
  /\ UNCHANGED sleeping

Resize(workers) ==
  /\ pool.state = "open" /\ ~pool.cancelled
  /\ workers # pool.workers
  /\ DispatchAfter([pool EXCEPT !.workers = workers])
  /\ Notify
  /\ UNCHANGED reader

\* _run of a task that was accepted.
Run(l, i, outcome) ==
  LET returned == [pool EXCEPT !.tasks = @ \ {<<l, i>>}, !.active = @ - 1,
                               !.lane[l].running = @ - 1]
  IN  /\ <<l, i>> \in pool.tasks
      /\ DispatchAfter([returned EXCEPT !.promise[l][i] = outcome])
      /\ Notify
      /\ UNCHANGED reader

\* _run of a task that was refused: its permit is given back a second time, and the
\* promise, failed already, raises before the dispatch and the notification.
RunRefused(l, i) ==
  /\ <<l, i>> \in kept
  /\ pool' = [pool EXCEPT !.active = @ - 1, !.lane[l].running = @ - 1]
  /\ kept' = kept \ {<<l, i>>}
  /\ strays' = [strays EXCEPT ![l] = @ + 1]
  /\ UNCHANGED <<reader, sleeping, refusals>>

Cancel ==
  /\ pool.state = "open" /\ ~pool.cancelled
  /\ pool' = [Stop(pool, pool.admitted) EXCEPT !.cancelled = TRUE, !.ready = <<>>]
  /\ Notify
  /\ UNCHANGED <<reader, submissions>>

Close ==
  /\ pool.state = "open"
  /\ pool' = [Stop(pool, pool.admitted) EXCEPT !.cancelled = TRUE, !.ready = <<>>,
                                               !.state = "joining"]
  /\ Notify
  /\ UNCHANGED <<reader, submissions>>

Retained == [l \in Lanes |-> pool.lane[l].retained]

\* mutant: the executor is not joined
JoinedAtOnce == TRUE
\* The executor has joined its threads: no task is left.
Joined == pool.tasks = {} /\ kept = {}

CloseJoined ==
  /\ pool.state = "joining"
  /\ Joined
  /\ pool' = [pool EXCEPT
       !.state = "closed", !.admitted = {},
       !.retained = @ - Total(Retained, pool.admitted),
       !.lane = [l \in Lanes |-> IF l \in pool.admitted
                               THEN Released(pool.lane[l]) ELSE pool.lane[l]]]
  /\ Notify
  /\ UNCHANGED <<reader, submissions>>
--------------------------------------------------------------------------
(* A consumer: __next__, then close *)

\* _consumed: the window moves on only when the previous plane is given up.
Consume(l) ==
  LET i == reader[l].previous
      freed == [pool EXCEPT !.lane[l].futures = @ \ {i}, !.lane[l].retained = @ - 1,
                            !.retained = @ - 1]
  IN  /\ reader[l].pc = "ready"
      /\ reader' = [reader EXCEPT ![l].pc = "check", ![l].previous = NoPlane]
      /\ IF i \in pool.lane[l].futures
         THEN /\ DispatchAfter(IF freed.lane[l].stopped THEN freed ELSE Fill(freed, l))
              /\ Notify
         ELSE UNCHANGED <<pool, sleeping, submissions>>

Check(l) ==
  /\ reader[l].pc = "check"
  /\ Goto(l, IF pool.lane[l].stopped \/ reader[l].next >= Count[l]
             THEN "closing" ELSE "fetch")
  /\ UNCHANGED <<pool, sleeping, submissions>>

\* futures[index], read outside the lock: a closed pool has none left.
Fetch(l) ==
  /\ reader[l].pc = "fetch"
  /\ Goto(l, IF reader[l].next \in pool.lane[l].futures THEN "wait" ELSE "missed")
  /\ UNCHANGED <<pool, sleeping, submissions>>

Take(l) ==
  LET i == reader[l].next
  IN  /\ reader[l].pc = "wait"
      /\ \/ /\ pool.promise[l][i] = "done"
            /\ reader' = [reader EXCEPT ![l] = [pc |-> "ready", next |-> i + 1, previous |-> i]]
         \/ /\ pool.promise[l][i] \in {"failed", "cancelled"}
            /\ Goto(l, "closing")
      /\ UNCHANGED <<pool, sleeping, submissions>>

\* The caller closes its iterator before the end.
Abandon(l) ==
  /\ reader[l].pc = "ready"
  /\ Goto(l, "closing")
  /\ UNCHANGED <<pool, sleeping, submissions>>

\* _close_lane, from its stop or from its wait, up to its return or next wait.
CloseLane(l) ==
  LET s == IF reader[l].pc = "joining" THEN pool ELSE Stop(pool, {l})
  IN  /\ \/ reader[l].pc \in {"closing", "missed"}
         \/ reader[l].pc = "joining" /\ l \notin sleeping
      /\ IF s.lane[l].running # 0
         THEN /\ pool' = s
              /\ sleeping' = sleeping \cup {l}
              /\ Goto(l, "joining")
              /\ UNCHANGED submissions
         ELSE /\ DispatchAfter(Settle(s, l))
              /\ Notify
              /\ Goto(l, "closed")

Consumer(l) == Consume(l) \/ Check(l) \/ Fetch(l) \/ Take(l) \/ CloseLane(l)

Next ==
  \/ \E l \in Lanes : OrderedPlanes(l) \/ Consumer(l) \/ Abandon(l)
  \/ \E l \in Lanes : \E i \in Planes(l), outcome \in {"done", "failed"} :
       Run(l, i, outcome)
  \/ \E l \in Lanes : \E i \in Planes(l) : RunRefused(l, i)
  \/ \E workers \in 1 .. MaxWorkers : Resize(workers)
  \/ Cancel \/ Close \/ CloseJoined

Spec == Init /\ [][Next]_vars

\* A task that was accepted leaves the executor by Run only, and does so: operations
\* return.  Nothing is assumed of the refused ones: there may be no thread for them.
OperationsReturn == \A l \in Lanes : \A i \in Planes(l) : []<>(<<l, i>> \notin pool.tasks)

\* The consumer is blocked, or has nothing left to do.
AtRest(l) ==
  \/ reader[l].pc \in {"absent", "closed"}
  \/ reader[l].pc = "wait" /\ pool.promise[l][reader[l].next] \in {"pending", "running"}
  \/ reader[l].pc = "joining" /\ l \in sleeping

\* Operations return, a willing consumer goes on until it is blocked (its steps
\* are finitely many), a closing run joins its pool; an unwilling consumer may
\* stop anywhere.
FairSpec ==
  /\ Spec
  /\ OperationsReturn
  /\ \A l \in Willing : []<>AtRest(l)
  /\ WF_vars(CloseJoined)
--------------------------------------------------------------------------
(* Properties *)

TypeOK ==
  /\ pool.workers \in 1 .. MaxWorkers
  /\ pool.state \in {"open", "joining", "closed"}
  /\ pool.admitted \subseteq Lanes
  /\ pool.tasks \subseteq UNION {{l} \X Planes(l) : l \in Lanes}
  /\ \A l \in Lanes :
       /\ pool.lane[l].futures \subseteq Planes(l)
       /\ pool.lane[l].next \in 0 .. Count[l]
       /\ \A i \in Planes(l) : pool.promise[l][i] \in
            {"none", "pending", "running", "done", "failed", "cancelled"}
       /\ reader[l].pc \in {"absent", "ready", "check", "fetch", "wait", "missed",
                            "closing", "joining", "closed"}
       /\ reader[l].next \in 0 .. Count[l]
  /\ refusals \in 0 .. MaxRefusals
  /\ kept \subseteq UNION {{l} \X Planes(l) : l \in Lanes}
  /\ strays \in [Lanes -> Nat]

TasksOf(l) == {t \in pool.tasks : t[1] = l}
Granted(l) == {i \in pool.lane[l].futures :
                 pool.promise[l][i] \in {"running", "done", "failed"}}

\* The permit and retention counters are what they claim to count: operations
\* in the executor, and granted planes not yet consumed, through refusals,
\* failures, cancellation, early closes and the joining of the run.  The permits
\* are short by exactly one for each refused task that ran nevertheless ("Submission
\* failure owns no running reader", line 217, is not so); the retention is exact in
\* any case.  Queued placeholders, running planes and unconsumed results together
\* stay within the window the caller funded (ordered_planes, lines 135-139), and
\* what the pool retains within the windows of the admitted lanes.
CreditsExact ==
  /\ TypeOK
  /\ pool.active = Cardinality(pool.tasks) - Total(strays, Lanes)
  /\ pool.retained = Total(Retained, Lanes)
  /\ \A l \in Lanes : /\ pool.lane[l].running = Cardinality(TasksOf(l)) - strays[l]
                      /\ pool.lane[l].retained = Cardinality(Granted(l))
                      /\ Cardinality(pool.lane[l].futures) <= Window[l]
  /\ pool.retained <= Total(Window, pool.admitted)

\* No permit is idle while a lane has a plane to run: as many tasks as there are
\* permits are in the executor, whatever the counters have lost to refused tasks
\* that ran.  And no lane with a plane is missing from the ready queue or in it twice:
\* each critical section ends with nothing left to dispatch, whatever it rotated,
\* dropped or put back.
NoStrandedWork ==
  pool.state = "open" /\ ~pool.cancelled =>
    \A l \in Lanes : pool.lane[l].pending # <<>> =>
      /\ Cardinality(pool.tasks) >= pool.workers
      /\ Cardinality({k \in DOMAIN pool.ready : pool.ready[k] = l}) = 1

\* A permit is lent to a lane above its fair share only when no lane below its
\* own has work, and no permit is granted above the allowance, even right
\* after it shrank, by the counters of the permits.
FairShareFirst ==
  [][/\ pool'.active > pool.active => pool'.active <= pool'.workers
     /\ \A l, m \in Lanes :
          /\ pool'.lane[l].running > pool.lane[l].running
          /\ pool'.lane[l].running > Share(pool')
          => \/ pool'.lane[m].pending = <<>>
             \/ pool'.lane[m].running >= Limit(pool', m, TRUE)]_vars

\* Early closes harm nobody.  A stream's operation, and the storage it borrows,
\* is given up only when none of its readers is in the executor: close_lane and
\* close join them first.  The one exception is what the code lets happen: each reader
\* that outlives the release is made up for by a refused task that ran and gave back
\* a permit it did not hold.  And a consumer finds no promise for its next plane (a
\* KeyError, not the CancelledError it is meant to get) only once the run has
\* closed under it.
ClosingIsClean ==
  /\ \A l \in Lanes : ~pool.lane[l].owns => Cardinality(TasksOf(l)) <= strays[l]
  /\ \A l \in Lanes : reader[l].pc = "missed" => pool.state = "closed"

\* A willing consumer's stream always comes to its end and its cleanup returns,
\* though other consumers hold their results for ever: a stalled one keeps no
\* CPU permit (module docstring, lines 3-7), and neither does a refused submission
\* of any stream ("let stream cleanup return its credit", line 218), as long as no
\* refused task of this very stream has run.
StreamsFinish ==
  \A l \in Willing : (reader[l].pc = "ready") ~> (reader[l].pc = "closed" \/ strays[l] > 0)

\* "Submission failure owns no running reader" (line 217), as the comment has it: no
\* permit is given back that was not held.  The code does not keep this when the
\* executor queues a task before it raises.
RefusalOwnsNoReader == \A l \in Lanes : pool.lane[l].running >= 0
=============================================================================
