-------------------------- MODULE SamParentStaging --------------------------
(***************************************************************************)
(* DeferredSamParentQueue (sam_parent_staging.py) over the ledger of       *)
(* SamParentCredit.  Detector results arrive as parents, are written to    *)
(* disk and wait for a lane of the preparation executor and for dense      *)
(* room; a lane is held from the restore to the end of the preparation,    *)
(* the wait for transient credit included.  For the cheap parents          *)
(* (orthogonal, tilted) that wait, up to two lanes, their dense bytes and  *)
(* their transient bytes are kept back.  In which order candidates are     *)
(* probed is left open here.  Tiles take credit in the same ledger and     *)
(* pass no queue.                                                          *)
(***************************************************************************)
EXTENDS SamParentCredit

CONSTANTS Cheap, Tiles, Dense, Workers, DenseLimit

ASSUME StagingAssumption ==
  /\ Cheap \subseteq Parents /\ Tiles \subseteq Parents \ Cheap
  /\ Dense \in [Parents -> Nat] /\ Workers \in Nat \ {0} /\ DenseLimit \in Nat \ {0}

VARIABLES
  place,      \* where a parent is
  known,      \* _cpu_protections: protections the queue knows of
  denseLimit

staging == <<place, known, denseLimit>>
vars == <<credit, staging>>

Init ==
  /\ CreditInit
  /\ place = [p \in Parents |-> "away"]
  /\ known = {} /\ denseLimit = DenseLimit

Staged == Parents \ Tiles
In(places) == {p \in Staged : place[p] \in places}
Move(p, to) == place' = [place EXCEPT ![p] = to]
DenseOf(set) == Total(Dense, set)

\* Dense leases: of arrays being written to disk, of ready parents and of prepared ones.
Backed == In({"checkpoint", "ready", "restoring", "asking", "working", "finished", "failing"})

\* _prepare_inventory: a lane is held until the future of the preparation is done.
Lanes == In({"restoring", "asking", "working"})

-----------------------------------------------------------------------------
(* The cheap parents for which lanes and memory are kept back. *)

WaitingCpu == In({"checkpoint", "deferred", "ready"}) \intersect Cheap
Required(p) == IF place[p] = "ready" THEN 0 ELSE Dense[p]
RequiredBy(set) == MapThenSumSet(Required, set)

\* _selected_cpu_prepares: known protections first, then the smallest, while they fit.
Selected ==
  LET slots == AtMost(2, Workers - 1) - Cardinality(Lanes \intersect Cheap)
      room == AtLeast0(denseLimit - DenseOf(Backed))
      Before(p, q) == \/ p \in known /\ q \notin known
                      \/ (p \in known <=> q \in known) /\ Required(p) < Required(q)
      Take(chosen, p) ==
        IF Cardinality(chosen) < slots /\ RequiredBy(chosen) + Required(p) <= room
        THEN chosen \union {p} ELSE chosen
  IN FoldLeft(Take, {}, SetToSortSeq(WaitingCpu, Before))

\* _protect_cpu_prepares.  Each entry is tried on its own with a lock that may be taken, so
\* that any part of the pass may be left to the next one.
Protect(p) ==
  /\ ~stop /\ p \in Selected \ known
  /\ Register(p) /\ known' = known \union {p}
  /\ UNCHANGED <<capacity, inUse, emergency, lease, request, bank, plain, stop, place, denseLimit>>
Unprotect(p) ==
  /\ ~stop /\ p \in known
  /\ \/ p \notin pending
     \/ p \in WaitingCpu \ Selected
  /\ known' = known \ {p} /\ pending' = pending \ {p}
  /\ UNCHANGED <<capacity, inUse, emergency, lease, request, bank, plain, stop, place, denseLimit>>

-----------------------------------------------------------------------------
(* The way of a parent. *)

\* defer: the detector's arrays, which already have dense room, go to the checkpoint writer;
\* enqueue_ready: or stay as they are.  A tile asks for credit at once.
Arrive(p) ==
  /\ place[p] = "away" /\ ~stop
  /\ \/ p \in Staged /\ (Backed # {} => DenseOf(Backed) + Dense[p] <= denseLimit)
        /\ \E to \in {"checkpoint", "ready"} : Move(p, to)
     \/ p \in Tiles /\ Move(p, "asking")
  /\ UNCHANGED <<credit, known, denseLimit>>

\* The checkpoint is on disk and its dense lease returned.  One of regular files is written by
\* the preparation executor, on a thread that Lanes does not count: see Progress.
Checkpointed(p) ==
  /\ ~stop /\ place[p] = "checkpoint" /\ Move(p, "deferred")
  /\ UNCHANGED <<credit, known, denseLimit>>

\* An expensive parent leaves the lanes alone that the selected cheap ones will need; lanes
\* that are taken are not given back for them.
LaneFree(p) ==
  Cardinality(Lanes) < Workers - IF p \in Cheap THEN 0 ELSE Cardinality(Selected)

\* A parent with nothing beside it may exceed the limit, unless cheap ones are waiting.
DenseFits(p) ==
  LET kept == RequiredBy(Selected)
  IN IF Backed # {} THEN DenseOf(Backed) + Dense[p] <= denseLimit - (IF p \in Cheap THEN 0 ELSE kept)
     ELSE kept > 0 => Dense[p] <= denseLimit - (IF p \in Cheap THEN 0 ELSE kept)

\* A candidate of pump is handed to the executor.
Submit(p) ==
  /\ ~stop /\ p \in In({"deferred", "ready"}) /\ LaneFree(p)
  /\ IF place[p] = "ready" THEN Move(p, "asking") ELSE DenseFits(p) /\ Move(p, "restoring")
  /\ UNCHANGED <<credit, known, denseLimit>>

\* The codec workspace of a restore is a plain reservation made by the parent itself.
Codec(q) == Reserve(q) /\ (q \in Parents => place[q] = "restoring") /\ UNCHANGED staging
Release(q) == Unreserve(q) /\ UNCHANGED staging

Restored(p) ==
  /\ ~stop /\ place[p] = "restoring" /\ (p \in Callers => plain[p].state = "done")
  /\ Move(p, "asking")
  /\ UNCHANGED <<credit, known, denseLimit>>

Admit(p, h) ==
  /\ ~stop /\ place[p] = "asking" /\ Grant(p, h) /\ Move(p, "working")
  /\ UNCHANGED <<known, denseLimit>>

\* A tile has no dense lease to keep.
End(p) == Move(p, IF p \in Tiles THEN "retired" ELSE "finished")
Failed(p) == IF p \in Tiles THEN "failed" ELSE "failing"

\* The preparation ends, well or with an error; what it started has settled.  It hands its
\* layers on without waiting (DeferredProjection) and then leaves its lane.
Finish(p) ==
  /\ place[p] = "working" /\ Alone(p)
  /\ Close(p) /\ End(p)
  /\ UNCHANGED <<capacity, pending, request, bank, plain, stop, known, denseLimit>>

\* Mutant of Withdrawn: the future has no callback that releases the protection.
WithdrawnSilently(p, to) == Move(p, to) /\ UNCHANGED pending

\* The done callback that pump registered.
Withdrawn(p, to) == Move(p, to) /\ pending' = pending \ {p}

\* It ends without credit.  Cancelled: the restore and the wait for credit look at the stop.
\* (After it nobody asks for dense room any more.)
Withdraw(p) ==
  /\ stop /\ place[p] \in {"restoring", "asking"}
  /\ p \in Callers => plain[p].state # "held"
  /\ Withdrawn(p, "withdrawn")
  /\ UNCHANGED <<capacity, inUse, emergency, lease, request, bank, plain, stop, known, denseLimit>>

\* Or by an error of its own: the restore failed, the request is unsupported.  (The run that
\* finds the error stops; here it may also go on.)
Fail(p) ==
  /\ ~stop
  /\ \/ place[p] = "restoring" /\ (p \in Callers => plain[p].state # "held")
     \/ place[p] = "asking" /\ \E h \in Headrooms : Unsupported(p, h)
  /\ Withdrawn(p, Failed(p))
  /\ UNCHANGED <<capacity, inUse, emergency, lease, request, bank, plain, stop, known, denseLimit>>

\* The pipeline is done with the arrays of a parent.
Retire(p) ==
  /\ \/ place[p] = "finished" /\ Move(p, "retired")
     \/ place[p] = "failing" /\ Move(p, "failed")
  /\ UNCHANGED <<credit, known, denseLimit>>

-----------------------------------------------------------------------------
(* The run around it. *)

\* _reclaim_drained_sam_dense_capacity: when no detector result can arrive any more, dense
\* room beyond the owned bytes and two restores to come goes to the transient pool.
Reclaim ==
  /\ ~stop /\ ~emergency /\ In({"checkpoint", "ready"}) = {}
  /\ \A p \in Parents : place[p] # "away"
  /\ LET largest == Max({0} \union {Dense[p] : p \in In({"deferred"})})
         dense == AtMost(denseLimit, Max({1, DenseOf(Backed) + 2 * largest}))
     IN /\ dense # denseLimit /\ denseLimit' = dense
        /\ capacity' = capacity + denseLimit - dense
  /\ UNCHANGED <<inUse, emergency, pending, lease, request, bank, plain, stop, place, known>>

\* abort, with the cancellation of the SAM context.
Stop ==
  /\ ~stop /\ stop' = TRUE
  /\ pending' = pending \ known /\ known' = {}
  /\ place' = [p \in Parents |-> IF place[p] = "ready" THEN "withdrawn" ELSE place[p]]
  /\ UNCHANGED <<capacity, inUse, emergency, lease, request, bank, plain, denseLimit>>

\* Steps inside a preparation that keeps its place.
Inside ==
  /\ \/ \E l \in Leases : \/ \E h \in Headrooms, n \in 0..MaxBank : Borrow(l, n, h)
                          \/ Acquire(l)
     \/ \E c \in Children : Issue(c)
  /\ UNCHANGED staging
Settling ==
  /\ \/ \E l \in Leases : ReturnBank(l) \/ \E who \in {"creator", "scheduler"} : Leave(l, who)
     \/ \E c \in Children : \/ Start(c) \/ Decline(c) \/ EndChild(c)
                            \/ \E h \in Headrooms : Charge(c, h) \/ Refuse(c, h)
  /\ UNCHANGED staging
Revoking == \E c \in Children : Revoke(c) /\ UNCHANGED staging

\* What goes on by itself once it can, and Fail is no part of it: nobody gets on by an error.
\* A checkpoint that may need a thread of the preparation executor is sure of one only while a
\* lane is free.  An Admit is sure to follow if some answer of the probe allows it: the memory
\* of the machine is not short for ever.
Progress ==
  \/ \E p \in Parents : \/ Checkpointed(p) /\ Cardinality(Lanes) < Workers
                        \/ Protect(p) \/ Unprotect(p) \/ Submit(p) \/ Restored(p)
                        \/ Finish(p) \/ Withdraw(p) \/ Retire(p)
                        \/ \E h \in Headrooms : Admit(p, h)
  \/ \E q \in Callers : Codec(q) \/ Release(q)
  \/ Settling

Next ==
  \/ Progress
  \/ \E p \in Parents : Arrive(p) \/ Checkpointed(p) \/ Fail(p)
  \/ Inside \/ Revoking \/ Reclaim \/ Stop

Spec == Init /\ [][Next]_vars
FairSpec == Spec /\ WF_vars(Progress)

-----------------------------------------------------------------------------
(* Properties. *)

\* Every parent that arrived is prepared and its arrays are retired, or it failed by an error of
\* its own, or there was a stop and it is withdrawn or left on disk: nobody waits for ever for a
\* lane, for dense room or for credit, whatever is protected, borrowed or reserved meanwhile and
\* whoever else fails, and in the end no credit and no protection is left.
\* "all finite, continuously fitting older parents retain regular FIFO opportunities,
\* including under new arrivals" (docs/sam_parent_prepare_order.md).
EveryParentIsPrepared ==
  <>[](/\ inUse = 0 /\ pending = {}
       /\ \A p \in Parents : \/ place[p] \in {"away", "retired", "failed"}
                             \/ stop /\ place[p] \in {"checkpoint", "deferred", "withdrawn"})
=============================================================================
