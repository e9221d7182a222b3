-------------------------- MODULE DeferredProjection --------------------------
(***************************************************************************)
(* Deferred publications (DeferredComponentProjection and                  *)
(* settle_prepared_view_components of src/XTA/projection_queue.py) on top  *)
(* of the projection queue, between the two threads that admit them: the   *)
(* preparation of a view (AdmittedViewPrepare.__call__, view_prepare.py)   *)
(* and the scheduler loop with its teardown (pipeline.py).                 *)
(*                                                                         *)
(* One view is prepared; its publications are `Children`, in component     *)
(* order.  The other jobs are layers that other views submit while they    *)
(* are being prepared, with the blocking submit.                           *)
(***************************************************************************)
EXTENDS ProjectionQueue, Sequences

CONSTANT Children

VARIABLES
  child,   \* publication -> its future: "held" while it keeps the request, "taken"
           \* once it has given the request up, then the outcome
  parent,  \* the preparation: "preparing", "flushing", "checking", or how it ended
  main     \* the scheduler loop, or the step its teardown has reached
deferred == <<child, parent, main>>
all == <<vars, deferred>>

ChildJobs == {Children[i] : i \in DOMAIN Children}
ASSUME ChildrenAssumption == Children \in Seq(Jobs) /\ Cardinality(ChildJobs) = Len(Children)

Outcomes == {"resolved", "rejected", "cancelled"}
Others == Jobs \ ChildJobs
Is(state) == {c \in ChildJobs : child[c] = state}

DeferredInit ==
  /\ Init
  /\ child = [c \in ChildJobs |-> "unmade"] /\ parent = "preparing" /\ main = "running"

Failing == main \notin {"running", "registered", "closing", "down"}

\* The thread that admits a publication is inside the queue's call.
Busy == \E c \in Is("taken") : prod[c] # "returned"

-----------------------------------------------------------------------------
(* DeferredComponentProjection. *)

FirstHeld(c) ==
  \E i \in DOMAIN Children : /\ Children[i] = c /\ child[c] = "held"
                             /\ \A k \in 1..(i - 1) : child[Children[k]] # "held"

\* try_admit: the queue answers or refuses, and the request is given up.
TryAdmit(c) ==
  /\ TrySubmit(c)
  /\ child' = [child EXCEPT ![c] = "taken"]
QueueIsFull(c) == error = NoError /\ ~closed /\ ~HasRoom(c)

\* The refusal becomes the publication's exception.
Reject(c) ==
  /\ child[c] = "taken" /\ prod[c] = "raised"
  /\ child' = [child EXCEPT ![c] = "rejected"]
  /\ UNCHANGED <<vars, parent, main>>

\* _complete, the callback on the queue's future; a cancelled one gives its
\* CancelledError as exception.
Deliver(c) ==
  /\ child[c] = "taken" /\ prod[c] = "returned" /\ work[c] \in Outcomes
  /\ child' = [child EXCEPT ![c] = IF work[c] = "resolved" THEN "resolved" ELSE "rejected"]
  /\ UNCHANGED <<vars, parent, main>>

\* cancel(): only a request nobody admitted; what the queue has goes on.
Withdrawn == [c \in ChildJobs |-> IF child[c] = "held" THEN "cancelled" ELSE child[c]]

-----------------------------------------------------------------------------
(* The preparation: native work, then the flush of its publications. *)

\* _prepare records the publications, or fails; a failure cancels what was recorded.
Prepare ==
  /\ parent = "preparing" /\ main \notin {"stopping", "closing", "down"}
  /\ \/ parent' = "flushing" /\ child' = [c \in ChildJobs |-> "held"]
     \/ parent' = "raised" /\ child' = [c \in ChildJobs |-> "cancelled"]
  /\ UNCHANGED <<vars, main>>

\* Mutant of End: no callback on a preparation that is still running when the teardown
\* makes its cancellation pass.
EndUnwatched(how) ==
  /\ parent' = how
  /\ child' = IF how = "raised" THEN Withdrawn ELSE child
\* A failed flush cancels its publications, and so does the callback of a preparation
\* that returns after the cancellation pass.
End(how) ==
  /\ parent' = how
  /\ child' = IF how = "raised" \/ main \in {"aborting", "joining"} THEN Withdrawn ELSE child

\* The next publication: a cancelled run raises, a full queue ends the flush.
Flush ==
  /\ parent = "flushing" /\ UNCHANGED main
  /\ \/ Failing /\ End("raised") /\ UNCHANGED vars
     \/ \E c \in ChildJobs :
          /\ FirstHeld(c)
          /\ \/ TryAdmit(c) /\ parent' = "checking"
             \/ QueueIsFull(c) /\ End("returned") /\ UNCHANGED vars
Flushed ==
  /\ parent = "checking" /\ ~Busy
  /\ LET last == CHOOSE i \in DOMAIN Children : /\ child[Children[i]] # "held"
                                               /\ \A k \in DOMAIN Children : k > i => child[Children[k]] = "held"
     IN \/ child[Children[last]] = "rejected" /\ End("raised")
        \/ /\ child[Children[last]] # "rejected"
           /\ \/ last = Len(Children) /\ End("returned")
              \/ last < Len(Children) /\ parent' = "flushing" /\ UNCHANGED child
  /\ UNCHANGED <<vars, main>>

-----------------------------------------------------------------------------
(* The scheduler loop. *)

Failed(j) == \/ j \in ChildJobs /\ child[j] \in {"rejected", "cancelled"} /\ parent = "returned"
             \/ j \in Others /\ (prod[j] = "raised" \/ work[j] \in {"rejected", "cancelled"})

\* A failed preparation, a failed publication, or any other failure of the loop.
Fail ==
  /\ main \in {"running", "registered"} /\ ~(Busy /\ parent = "returned")
  /\ main' = "failing"
  /\ UNCHANGED <<vars, child, parent>>
Surface == Fail /\ (parent = "raised" \/ \E j \in Jobs : Failed(j))

\* Mutant of Poll: whichever publication fits is tried.
PollAny ==
  /\ main = "running" /\ parent = "returned" /\ ~Busy /\ ~\E j \in ChildJobs : Failed(j)
  /\ \E c \in Is("held") : TryAdmit(c)
  /\ UNCHANGED <<parent, main>>
\* settle_prepared_view_components: the first request that is still held is tried again.
Poll ==
  /\ main = "running" /\ parent = "returned" /\ ~Busy /\ ~\E j \in ChildJobs : Failed(j)
  /\ \E c \in ChildJobs : FirstHeld(c) /\ TryAdmit(c)
  /\ UNCHANGED <<parent, main>>

\* All children are done and none has failed: their layers are registered at once.
Register ==
  /\ main = "running" /\ parent = "returned" /\ Is("resolved") = ChildJobs
  /\ main' = "registered"
  /\ UNCHANGED <<vars, child, parent>>

\* The loop ends when the other views have ended too.
Finish ==
  /\ main = "registered" /\ \A j \in Others : prod[j] = "idle" \/ work[j] = "resolved"
  /\ main' = "closing" /\ Shutdown /\ executor' = "closing"
  /\ UNCHANGED <<child, parent>>
-----------------------------------------------------------------------------
(* The teardown after a failure. *)

\* _cancel_scheduler_prepares: a preparation that has not started never will; the
\* publications of one that has returned are withdrawn.
CancelPublications ==
  /\ main = "failing"
  /\ main' = "aborting"
  /\ child' = IF parent = "returned" THEN Withdrawn ELSE child
  /\ UNCHANGED <<vars, parent>>

\* component_projection_queue.abort()
AbortQueue ==
  /\ main = "aborting" /\ Abort
  /\ main' = "joining"
  /\ UNCHANGED <<child, parent>>

\* The join of the preparing threads, blocked submitters among them.
Join ==
  /\ main = "joining"
  /\ parent \in {"returned", "raised"}
  /\ \A j \in Others : prod[j] \in {"idle", "returned", "raised"}
  /\ main' = "stopping"
  /\ UNCHANGED <<vars, child, parent>>

ShutdownQueue ==
  /\ main = "stopping"
  /\ executor' = "cancelling" /\ Shutdown
  /\ main' = "down"
  /\ UNCHANGED <<child, parent>>

-----------------------------------------------------------------------------
\* The other views' threads: each submits its layer as long as its executor is up.
OtherSubmit(j) ==
  /\ j \in Others
  /\ prod[j] = "idle" => main \notin {"stopping", "closing", "down"}
  /\ Submit(j) /\ UNCHANGED deferred

\* Plain futures are cancelled with their view; the executor's shutdown cancels any.
CancelQueued(j) ==
  /\ executor = "draining" \/ (j \in Others /\ main = "aborting")
  /\ Cancel(j) /\ UNCHANGED deferred

Preparation == Prepare \/ Flush \/ Flushed
Callback == \E c \in ChildJobs : Reject(c) \/ Deliver(c)
Loop == Poll \/ Register \/ Surface
Teardown == CancelPublications \/ AbortQueue \/ Join \/ ShutdownQueue
PassOn(j) == Enqueue(j) \/ EnqueueRaises(j) \/ Revoke(j) \/ Attach(j)

DeferredNext ==
  \/ \E j \in Jobs : OtherSubmit(j) \/ CancelQueued(j)
                     \/ ((PassOn(j) \/ Worker(j)) /\ UNCHANGED deferred)
  \/ Callback \/ Preparation \/ Loop \/ Finish \/ Fail \/ Teardown
  \/ StopExecutor /\ UNCHANGED deferred

\* Every thread goes on: the other views', the executor's, the preparing one with the
\* callbacks, the loop, whose wait ends with every heartbeat, and the teardown; once it has
\* begun, the executor's shutdown ends.  Nothing has to be submitted, and nothing to fail.
DeferredFairness ==
  /\ \A j \in Jobs : /\ WF_all((prod[j] = "submitting" /\ OtherSubmit(j)) \/ (PassOn(j) /\ UNCHANGED deferred))
                     /\ WF_all(Worker(j) /\ UNCHANGED deferred)
  /\ WF_all(Preparation) /\ WF_all(Callback) /\ WF_all(Loop \/ Teardown)
  /\ WF_all((StopExecutor \/ \E j \in Jobs : executor = "draining" /\ Cancel(j)) /\ UNCHANGED deferred)
DeferredSpec == DeferredInit /\ [][DeferredNext]_all /\ DeferredFairness

-----------------------------------------------------------------------------
(* Properties. *)

\* A publication has one owner.  While it is held its input never was in the queue, and
\* one that was withdrawn never will be; requests leave the view in component order, and
\* the layers are registered only when every projection has succeeded.
OneOwnerInOrder ==
  /\ \A c \in Is("held") \union Is("cancelled") : prod[c] = "idle" /\ work[c] = "none"
  /\ \A i, k \in DOMAIN Children :
       i < k /\ prod[Children[k]] # "idle" => prod[Children[i]] # "idle"
  /\ \A c \in Is("resolved") : work[c] = "resolved"
  /\ main \in {"registered", "closing"} => \A c \in ChildJobs : work[c] = "resolved"

\* A publication that met a full queue is admitted in the end, unless the run fails; and
\* after a failure no future is left holding its input, and the teardown, which joins threads
\* that may be blocked in the queue, comes to its end.
LayersSettle ==
  <>[](/\ parent = "returned" => Is("held") = {}
       /\ main \notin {"failing", "aborting", "joining", "stopping"}
       /\ main \in {"closing", "down"} => executor = "down")
=============================================================================
