-------------------------- MODULE DetectorWorkspaces --------------------------
(***************************************************************************)
(* DetectorWorkspacePreparation (detector_workspaces.py) with its single   *)
(* background worker (tta_background.py) and the callbacks the pipeline    *)
(* gives it.  The main thread reserves dense credit for a group of         *)
(* detector views and requests their arrays; the worker allocates them;    *)
(* the main thread adopts the result or, when another owner promised RAM   *)
(* meanwhile, sends the same arrays back to be qualified again.  A failure *)
(* anywhere ends the main loop, and shutdown must account for every array  *)
(* and every credit, wherever the group happens to be.                     *)
(***************************************************************************)
EXTENDS Naturals, Sequences, SequencesExt

CONSTANTS Groups,
          MaxPromises  \* bound: RAM promises of other owners in one behaviour

VARIABLES
  records,   \* the groups with a record, in the order of their requests
  job,       \* group -> what its future stands for
  future,    \* group -> state of that future
  inbox,     \* the worker's queue of <<job, group>>
  worker,    \* what the worker runs: a sequence of at most one item
  credit,    \* group -> its lease: "none", "preparing", "inference" or "returned"
  arrays,    \* group -> "none", "private", "published", "closed" or "dropped"
  aliased,   \* closed arrays that somebody still refers to
  retired,   \* closed groups whose credit waits for the last alias
  current,   \* plans that know every promise
  promises,
  phase,     \* the main thread: "up", then the steps of shutdown, then "down"
  collect,   \* records whose future shutdown has yet to wait for
  cleanup    \* discards shutdown has yet to wait for

vars == <<records, job, future, inbox, worker, credit, arrays, aliased, retired, current,
          promises, phase, collect, cleanup>>
main == <<phase, collect, cleanup>>
plans == <<current, promises>>

Init ==
  /\ records = <<>> /\ inbox = <<>> /\ worker = <<>>
  /\ job = [g \in Groups |-> "none"] /\ future = [g \in Groups |-> "none"]
  /\ credit = [g \in Groups |-> "none"] /\ arrays = [g \in Groups |-> "none"]
  /\ aliased = {} /\ retired = {} /\ current = Groups /\ promises = 0
  /\ phase = "up" /\ collect = <<>> /\ cleanup = <<>>

Stopped == phase # "up"

Submit(g, kind) ==
  /\ inbox' = Append(inbox, <<kind, g>>)
  /\ job' = [job EXCEPT ![g] = kind]
  /\ future' = [future EXCEPT ![g] = "queued"]

-----------------------------------------------------------------------------
(* The main thread while it runs. *)

\* _request_baseline_workspaces and request.
Request(g) ==
  /\ ~Stopped /\ credit[g] = "none"
  /\ credit' = [credit EXCEPT ![g] = "preparing"]
  /\ records' = Append(records, g)
  /\ current' = current \union {g}
  /\ Submit(g, "build")
  /\ UNCHANGED <<worker, arrays, aliased, retired, promises, main>>

\* Another owner of RAM makes a promise: every plan made before rests on an old basis.
Promise ==
  /\ ~Stopped /\ promises < MaxPromises
  /\ promises' = promises + 1 /\ current' = {}
  /\ UNCHANGED <<records, job, future, inbox, worker, credit, arrays, aliased, retired, main>>

\* The callback adopt and the removal of the record.
Adopt(g) ==
  /\ ~Stopped /\ g \in ToSet(records) /\ future[g] = "done" /\ g \in current
  /\ arrays' = [arrays EXCEPT ![g] = "published"]
  /\ credit' = [credit EXCEPT ![g] = "inference"]
  /\ records' = RemoveFirst(records, g)
  /\ UNCHANGED <<job, future, inbox, worker, aliased, retired, plans, main>>

\* Mutant of Readopt: the plans are not refreshed and keep the old basis.
ReadoptStale(g) ==
  /\ ~Stopped /\ g \in ToSet(records) /\ future[g] = "done" /\ g \notin current
  /\ Submit(g, "requalify")
  /\ UNCHANGED <<records, worker, credit, arrays, aliased, retired, plans, main>>

\* adopt refuses because of a new promise: "Keep the same arrays and charge."
Readopt(g) ==
  /\ ~Stopped /\ g \in ToSet(records) /\ future[g] = "done" /\ g \notin current
  /\ current' = current \union {g}
  /\ Submit(g, "requalify")
  /\ UNCHANGED <<records, worker, credit, arrays, aliased, retired, promises, main>>

-----------------------------------------------------------------------------
(* Returning credit. *)

Give(g) == credit' = [credit EXCEPT ![g] = "returned"]

\* Mutant of Retire: the credit goes back although the arrays are still referred to.
RetireAtOnce(g) == Give(g) /\ retired' = retired

\* _retire: the credit goes back when the last reference to the arrays is gone.
Retire(g) ==
  IF g \in aliased THEN retired' = retired \union {g} /\ UNCHANGED credit
                   ELSE Give(g) /\ retired' = retired

\* settle_retired, at the end of shutdown.  Drain runs it too, but a group it retires
\* raises in the same call and ends the main loop, so that drain never finds one.
Settle ==
  /\ retired' = retired \intersect aliased
  /\ credit' = [g \in Groups |-> IF g \in retired \ aliased THEN "returned" ELSE credit[g]]

\* The last alias of closed arrays goes.
DropAlias(g) ==
  /\ g \in aliased /\ aliased' = aliased \ {g}
  /\ UNCHANGED <<records, job, future, inbox, worker, credit, arrays, retired, current, promises, main>>

-----------------------------------------------------------------------------
(* The background worker. *)

\* A cancelled item is skipped; arrays it was to qualify again go with it, unclosed.
Take ==
  /\ worker = <<>> /\ inbox # <<>>
  /\ inbox' = Tail(inbox)
  /\ LET kind == Head(inbox)[1]
         g == Head(inbox)[2]
     IN IF future[g] = "cancelled"
        THEN /\ arrays' = [arrays EXCEPT ![g] = IF kind = "requalify" THEN "dropped" ELSE @]
             /\ UNCHANGED <<worker, future>>
        ELSE /\ worker' = <<Head(inbox)>>
             /\ future' = [future EXCEPT ![g] = "running"]
             /\ UNCHANGED arrays
  /\ UNCHANGED <<records, job, credit, aliased, retired, plans, main>>

Closes(g) == arrays' = [arrays EXCEPT ![g] = "closed"] /\ aliased' \in {aliased, aliased \union {g}}
Becomes(g, outcome) == future' = [future EXCEPT ![g] = outcome]

\* The job ends.  A build fails when it sees the stop or an allocation fails, and then closes
\* what it had; a discard closes; closing itself may fail and leaves the arrays as they are.
End(kind, g) ==
  /\ worker = <<<<kind, g>>>> /\ worker' = <<>>
  /\ \/ /\ kind # "discard" /\ Becomes(g, "done")
        /\ arrays' = [arrays EXCEPT ![g] = "private"] /\ UNCHANGED aliased
     \/ kind # "discard" /\ Becomes(g, "failed") /\ Closes(g)
     \/ kind = "discard" /\ Becomes(g, "done") /\ Closes(g)
     \/ /\ Becomes(g, "broken")
        /\ arrays' = [arrays EXCEPT ![g] = "private"] /\ UNCHANGED aliased
  /\ UNCHANGED <<records, job, inbox, credit, retired, plans, main>>

-----------------------------------------------------------------------------
(* The end of the main loop, by an error or in good order, and shutdown. *)

\* stop is set and every future that no thread has taken is cancelled.  A birth failure
\* that drain met has retired its group before it is raised.
Cancelled == [g \in Groups |-> IF g \in ToSet(records) /\ future[g] = "queued" THEN "cancelled" ELSE future[g]]
Stop ==
  /\ phase = "up" /\ phase' = "collecting"
  /\ future' = Cancelled
  /\ \/ collect' = records /\ UNCHANGED <<records, credit, retired>>
     \/ \E g \in ToSet(records) :
          /\ future[g] = "failed" /\ Retire(g)
          /\ records' = RemoveFirst(records, g)
          /\ collect' = records'
  /\ UNCHANGED <<job, inbox, worker, arrays, aliased, plans, cleanup>>

\* Mutant of Collect: a record whose arrays are complete is dropped without a discard.
CollectForgetful ==
  /\ phase = "collecting" /\ collect # <<>>
  /\ collect' = Tail(collect)
  /\ LET g == Head(collect)
     IN \/ future[g] \in {"cancelled", "done"} /\ Give(g) /\ records' = RemoveFirst(records, g) /\ UNCHANGED <<retired, cleanup, inbox, job, future>>
        \/ future[g] = "failed" /\ Retire(g) /\ records' = RemoveFirst(records, g) /\ UNCHANGED <<cleanup, inbox, job, future>>
        \/ future[g] = "broken" /\ UNCHANGED <<records, credit, retired, cleanup, inbox, job, future>>
  /\ UNCHANGED <<worker, arrays, aliased, plans, phase>>

\* The first loop of shutdown, one record: wait for its future and return the credit, or
\* have the arrays discarded.
Collect ==
  /\ phase = "collecting" /\ collect # <<>>
  /\ collect' = Tail(collect)
  /\ LET g == Head(collect)
     IN \/ /\ future[g] = "cancelled" /\ Give(g) /\ records' = RemoveFirst(records, g)
           /\ UNCHANGED <<retired, cleanup, inbox, job, future>>
        \/ /\ future[g] = "failed" /\ Retire(g) /\ records' = RemoveFirst(records, g)
           /\ UNCHANGED <<cleanup, inbox, job, future>>
        \/ /\ future[g] = "broken"
           /\ UNCHANGED <<records, credit, retired, cleanup, inbox, job, future>>
        \/ /\ future[g] = "done" /\ Submit(g, "discard")
           /\ cleanup' = Append(cleanup, g)
           /\ UNCHANGED <<records, credit, retired>>
  /\ UNCHANGED <<worker, arrays, aliased, plans, phase>>

\* The second loop: wait for a discard.
Cleanup ==
  /\ phase = "collecting" /\ collect = <<>> /\ cleanup # <<>>
  /\ cleanup' = Tail(cleanup)
  /\ LET g == Head(cleanup)
     IN \/ future[g] = "done" /\ Retire(g) /\ records' = RemoveFirst(records, g)
        \/ future[g] = "broken" /\ UNCHANGED <<records, credit, retired>>
  /\ UNCHANGED <<job, future, inbox, worker, arrays, aliased, plans, phase, collect>>

\* executor.shutdown empties the queue of cancelled items, whose arrays go with them; the
\* worker is joined and what can be settled is settled.
CloseExecutor ==
  /\ phase = "collecting" /\ collect = <<>> /\ cleanup = <<>>
  /\ phase' = "joining" /\ inbox' = <<>>
  /\ arrays' = [g \in Groups |-> IF <<"requalify", g>> \in ToSet(inbox) THEN "dropped" ELSE arrays[g]]
  /\ UNCHANGED <<records, job, future, worker, credit, aliased, retired, plans, collect, cleanup>>

Join ==
  /\ phase = "joining" /\ worker = <<>>
  /\ phase' = "down" /\ Settle
  /\ UNCHANGED <<records, job, future, inbox, worker, arrays, aliased, plans, collect, cleanup>>

\* The run's resources shut every tracked executor down again; this settles late aliases.
Repeat ==
  /\ phase = "down" /\ retired \ aliased # {}
  /\ Settle
  /\ UNCHANGED <<records, job, future, inbox, worker, arrays, aliased, plans, main>>

MainStep == Collect \/ Cleanup \/ CloseExecutor \/ Join \/ Repeat
            \/ \E g \in Groups : Adopt(g) \/ Readopt(g)
WorkerStep == Take \/ \E kind \in {"build", "requalify", "discard"}, g \in Groups : End(kind, g)
Next == MainStep \/ WorkerStep \/ Promise \/ Stop \/ \E g \in Groups : Request(g) \/ DropAlias(g)

Spec == Init /\ [][Next]_vars

\* The main loop drains, the worker works on, and a failed record ends the main loop.
Fairness ==
  /\ WF_vars(MainStep) /\ WF_vars(WorkerStep)
  /\ WF_vars(\E g \in Groups : g \in ToSet(records) /\ future[g] \in {"failed", "broken"} /\ Stop)
FairSpec == Spec /\ Fairness

-----------------------------------------------------------------------------
(* Properties. *)

Live(g) == arrays[g] = "private" \/ (arrays[g] = "closed" /\ g \in aliased)

\* A group cancelled on its way to a second qualification.
Orphaned(g) == job[g] = "requalify" /\ future[g] = "cancelled"

\* The credit of a group is returned only after its arrays are gone, wherever shutdown, a
\* failed birth or a late alias met it, and published arrays are never discarded.
CreditCoversArrays ==
  \A g \in Groups :
    /\ Live(g) /\ ~Orphaned(g) => credit[g] = "preparing"
    /\ arrays[g] = "published" <=> credit[g] = "inference"

\* "Keep the same arrays and charge": the same without the exception.
ArraysKeepTheirCharge == \A g \in Groups : Live(g) => credit[g] = "preparing"

\* After shutdown the credit of every group is adopted or returned, and its arrays are
\* published, closed or were never made, except where closing them failed, an alias is
\* still alive, or the group was orphaned.
ShutdownSettles ==
  phase = "down" =>
    /\ inbox = <<>> /\ worker = <<>>
    /\ \A g \in Groups :
         /\ credit[g] = "preparing" => g \in retired \/ future[g] = "broken"
         /\ arrays[g] \in {"private", "dropped"} => future[g] = "broken" \/ Orphaned(g)

\* A requested group is published or the run has shut down: refused adoptions, failures
\* and cancellations leave nobody waiting.
RequestsAreAnswered ==
  \A g \in Groups : credit[g] = "preparing" ~> (credit[g] = "inference" \/ phase = "down")
=============================================================================
