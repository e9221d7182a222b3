-------------------------- MODULE OwnershipHandoff --------------------------
(***************************************************************************)
(* What the component projection queue promises (docstring of              *)
(* src/XTA/projection_queue.py:20): an input has one owner at a time, the  *)
(* producer, the queue, a projector, and then nobody; what the queue       *)
(* retains and what the projectors work on are bounded, and one job larger *)
(* than a limit may run alone.                                             *)
(***************************************************************************)
EXTENDS Naturals, FiniteSets, Totals

CONSTANTS Jobs, SourceBytes, WorkingBytes, Workers, MaxPending, MaxSource, MaxWorking, Budgets

VARIABLES owner, budget
vars == <<owner, budget>>

OwnedBy(who) == {j \in Jobs : owner[j] \in who}
Retained == OwnedBy({"queue", "projector", "settling"})
Init == owner = [j \in Jobs |-> "producer"] /\ budget = MaxWorking

Pass(j, from, to) == owner[j] \in from /\ owner' = [owner EXCEPT ![j] = to]

\* The queue takes an input over if everything it then retains fits, or if it is alone.
Accept(j) ==
  /\ Pass(j, {"producer"}, "queue")
  /\ Cardinality(Retained) < MaxPending
  /\ Retained = {} \/ Total(SourceBytes, Retained \union {j}) <= MaxSource
  /\ UNCHANGED budget

\* The budget may be measured anew at any time.
Measure == budget' \in Budgets /\ UNCHANGED owner

\* A projector starts if all active work fits the budget measured, or if it is alone.
Project(j) ==
  /\ Pass(j, {"queue"}, "projector")
  /\ Cardinality(OwnedBy({"projector"})) < Workers
  /\ budget' \in Budgets \union {budget}
  /\ \/ OwnedBy({"projector"}) = {}
     \/ Total(WorkingBytes, OwnedBy({"projector"}) \union {j}) <= budget'

Finish(j) == Pass(j, {"projector"}, "settling") /\ UNCHANGED budget

\* The input is dropped once its projection is over, or without one on failure.
Drop(j) == Pass(j, {"queue", "settling"}, "gone") /\ UNCHANGED budget

Next == Measure \/ \E j \in Jobs : Accept(j) \/ Project(j) \/ Finish(j) \/ Drop(j)

Spec == Init /\ [][Next]_vars
=============================================================================
