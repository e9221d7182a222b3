------------------------ MODULE OrderedPublication ------------------------
(***************************************************************************)
(* What the LTA scheduler promises its caller (docstring of                *)
(* src/XTA/lta_scheduler.py:251 and the tests of its commit frontier):     *)
(* work is settled once, published once and in plan order, however the     *)
(* sessions finish, and a closed view has all its work published and gets  *)
(* no more.                                                                *)
(***************************************************************************)
EXTENDS Naturals, FiniteSets

CONSTANTS Work, Initial, View

VARIABLES offered, settled, published, closed, returned
vars == <<offered, settled, published, closed, returned>>

Views == {View[w] : w \in Initial}

Init ==
  /\ offered = Initial
  /\ settled = {} /\ published = {} /\ closed = {} /\ returned = {}

\* New work comes after all that is known, and only for open views.
Offer(S) ==
  /\ \A w \in S : View[w] \notin closed /\ \A u \in offered : u < w
  /\ offered' = offered \union S
  /\ UNCHANGED <<settled, published, closed, returned>>

Settle(w) ==
  /\ w \in offered \ settled
  /\ settled' = settled \union {w}
  /\ UNCHANGED <<offered, published, closed, returned>>

\* The next works of the plan are published together, all of them settled.
Publish(S) ==
  /\ S # {} /\ S \subseteq settled \ published
  /\ \A w \in S : \A u \in offered : u < w => u \in published \union S
  /\ published' = published \union S
  /\ UNCHANGED <<offered, settled, closed, returned>>

Close(v) ==
  /\ v \notin closed
  /\ \A w \in offered : View[w] = v => w \in published
  /\ closed' = closed \union {v}
  /\ UNCHANGED <<offered, settled, published, returned>>

\* The one backprojection of the view that is kept.
Return(v) ==
  /\ v \in closed \ returned
  /\ returned' = returned \union {v}
  /\ UNCHANGED <<offered, settled, published, closed>>

Next ==
  \/ \E S \in SUBSET (Work \ offered) : Offer(S)
  \/ \E w \in offered : Settle(w)
  \/ \E S \in SUBSET settled : Publish(S)
  \/ \E v \in Views : Close(v) \/ Return(v)

Spec == Init /\ [][Next]_vars
=============================================================================
