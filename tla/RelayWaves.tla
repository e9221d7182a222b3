----------------------------- MODULE RelayWaves -----------------------------
(***************************************************************************)
(* What the relay frontier promises: one wave after the other, each a      *)
(* single step that is a function of the mailboxes and the coverage alone, *)
(* "device count and completion order cannot change which input revisions  *)
(* belong to a wave" (lta_frontier_execution.py:52).                       *)
(***************************************************************************)
EXTENDS CanonicalFrontier

CONSTANT MaxGenerations

VARIABLES flow, stage, generation, box, coverage, incoming, emitted

vars == <<flow, stage, generation, box, coverage, incoming, emitted>>

Start == stage = "admit" /\ generation = 1 /\ box = EmptyBoxes /\ emitted = Nothing

\* The whole of one wave over the mailboxes b, planned against the coverage c.
Advances(b, c, lease) ==
  \E plan \in {Planned(c, lease)} :
     /\ box' = Settled(flow, b, lease, plan)
     /\ coverage' = AllCovered(flow, c, plan)
     /\ emitted' = Both(emitted, Emitted(flow, plan))
     /\ stage' = "waves"

Admit ==
  /\ stage = "admit"
  /\ incoming' = Nothing
  /\ \E b \in {Offered(box, incoming)}, c \in {coverage} : \E lease \in {Wave(b)} :
       IF DOMAIN lease # {} /\ generation <= MaxGenerations
       THEN Advances(b, c, lease)
       ELSE /\ stage' = IF DOMAIN lease = {} THEN "settled" ELSE "raised"
            /\ box' = b /\ UNCHANGED <<coverage, emitted>>
  /\ UNCHANGED <<flow, generation>>

NextWave ==
  /\ stage = "waves"
  /\ \E b \in {box}, c \in {coverage} : \E lease \in {Wave(b)} :
       DOMAIN lease # {} /\ Advances(b, c, lease)
  /\ UNCHANGED <<flow, generation, incoming>>

EndGeneration ==
  /\ stage = "waves" /\ \E b \in {box} : DOMAIN Wave(b) = {}
  /\ stage' = "admit" /\ generation' = generation + 1
  /\ incoming' = emitted /\ emitted' = Nothing
  /\ UNCHANGED <<flow, box, coverage>>

\* A worker fails or is late: the run of this view raises.
Fail == stage = "waves" /\ stage' = "raised" /\ UNCHANGED <<flow, generation, box, coverage, incoming, emitted>>

Next == Admit \/ NextWave \/ EndGeneration \/ Fail
Spec == Start /\ [][Next]_vars
=============================================================================
