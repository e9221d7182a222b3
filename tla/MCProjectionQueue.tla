-------------------------- MODULE MCProjectionQueue --------------------------
(* An instance of ProjectionQueue for TLC. *)
EXTENDS ProjectionQueue

CONSTANTS wide, heavy, l1, l2, l3, l4

\* Source limit 4: `wide` exceeds it; any three others fit together.
MCSource == [j \in Jobs |-> IF j = wide THEN 5 ELSE 1]
\* Working limit 4: `heavy` exceeds it; any two others fit together, so that light
\* inputs overtake a waiting `heavy` while one of them runs.
MCWorking == [j \in Jobs |-> IF j = heavy THEN 6 ELSE 2]

\* Nothing has failed, been cancelled or torn down, and one producer hands the inputs
\* over, one after the other, when there is room.
Flawless ==
  /\ error = NoError /\ ~closed
  /\ \A j \in Jobs : /\ prod[j] \in {"idle", "handoff", "attaching", "returned"}
                     /\ work[j] \notin {"failed", "rejected", "cancelled"}
  /\ \A j, k \in Jobs : {prod[j], prod[k]} \subseteq {"handoff", "attaching"} => j = k

\* The light inputs are alike: they are submitted in this order.
InTurn == /\ prod[l2] # "idle" => prod[l1] # "idle"
          /\ prod[l3] # "idle" => prod[l2] # "idle"
          /\ prod[l4] # "idle" => prod[l3] # "idle"

\* Three inputs through everything, or `heavy` before all but one of the light ones, one
\* producer and no fault: what it takes to overtake an input more often than is allowed.
FewOrFlawless ==
  /\ InTurn
  /\ prod[l2] = "idle" \/ (Flawless /\ prod[wide] = "idle" /\ prod[heavy] # "idle")
=============================================================================
