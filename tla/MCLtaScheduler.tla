--------------------------- MODULE MCLtaScheduler ---------------------------
(***************************************************************************)
(* An instance of LtaScheduler for TLC.  View 1 has the windows 1 and 3,   *)
(* on both of which 4 depends, and a relay generation, window 5, that is   *)
(* planned while the run goes on; view 2 has one window between them in    *)
(* the plan and is finished early, so that its device can help.  Window 0  *)
(* comes too late for its place in the plan and must never be accepted.    *)
(***************************************************************************)
EXTENDS LtaScheduler, LtaOwners

CostFirst == [w \in Work |-> IF w = 1 THEN 2 ELSE 1]

RelayInitial == Work \cap 1..4
RelayView == [w \in Work |-> IF w = 2 THEN 2 ELSE 1]
RelayGeneration == [w \in Work |-> IF w \in RelayInitial THEN 0 ELSE 1]
RelayDeps == [w \in Work |-> IF w = 4 THEN {1, 3} ELSE {}]
RelayEligible == [w \in Work |-> w # 4]

ViewCost == [v \in Views |-> Total(Cost, Of(v, Initial))]
MCOwner == AssignViewOwners(ViewCost, Devices)
=============================================================================
