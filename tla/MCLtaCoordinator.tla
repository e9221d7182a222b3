-------------------------- MODULE MCLtaCoordinator --------------------------
(***************************************************************************)
(* An instance of LtaCoordinator for TLC: the view has a chain with a root *)
(* 1 and two branches, 2 before 4 and 3, and the independent window 5; a   *)
(* relay generation may bring window 6.  The view belongs to device 0, and *)
(* device 1 helps.                                                         *)
(***************************************************************************)
EXTENDS LtaCoordinator, LtaOwners

RootInitial == Work \cap 1..5
RootView == [w \in Work |-> 1]
RootGeneration == [w \in Work |-> IF w = 6 THEN 1 ELSE 0]
RootCost == [w \in Work |-> 1]
RootDeps == [w \in Work |-> CASE w \in {2, 3} -> {1} [] w = 4 -> {2} [] OTHER -> {}]
RootEligible == [w \in Work |-> TRUE]

ViewCost == [v \in Views |-> Total(Cost, Of(v, Initial))]
MCOwner == AssignViewOwners(ViewCost, Devices)
=============================================================================
