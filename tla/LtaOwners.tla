----------------------------- MODULE LtaOwners -----------------------------
(***************************************************************************)
(* assign_view_owners of src/XTA/lta_scheduler.py: whole views are given   *)
(* to devices, the costliest first, each to the device with the least      *)
(* load.  Devices are numbered by their position in device_ids, views by   *)
(* their order.                                                            *)
(***************************************************************************)
EXTENDS Naturals, FiniteSets, FiniteSetsExt, Totals

\* Views in the order they are placed: by falling cost, then by key.
Costlier(cost, u, v) == cost[u] > cost[v] \/ (cost[u] = cost[v] /\ u < v)
Rank(cost, v) == Cardinality({u \in DOMAIN cost : Costlier(cost, u, v)})
PlacedAt(cost, i) == CHOOSE v \in DOMAIN cost : Rank(cost, v) = i - 1

\* loads[i]: the load of each device after i views.
LeastLoaded(load, devices) ==
  Min({d \in devices : \A e \in devices : load[d] <= load[e]})

Placements(cost, devices) ==
  LET step[i \in 0..Cardinality(DOMAIN cost)] ==
        IF i = 0 THEN [load |-> [d \in devices |-> 0], owner |-> <<>>]
        ELSE LET before == step[i - 1]
                 v == PlacedAt(cost, i)
                 d == LeastLoaded(before.load, devices)
             IN [load |-> [before.load EXCEPT ![d] = @ + cost[v]],
                 owner |-> [u \in DOMAIN before.owner \union {v} |->
                              IF u = v THEN d ELSE before.owner[u]]]
  IN step[Cardinality(DOMAIN cost)]

AssignViewOwners(cost, devices) == Placements(cost, devices).owner
=============================================================================
