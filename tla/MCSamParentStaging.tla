------------------------- MODULE MCSamParentStaging -------------------------
(* Instances of SamParentStaging for TLC. *)
EXTENDS SamParentStaging
CONSTANTS curved, radial, flat, tile, group

\* Two dear parents and a cheap one on three lanes; one dear parent and a tile are above the
\* whole capacity, the other one has a tracker scope and a retry group.
LenderOf == group :> curved
BaseOf == (curved :> 6) @@ (radial :> 13) @@ (flat :> 2) @@ (tile :> 13)
AskOf == curved :> 1
ScopesOf == [l \in {curved, radial, flat, tile, group} |-> IF l = curved THEN 1 ELSE 0]
DenseOfEach == [p \in {curved, radial, flat, tile} |-> IF p = tile THEN 0 ELSE 3]

\* Two dear parents for as many lanes, and a cheap one.
NoLender == <<>>
FullBase == (curved :> 8) @@ (radial :> 8) @@ (flat :> 2)
FullDense == (curved :> 4) @@ (radial :> 4) @@ (flat :> 3)
NoScopes == (curved :> 0) @@ (radial :> 0) @@ (flat :> 0)
=============================================================================
