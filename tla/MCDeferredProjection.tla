------------------------- MODULE MCDeferredProjection -------------------------
(* An instance of DeferredProjection for TLC: a view with two publications. *)
EXTENDS DeferredProjection

CONSTANTS wide, heavy, light

\* Source limit 4: `wide` exceeds it, the two publications fit together.
MCSource == [j \in Jobs |-> IF j = wide THEN 5 ELSE 2]
MCWorking == [j \in Jobs |-> IF j = heavy THEN 6 ELSE 2]
MCChildren == <<heavy, light>>
=============================================================================
