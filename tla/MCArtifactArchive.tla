------------------------- MODULE MCArtifactArchive -------------------------
(* Instances of ArtifactArchive for TLC: two names, of one and two payload *)
(* blocks, so that a short transaction can stop inside a longer old tail.  *)
EXTENDS ArtifactArchive, TLC
CONSTANTS a, b
BlocksDefault == (a :> 1) @@ (b :> 2)
=============================================================================
