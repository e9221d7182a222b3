----------------------- MODULE MCNativePullScheduler -----------------------
(* Instances of NativePullScheduler for TLC.                               *)
EXTENDS NativePullScheduler, TLC
CONSTANTS a, b
\* a is wider than its fair share of two workers, b is not.
TwoCount == (a :> 4) @@ (b :> 2)
SmallCount == (a :> 2) @@ (b :> 1)
TwoWindow == (a :> 2) @@ (b :> 1)
=============================================================================
