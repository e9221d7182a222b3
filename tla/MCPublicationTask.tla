------------------------- MODULE MCPublicationTask -------------------------
(***************************************************************************)
(* Four GPU batches, the second larger than the limit; five host batches,  *)
(* three of them encoded (sized after their reservation), one of these     *)
(* larger than the limit.                                                  *)
(***************************************************************************)
EXTENDS PublicationTask

MCGpuBytes == <<1, 3, 1, 1>>
MCHostWork == <<<<[bytes |-> 1, sized |-> TRUE], [bytes |-> 1, sized |-> FALSE]>>,
                <<[bytes |-> 3, sized |-> TRUE]>>,
                <<[bytes |-> 2, sized |-> FALSE]>>,
                <<[bytes |-> 1, sized |-> TRUE]>>>>
=============================================================================
