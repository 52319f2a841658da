--------------------------- MODULE MCNodeCluster ---------------------------
(***************************************************************************)
(* The cluster with one process per worker instance.                       *)
(***************************************************************************)
EXTENDS NodeCluster

CONSTANTS t1, t2

MCBenchmark == <<t1, t2>>
MCInstanceId == [w \in Workers |-> w]
Symmetry == Permutations(Workers)
=============================================================================
