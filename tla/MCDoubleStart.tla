--------------------------- MODULE MCDoubleStart ---------------------------
(***************************************************************************)
(* One worker instance whose start command was sent twice, because the     *)
(* first process gave no heartbeat within START_SIGNAL_TIMEOUT: two        *)
(* processes with the same instance id.                                    *)
(***************************************************************************)
EXTENDS NodeCluster

CONSTANTS t1, t2

MCBenchmark == <<t1, t2>>
MCInstanceId == [p \in Procs |-> CHOOSE w \in Workers : TRUE]
=============================================================================
