---------------------------- MODULE MCAutoScaler ----------------------------
(***************************************************************************)
(* The control loop with two workers. The scenario is a prefix of four     *)
(* tasks.                                                                  *)
(***************************************************************************)
EXTENDS AutoScaler

CONSTANTS t1, t2, t3, t4, w1, w2

MCBenchmark == SelectSeq(<<t1, t2, t3, t4>>, LAMBDA t : t \in Tasks)
MCListing == <<w1, w2>>
=============================================================================
