-------------------------- MODULE MCTrafficGenerator --------------------------
(***************************************************************************)
(* Small instances of TrafficGenerator for TLC.                            *)
(***************************************************************************)
EXTENDS TrafficGenerator, TLC

Symmetry == Permutations(Threads)
=============================================================================
