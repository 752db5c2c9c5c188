-------------------------- MODULE MCThreadSafeQueue ---------------------------
(***************************************************************************)
(* Small instances of ThreadSafeQueue for TLC.                             *)
(***************************************************************************)
EXTENDS ThreadSafeQueue, TLC

Symmetry == Permutations(Consumers) \cup Permutations(Tasks)

=============================================================================
