---------------------------- MODULE MCCacheEngine -----------------------------
(***************************************************************************)
(* Small instances of CacheEngine for TLC.                                 *)
(***************************************************************************)
EXTENDS CacheEngine, TLC

MCAnswers == [k \in Keys |-> Values]

Symmetry == Permutations(Workers) \cup Permutations(Clients) \cup Permutations(Flights)
=============================================================================
