------------------------------ MODULE MCTelemetry -----------------------------
(***************************************************************************)
(* Small instances of Telemetry for TLC.                                   *)
(***************************************************************************)
EXTENDS Telemetry, TLC

Symmetry == Permutations(Reporters) \cup Permutations(Workers)
=============================================================================
