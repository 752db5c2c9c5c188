------------------------------ MODULE MCConsole -------------------------------
(***************************************************************************)
(* Small instances of Console for TLC.                                     *)
(***************************************************************************)
EXTENDS Console

\* A configuration file has no negative numbers.
MCNumbers == {-1, 0, 2}
=============================================================================
