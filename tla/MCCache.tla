------------------------------ MODULE MCCache -------------------------------
(***************************************************************************)
(* Small instances of Cache for TLC.                                       *)
(***************************************************************************)
EXTENDS Cache, TLC

CONSTANTS k1, k2, k3, k4, v1, v2, v3, v4

\* Each key has answers of its own, so that a mix-up shows.
MCAnswers == [k \in Keys |-> CASE k = k1 -> {v1} [] k = k2 -> {v2}
                               [] k = k3 -> {v3} [] k = k4 -> {v4}]

\* No two sets of lines add up to the same bytes.
MCSizeOf == [x \in Keys \cup Values |->
                CASE x = k1 -> 1  [] x = k2 -> 2  [] x = k3 -> 4  [] x = k4 -> 8
                  [] x = v1 -> 10 [] x = v2 -> 20 [] x = v3 -> 40 [] x = v4 -> 80]

\* Lines of no length, for runs in which payload_bytes would grow for ever.
MCNoSize == [x \in Keys \cup Values |-> 0]

Symmetry == Permutations(Workers) \cup Permutations(Nodes)
=============================================================================
