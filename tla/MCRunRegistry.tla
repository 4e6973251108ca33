--------------------------- MODULE MCRunRegistry ---------------------------
(* Small instances of RunRegistry for TLC. *)
EXTENDS RunRegistry, TLC

\* Workers and Runs are interchangeable: no property tells them apart.
Symmetry == Permutations(Workers) \cup Permutations(Runs)

=============================================================================
