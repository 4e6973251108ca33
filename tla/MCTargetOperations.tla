------------------------- MODULE MCTargetOperations -------------------------
(* TLC instance of TargetOperations: Hosts and workers are interchangeable. *)
EXTENDS TargetOperations, TLC

Symmetry == Permutations(Hosts) \cup Permutations(Workers)

=============================================================================
