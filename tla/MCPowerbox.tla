----------------------------- MODULE MCPowerbox -----------------------------
(* Model values of the Powerbox that are interchangeable.                  *)
EXTENDS Powerbox, TLC

Symmetry ==
  Permutations(Exposures) \cup Permutations(Bindings) \cup Permutations(Keys)
    \cup Permutations(Workers)

=============================================================================
