--------------------------- MODULE MCInstallations ---------------------------
(* Model values of the Installation registry that are interchangeable.     *)
EXTENDS InstallationRegistry, TLC

Symmetry ==
  Permutations(Installations) \cup Permutations(Keys) \cup Permutations(Workers)
    \cup Permutations(Contents \ {Empty})

=============================================================================
