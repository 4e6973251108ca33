SPECIFICATION Spec
CONSTANTS
  Exposures = {e1}
  Bindings = {b1, b2}
  Keys = {k1}
  Expiring = {e1}
  Workers = {w1, w2}
  None = none
  Capacity = 1
  MaxGenerations = 1
  MaxFaults = 1
SYMMETRY Symmetry
INVARIANTS
  TypeOK
  
  SelectedIsServed
  RevokedIsTerminal
PROPERTIES
  RestartCloses
CHECK_DEADLOCK FALSE
