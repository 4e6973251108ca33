SPECIFICATION Spec
CONSTANTS
  Runs = {r1}
  Installations = {i1}
  Keys = {k1}
  StartRequests = {f1, f2}
  Hosts = {h1}
  Workers = {w1, w2}
  Supervisor = sup
  None = none
  MaxFaults = 2
  Disconnects = TRUE
SYMMETRY Symmetry
INVARIANTS
  TypeOK
  SingleOwner
  ActivationAccounted
  SettledIsClean
