SPECIFICATION Spec
CONSTANTS
  Runs = {r1, r2}
  Installations = {i1}
  Keys = {k1, k2}
  StartRequests = {f1}
  Hosts = {h1}
  Workers = {w1, w2}
  Supervisor = sup
  None = none
  MaxFaults = 0
  Disconnects = FALSE
SYMMETRY Symmetry
INVARIANTS
  OneActivation
  NoStopWhileRunning
