SPECIFICATION Spec
CONSTANTS
  Operations = {1, 2}
  Keys = {k1}
  None = none
  Hosts = {h1, h2}
  Workers = {w1, w2}
  Steps = 2
  MaxTerm = 2
  MaxEpoch = 2
  MaxFaults = 1
  BootMayFail = FALSE
  Preemption = FALSE
SYMMETRY Symmetry
INVARIANTS
  TypeOK
  AtMostOnce
  OutcomeIsTrue
  FencedStops
  
  
