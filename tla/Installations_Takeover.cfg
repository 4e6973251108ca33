SPECIFICATION Spec
CONSTANTS
  Installations = {i1, i2}
  Keys = {k1, k2}
  Contents = {empty, c1}
  Empty = empty
  Hosts = {h1, h2}
  Workers = {w1}
  None = none
  CasAttempts = 2
  MaxFaults = 2
  Disconnects = TRUE
  KeyReuse = FALSE
  ClockStepsBack = FALSE
SYMMETRY Symmetry
INVARIANTS
  
  AnswersAreClaims
