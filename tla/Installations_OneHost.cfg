SPECIFICATION Spec
CONSTANTS
  Installations = {i1, i2}
  Keys = {k1, k2, k3}
  Contents = {empty, c1}
  Empty = empty
  Hosts = {h1}
  Workers = {w1, w2}
  None = none
  CasAttempts = 2
  MaxFaults = 2
  Disconnects = TRUE
  KeyReuse = FALSE
  ClockStepsBack = FALSE
SYMMETRY Symmetry
INVARIANTS
  TypeOK
  GuardPinsInstallation
PROPERTIES
  ImplementsLedger
  HydratedIsRepaired
