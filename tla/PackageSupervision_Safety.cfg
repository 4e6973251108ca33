SPECIFICATION FairSpec
CONSTANTS
  Lifecycle = {w1}
  Callers = {c1}
  Runs = {r1}
  None = none
  MaxGenerations = 2
  MaxFaults = 2
INVARIANTS
  TypeOK
  
  OnlyBrokenIsLost

  
CHECK_DEADLOCK FALSE
