SPECIFICATION FairSpec
CONSTANTS
  Operations = {1, 2}
  Keys = {k1}
  None = none
  Hosts = {h1}
  Workers = {w1, w2}
  Steps = 1
  MaxTerm = 2
  MaxEpoch = 3
  MaxFaults = 1
  BootMayFail = FALSE
  Preemption = FALSE
INVARIANT ReceiptsAgree
PROPERTY AgentReports
