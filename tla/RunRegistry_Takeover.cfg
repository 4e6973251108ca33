SPECIFICATION Spec
CONSTANTS
  Runs = {r1, r2}
  Installations = {i1}
  Keys = {k1}
  StartRequests = {f1, f2}
  Hosts = {h1, h2}
  Workers = {w1}
  Supervisor = sup
  None = none
  MaxFaults = 1
  Disconnects = FALSE
SYMMETRY Symmetry
INVARIANTS
  OneActiveRun
  JournalReplays
  ClaimsAgree
PROPERTIES
  TerminalIsFinal
  LedgerRefinement
