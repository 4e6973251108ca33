SPECIFICATION FairSpec
CONSTANTS
  Runs = {r1}
  Installations = {i1}
  Keys = {k1}
  StartRequests = {f1}
  Hosts = {h1}
  Workers = {w1, w2}
  Supervisor = sup
  None = none
  MaxFaults = 2
  Disconnects = FALSE
PROPERTY StopConverges
