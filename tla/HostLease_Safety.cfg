SPECIFICATION Spec
CONSTANTS
  Processes = {h1, b1}
  Backups = {b1}
  TTL = 1
  AcquireAttempts = 2
  ChangeAttempts = 2
  MaxTime = 2
  MaxEvents = 2
  None = none
CHECK_DEADLOCK FALSE
INVARIANTS
  OneActiveHandle
  TakeoverAfterEnd
  OneTermEach
  
