SPECIFICATION Spec
CONSTANTS
  MaxNow = 6
  MaxInst = 1
  MaxGen = 1
  MaxFaults = 0
  Settle = 1
  Grace = 2
  Templates <- Long
  Config <- Configured
  BakedIn <- Fallbacks
  ApiStep = 1
  Wants <- Plain
  Scenarios = {{"fail"}}
INVARIANTS FailedIsReleased
CHECK_DEADLOCK FALSE
