SPECIFICATION Spec
CONSTANTS
  MaxNow = 5
  MaxInst = 2
  MaxGen = 3
  MaxFaults = 1
  Settle = 1
  Grace = 2
  Templates <- Mixed
  Config <- Configured
  BakedIn <- Fallbacks
  ApiStep = 1
  Wants <- Asked
  Scenarios = {
    {"fail"}, {"fail", "source"}, {"extend", "plugin", "error", "crash"}, {"extend", "plugin", "full"}, {"extend", "plugin", "lose"},
    {"template", "crash"}, {"edit", "crash"}, {"refuse", "edit"}, {"refuse", "full"},
    {"lose", "full"}, {"lose", "error"}, {"full", "error"}, {"slow", "extend", "plugin"}, {"slow", "error"}}
INVARIANTS TypeOK LifetimeWithinCeiling TornDownAtDeadline RetryIsNotRejected
PROPERTIES GrantIsKept NoSecondLife
CHECK_DEADLOCK FALSE
