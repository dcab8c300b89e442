SPECIFICATION Spec
CONSTANTS
  c1 = c1
  c2 = c2
  Claims = {c1, c2}
  Insts = {1, 2, 3}
  OwnerOf <- OneOwner
  NoClaim = NoClaim
  NoInst = NoInst
  Pooled = TRUE
  MaxSize = 0
  Templates <- JustWarm1
  MaxGen = 1
  MaxFaults = 0
  Scenarios = {{"delete"}}
  Limit = 1
  WaitForPool = {}
  BindRetries = 2
INVARIANTS RejectedHoldsNothing
CHECK_DEADLOCK FALSE
