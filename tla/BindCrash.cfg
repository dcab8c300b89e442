SPECIFICATION FairSpec
CONSTANTS
  c1 = c1
  c2 = c2
  Claims = {c1, c2}
  Insts = {1, 2}
  OwnerOf <- OneOwner
  NoClaim = NoClaim
  NoInst = NoInst
  Pooled = TRUE
  MaxSize = 0
  Templates <- JustWarm1
  MaxGen = 1
  MaxFaults = 1
  Scenarios = {{"crash", "error"}}
  Limit = 0
  WaitForPool = {c1, c2}
  BindRetries = 2
PROPERTIES WonIsReported WaiterIsServed
CHECK_DEADLOCK FALSE
