SPECIFICATION FairSpec
CONSTANTS
  c1 = c1
  c2 = c2
  Claims = {c1}
  Insts = {1, 2}
  OwnerOf <- OneOwner
  NoClaim = NoClaim
  NoInst = NoInst
  Pooled = TRUE
  MaxSize = 0
  Templates <- JustWarm1
  MaxGen = 1
  MaxFaults = 1
  Scenarios = {{"delete", "crash"}}
  Limit = 0
  WaitForPool = {}
  BindRetries = 2
PROPERTIES DeletionCascades
CHECK_DEADLOCK FALSE
