SPECIFICATION Spec
CONSTANTS
  c1 = c1
  c2 = c2
  Claims = {c1}
  Insts = {1, 2}
  OwnerOf <- OneOwner
  NoClaim = NoClaim
  NoInst = NoInst
  Pooled = TRUE
  MaxSize = 1
  Templates <- OnAndOff
  MaxGen = 2
  MaxFaults = 0
  Scenarios = {
    {"reap", "delete", "edit", "expire"}, {"reap", "delete", "window"},
    {"template", "poollag"}, {"fail", "delete"}}
  Limit = 1
  WaitForPool = {}
  BindRetries = 2
INVARIANTS OneInstancePerClaim RefIsMine
PROPERTIES ImplementsAllocation PurgeSparesClaimed
CHECK_DEADLOCK FALSE
