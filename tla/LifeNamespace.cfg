SPECIFICATION FairSpec
CONSTANTS
  MaxUUID = 1
  MaxFaults = 0
  Env = {"delete", "race"}
PROPERTIES NamespaceCollected
CHECK_DEADLOCK FALSE
