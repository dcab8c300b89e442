SPECIFICATION FairSpec
CONSTANTS
  MaxUUID = 2
  MaxFaults = 2
  Env = {"delete", "claim", "template", "helm", "render", "race", "ttl", "error", "crash"}
INVARIANTS TypeOK
PROPERTIES CreatedUnderFinalizer NamespacePinned NamespaceGoneFirst TearsDown SettlesUp
CHECK_DEADLOCK FALSE
