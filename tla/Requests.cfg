SPECIFICATION FairSpec
CONSTANTS
  Reqs = {1, 2}
  MaxUID = 2
  QueueMax = 2
  Attempts = 2
  Env = {"error", "keep", "restart", "admin"}
INVARIANTS TypeOK
PROPERTIES RestSparesLive SolvedIsReleased
