SPECIFICATION Spec
CONSTANTS
  Reqs = {1, 2}
  MaxUID = 2
  QueueMax = 1
  Attempts = 1
  Env = {}
PROPERTIES ClickingTwiceIsIdempotent
