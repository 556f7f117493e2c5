SPECIFICATION FairSpec
CONSTANTS
  Runs = {r1}
  Workers = {w1}
  MaxRetries = 1
  MaxEvents = 0
  MaxFaults = 0
  MaxCancels = 0
PROPERTY EnqueuedRunStarts
CHECK_DEADLOCK FALSE
