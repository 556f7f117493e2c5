SPECIFICATION FairSpec
CONSTANTS
  Runs = {r1}
  Workers = {w1}
  MaxRetries = 2
  MaxEvents = 1
  MaxFaults = 0
  MaxCancels = 1
PROPERTY EarlyCancelSettles
CHECK_DEADLOCK FALSE
