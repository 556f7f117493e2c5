SPECIFICATION FairSpec
CONSTANTS
  Runs = {r1}
  Workers = {w1, w2}
  MaxRetries = 2
  MaxEvents = 0
  MaxFaults = 0
  MaxCancels = 0
PROPERTY RetriesStop
CHECK_DEADLOCK FALSE
