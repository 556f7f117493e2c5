SPECIFICATION FairSpec
CONSTANTS
  MaxRuns = 2
  MaxRequests = 2
  MaxFaults = 1
INVARIANT FollowsNewest
PROPERTY Settles
CHECK_DEADLOCK FALSE
