SPECIFICATION FairSpec
CONSTANTS
  Runs = {r1, r2}
  Workers = {w1}
  MaxRetries = 1
  MaxEvents = 0
  MaxFaults = 0
  MaxCancels = 0
INVARIANT RetryBudget
PROPERTY SettledJobsStaySettled
PROPERTY ExecutedJobsFinish
CHECK_DEADLOCK FALSE
