SPECIFICATION Spec
CONSTANTS
  Runs = {r1}
  Workers = {w1, w2}
  MaxRetries = 1
  MaxEvents = 1
  MaxFaults = 1
  MaxCancels = 1
SYMMETRY WorkerSymmetry
INVARIANT TypeOK
INVARIANT SingleExecution
INVARIANT TripBeforeSuccess
INVARIANT SettledJobsAreOver
INVARIANT EarlyCancelIsHonoured
INVARIANT DeadLetterAfterRetries
CHECK_DEADLOCK FALSE
