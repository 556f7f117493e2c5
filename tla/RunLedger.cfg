SPECIFICATION Spec
CONSTANTS
  MaxRetries = 1
  MaxRevisions = 1
  MaxFaults = 1
  BatchRoles = {"stay", "food"}
  Cancellers = {c1}
INVARIANT FinishedRunIsCovered
INVARIANT OneWalk
INVARIANT SequencesDistinct
INVARIANT OpenRowsExplained
INVARIANT CancelledRowsAgree
PROPERTY OldRowsStand
CHECK_DEADLOCK FALSE
