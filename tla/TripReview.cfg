SPECIFICATION Spec
CONSTANTS
  Operators = {o1, o2}
  Watched = o1
  None = None
  MaxRuns = 2
  MaxDecisions = 2
  MaxFaults = 1
INVARIANT RecordAgrees
INVARIANT DecisionsAudited
INVARIANT ScreenExplained
PROPERTY DecisionStands
CHECK_DEADLOCK FALSE
