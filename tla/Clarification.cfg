SPECIFICATION Spec
CONSTANTS
  None = None
  MaxQuestions = 5
  MaxAnswers = 6
  MaxCalls = 3
  MaxFaults = 2
INVARIANT ReadyMeansPlannable
INVARIANT AnswersCount
CHECK_DEADLOCK FALSE
