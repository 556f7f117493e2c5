SPECIFICATION FairSpec
CONSTANTS
  KeySets = {{}, {"openai"}, {"tavily", "weatherapi", "openai", "serpapi"}}
  MaxRounds = 1
  AuditCap = 100
INVARIANT MainAccountExact
INVARIANT RaisesExplained
INVARIANT ReportsComplete
PROPERTY OrphansLeaveNoTrace
PROPERTY ThreadsEnd
CHECK_DEADLOCK FALSE
