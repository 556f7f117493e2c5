SPECIFICATION FairSpec
CONSTANTS
  Confidences = {80}
  MaxRevisions = 3
  MaxIterations = 23
INVARIANT TypeOK
INVARIANT CurrentDeliverables
INVARIANT BoardMatchesContext
INVARIANT DraftsBounded
INVARIANT FinishedOrWaiting
INVARIANT CompletedIsGoverned
PROPERTY InputsInHand
PROPERTY ImplementsPipeline
CHECK_DEADLOCK FALSE
