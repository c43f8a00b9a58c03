SPECIFICATION FairSpec
CONSTANTS
  MaxRuns = 3
  MaxStack = 3
CHECK_DEADLOCK FALSE
INVARIANTS OneOutcome CancelReaches
PROPERTIES LatestWins CancelledCommitsNothing PendingEnds
