SPECIFICATION FairSpec
CONSTANTS
  MaxCalls = 2
  MaxStack = 3
CHECK_DEADLOCK FALSE
INVARIANTS StatusTellsTruth CleanupsRun NoOutdatedStart
PROPERTIES DisposeStops CommitsOwn RunStarts
