SPECIFICATION FairSpec
CONSTANTS
  MaxTime = 3
  MaxGen = 2
  MaxUid = 2
  MaxEdits = 3
  MaxFaults = 2
  MaxPrunes = 1
CHECK_DEADLOCK FALSE
INVARIANT TypeOK ReadyMeansBuilt ParallelBuildsNeedFaults NothingForgotten
PROPERTY Settles ImplementsContract
