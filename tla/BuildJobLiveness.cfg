SPECIFICATION FairSpec
CONSTANTS
  MaxRun = 4
  MaxTime = 2
  MaxGen = 1
  MaxUid = 1
  Specs <- OneSpec
  MaxEdits = 2
  MaxCrashes = 1
  MaxApiErrors = 1
  MaxListErrors = 0
  MaxPrunes = 0
  MaxStaleReads = 0
  MaxPVCFlips = 0
CHECK_DEADLOCK FALSE
INVARIANT CreateFindsFreeName NothingForgotten
PROPERTY Settles RunAtIsConsumed
