SPECIFICATION FairSpec
CONSTANTS
  MaxRun = 3
  MaxTime = 1
  MaxGen = 1
  MaxUid = 1
  Specs <- OneSpec
  MaxEdits = 2
  MaxCrashes = 1
  MaxApiErrors = 0
  MaxListErrors = 0
  MaxPrunes = 1
  MaxStaleReads = 0
  MaxPVCFlips = 0
CHECK_DEADLOCK FALSE
PROPERTY RunAtIsConsumed
