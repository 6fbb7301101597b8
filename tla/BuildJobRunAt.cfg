SPECIFICATION Spec
CONSTANTS
  MaxRun = 4
  MaxTime = 2
  MaxGen = 1
  MaxUid = 1
  Specs <- OneSpec
  MaxEdits = 3
  MaxCrashes = 0
  MaxApiErrors = 0
  MaxListErrors = 0
  MaxPrunes = 0
  MaxStaleReads = 0
  MaxPVCFlips = 0
CHECK_DEADLOCK FALSE
INVARIANT RunAtStartsRun
