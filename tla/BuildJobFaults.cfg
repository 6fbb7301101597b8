SPECIFICATION Spec
CONSTANTS
  MaxRun = 4
  MaxTime = 2
  MaxGen = 1
  MaxUid = 2
  Specs <- OneSpec
  MaxEdits = 3
  MaxCrashes = 1
  MaxApiErrors = 0
  MaxListErrors = 0
  MaxPrunes = 1
  MaxStaleReads = 0
  MaxPVCFlips = 0
CHECK_DEADLOCK FALSE
INVARIANT TypeOK AtMostOneActiveRun ReportedOutcome ActiveRunTracked
PROPERTY FinishedStaysFinished ImplementsContract
