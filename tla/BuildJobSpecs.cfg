SPECIFICATION Spec
CONSTANTS
  MaxRun = 4
  MaxTime = 1
  MaxGen = 2
  MaxUid = 1
  Specs <- CheckedSpecs
  MaxEdits = 3
  MaxCrashes = 0
  MaxApiErrors = 0
  MaxListErrors = 1
  MaxPrunes = 0
  MaxStaleReads = 1
  MaxPVCFlips = 1
CHECK_DEADLOCK FALSE
INVARIANT ParallelRunsNeedListErrors RejectedStaysDue OCIRefOfUneditedSpec
