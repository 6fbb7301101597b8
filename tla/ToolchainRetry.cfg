SPECIFICATION FairSpec
CONSTANTS
  MaxTime = 2
  MaxGen = 2
  MaxUid = 1
  MaxEdits = 2
  MaxFaults = 0
  MaxPrunes = 0
CHECK_DEADLOCK FALSE
PROPERTY RetriedAfterEdit
