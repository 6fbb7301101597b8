SPECIFICATION Spec
CONSTANTS
  Types <- TwoTypes
  MaxUid = 2
  MaxEdits = 3
  MaxCrashes = 1
  MaxApiErrors = 1
  MaxPVCDeletes = 1
CHECK_DEADLOCK FALSE
INVARIANT TypeOK RestIsTrue
