SPECIFICATION Spec
CONSTANTS
  StageNames <- Names
  MaxStages = 3
CHECK_DEADLOCK FALSE
INVARIANT TypeOK OneTaskAtATime StageSeesSource PublishedMeansBuilt OnlyBadSpecsRefused RefMeansPushed
