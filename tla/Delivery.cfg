SPECIFICATION FairSpec
CONSTANTS
  Runs <- TwoRuns
  Uploaders <- TwoRuns
  Files <- OneFile
  Triggers <- ThroughAPI
  MaxUserWrites = 1
  MaxFaults = 1
CHECK_DEADLOCK FALSE
INVARIANT TypeOK SuccessIsOfTriggeredRun NoOlderFile NoFileMissing
PROPERTY WaitEnds
