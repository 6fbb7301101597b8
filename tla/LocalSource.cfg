SPECIFICATION Spec
CONSTANTS
  s1 = s1
  s2 = s2
  NoneSuch = NoneSuch
  Sessions <- TwoSessions
  Parts <- TwoParts
  Trees <- TreesOfTwo
  Revisions <- OneRevision
  Claims <- OneClaim
  Clients <- BothClients
  Overlapping <- Uploads
  NewSourceOnTop = FALSE
  ReadFailures <- ReadsWork
  MaxCommands = 3
CHECK_DEADLOCK FALSE
INVARIANT TypeOK LocalIsRecoverable
PROPERTY NextBuildRestores LocalBuildsOwnTree
