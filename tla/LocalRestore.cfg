SPECIFICATION Spec
CONSTANTS
  s1 = s1
  s2 = s2
  NoneSuch = NoneSuch
  Sessions <- OneSession
  Parts <- TwoParts
  Trees <- TreesOfTwo
  Revisions <- TwoRevisions
  Claims <- NoClaim
  Clients <- Kubectl
  Overlapping <- Alone
  NewSourceOnTop = TRUE
  ReadFailures <- ReadsWork
  MaxCommands = 3
CHECK_DEADLOCK FALSE
PROPERTY NextBuildRestores
