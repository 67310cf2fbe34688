SPECIFICATION FairSpec
CONSTANTS
  Writer = {w1, w2}
  MaxTurns = 4
  Threshold = 2
  MaxInput = 4
  ClearRetries = 2
  MaxAppended = 5
  MaxFailures = 2
INVARIANTS
  TypeOK
  NothingLost
PROPERTIES
  SummaryGrows
  FullListFolded
