SPECIFICATION FairSpec
CONSTANTS
  Job = {j1, j2}
  Unknown = Unknown
  Consumer = {k1, k2}
  Stream = {}
  BatchSize = 2
  MaxTokens = 1
  MaxEvents = 1
  MaxErrors = 0
  Faults = {"graph_error"}
INVARIANTS
  AckedIsSettled
PROPERTIES
  EveryJobEnds
\* Once the bounded work is done the consumers only wait for messages.
CHECK_DEADLOCK FALSE
