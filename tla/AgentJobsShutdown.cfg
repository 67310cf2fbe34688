SPECIFICATION FairSpec
CONSTANTS
  Job = {j1}
  Unknown = Unknown
  Consumer = {k1}
  Stream = {}
  BatchSize = 1
  MaxTokens = 1
  MaxEvents = 0
  MaxErrors = 1
  Faults = {"cancel"}
PROPERTIES
  ShutdownEnds
\* Once the bounded work is done the consumer only waits for messages.
CHECK_DEADLOCK FALSE
