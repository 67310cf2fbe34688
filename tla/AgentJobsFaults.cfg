SPECIFICATION Spec
CONSTANTS
  Job = {j1}
  Unknown = Unknown
  Consumer = {k1, k2}
  Stream = {s1}
  BatchSize = 2
  MaxTokens = 2
  MaxEvents = 0
  MaxErrors = 1
  Faults = {"graph_error", "cancel", "crash"}
INVARIANTS
  TypeOK
PROPERTIES
  ImplementsLifecycle
