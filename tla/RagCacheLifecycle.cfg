SPECIFICATION FairHistorySpec
CONSTANTS
  Hash = {h1}
  Reviewer = {r1, r2}
  Worker = {w1}
  Client = {c1, c2}
  None = None
  Threshold = 2
  QueueCap = 1
  ListLimit = 1
  AutoApprove = TRUE
  Ops = {"approve", "reject"}
  Faults = {"crash", "error"}
INVARIANTS
  MutualExclusion
PROPERTIES
  LockReleased
  ImplementsLifecycle
