SPECIFICATION HistorySpec
CONSTANTS
  Hash = {h1}
  Reviewer = {r1, r2}
  Worker = {w1, w2}
  Client = {c1, c2}
  None = None
  Threshold = 2
  QueueCap = 1
  ListLimit = 1
  AutoApprove = FALSE
  Ops = {"approve", "reject", "delete", "list"}
  Faults = {"crash", "error", "expiry", "slow_holder"}
INVARIANTS
  TypeOK
  CopiesSound
  HolderKeepsLock
  PendingIsReviewable
SYMMETRY Symmetry
