SPECIFICATION Spec
CONSTANTS
  Hash = {h1}
  Reviewer = {r1}
  Worker = {w1, w2}
  Client = {c1}
  None = None
  Threshold = 1
  QueueCap = 1
  ListLimit = 1
  AutoApprove = FALSE
  Ops = {"approve", "reject"}
  Faults = {}
PROPERTIES
  ApprovedTerminal
