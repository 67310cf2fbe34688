SPECIFICATION FairSpec
CONSTANTS
  Doc = {d1, d2}
  Content = {x1, x2}
  Text = {{x1}, {x1, x2}}
  Request = {r1}
  None = None
  Faults = {"error", "crash"}
INVARIANTS
  TypeOK
  IndexedInBothStores
  DeletedLeavesNothing
  IndexedIsFindable
PROPERTIES
  IndexedIsTold
\* Every document has been ingested and nothing is left to delete.
CHECK_DEADLOCK FALSE
