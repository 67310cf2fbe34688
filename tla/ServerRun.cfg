SPECIFICATION ServerSpec
CONSTANTS
  Clients <- MCClients
  HalfOpen = {"mq"}
  Collections <- MCCollections
  Needs <- MCNeeds
  Peer = {q1}
  LifeFaults = {"error", "crash"}
  Caller = {c1}
  Limit <- MCLimit
  Window = 2
  RateFaults = {"error"}
INVARIANTS
  StoppedIsClosed
  TasksHaveClients
  ServingIsReady
  ServerTypeOK
  WindowRespected
PROPERTIES
  NobodyLockedOut
