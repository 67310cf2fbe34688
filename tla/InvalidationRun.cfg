SPECIFICATION FillFairSpec
CONSTANTS
  Hash = {h1}
  Version = {v1}
  Accepted = {v1}
  Namespace = "rag_cache"
  Sweeper = {s1, s2}
  BatchSize = 2
  MaxRounds = 2
  MaxMessages = 2
  MaxTroubles = 2
  Writer = {w1}
INVARIANTS
  FillTypeOK
  AckedIsSwept
  OlderPassagesGone
PROPERTIES
  LaterEventsHandled
\* Once the bounded work is done the consumers only wait for messages.
CHECK_DEADLOCK FALSE
