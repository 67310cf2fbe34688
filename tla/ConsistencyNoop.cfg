\* The namespace of core/config.py 95.
SPECIFICATION Spec
CONSTANTS
  Hash = {h1}
  Version = {v1}
  Accepted = {v1}
  Namespace = "rag"
  Sweeper = {s1}
  BatchSize = 1
  MaxRounds = 1
  MaxMessages = 1
  MaxTroubles = 0
INVARIANTS
  AckedIsSwept
