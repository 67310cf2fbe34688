SPECIFICATION QuerySpec
CONSTANTS
  Passage = {p1, p2, p3, p4}
  SearchTopK = 2
  RrfK = 60
  RerankTopN = 2
  FinalTopK = 3
  Hash = {h1}
  None = None
  TopK = {1, 3}
  AutoApprove = TRUE
  ContextRoom = 3
  MaxReply = 2
  MaxOther = 1
  Faults = {"error", "expiry"}
  MaxLength = 6
  MaxSize = 5
  Fact = {f1, f2, f3}
  Text = {x1}
  Remover = {r1, r2}
  Nothing = Nothing
  FactFaults = {"error"}
INVARIANTS
  QueryTypeOK
  FusionSound
  PromptSound
  NothingSkipped
  FactStoresAgree
PROPERTIES
  SearchComplete
  AnswerFitsEntry
  WindowsAdvance
SYMMETRY Symmetry
