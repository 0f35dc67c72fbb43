SPECIFICATION FairSpec
CONSTANTS
  c1 = c1
  c2 = c2
  w1 = w1
  Conns = {c1, c2}
  Pipeliners = {c2}
  Environments <- Sessions
  Requests <- SomeRequests
  Windows = {w1}
  None = None
  HasIdle = TRUE
  Faults = {"rejected", "empty", "hung"}
  MaxRequests <- OneOrTwo
INVARIANTS TypeOK ErrorIsOwn NoFalseSuccess SyntaxUnderstood FullscreenAsAsked
PROPERTIES RequestsAnswered CachedAnswered
CHECK_DEADLOCK FALSE
