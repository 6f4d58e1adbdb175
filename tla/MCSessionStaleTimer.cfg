SPECIFICATION Spec
CONSTANTS
  c1 = c1
  c2 = c2
  c3 = c3
  c4 = c4
  NoCall = NoCall
  Calls = {c1, c2, c3}
  Endpoints <- OneOrTwo
  Method <- Methods
  PeerResults = {"kSuccess"}
  PoolSize = 2
  SeqSpan = 16
  IndexSpan = 4
  CoreId = 0
  StartSeqs = {0}
  NestedCalls = TRUE
INVARIANTS HonestTimeout
CHECK_DEADLOCK FALSE
