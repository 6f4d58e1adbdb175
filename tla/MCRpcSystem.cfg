SPECIFICATION SystemSpec
CONSTANTS
  c1 = c1
  c2 = c2
  c3 = c3
  NoCall = NoCall
  Calls = {c1, c2, c3}
  Endpoints <- OneOrTwo
  Method <- Methods
  PeerResults = {"kSuccess"}
  PoolSize = 2
  SeqSpan = 8
  IndexSpan = 4
  CoreId = 1
  StartSeqs = {6}
  NestedCalls = FALSE
  RestartSeqs = {7}
  MaxRestarts = 1
INVARIANTS SystemInv RepliesMatchAcrossLives AnsweredByOwnMethod HonestTimeout
PROPERTY ImplementsRemoteCall
CHECK_DEADLOCK FALSE
