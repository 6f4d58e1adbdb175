SPECIFICATION FairSpec
CONSTANTS
  c1 = c1
  c2 = c2
  c3 = c3
  c4 = c4
  NoCall = NoCall
  Calls = {c1, c2, c3, c4}
  Endpoints <- OneOversize
  Method <- Methods
  PeerResults = {"kSuccess"}
  PoolSize = 2
  SeqSpan = 16
  IndexSpan = 3
  CoreId = 1
  StartSeqs = {13}
  NestedCalls = TRUE
INVARIANTS IInv DoneAtMostOnce NoCallForgotten RepliesMatch RetriesInOrder
PROPERTIES NoTouchAfterDone ImplementsTable AcceptedCallEnds
CHECK_DEADLOCK FALSE
