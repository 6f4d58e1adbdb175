SPECIFICATION FairSpec
CONSTANTS
  c1 = c1
  c2 = c2
  c3 = c3
  c4 = c4
  r1 = r1
  r2 = r2
  t1 = t1
  InWorker = InWorker
  AppThreads = {t1}
  Calls = {c1, c2, c3, c4}
  Requests = {}
  Servable = {}
  CallerOf <- Callers
  SyncCalls = {c1, c2, c4}
  RouteOf <- SecondUnrouted
  Endpoints <- FirstRetries
  WorkerNum = 2
  QueueSize = 1
  SessionLimit = 1
  Misfitted = {c3}
  MaxCopies <- NoneFits
  PeerResults = {"kSuccess"}
INVARIANTS SyncReturnsOutcome NotifiedForThisCall
PROPERTIES RoutedCallEnds RoutedSyncCallReturns
CHECK_DEADLOCK FALSE
