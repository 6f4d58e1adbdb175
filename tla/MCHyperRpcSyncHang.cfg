SPECIFICATION FairSpec
CONSTANTS
  c1 = c1
  c2 = c2
  c3 = c3
  c4 = c4
  r1 = r1
  r2 = r2
  t1 = t1
  InWorker = InWorker
  AppThreads = {t1}
  Calls = {c1, c3}
  Requests = {}
  Servable = {}
  CallerOf <- Callers
  SyncCalls = {c1}
  RouteOf <- FirstOversize
  Endpoints <- FirstRetries
  WorkerNum = 2
  QueueSize = 1
  SessionLimit = 1
  Misfitted = {c3}
  MaxCopies <- OneCopy
  PeerResults = {"kSuccess"}
PROPERTIES SyncCallReturns
CHECK_DEADLOCK FALSE
