SPECIFICATION Spec
CONSTANTS
  c1 = c1
  c2 = c2
  c3 = c3
  c4 = c4
  r1 = r1
  r2 = r2
  t1 = t1
  InWorker = InWorker
  AppThreads = {t1}
  Calls = {c3}
  Requests = {r1}
  Servable = {r1}
  CallerOf <- Callers
  SyncCalls = {}
  RouteOf <- AllFound
  Endpoints <- FirstRetries
  WorkerNum = 2
  QueueSize = 1
  SessionLimit = 1
  Misfitted = {c3}
  MaxCopies <- OneCopy
  PeerResults = {"kSuccess"}
INVARIANTS ServedWhereReceived
CHECK_DEADLOCK FALSE
