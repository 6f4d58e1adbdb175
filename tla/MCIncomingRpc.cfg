SPECIFICATION Spec
CONSTANTS
  w1 = w1
  w2 = w2
  t1 = t1
  plain = plain
  arena = arena
  older = older
  echo = echo
  add = add
  r1 = r1
  r2 = r2
  r3 = r3
  r4 = r4
  r5 = r5
  Workers = {w1, w2}
  AppThreads = {t1}
  Requests = {r1, r2, r3, r4, r5}
  HeaderLen <- HeaderLengths
  BodyLen <- BodyLengths
  BodyParses = {r1, r2, r4, r5}
  Called <- Calls
  Registered <- ServicesInOrder
  NameOf <- Names
  Methods <- Declared
  Overridden <- Implemented
  ArenaEnabled = {arena}
  ServiceResults = {"kSuccess", "kFailure"}
  NoService = NoService
  MaxRuns = 3
  PacketTag = "R"
  PacketVer = 1
  Overhead = 3
  HeaderSpan = 4
  BodySpan = 8
INVARIANTS IInv AnswersMatch NoUseAfterDelete MemoryAccounted AcceptedAsSent
CHECK_DEADLOCK FALSE
