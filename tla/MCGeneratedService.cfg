SPECIFICATION FairSpec
CONSTANTS
  t1 = t1
  t2 = t2
  s1 = s1
  s2 = s2
  Clients = {t1, t2}
  Servers = {s1, s2}
  ServiceCount = 2
  ClientFile <- ClientMethods
  ServerFile <- ServerMethods
  Overridden <- Implemented
  NoThread = NoThread
  MaxRequests = 2
INVARIANTS IInv DescriptorsReady RunsNamedMethod
PROPERTY DescriptorObtained
CHECK_DEADLOCK FALSE
