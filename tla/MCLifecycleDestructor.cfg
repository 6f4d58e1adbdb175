SPECIFICATION Spec
CONSTANTS
  WorkerNums = {1, 3}
  QueueSizes = {1, 2}
  MaxSessions = {1, 5, 7}
  Timeouts = {0, 5, 8}
  CommandLines <- NoLine
  NoFlag = NoFlag
  NoOptions = NoOptions
  TimeoutSpan = 8
  DefaultHudp <- HudpDefaults
  BlankHudp <- HudpBlank
  DefaultSessions = 4
  DefaultTimeout = 2
  Routings = {"first", "second"}
  NoRouting = "none"
  MaxStarts = 2
INVARIANT CoreInRange
CHECK_DEADLOCK FALSE
