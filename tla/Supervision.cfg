SPECIFICATION FairSpec
CONSTANTS
  Kinds <- MCKinds
  Custom = "custom"
  AttemptsOf <- MCAttemptsOf
  ModelLimitOf <- MCModelLimitOf
  CallLimit = 6
  IdleLimit = 3
  PollTicks = 2
  GraceTicks = 1
  Headroom = 4
  MaxSignals = 2
  MaySleep = TRUE
CHECK_DEADLOCK FALSE
INVARIANTS
  NobodyLeftBehind
  TouchesReported
  IdleDeadlineKept
  ModelTimeoutsReported
PROPERTIES
  TimeRunsOut
  EveryCallEnds
