SPECIFICATION MCSpec
CONSTANTS
  Stream <- Pipeline
  Objects = {c1, c2, c3}
  SidSpace = 3
  MaxAccepts = 3
  TIMEVAL_TIME = 2
  TIMEOUT_CLOSE = 3
INVARIANTS InOrder NothingWaits NoDangling MapExact IdleBounded
PROPERTIES FollowedExecuted ClosedForItself
CHECK_DEADLOCK FALSE
