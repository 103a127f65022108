CONSTANTS
  None = None
  QueueLen = 2
  Intervals = {0, 4}
  WaitTimes = {0, 500, 2500, 3000}
  Half = 3
SPECIFICATION FairSpec
CHECK_DEADLOCK FALSE
INVARIANTS TypeOK InTime MainHasAdc HeartbeatIsScheduled
PROPERTIES RestrictedIsScheduled IsRetried
