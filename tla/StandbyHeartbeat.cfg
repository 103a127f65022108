CONSTANTS
  None = None
  QueueLen = 2
  Intervals = {0, 4}
  WaitTimes = {0, 500, 2500, 3000}
  Half = 3
SPECIFICATION Spec
CHECK_DEADLOCK FALSE
PROPERTY HeartbeatIsSent
