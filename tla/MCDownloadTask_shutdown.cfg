\* Is a claimed block always notified when the pool may be shut down with
\* its task still queued?
CONSTANTS
  BlockCap = 2
  ObjectSize = 4
  Workers = 1
SPECIFICATION ShutdownSpec
CHECK_DEADLOCK FALSE
PROPERTY EveryBlockNotified
