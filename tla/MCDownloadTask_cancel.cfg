\* Is a download cancelled before it completes ever counted "failed"?
CONSTANTS
  BlockCap = 2
  ObjectSize = 2
  Workers = 1
SPECIFICATION Spec
CHECK_DEADLOCK FALSE
INVARIANT CancelledNeverFailed
