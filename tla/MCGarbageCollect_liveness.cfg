\* Termination of the reaper's runs: three temporary
\* objects, one period (one run), a threshold of one, bounded channels of one slot.
CONSTANTS
  Names = {o1, o2, o3}
  NoName = NoName
  MaxTime = 1
  Staleness = 1
  Period = 1
  ChanCap = 1
SPECIFICATION Spec
CHECK_DEADLOCK FALSE
PROPERTY RunTerminates
