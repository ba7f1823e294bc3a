\* Safety of the reaper: three temporary objects, a clock of four periods
\* and the threshold of three periods (30 and 10 minutes), bounded channels of one slot.
CONSTANTS
  Names = {o1, o2, o3}
  NoName = NoName
  MaxTime = 4
  Staleness = 3
  Period = 1
  ChanCap = 1
SYMMETRY NameSymmetry
SPECIFICATION Spec
CHECK_DEADLOCK FALSE
INVARIANT TypeOK PipelineStale RunAccounting
PROPERTY ReapsOnlyStale RunReportAccurate
