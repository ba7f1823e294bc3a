\* Counts logged for a header and up to two sample lines, three ticks.
CONSTANTS
  Files <- MCFiles
  MaxTicks = 3

SPECIFICATION Spec
INVARIANT ReportMatchesReference
CHECK_DEADLOCK FALSE
