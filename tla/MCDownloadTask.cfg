\* Three blocks of two units over an object of five units (the last block
\* is short), two workers for three tasks; the pool is never shut down.
CONSTANTS
  BlockCap = 2
  ObjectSize = 5
  Workers = 2
SPECIFICATION Spec
CHECK_DEADLOCK FALSE
INVARIANT TypeOK OutcomeConsistent HandleFromCompleteRead
PROPERTY EveryBlockNotified ImplementsPrefetchBlock
