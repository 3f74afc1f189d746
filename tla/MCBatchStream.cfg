\* Batches of up to four requests, three workers and a window of three.
SPECIFICATION FairSpec
CONSTANTS
  Plans <- MCPlans
  Limit = 3
  MaxWorkers = 2
  MaxWindow = 3
  NoEnvelope = NoEnvelope
INVARIANTS
  TypeOK
  AheadWithinWindow
  QuietAfterEnd
PROPERTIES
  SerialBatchSpec
  Answered
\* A batch ends, and a stream may be left suspended by its caller.
CHECK_DEADLOCK FALSE
