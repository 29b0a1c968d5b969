SPECIFICATION PipeSpec
VIEW view
CONSTANTS
  TTL = 2
  Skew = 1
  MaxRecords = 2
  MaxBytes = 3
  MaxBatch = 2
  MaxBatchBytes = 9
  Envelope = 1
  Size = {1, 2}
  MaxReport = 2
  PipeSize = 2
  ReadSize = 2
  Budget = 2
  Cadence = 1
  Offset = {0, 2}
  Horizon = 2
  Samples = 2
  Nothing = Nothing
INVARIANTS NoSplice CutMeansNoFrame SentIsDelivered BuffersBounded
PROPERTIES LeavesForAReason BatchShape
CHECK_DEADLOCK FALSE
