SPECIFICATION Spec
CONSTANTS
  TTL = 2
  Skew = 1
  MaxRecords = 2
  MaxBytes = 3
  MaxBatch = 2
  MaxBatchBytes = 5
  Envelope = 1
  Size = {1}
  MaxReport = 1
  PipeSize = 1
  ReadSize = 1
  Budget = 2
  Cadence = 1
  Offset = {0, 1}
  Horizon = 3
  Samples = 1
  Nothing = Nothing

PROPERTY FreshWhenChosen
CHECK_DEADLOCK FALSE
