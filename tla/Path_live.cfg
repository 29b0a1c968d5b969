SPECIFICATION PathSpec
CONSTANTS
  TTL = 2
  Skew = 1
  MaxRecords = 2
  MaxBytes = 3
  MaxBatch = 2
  MaxBatchBytes = 5
  Envelope = 1
  Report <- MCOneReport
  Offset = {0}
  Horizon = 2
  Nothing = Nothing
PROPERTIES CollectorNeverStalls EventuallyDelivered EndsTogether EventuallyStored
CHECK_DEADLOCK FALSE
