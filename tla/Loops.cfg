SPECIFICATION LoopsSpec
CONSTANTS
  Views = {"services", "containers", "logs", "disk", "system"}
  a = a
  b = b
  Worlds <- MCWorlds
  Early = {a}
  Found = {b}
  Narrow = {b}
  ReadOnly = {b}
  Nothing = Nothing
  MaxEpoch = 2
  MaxKeys = 4
  MaxStrays = 1
  MaxFaults = 1
  Cards = 2
  CockpitEpoch = 2
  CockpitKeys = 2
INVARIANTS AnswersAwaited ActsOnTheRow CockpitHolds
PROPERTIES RowsHold SpecialistCatchesUp HostNeverGoesBack CockpitCatchesUp
CHECK_DEADLOCK FALSE
