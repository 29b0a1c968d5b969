SPECIFICATION ActingSpec
CONSTANTS
  Pids = {1}
  Protected = {}
  MaxStart = 2
  Matching = {1}
  MaxKeys = 3
  MaxFaults = 1
  u = u
  v = v
  MaxChanges = 2
  Cap = 3
  MaxLines = 2
  MaxCommands = 4
  MaxDeaths = 1
  Order <- MCOrder
  Afterwards = "system"
  Commands <- MCCommands
  RuntimeOrder <- MCRuntimeOrder
  Inspectable = {"docker"}
  Identities = {1, 2}
  Machines <- MCMachines
  Outages <- MCOutages
INVARIANTS ResultsHold SnapshotHolds
PROPERTIES TopShowsTheHost EverythingEnds
CHECK_DEADLOCK FALSE
