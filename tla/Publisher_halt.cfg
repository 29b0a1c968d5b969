SPECIFICATION Spec
CONSTANTS
  p1 = p1  p2 = p2  o1 = o1  o2 = o2  r1 = r1  r2 = r2  h1 = h1  h2 = h2
  MinInterval = 1
  MaxInterval = 2
  Uncertainty = 2
  JitterMax = 1
  ReserveShare = 1
  FailureShare = 2
  BackoffUnit = 1
  BackoffShift = 1
  BackoffCap = 2
  MaxFailures = 1
  MaxWall = 8
  NoHeader = NoHeader
  Proc = {p1}
  Origin = {o1}
  RegId = {r1}
  Hash = {h1}
  Secret = {s1}
  Code = {201, 401}
  Delay = {}
  Policy = {}
  Offset = {0}
  Horizon = 6
  Nobody = Nobody
  NoState = NoState
  None = None
INVARIANT HaltUntilRepair
CHECK_DEADLOCK FALSE
