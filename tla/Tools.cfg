SPECIFICATION ToolsSpec
CONSTANTS
  Pids = {1, 2}
  Protected = {}
  MaxStart = 2
  Matching = {1}
  MaxKeys = 3
  MaxFaults = 1
  Units = {u, v, w}
  Namesakes = {u, v}
  Listings = {{u, v}, {w}}
  MaxChanges = 1
  AllPids = {1, 2, 3}
  Spared = {1}
  LongestGap = 1
  Slack = 1
  InventoryTime = 1
  ChartWidth = 2
  MaxTime = 3
  MaxFlow = 1
  MaxLife = 2
  Links = {a, b}
  Loopbacks = {{}, {b}}
  Routings = {{}, {a}}
  Wired = {a}
  Tallies <- MCTallies
  Names = {w}
  Entries = {1, 2, 3}
  Flagged = {1, 2}
  Window = 2
  Longest = 2
  MaxCount = 3
  MaxCollections = 4
  MaxRuns = 3
  CommandNames <- MCCommandNames
  OptionSets <- MCOptionSets
  FieldSets <- MCFieldSets
  Formats = {"tui", "json", "jsonl"}
  Policies <- MCPolicies
  Contents <- MCContents
  Limits = {0, 1}
  Size = 4
  Users = {1, 2}
  Deepest = 2
  Shapes <- MCShapes
  Criteria <- MCCriteria
  Requests <- MCRequests
  Terminals <- MCTerminals
  Counts = {0, 1, 40}
  CardSets <- MCCardSets
INVARIANTS TopHolds ActionsHold ReadingsHold DisplayHolds CommandsHold
PROPERTIES CursorFollows SetupHolds
CHECK_DEADLOCK FALSE
