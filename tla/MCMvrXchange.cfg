SPECIFICATION FairSpec
CONSTANTS
  own = own
  desk = desk
  received = received
  Stations <- MCStations
  Self = own
  NameOf <- MCNameOf
  Group = ""
  Paths <- MCPaths
  Absent = Absent
  MaxRevisions = 1
  MaxStarts = 2
INVARIANTS
  TypeOK
  FinalFilesSafe
  IdleMeansQuiet
  HandlesJoinedBeforeReuse
PROPERTIES
  StopReturns
  UpdateAnswered
CHECK_DEADLOCK FALSE
