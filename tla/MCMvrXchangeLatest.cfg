SPECIFICATION Spec
CONSTANTS
  own = own
  desk = desk
  received = received
  Stations <- MCBothStations
  Self = own
  NameOf <- MCNameOf
  Group = ""
  Paths <- MCPaths
  Absent = Absent
  MaxRevisions = 2
  MaxStarts = 1
INVARIANT LatestIsMostRecent
CHECK_DEADLOCK FALSE
