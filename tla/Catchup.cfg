SPECIFICATION CatchupSpec
CONSTANTS
  All = All
  Projects = {p1, p2}
  Watched = {entity}
  Unwatched = {alias}
  Rows = {row}
  MaxWrites = 3
  MaxFaults = 2
  N = 3
  Zones = {"z1", "z2"}
  Rebuilders = {r, s}
  Operator = r
  ZoneOf <- ZoneOfDef
  Limit = 2
  NoZone = NoZone
  Lost = Lost
  MaxTouches = 1
  MaxForgets = 1
  MaxCrashes = 1
  MaxNeurons = 2
  Models = {m1, m2}
  Runners = {r1}
  BatchSize = 2
  MaxRestarts = 1
INVARIANTS TypesOK CleanIsWatched FollowsItsSource
PROPERTIES KeptWhileUsed CatchesUp
CHECK_DEADLOCK FALSE
