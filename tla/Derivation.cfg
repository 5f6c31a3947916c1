SPECIFICATION DerivationSpec
CONSTANTS
  Keys = {k}
  MaxEvents = 3
  MaxRows = 2
  MaxClock = 1
  N = 3
  Events = {"v1", "v2"}
  OnIssue = {"v1", "v2"}
  F = 2
  MaxMoves = 1
  Binders = {"w", "x"}
  MaxEvent = 5
  TopicsOf <- Topics
  Corrections = {4, 5}
  RelatedLimit = 3
  SameLimit = 2
  CorrectLimit = 1
  MaxStops = 2
  Writers = {"p", "q"}
  Turns = {"t"}
  Texts = {"a", "b"}
  Limit = 2
  MaxCalls = 2
  MaxDeaths = 1
  MaxFaults = 0
INVARIANTS TypesOK DueIsConsented  TurnIsOne
CHECK_DEADLOCK FALSE
