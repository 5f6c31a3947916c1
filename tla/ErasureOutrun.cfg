SPECIFICATION Spec
CONSTANTS
  Runners = {}
  Limit = 1
  MaxEvents = 1
  MaxEpisodes = 1
  MaxErasures = 1
  MaxRestarts = 0
INVARIANTS NothingErasedIsStored
CHECK_DEADLOCK FALSE
