SPECIFICATION GovernanceSpec
CONSTANTS
  Entities = {e1, e2}
  Nicknames = {n1}
  Known <- KnownDef
  MaxCandidates = 2
  BeliefEpisodes = {"d1", "d2"}
  Values = {"u", "v"}
  Times = {1, 2}
  MaxBeliefs = 2
  Stories <- StoriesDef
  Runners = {r, s}
  Alone = r
  Limit = 2
  MaxEvents = 2
  MaxEpisodes = 2
  MaxErasures = 1
  MaxRestarts = 1
INVARIANTS TypesOK AppliedIsUndoable  ErasureHolds
PROPERTY DecisionsStand
CHECK_DEADLOCK FALSE
