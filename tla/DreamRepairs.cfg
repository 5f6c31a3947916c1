SPECIFICATION Spec
CONSTANTS
  Episodes = {e1, e2}
  Events = {a, b}
  Workers = {p}
  Leases = {l1, l2}
  NoLease = NoLease
  NoEpisode = NoEpisode
  LeaseMs = 0
  RetryMs = 0
  MaxAttempts = 1
  BatchSize = 2
  MaxNudges = 0
SYMMETRY Symmetry
VIEW View
INVARIANTS
  JobOnlyOverSealed
  
  VisibleRestsOnLinks
  OneActiveFrame
  ShownAsDreamed
