SPECIFICATION FairSpec
CONSTANTS
  Episodes = {e1}
  Events = {a}
  Workers = {p}
  Leases = {1, 2, 3}
  NoLease = 0
  NoEpisode = NoEpisode
  LeaseMs = 0
  RetryMs = 1
  MaxAttempts = 2
  BatchSize = 1
  MaxNudges = 0
ACTION_CONSTRAINT LeastIdFirst
PROPERTIES
  JobSettles
  LeftoversSwept
