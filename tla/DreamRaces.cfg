SPECIFICATION Spec
CONSTANTS
  Episodes = {e1}
  Events = {a}
  Workers = {p, q}
  Leases = {l1, l2}
  NoLease = NoLease
  NoEpisode = NoEpisode
  LeaseMs = 1
  RetryMs = 1
  MaxAttempts = 2
  BatchSize = 1
  MaxNudges = 1
SYMMETRY Symmetry
VIEW View
INVARIANTS
  TypeOK
  OneAnswerPerQueueing
  AttemptBudget
PROPERTIES
  TerminalStays
  PublishedUnderLease
  ImplementsOutcome
