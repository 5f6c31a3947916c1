SPECIFICATION DeliverySpec
CONSTANTS
  Keys = {k}
  Procs = {p1, p2, p3}
  NoOne = NoOne
  LeaseMs = 2
  RetryMs = 1
  MaxRetries = 1
  Flushers = {f, g}
  MaxVersions = 2
  MaxAttempts = 2
  Jobs = {i, j}
  Hosts = {h1, h2}
  Drainers = {d1, d2}
  BatchSize = 1
  MaxDeaths = 1
  MaxTorn = 1
  MaxClock = 1
  Importers = {p, q}
  Texts = {a}
  Malformed = bad
  MaxLines = 3
  ChunkSize = 2
  MaxErrors = 1
  MaxFaults = 1
  Messages = {a, b, c}
  Users = {a, c}
  Undated = {}
  Windows = {{b, c}, {a, b, c}}
  MaxStops = 2
INVARIANTS TypesOK AuditIsHonest DeliveredOnce
PROPERTIES ImplementsEffectOnce 
CHECK_DEADLOCK FALSE
