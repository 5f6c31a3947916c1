SPECIFICATION Spec
CONSTANTS
  Episodes = {1, 2, 3}
  Events = {u1, u2, a}
  UserEvents = {u1, u2}
  Calls = {c1, c2}
  NoEpisode = 0
  NoEvent = NoEvent
  IdleGap = 1
  Grace = 1
  ReopenWindow = 1
  MaxAge = 2
  OneWriter = TRUE
  ImportReseals = FALSE
SYMMETRY Symmetry
ACTION_CONSTRAINT LeastIdFirst
INVARIANTS
  TypeOK
  
  ShiftIsFirst
  ReceiptMatches
  JudgedInContext

  
