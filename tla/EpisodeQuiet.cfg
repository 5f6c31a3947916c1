SPECIFICATION FairSpec
CONSTANTS
  Episodes = {1, 2}
  Events = {u1, a}
  UserEvents = {u1}
  Calls = {c1}
  NoEpisode = 0
  NoEvent = NoEvent
  IdleGap = 1
  Grace = 1
  ReopenWindow = 1
  MaxAge = 2
  OneWriter = TRUE
  ImportReseals = FALSE
ACTION_CONSTRAINT LeastIdFirst
PROPERTIES
  QuietIsQueued
