SPECIFICATION FairSpec
CONSTANTS
  Filters = {all}
  AllTraffic = all
  Sockets = {s1, s2}
  NoSocket = NoSocket
  HasWebSocket = TRUE
  Acts = {"pause"}
  MaxOffset = 0
  MaxRevision = 1
INVARIANTS
  OneStream
  PausedHoldsNothing
  PollsOnlyWithoutStream
  RestingPageIsCurrent
  OnlyExpiredLeaves
PROPERTIES
  CatchesUp
  ExpiredLeaves
CHECK_DEADLOCK FALSE
