SPECIFICATION Spec
CONSTANTS
  Filters = {all}
  AllTraffic = all
  Sockets = {s1}
  NoSocket = NoSocket
  HasWebSocket = TRUE
  Acts = {"form", "page", "pause", "tab"}
  MaxOffset = 0
  MaxRevision = 1
PROPERTY PausedStopsRefresh
CHECK_DEADLOCK FALSE
