SPECIFICATION Spec
CONSTANTS
  Filters = {all, one}
  AllTraffic = all
  Sockets = {}
  NoSocket = NoSocket
  HasWebSocket = FALSE
  Acts = {"form", "page", "pause", "tab"}
  MaxOffset = 1
  MaxRevision = 1
INVARIANTS
  SettledShowsWanted
PROPERTY
  NoOlderRows
CHECK_DEADLOCK FALSE
