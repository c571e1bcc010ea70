SPECIFICATION FairSpec
CONSTANTS
  Flows = {f1, f2}
  NoFlow = NoFlow
  Requests = {1, 2}
  NoRequest = 0
  MaxVersion = 2
INVARIANTS
  ShowsSelected
  OneFace
  FollowsTable
PROPERTIES
  ClosedStaysClosed
  DrawerCatchesUp
CHECK_DEADLOCK FALSE
