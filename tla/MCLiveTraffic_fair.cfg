SPECIFICATION FairSpec
CONSTANTS
  Sockets = {s1}
  Timers = {"db", "auth", "heartbeat"}
  MaxRevision = 2
INVARIANTS
  SubscribedWhileRunning
  NoMissedUpdate
  BusInOrder
PROPERTIES
  Converges
  RevokedIsClosed
  GoneIsUnsubscribed
CHECK_DEADLOCK FALSE
