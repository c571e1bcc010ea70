SPECIFICATION StartupSpec
CONSTANTS
  web = web
  main = main
  command = command
  Starters <- MCStarters
  Workers <- MCWorkers
  Processes <- MCProcesses
  Savers <- MCSavers
  Main = main
  Web = web
  Intercepts = {TRUE, FALSE}
  NoStarter = NoStarter
  NumObjects = 1
  NumColumns = 1
  Retries = 1
  Flows = {}
  Pairs = {p1, p2}
  NoPair = NoPair
  EmptyFile = EmptyFile
INVARIANT FailsOnlyWhenBusy
CHECK_DEADLOCK FALSE
