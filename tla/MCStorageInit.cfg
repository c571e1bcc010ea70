SPECIFICATION FairStorage
CONSTANTS
  web = web
  main = main
  command = command
  Starters <- MCStarters
  Processes <- MCProcesses
  Savers <- MCSavers
  NoStarter = NoStarter
  NumObjects = 2
  NumColumns = 2
  Retries = 2
  Flows = {f1, f2}
PROPERTIES
  ImplementsBootstrap
  EveryStartEnds
