SPECIFICATION LoopSpec
CONSTANTS
  server = server
  Harvesters <- MCServer
  LastDay = 5
  DaysPerMonth = 2
  Limit = 2
  MaxFailures = 1
  MaxRestated = 1
  MaxCrashes = 1
INVARIANTS
  FilesAgree
PROPERTIES
  StoredFiguresStay
  CatchesUpUndisturbed
