SPECIFICATION LoopSpec
CONSTANTS
  a = a
  b = b
  loop = loop
  other = other
  r1 = r1
  Loop = loop
  WatchIds <- MCTwo
  Asks <- MCAboveMoves
  Evaluators <- MCLoop
  Requests <- MCCall
  Values <- MCValues
  LastDay = 2
  MaxEntries = 0
  MaxResets = 0
  MayFail = FALSE
  MaxCrashes = 0
PROPERTIES
  KeepsThePromise
  StateCatchesUp
