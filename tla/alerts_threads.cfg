SPECIFICATION Spec
CONSTANTS
  a = a
  b = b
  loop = loop
  other = other
  r1 = r1
  Loop = loop
  WatchIds <- MCOne
  Asks <- MCLate
  Evaluators <- MCBoth
  Requests <- MCCall
  Values <- MCQuiet
  LastDay = 3
  MaxEntries = 2
  MaxResets = 1
  MayFail = TRUE
  MaxCrashes = 1
INVARIANTS
  BellIsHonest
SYMMETRY MCEvaluatorsAlike
CONSTRAINT MCFewStates
