SPECIFICATION Spec
CONSTANTS
  ann = ann
  ben = ben
  r1 = r1
  r2 = r2
  Names <- MCNames
  Requests <- MCRequests
  TTL = 1
  LastTick = 0
  MaxSessions = 2
  MaxSets = 1
  MaxChanges = 2
SYMMETRY MCSymmetry
INVARIANT AlwaysAWayBackIn
