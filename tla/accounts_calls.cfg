SPECIFICATION Spec
CONSTANTS
  ann = ann
  ben = ben
  r1 = r1
  r2 = r2
  Names <- MCNames
  Requests <- MCRequests
  TTL = 1
  LastTick = 1
  MaxSessions = 2
  MaxSets = 2
  MaxChanges = 2
SYMMETRY MCSymmetry
INVARIANTS
  StoreIsSound
  SerialPromises
PROPERTIES
  SignedOutForAReason
