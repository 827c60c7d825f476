INIT HindInit
NEXT HindNext
CONSTANTS
  RawFiles <- MCRawFiles
  Unnamed = Unnamed
  Blank = Blank
  Histories <- MCHistories
  NearHalf = 3
  NearLeast = 3
  LeastPrints = 3
  FreshPrints = 4
  TrailDays = 7
  Trials <- MCTrials
  Spread100 = 3
  Spots = {1, 2, 3}
  ValueOf <- MCValueOf
  Particles = 2
  Iterations = 2
INVARIANTS
  NothingLaterIsUsed
