SPECIFICATION Spec
CONSTANTS
  w1 = w1
  w2 = w2
  Workers <- MCWorkers
  Quotes <- MCQuotes
  Rates <- MCRates
  Windows <- MCWindows
  MaxStamps = 3
  MayCrash = TRUE
SYMMETRY MCSymmetry
INVARIANTS
  LinesAreSound
  AcknowledgedIsKept
  SummaryAddsUp
  RegretExplained
  SerialPromises
PROPERTIES
  NoSelectiveDeletion
