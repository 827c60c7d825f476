INIT RequestsInit
NEXT RequestsNext
CONSTANTS
  P = P
  Q = Q
  R = R
  A = A
  B = B
  Unpublished = Unpublished
  Ports = {P, Q, R, S}
  Berths = {A}
  Commodities = {}
  Jobs <- MCJobs
  Miles <- MCMiles
  Rate <- MCRate
  Wait <- MCWait
  DefaultWork = 1
  Opex = 1
  ContributionCap = 10
  Lifts <- MCLifts
  Classes <- MCClasses
  HullOf <- MCHullOf
  Hub <- MCHub
  SeaMiles <- MCSeaMiles
  DraftTolerance = 1
  SizeTolerance = 15
  MostLoads = 2
  LongestTerm = 5
  Places = {P, Q, R, S}
  Hulls = {A, B}
  CallLogs <- MCCallLogs
  Searches <- MCSearches
  Far <- MCFar
  Fuel = 1
  Waiting <- MCWait
  Chance <- MCChance
  Barred = {R}
  MinPairs = 2
  NoRate = Unpublished
  Absent = Absent
  Garbled = Garbled
  RoutePorts <- RoutePlaces
  Place <- MCPlace
  Lines <- MCLines
  Passages <- MCPassages
  Areas <- MCAreas
  SampleStep = 2
  Distance <- MCSailing
  Window = 2
  WeekOf <- MCWeekOf
  FileSets <- MCFileSets
  BasinsOf <- MCBasins
  Strikes <- MCStrikes
  Inquiries <- MCInquiries
  S = S
  NoBasis = NoBasis
  VesselClasses <- MCVesselClasses
  Deadweight <- MCDeadweight
  Markets <- MCMarkets
  RouteBasis <- MCRouteBasis
  LotRequests <- MCRequests
  Levels = {900, 2600}
  Delays = {0, 3}
  MoveScore <- MCScore
  Berthed <- MCBerthed
  RateFloor = 1100
  MovesKept = 3
  MovesDrawn = 2
  AnyDay = AnyDay
  Askers = {1, 2}
  OutPorts = {P, Q, R}
  Situated = {P, Q}
  Skies <- MCSkies
  Horizon = 2
  TicksPerDay = 2
  Ttl = 2
  LastTick = 3
  Voyages <- MCVoyages
  CallCounts = {0, 9}
  Recent = 1
  Base = 2
  Static <- MCStatic
  LastRow = 5
  Reporting = {P, Q}
  Asks <- MCAsks
  NoFigure = NoFigure
  R1 = R1
  R2 = R2
  RV = RV
  T1 = T1
  T2 = T2
  Z = Z
  LandedRequests <- MCLandedRequests
  MacroRows <- MCMacroRows
  Worlds <- MCWorlds
  RouteSeries = {R1, R2, RV}
  BenchmarkOf <- MCBenchmarkOf
  ObservedFrom = 3
  MixRequests <- MCMixRequests
  Steps = 6
  FrontierK <- MCFrontierK
  RawFiles <- MCRawFiles
  Unnamed = Unnamed
  Blank = Blank
  Histories <- MCHistories
  NearHalf = 3
  NearLeast = 3
  LeastPrints = 3
  FreshPrints = 4
  TrailDays = 7
  Trials <- MCTrials
  Spread100 = 3
  Spots = {1, 2, 3}
  ValueOf <- MCValueOf
  Particles = 2
  Iterations = 2
INVARIANTS
  PlansAreSound
  EnvelopeIsSound
  SearchIsSound
  RouteIsReadWhole
  QuoteAgreesWithItself
  OutlookIsOfItsTime
  CostsAreExplained
  HistoryIsWellRead
