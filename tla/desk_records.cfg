INIT RecordsInit
NEXT RecordsNext
CONSTANTS
  Ports = {PD, DH}
  Berths = {B1, B2}
  Commodities = {}
  Unpublished = Unpublished
  Unread = Unread
  PD = PD
  DH = DH
  B1 = B1
  B2 = B2
  H1 = H1
  H2 = H2
  H3 = H3
  S1 = S1
  S2 = S2
  Coal = Coal
  Oil = Oil
  MinSample = 2
  PageSize = 2
  Reports <- MCReports
  Questions <- MCQuestions
  RegisterPorts = {DH}
  Registry <- MCRegistry
  PortLimits <- MCPortLimits
  TideOf <- MCTideOf
  LiquidWords = {Oil}
  ContainerWords = {}
  DryWords = {Coal}
  SitePorts = {PD, DH}
  Contents = {H1, H2}
  NoPage = NoPage
  MaxLog = 2
  Boxes <- MCBoxes
  Chunks = 3
  MaxPages = 3
  MaxRuns = 3
  AnchoragePorts = {PD, DH}
  PortOf <- MCPortOf
  Days <- MCDays
  Height = 3
  Width = 8
  Raster <- MCRaster
  Trials <- MCTrials
  GuardPx = 0
  BackgroundPx = 1
  Alpha = 2
  Spacing <- MCSpacing
  MergeRadius = 2
  Settings <- MCSettings
  PortWatch <- MCPortWatch
  MinN = 2
  Null = Null
  MaxCensuses = 2
  Versions = {v1, v2}
  WeekLength = 3
  LastDay = 5
  MaxManifest = 3
  NoSnapshot = NoSnapshot
  Unreadable = Unreadable
  People = {p1, p2}
  p1 = p1
  p2 = p2
  c1 = c1
  c2 = c2
  Nobody = Nobody
  Requests = {c1, c2}
  Callers <- MCCallers
  MaxLines = 1
SYMMETRY MCSymmetry
INVARIANTS
  ActionsAreTheirActors
  CallsAreOfShips
  LogMatchesDisk
  ScenesAreWhole
  CensusIsOfItsScene
PROPERTIES
  OnlyAdminsChangeAccounts
  VintagesStand
