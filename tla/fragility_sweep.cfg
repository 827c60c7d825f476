SPECIFICATION Spec
CONSTANTS
  Unbounded = Unbounded
  Unpublished = Unpublished
  dhamra = dhamra
  haldia = haldia
  b1 = b1
  b2 = b2
  coal = coal
  ore = ore
  Ports <- MCPorts
  Berths <- MCBerths
  Commodities <- MCCommodities
  Queries <- MCQueries
  Grid <- MCGrid
  Tol = 2
  Scope <- MCScope
  Caps <- MCCaps
  ClassLimits <- MCClassLimits
  Legacy <- MCLegacy
CHECK_DEADLOCK FALSE
INVARIANTS
  FlipStraddles
  NothingIsPassedOver
  ReportTellsAll
