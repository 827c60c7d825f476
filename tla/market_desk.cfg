SPECIFICATION DeskSpec
CONSTANTS
  paradip = paradip
  haldia = haldia
  quoter = quoter
  PortFiles <- MCOnePort
  KnownPorts <- MCKnown
  Quoters <- MCQuoters
  FirstDay = 2
  LastDay = 3
  Lookback = 0
  MaxFailures = 1
  MaxCrashes = 1
INVARIANTS
  StoresAreSound
  OneDayPerAnswer
  NothingNewerThanStamp
