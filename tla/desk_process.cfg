\* The caches and streams of the desk, with the builder as a second process.
SPECIFICATION DeskSpec
CONSTANTS
  Threads = {t1}
  Warmer = w
  Builder = b
  WarmList <- MCWarmList
  Requests <- MCRequests
  Nobody = Nobody
  Absent = Absent
  MaxMoves = 1
  MaxTrouble = 1
  Streams = {s1}
  Pool = 1
  MaxStages = 2
INVARIANTS
  SnapshotsAreSound
  StreamTellsOneVerdict
PROPERTIES
  EveryAskIsAnswered
  EveryStreamEnds
