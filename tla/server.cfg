SPECIFICATION FairSpec
CONSTANTS
  Requests = {r1, r2, r3}
  MaxConns = 2
  Limit = 1
  DrainLimit = 1
INVARIANTS
  TypeOK
  PoolWhole
  WaitersHaveRunner
  NothingCutShort
PROPERTIES
  Ended
  ShutdownEnds
