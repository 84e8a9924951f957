SPECIFICATION Spec
CONSTANTS
  Users = {u1, u2}
  Devices = {d1, unknown}
  UnknownDevice = unknown
  Tokens = {t1, t2, t3}
  Requests = {r1, r2}
  None = None
  NoRow = NoRow
  Junk = Junk
  RefreshTTL = 0
  MaxTime = 0
  Faults = {"db"}
SYMMETRY Symmetry
INVARIANTS
  TypeOK
  ChainWellFormed
  RevocationHasCause
  HandoutsBacked
PROPERTIES
  KeepsLedger
  OverForGood
  ForkedOnlyByOverlap
