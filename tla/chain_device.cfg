SPECIFICATION Spec
CONSTANTS
  Users = {u1}
  Devices = {d1, unknown}
  UnknownDevice = unknown
  Tokens = {t1, t2}
  Requests = {r1}
  None = None
  NoRow = NoRow
  Junk = Junk
  RefreshTTL = 0
  MaxTime = 0
  Faults = {}
SYMMETRY Symmetry
INVARIANTS
  ReuseRevokesChain
