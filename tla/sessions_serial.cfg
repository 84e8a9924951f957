SPECIFICATION Spec
CONSTANTS
  Users = {u1}
  Devices = {unknown}
  UnknownDevice = unknown
  Tokens = {t1, t2, t3, t4}
  Requests = {r1}
  None = None
  NoRow = NoRow
  Junk = Junk
  RefreshTTL = 1
  MaxTime = 2
  Faults = {"drop"}
SYMMETRY Symmetry
INVARIANTS
  OneUsablePerFamily
  ReuseRevokesChain
