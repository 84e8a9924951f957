SPECIFICATION Spec
CONSTANTS
  Users = {u1}
  Devices = {unknown}
  UnknownDevice = unknown
  Tokens = {t1, t2, t3}
  Requests = {r1, r2}
  None = None
  NoRow = NoRow
  Junk = Junk
  RefreshTTL = 0
  MaxTime = 0
  Faults = {}
SYMMETRY Symmetry
PROPERTIES
  RotatedOnce
