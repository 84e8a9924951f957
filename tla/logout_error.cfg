SPECIFICATION Spec
CONSTANTS
  Users = {u1}
  Devices = {unknown}
  UnknownDevice = unknown
  Tokens = {t1}
  Requests = {r1}
  None = None
  NoRow = NoRow
  Junk = Junk
  RefreshTTL = 0
  MaxTime = 0
  Faults = {"db"}
SYMMETRY Symmetry
INVARIANTS
  LogoutRevokes
