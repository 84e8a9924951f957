SPECIFICATION FairSpec
CONSTANTS
  Users = {u1}
  Devices = {unknown}
  UnknownDevice = unknown
  Tokens = {t1, t2}
  Requests = {r1, r2}
  None = None
  NoRow = NoRow
  Junk = Junk
  RefreshTTL = 0
  MaxTime = 1
  Faults = {}
INVARIANTS
  IInv
  DeadTokenNeverRefreshes
PROPERTIES
  LifecycleMonotone
  LogoutTakesEffect
  ReplayTakesEffect
  Answered
