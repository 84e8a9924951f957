SPECIFICATION PartiesFairSpec
CONSTANTS
  Instances = {a}
  Kids = {k1, k2}
  FirstKid = k1
  NoKid = NoKid
  AccessTTL = 2
  DirFaults = {}
  FileFaults = {k1}
  Parties = {p}
  MaxAge = 2
  NoTag = NoTag
INVARIANTS
  UnexpiredVerifies
  PartiesVerify
PROPERTIES
  KeyLostOnlyIfMissed
  ReloadConverges
