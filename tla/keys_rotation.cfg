SPECIFICATION Spec
CONSTANTS
  Instances = {a, b}
  Kids = {k1, k2}
  FirstKid = k1
  NoKid = NoKid
  AccessTTL = 1
  DirFaults = {b}
  FileFaults = {}
INVARIANTS
  TypeOK
  UnexpiredVerifies
PROPERTIES
  KeyLostOnlyIfMissed
