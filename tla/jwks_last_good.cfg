SPECIFICATION Spec
CONSTANTS
  Instances = {a}
  Kids = {k1}
  FirstKid = k1
  NoKid = NoKid
  AccessTTL = 1
  DirFaults = {a}
  FileFaults = {}
PROPERTIES
  LastGoodKept
