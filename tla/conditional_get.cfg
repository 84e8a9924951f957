SPECIFICATION PartiesSpec
CONSTANTS
  Instances = {a}
  Kids = {k1}
  FirstKid = k1
  NoKid = NoKid
  AccessTTL = 1
  DirFaults = {}
  FileFaults = {}
  Parties = {p}
  MaxAge = 1
  NoTag = NoTag
PROPERTIES
  ConditionalGetSaves
