SPECIFICATION Spec
CONSTANTS
  Requests = {r1, r2}
  Ids = {i1, i2}
  Addresses = {a1}
  Spellings = {lower, upper}
  Passwords <- MCPasswords
  Malformed = Malformed
  Blank = Blank
  None = None
  NoRow = NoRow
  Faults = {"db", "drop"}
SYMMETRY Symmetry
INVARIANTS
  TypeOK
  RegisteredCanLogin
  AccountsStrong
  ProfileIsOwn
  AccountsInv
PROPERTIES
  KeepsDirectory
