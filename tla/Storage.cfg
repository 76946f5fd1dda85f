CONSTANTS
  Names = {a, b, c}
  SlotCount = 2
  BodyMax = 1
  Erased = Erased
  Absent = Absent
  Bodies <- MCBodies
  Creds = {w1, w2}
  Blank = Blank
  Torn = Torn
  Nothing = Nothing
SPECIFICATION StorageSpec
INVARIANTS StoreInv
PROPERTIES StoreKeepsPromise CredentialsAreWhole
