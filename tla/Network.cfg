CONSTANTS
  Shells = {ble, usb}
  Ble = ble
  Creds = {a, b}
  Stray = Stray
  Nothing = Nothing
  MaxProbes = 2
  MaxLines = 4
  MaxBoots = 1
SPECIFICATION Spec
INVARIANTS NetworkInv VerdictIsOwn
PROPERTIES SavedWasJoined
CHECK_DEADLOCK FALSE
