CONSTANTS
  Shells = {ble, usb}
  Ble = ble
  Creds = {a, b}
  Stray = Stray
  Nothing = Nothing
  MaxProbes = 2
  MaxLines = 3
  MaxBoots = 1
SPECIFICATION Spec
PROPERTIES SavedIsTyped
CHECK_DEADLOCK FALSE
