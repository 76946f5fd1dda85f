CONSTANTS
  Keys <- MCKeys
  Packets <- MCPackets
  Letters = {"s", "u", "r", "A"}
  Args <- MCArgs
  MaxPackets = 3
  LineMax = 9
  MaxArgs = 4
  ExpandSize = 10
  SlotCount = 2
  NameMax = 2
  ValueMax = 2
SPECIFICATION Spec
INVARIANTS TypeOK UnreadIsIntact ReadsAsMeant
PROPERTIES TableKeepsPromise
CHECK_DEADLOCK FALSE
