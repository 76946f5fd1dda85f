CONSTANTS
  a = a
  b = b
  Names = {a, b}
  SlotCount = 1
  BodyMax = 2
  Erased = Erased
  Absent = Absent
  Bodies <- MCBodies
  Commands <- MCCommands
  Typed <- MCTyped
  Words <- MCWords
  Strays <- MCStrays
  Stored <- MCStored
  StackDepth = 4
  WhileMax = 2
  MaxLines = 3
SPECIFICATION FairSpec
INVARIANTS ShellInv StoredAsMeant
PROPERTY LinesFinish
CHECK_DEADLOCK FALSE
