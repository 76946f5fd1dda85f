CONSTANTS
  Gpios = {4, 5, 26}
  Buses = {0}
  Freqs = {7, 100, 5000}
  Duties = {50, 100}
  ClockSteps = 30517
  MaxDepth = 2
  MaxCommands = 5
SPECIFICATION PinsSpec
INVARIANTS PinsInv
PROPERTIES LatchEndsLow
CHECK_DEADLOCK FALSE
