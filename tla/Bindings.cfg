CONSTANTS
  Pins <- MCPins
  Edges <- MCEdges
  Stored <- MCStored
  SlotCount = 2
  Debounce = 2
  TimeMod = 4
  MaxCalls = 2
  Blank = Blank
  Torn = Torn
  Nothing = Nothing
SPECIFICATION FairSpec
INVARIANTS TableInv PendingIsOwn
PROPERTIES AcceptedApart PendingIsTaken
CHECK_DEADLOCK FALSE
