CONSTANTS
  NCalls = 2
  MaxDepth = 2
  Responses <- Answers
  HdrMax = 2
  DnsOutlives = TRUE
SPECIFICATION FairSpec
INVARIANTS TypeOK PcbIsLive AnswerIsOwn
PROPERTIES EveryCallReturns
CHECK_DEADLOCK FALSE
