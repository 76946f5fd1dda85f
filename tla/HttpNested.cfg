CONSTANTS
  NCalls = 2
  MaxDepth = 2
  Responses <- TwoAnswers
  HdrMax = 2
  DnsOutlives = FALSE
SPECIFICATION Spec
INVARIANT BodyOrError
CHECK_DEADLOCK FALSE
