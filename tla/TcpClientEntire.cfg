CONSTANTS
  Replies <- MCTwoSlaves
  MaxRead = 32
  HandleLimit = 2
  MaxCalls = 1
SPECIFICATION Spec
INVARIANT CompleteMeansEntire
CHECK_DEADLOCK FALSE
