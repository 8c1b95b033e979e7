CONSTANTS
  Replies <- MCMixed
  MaxRead = 4
  HandleLimit = 3
  MaxCalls = 4
SPECIFICATION Spec
INVARIANTS TypeOK NothingLostOrRepeated CutOnlyIfInterrupted HandlesBalance
           NothingArmedOutsideLoop
PROPERTIES EveryCallReturns ImplementsBoundedCall
\* The bound MaxCalls ends every behaviour.
CHECK_DEADLOCK FALSE
