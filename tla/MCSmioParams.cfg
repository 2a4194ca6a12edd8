SPECIFICATION Spec
CONSTANTS
  NumChan = 3
  SwClkChan = 1
  EndChanId = 17
  Smios <- MCSmios
  Effort = 2
INVARIANTS ServedByItsHandler ReadsBack DefaultsReported
PROPERTY SetsOwnField
CHECK_DEADLOCK FALSE
