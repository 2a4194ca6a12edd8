SPECIFICATION Spec
CONSTANTS
  NumChan = 24
  SwClkChan = 17
  EndChanId = 17
  Smios <- MCTrigger
  Effort = 0
INVARIANT TriggerDefaultsHold
CHECK_DEADLOCK FALSE
