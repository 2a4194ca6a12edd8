CONSTANTS
  fmc = fmc
  common = common
  bogus = bogus
  Key = {fmc, common}
  Unsupported = {}
  Children <- ChildrenOfFmc
  NODES_MAX_LEN = 1
  MaxCommands = 1
  MaxAccesses = 1

SPECIFICATION FairSpec
CHECK_DEADLOCK FALSE
PROPERTY
  DestroyEnds
