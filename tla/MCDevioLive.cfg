CONSTANTS
  fmc = fmc
  common = common
  bogus = bogus
  Key = {fmc, common}
  Unsupported = {}
  Children <- ChildrenOfFmc
  NODES_MAX_LEN = 1
  MaxCommands = 2
  MaxAccesses = 1

SPECIFICATION FairSpec
CHECK_DEADLOCK FALSE
PROPERTIES
  TeardownEndsOrBlocks
  AccessAnswered
  ConfigReaped
