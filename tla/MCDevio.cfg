CONSTANTS
  fmc = fmc
  common = common
  bogus = bogus
  Key = {fmc, common, bogus}
  Unsupported = {bogus}
  Children <- ChildrenOfFmc
  NODES_MAX_LEN = 1
  MaxCommands = 2
  MaxAccesses = 2

SPECIFICATION Spec
CHECK_DEADLOCK FALSE
INVARIANTS
  ThreadArgsReleased
  OneSocketLeft
  DevioInv
PROPERTY
  ReferenceKeptUntilExit
