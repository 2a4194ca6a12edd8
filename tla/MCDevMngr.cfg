SPECIFICATION FairSpec
CONSTANTS
    Devs = {1, 2}
    Rffes = {0}
    MaxFaults = 1
INVARIANT
    MngrInv
PROPERTIES
    BoardServed
    
    
CHECK_DEADLOCK FALSE
