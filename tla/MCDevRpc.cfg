SPECIFICATION FairSpec
CONSTANTS
    Clients = {s1, s2}
    Requests <- MCRequests
    CfgRequests <- MCCfgRequests
    SdramPgSize = 2
    WbPgSize = 2
    Bar2Size = 2
    Bar4Size = 16
    SdramWords = 4
    WbWords = 4
    Ones = 65535
    Junk = 55
    PattSize = 2
    MaxTries = 2
    RetBits = 16
    MaxCalls = 1
    MaxEvents = 1
PROPERTIES Refines EveryCallReturns
CHECK_DEADLOCK FALSE
