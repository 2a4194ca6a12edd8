SPECIFICATION Spec
CONSTANTS
    Chan <- MCChan
    acq_buf <- MCBuf
    PayloadSize = 4
    BlockSize = 8
    U32 = 64
    U64 = 4096
    Client = {c1}
    Request <- MCRequestMany
    MultishotMem = 4
    ShotsMod = 8
    MemSize = 32
    MaxDelay = 3
    MaxAcq = 1
INVARIANTS
    OneBlockPastEnd
    OversizeIsRounding
    CurveIsOwn
    CurveIsComplete
CHECK_DEADLOCK FALSE
