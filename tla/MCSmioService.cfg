SPECIFICATION FairSpec
CONSTANTS
    Users = {u1}
    Smios <- MCSmios
    Served = {"dsp"}
    Defaults <- MCDefaults
    UserCalls <- MCUserCalls
    MaxCalls = 2
INVARIANTS
    NothingLeft
    LagWithinTimeouts
    ReadIsCurrent
    SuccessMeansPerformed
    AnsweredOnce
    LateDefaults
PROPERTY
    ThreadsEnd
CHECK_DEADLOCK FALSE
