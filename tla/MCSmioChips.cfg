SPECIFICATION FairSpec
CONSTANTS
    Boards = {"pll", "pllcfg", "osc", "adc250", "adc130", "rffe"}
    MaxCalls <- MCMaxCalls
    MaxFaults <- MCMaxFaults
    SpiCalls <- MCSpiCalls
    PollTries = 2
    Junk <- MCJunk
    FDCO_MIN = 4850
    FDCO_MAX = 5670
    FOUT_FACTORY = 125
    RFREQ_ONE = 16
    I2cCalls <- MCI2cCalls
    I2cTries = 2
    FXTAL = 100
    FactoryDivs <- MCFactoryDivs
    EepromSize = 8
    PageBytes = 4
    EepromInits <- MCEepromInits
    ActiveCode <- MCActiveCode
    PassiveCode <- MCPassiveCode
    BlockBytesMax = 8
    RffeCalls <- MCRffeCalls
    VarSizes <- MCVarSizes
INVARIANTS
    OtherFieldsKept SettingInEffect ReportedIsHeld CopyIsRight FrequencyIsSet
    DividersAreBest BlockWholeOrNot BoardIsKnown 
CHECK_DEADLOCK FALSE
 
