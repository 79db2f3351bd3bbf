SPECIFICATION FairSpec
CONSTANTS
    Programs <- AllPrograms
    Regs = {"a", "b"}
    NumWin = 2
    WinSize = 3
    RobSize = 3
    StageWidth = 3
    InFlight = 3
    RunaheadModes = {TRUE, FALSE}
    RunaheadCnt = 2
    MaxSquash = 2
INVARIANTS
    LocalValuesHandedOver
    BusyRegistersExact
    WindowsConsistent
PROPERTIES
    EveryBlockRetires
