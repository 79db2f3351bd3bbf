CONSTANTS
    Programs <- MCPrograms
    NumVars = 2
    ClusterSize = 4
    NumEU = 2
    MaxSweeps = 8
    LrfSize = 2
    GrfSize = 4
    RegModes = {"GLOBAL", "LOCAL_GLOBAL"}
    SchModes = {"NO_LIST_SCH", "LIST_SCH"}

SPECIFICATION Spec

INVARIANTS
    DominatorsExact
    NamesMeetDefinitions
    LiveRegistersDistinct
    RegistersMeetDefinitions
    ScheduleKeepsDependences
    SweepsSettle

CHECK_DEADLOCK FALSE
