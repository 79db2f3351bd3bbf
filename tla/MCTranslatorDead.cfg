CONSTANTS
    Programs <- MCPrograms
    NumVars = 2
    ClusterSize = 4
    NumEU = 2
    MaxSweeps = 8
    LrfSize = 2
    GrfSize = 4
    RegModes = {"LOCAL_GLOBAL"}
    SchModes = {"NO_LIST_SCH"}

SPECIFICATION Spec

INVARIANT DeadCopiesUnused

CHECK_DEADLOCK FALSE
