SPECIFICATION Spec
CONSTANTS
    Programs <- MixedPrograms
    MemModel <- MixedMemModel
    Width = 2
    MemWidth = 1
    PortLen = 2
    ResStnSize = 2
    RobSize = 4
    LQSize = 2
    SQSize = 2
    RenameRegs = 2
INVARIANTS
    OnlyWrongPathDeleted
