\* Branch and memory mis-speculation, the ROB large enough for most programs.
SPECIFICATION FairSpec
CONSTANTS
    Programs <- CorePrograms
    MemModel <- CoreMemModel
    Width = 2
    MemWidth = 1
    PortLen = 2
    ResStnSize = 2
    RobSize = 4
    LQSize = 3
    SQSize = 2
    RenameRegs = 2
INVARIANTS
    EveryInstructionAccountedFor
    QuiescentAtRecovery
    PerfectMemoryNeverSquashes
    SquashesOldestCulprit
    QueuesAgree
PROPERTIES
    CommittedStoresReachTheCache
    ImplementsInOrderCommit
