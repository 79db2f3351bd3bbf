\* Twelve programs of blocks, five with mixed ones, naive memory speculation.
SPECIFICATION FairSpec
CONSTANTS
    Programs <- BlockPrograms
    MemModel = "NAIVE_SPECUL"
    Width = 2
    MemWidth = 1
    PortLen = 2
    RobSize = 3
    LQSize = 2
    SQSize = 2
    NearEmpty = 0
INVARIANTS
    PermitRevokedOnce
    SquashesOldestBlock
    CommitAgrees
PROPERTIES
    ImplementsInOrderCommit
