\* A nine-instruction application, excursions of up to four instructions.
SPECIFICATION FairSpec
CONSTANTS
    Kind <- Code
    Target <- Targets
    EA <- Stored
    MaxIns = 12
    StaticBB <- Blocks
    BrMisspredDelay = 5
    BBWinSize = 1
    BBCnt = 3
    NearEmpty = 1
    None = None
INVARIANTS
    TurnsAlternate
    RightPathTraced
PROPERTIES
    ImplementsApplication
CHECK_DEADLOCK FALSE
