SPECIFICATION FairSpec
CONSTANTS
    NumSeg = 2
    ArchSeg = 1
    SegSize = 2
    NumWin = 2
    Cluster = 1
    RobSize = 2
    BlockSize = 2
    ReadLists <- MCReadLists
    WriteLists <- MCWriteLists
INVARIANTS
    FreeListsExact
    CommittedMapExact
    TrueProducers
    DroppedStayReadable
PROPERTIES
    RenameNeverStarves
