SPECIFICATION FairSpec
CONSTANTS
    NumAR = 2
    NumPR = 5
    RobSize = 3
    ReadLists <- MCReadLists
    WriteLists <- MCWriteLists
INVARIANTS
    TypeOK
    FreeListExact
    CommittedMapExact
    SpeculativeMap
    TrueProducers
PROPERTIES
    ReadableStaysReadable
    RenameNeverStarves
