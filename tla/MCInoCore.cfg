\* Two units, as many write wires, a memory port that never fills.
SPECIFICATION FairSpec
CONSTANTS
    Programs <- InOrderPrograms
    Width = 2
    MemWidth = 1
    PortLen = 2
    MemPortLen = 3
    WinSize = 2
    RobSize = 4
    MemBuffLen = 2
    WrWires = 2
INVARIANTS
    PipelineConsistent
PROPERTIES
    ImplementsInOrderCommit
