\* Two units before a memory port of one entry.
SPECIFICATION FairSpec
CONSTANTS
    Programs <- HeldPrograms
    Width = 2
    MemWidth = 1
    PortLen = 2
    MemPortLen = 1
    WinSize = 2
    RobSize = 4
    MemBuffLen = 1
    WrWires = 2
PROPERTIES
    KeepsCommitting
