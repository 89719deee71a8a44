SPECIFICATION Spec
CONSTANTS
    f1 = f1
    f2 = f2
    f3 = f3
    f4 = f4
    Capacity = 2
    AddrTop = 64
    Kinds <- OneKind
    Ranges <- OneRange
    TablePages = 3
    TlbSize = 1
    Frames <- FourFrames
    Sizes = {1, 2}
    Aligns = {1, 2}
    None = None
SYMMETRY Interchangeable
INVARIANTS
    FramesInOnePlace
    RegionsUsable
    RollbackUnmapSucceeds
PROPERTIES
    FailureLeavesNoTrace
    DeallocatedUnreachable
