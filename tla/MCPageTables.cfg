SPECIFICATION Spec
CONSTANTS
    f1 = f1
    f2 = f2
    f3 = f3
    f4 = f4
    f5 = f5
    f6 = f6
    pml4 = pml4
    boot = boot
    Frames <- SixFrames
    Pml4 = pml4
    BootTable = boot
    Indices = {0, 1}
    BootIndex = 1
    Pages <- FivePages
    FlagSets <- KernelFlags
    None = None
    NoFrame = NoFrame
SYMMETRY Interchangeable
INVARIANTS
    FramesInOnePlace
PROPERTIES
    ImplementsMap
    AnswersAreTrue
