SPECIFICATION Spec
CONSTANTS
    Byte = 2
    TextBase = 173
    TssBase = 219
    Lines <- MCLines
    Faults <- MCFaults
    MaxDepth = 3
INVARIANTS
    FrameIsTrue
    InterruptedIntact
    WaitsOnlyForInterrupted
PROPERTIES
    NoResetWithIdt
    TicksAreTaken
    ExceptionsReported
