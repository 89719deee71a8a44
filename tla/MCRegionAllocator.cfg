SPECIFICATION Spec
CONSTANTS
    Capacity = 3
    AddrTop = 64
    Start = 3
    Size = 10
    Sizes <- SmallSizes
    Aligns <- SmallAligns
INVARIANTS
    SlotsSorted
    FreedPoolIsWhole
    AllocIsFirstFit
PROPERTIES
    ImplementsPool
