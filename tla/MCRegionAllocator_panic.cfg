SPECIFICATION Spec
CONSTANTS
    Capacity = 2
    AddrTop = 64
    Start = 3
    Size = 8
    Sizes <- SmallSizes
    Aligns <- SmallAligns
INVARIANTS
    SlotAvailableAfterRemoval
