SPECIFICATION FairSpec
CONSTANTS
    BlockAlign = 2
    MinBlock = 2
    AddrMax = 18
    Donations <- Pieces
    Sizes <- SmallSizes
    Aligns <- SmallAligns
INVARIANTS
    ListIntact
    StatsExact
PROPERTIES
    AllocIsFirstFit
    ImplementsPool
    CallsReturn
