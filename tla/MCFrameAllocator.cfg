SPECIFICATION AllocSpec
CONSTANTS
    PageSize = 2
    ByteBits = 2
    PhysLimit = 10
    MaxBitmap = 3
    Words <- LinkLikeWords
INVARIANTS
    TypeOK
    FreeListIntact
    BitsAreHeld
PROPERTIES
    OwnersUndisturbed
    ImplementsPool
