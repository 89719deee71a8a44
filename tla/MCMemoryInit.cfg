SPECIFICATION Spec
CONSTANTS
    PageSize = 2
    ByteBits = 2
    PhysLimit = 12
    MaxBitmap = 0
    Words <- NoWords
    Memmaps <- AllMaps
INVARIANTS
    BitmapKeptOut
    ExactlyUsableFree
    PanicsExactly
