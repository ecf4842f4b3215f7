SPECIFICATION Spec
CONSTANTS
    SizeBits = 5
    TileHeight = 2
    BatchSizes = {3, 5, 7}
    MaxSize = 17
    MaxInterrupts = 0
    ForgeSize = 0
INVARIANTS
    OnlyBottomRow
