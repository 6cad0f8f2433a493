CONSTANTS
    BLOCK_NUM = 8
    BLOCK_SIZE = 2
    NDirect = 1
    NIndirect = 2
    NFat = 2
    Names = {m, n, o}
    NoName = NoName
    ROOT = ROOT
    Bufs <- Writes
    RootFs <- Packed
    MaxOff = 3
    INT_MAX = 7
SPECIFICATION Spec
SYMMETRY NameSymmetry
INVARIANTS
    SpaceExtended
