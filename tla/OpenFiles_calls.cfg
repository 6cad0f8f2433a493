CONSTANTS
    Procs = {i, a}
    init = i
    FileBlocks = {f, g, h}
    NULL = NULL
    NR_OPEN = 3
    NStd = 1
    InodeSize = 1
    MaxCount = 2
    Leftovers = {8}
    BLOCK_NUM = 5
    BLOCK_SIZE = 2
    NDirect = 1
    NIndirect = 1
    NFat = 1
    Names = {m, n}
    NoName = NoName
    ROOT = ROOT
    Bufs <- Writes
    RootFs <- Packed
    MaxOff = 6
    INT_MAX = 7
SPECIFICATION Spec
SYMMETRY BlockSymmetry
INVARIANTS
    TypeOK
    CountExact
    StdioExact
    OffsetsInFile
PROPERTIES
    ImplementsDisk
