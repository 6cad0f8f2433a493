CONSTANTS
    Procs = {i, a, b, c}
    init = i
    idle = idle
    NULL = NULL
    MaxPid = 5
    Shipped = FALSE
SPECIFICATION LinksSpec
SYMMETRY FreeBlocks
INVARIANTS
    TypeOK
    RunQueueExact
    CurrentHoldsHart
    Families
    WaiterHasChild
    PidsExact
    LinksExact
PROPERTIES
    OwnStateOnly
    ImplementsTree
