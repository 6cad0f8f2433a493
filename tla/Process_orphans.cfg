CONSTANTS
    Procs = {i, a, b, c}
    init = i
    idle = idle
    NULL = NULL
    MaxPid = 5
    Shipped = FALSE
SPECIFICATION FairSpec

PROPERTIES
    OrphansAdopted
