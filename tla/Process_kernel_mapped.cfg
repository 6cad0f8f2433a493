CONSTANTS
    Procs = {i, a, b}
    init = i
    idle = idle
    NULL = NULL
    MaxPid = 4
    Shipped = FALSE
SPECIFICATION Spec

INVARIANTS
    KernelMapped
