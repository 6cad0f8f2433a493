SPECIFICATION Spec
CONSTANTS
    p1 = p1  p2 = p2  p3 = p3  v1 = v1  v2 = v2
    Procs <- MCProcs
    init = p1
    idle = idle
    NULL = NULL
    NumBlocks = 48
    Picks <- MCPicks
    Fanout = 3
    KernelSegs <- MCKernelSegs
    USER_STACK = 9
    Programs <- MCPrograms
    Values = {v1, v2}
SYMMETRY MCSymmetry
PROPERTIES Reclaimed
