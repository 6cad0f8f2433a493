CONSTANTS
    Procs = {i, a}
    init = i
    idle = idle
    NULL = NULL
    Values = {1, 2}
    PcMod = 3
SPECIFICATION Spec
INVARIANTS
    Masked
    StacksOwn
PROPERTIES
    ImplementsHarts
