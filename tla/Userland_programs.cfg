CONSTANTS
    Procs = {i, a, b, c}
    init = i
    idle = idle
    NULL = NULL
    MaxPid = 4
    Shipped = FALSE
    MaxOthers = 3
SPECIFICATION FairUserSpec
INVARIANTS
    NeverStuck
    ShutdownReapedAll
PROPERTIES
    ReadyRuns
    WaitReturns
    PromptReturns
    KeepsShipped
