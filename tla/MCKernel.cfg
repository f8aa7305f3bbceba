SPECIFICATION Spec
CONSTANTS
    initproc = init
    Slot = {init, a, b}
    NCPU = 2
    NULL = NULL
    File = {f, g}
    Fd = {0, 1}
    Pipes = {pi}
    PIPESIZE = 1
    UINT = 3
    MaxCount = 2
INVARIANTS RefCountsHolders UnreadIntact EndsMatchFiles SleepersHaveReason NoOrphans
SYMMETRY Symmetry
CONSTRAINT Bound
CHECK_DEADLOCK FALSE
