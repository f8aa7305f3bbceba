SPECIFICATION Spec
CONSTANTS
    Proc = {p, q}
    Inum = {1, 2, 3}
    Name = {x, y}
    PATHLEN = 1
    DotDot = FALSE
    NULL = NULL
INVARIANTS NoDanglingEntry RefCountsPointers NoPanic NoDeadlock FreeWontBlock
SYMMETRY Symmetry
CONSTRAINT Bound
CHECK_DEADLOCK FALSE
