SPECIFICATION DevicesSpec
CONSTANTS
    Slot = {s, t}
    Proc = {p1, p2, p3}
    NULL = NULL
INVARIANTS FreesOwn GivesBack EntriesBacked PagesAccounted BlocksSound NobodySleepsPast BuffersExact
SYMMETRY Symmetry
CONSTRAINT Bound
CHECK_DEADLOCK FALSE
