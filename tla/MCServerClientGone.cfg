CONSTANTS
    Session = {s1, s2}
    Transfer = {t1}
    MaxFd = 3
    Slots = 2
    MaxInbox = 1
    MaxConns = 3
    Listen = Listen
    None = None
SPECIFICATION Spec
INVARIANT TaskClientListed
CHECK_DEADLOCK FALSE
