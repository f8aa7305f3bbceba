CONSTANTS
    Session = {s1, s2}
    Transfer = {t1}
    MaxFd = 3
    Slots = 2
    MaxInbox = 1
    MaxConns = 2
    Listen = Listen
    None = None
SPECIFICATION FairSpec
PROPERTIES ReadableIsServed SilentIsDropped
CHECK_DEADLOCK FALSE
