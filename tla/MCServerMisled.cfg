CONSTANTS
    Session = {s1, s2, s3}
    Transfer = {}
    MaxFd = 3
    Slots = 2
    MaxInbox = 1
    MaxConns = 3
    Listen = Listen
    None = None
SPECIFICATION Spec
INVARIANT ReadsWhatEpollReported
CHECK_DEADLOCK FALSE
