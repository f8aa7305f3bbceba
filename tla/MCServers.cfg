SPECIFICATION ServersSpec
CONSTANTS
    Session = {s1, s2}
    Transfer = {t1}
    MaxFd = 3
    Slots = 3
    MaxInbox = 1
    MaxConns = 3
    Listen = Listen
    None = None
    Client = {c1, c2, c3}
INVARIANTS DescriptorsAgree RouletteAge ServedOnce NobodyWaitsInVain
PROPERTY ForgottenForAReason
SYMMETRY Symmetry
CHECK_DEADLOCK FALSE
