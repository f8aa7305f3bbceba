CONSTANTS
    a = a
    s1 = s1
    s2 = s2
    s3 = s3
    u1 = u1
    u2 = u2
    Session = {s1}
    User = {u1}
    UserOf <- OneClient
    Worker = {w1}
    Base = {a}
    Sep = Sep
    Name <- Typed
    Content = {c1}
    MaxId = 2
    None = None
SPECIFICATION Spec
INVARIANTS NothingLeftBehind
CHECK_DEADLOCK FALSE
