CONSTANTS
    a = a
    s1 = s1
    s2 = s2
    s3 = s3
    u1 = u1
    u2 = u2
    Session = {s1, s2, s3}
    User = {u1, u2}
    UserOf <- OneTwice
    Worker = {w1, w2}
    Base = {a}
    Sep = Sep
    Name <- Typed
    Content = {c1, c2}
    MaxId = 4
    None = None
    long = long
    Thread = {t1, t2, t3}
    MaxInode = 3
    Hole = Hole
SPECIFICATION FilesSpec
SYMMETRY FilesSymmetric
CONSTRAINT Bound
INVARIANTS PoolRowsWhole FilesInPool PathMatchesCode TreeRooted RmStaysInside
PROPERTY FreshIsWhole
CHECK_DEADLOCK FALSE
