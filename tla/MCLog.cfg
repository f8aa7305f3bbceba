CONSTANTS
    Op = {p1, p2, p3}
    Block = {b1, b2}
    Value = {v1, v2}
    MaxOpBlocks = 1
    LogBlocks = 2
SPECIFICATION FairSpec
INVARIANTS CommitsAlone ReservationHolds SleepersMustWait
PROPERTIES SleeperIsWoken AtomicSpec
