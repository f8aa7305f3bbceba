CONSTANTS
    Worker = {w1, w2, w3}
    Node = {n1, n2, n3}
    NULL = NULL
    Main = Main
    Nobody = Nobody
SPECIFICATION FairSpec
INVARIANTS ListMatchesFifo OneOwner NoLostWakeup
PROPERTIES QueuedIsTaken PoolSpec
