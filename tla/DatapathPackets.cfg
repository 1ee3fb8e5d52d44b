CONSTANTS
    Mbufs = {m1, m2}
    NoMbuf = NoMbuf
    BurstSize = 2
    MaxBursts = 1
SPECIFICATION FairSpec
INVARIANTS
    TypeOK
    MbufAccounting
PROPERTIES
    ImplementsLedger
    HandshakeCompletes
    ShutdownCompletes
    PauseTakesEffect
