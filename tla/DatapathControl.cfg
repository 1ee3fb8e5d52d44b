CONSTANTS
    Mbufs = {m1, m2}
    NoMbuf = NoMbuf
    BurstSize = 1
    MaxBursts = 3
SPECIFICATION Spec
SYMMETRY MbufSymmetry
INVARIANTS
    StatsConserved
    NoUseAfterRelease
    PauseBound
    HealthTruth
    FailedStartReleases
