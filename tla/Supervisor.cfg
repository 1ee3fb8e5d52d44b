CONSTANTS
    MaxLaunches = 2
    MaxCrashes = 1
    PipeCapacity = 1
    Backlog = 2
SPECIFICATION FairSpec
INVARIANTS
    TypeOK
    NoStrays
    SocketIsManaged
    HealthIsOfLastStart
PROPERTY
    CallsReturn
