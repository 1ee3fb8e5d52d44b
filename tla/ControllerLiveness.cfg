CONSTANTS
    Mutators = {a, b}
    Topologies = {t1, t2}
    NoTopology = NoTopology
    MaxRequests = 2
    Faults = {"unkillable"}
SPECIFICATION FairSpec
PROPERTIES
    RequestsComplete
    ServerStops
