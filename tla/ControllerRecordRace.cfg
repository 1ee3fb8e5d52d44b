CONSTANTS
    Mutators = {a, b}
    Topologies = {t1, t2}
    NoTopology = NoTopology
    MaxRequests = 2
    Faults = {}
SPECIFICATION SessionSpec
SYMMETRY SessionSymmetry
INVARIANTS
    AgreesWithManager
