CONSTANTS
    Mutators = {a, b}
    Topologies = {t1, t2}
    NoTopology = NoTopology
    MaxRequests = 3
    Faults = {}
SPECIFICATION SessionSpec
SYMMETRY SessionSymmetry
INVARIANTS
    AppliedDatapathRuns
