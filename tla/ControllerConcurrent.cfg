CONSTANTS
    Mutators = {a, b}
    Topologies = {t1, t2}
    NoTopology = NoTopology
    MaxRequests = 4
    Faults = {"die", "raise", "unkillable"}
SPECIFICATION Spec
SYMMETRY ControllerSymmetry
INVARIANTS
    LabTruth
    NoLockCycle
