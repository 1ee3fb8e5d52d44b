CONSTANTS
    Mutators = {a}
    Topologies = {t1, t2}
    NoTopology = NoTopology
    MaxRequests = 4
    Faults = {"die", "raise", "unkillable"}
SPECIFICATION SessionSpec
SYMMETRY SessionSymmetry
INVARIANTS
    TypeOK
    AgreesWithManager
    AppliedDatapathRuns
    ExitCodeTruth
PROPERTIES
    ReadyIsTruthful
    RunningNeedsNoPlan
