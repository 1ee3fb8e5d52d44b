CONSTANTS
    Documents <- LabDocuments
    NoDocument = NoDocument
    Refused <- LabRefused
    MaxOperations = 3
SPECIFICATION Spec
INVARIANTS
    TypeOK
    SuccessIsComplete
    FailedApplyLeavesNothing
    ReferencesResolve
PROPERTY
    ErrorsHaveCauses
