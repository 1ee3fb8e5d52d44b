CONSTANTS
    Documents <- LabDocuments
    NoDocument = NoDocument
    Refused <- LabRefused
    MaxOperations = 3
SPECIFICATION Spec
PROPERTY
    RepeatedDestroySucceeds
