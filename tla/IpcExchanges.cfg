CONSTANTS
    MaxExchanges = 3
    MaxStarts = 2
    Backlog = 2
SPECIFICATION FairSpec
INVARIANTS
    TypeOK
    AnswerIsCurrent
PROPERTIES
    ImplementsLog
    ServerReturnsToPoll
    BacklogDrains
