CONSTANTS
    Cases <- MCCases
    MaxTurns = 4
    MaxEntries = 3
    MaxIndex = 4
    MaxLimit = 3

SPECIFICATION Spec

INVARIANTS
    SubmissionIsExact
    ReportsAreTrue
    AnswersAreRight

PROPERTIES
    WalletIsMeant

CHECK_DEADLOCK FALSE
