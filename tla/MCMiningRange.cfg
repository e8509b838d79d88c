CONSTANTS
    Cpus = {c1, c2}
    Gpu = gpu
    MaxU64 = 6
    Group = 2
    Launch = 4
    Calls <- MCCalls

SPECIFICATION Spec

INVARIANTS
    TypeOK
    ReservationsPartition
    WinnerIsValid
    NoneMeansAllTried
    BoundedOvershoot
    PayloadIsFresh

PROPERTIES
    Terminates
    ImplementsSearch
