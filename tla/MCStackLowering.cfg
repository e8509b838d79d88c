CONSTANTS
    Order = 9
    Window = 4
    Chunk = 2
    Preferred = 4
    Horizon = 4
    Widest = 8
    Programs <- MCPrograms
    Stacks <- MCStacks
    Rams <- MCRams

SPECIFICATION Spec

INVARIANTS
    LoweringIsExact
    OccupiedCellsSurvive
    FailsOnlyWhenFull

PROPERTIES
    Ends
