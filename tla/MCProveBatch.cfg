CONSTANTS
    N = 4
    MaxParallel = {0, 1, 2, 3}
    Stems = {"a", "b", "c", "d"}
    Inputs <- MCInputs

SPECIFICATION Spec

INVARIANTS
    ResultsBelong
    ProofsSurvive
    ZeroExitMeansProved

PROPERTIES
    BatchEnds
