CONSTANTS
    Half = 4
    Seeds <- MCSeeds
    MaxLog = 20
    BitAnd <- MCBitAnd
    BitXor <- MCBitXor
    Tasks <- MCOrderTasks
    Samples <- MCSamples
    Sampled = 2

SPECIFICATION Spec

INVARIANTS
    AcceptedIsSame

CHECK_DEADLOCK FALSE
