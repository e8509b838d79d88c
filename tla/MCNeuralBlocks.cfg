CONSTANTS
    Half = 4
    Seeds <- MCSeeds
    MaxLog = 20
    BitAnd <- MCBitAnd
    BitXor <- MCBitXor
    Tasks <- MCTasks
    Samples <- MCSamples
    Sampled = 2

SPECIFICATION Spec

INVARIANTS
    AcceptedIsSame
    MaskIsSound
    RewardsAreEarned
    JudgesAgree

CHECK_DEADLOCK FALSE
