CONSTANTS
    Order = 127
    Window = 16
    Chunk = 5
    Limb = 16
    Preferred = 8
    Horizon = 16
    Widest = 40
    MaxClaim = 24
    MaxProof = 3
    ProofAddress = 40
    ClaimAddress = 45
    ControlAddress = 72
    BinderAddress = 75
    DigestAddress = 105
    Flat <- MCFlat
    Endings <- MCEndings
    Pinned <- MCPinned
    Assemblies <- MCAssemblies
    Cases <- MCCases

SPECIFICATION Spec

INVARIANTS
    LinkedIsExact
