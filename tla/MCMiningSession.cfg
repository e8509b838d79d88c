CONSTANTS
    t1 = t1
    t2 = t2
    t3 = t3
    Masts = {m1, m2}
    MaxU64 = 5
    Batch = 2
    Requests = {"cpu", "gpu", "auto"}
    Tips <- MCTips
    Chains <- MCChains
    Limits <- MCLimits

SPECIFICATION Spec

INVARIANTS
    BudgetHolds
    SubmissionIsCurrent
    OneBlockPerSession
    BufferMatches
    SelectionHonored

PROPERTIES
    SessionEnds
    SessionImplementsSearch
