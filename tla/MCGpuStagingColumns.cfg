CONSTANTS
    t1 = t1
    t2 = t2
    Threads = {t1, t2}
    PoolLimit = 2
    MaxGroups = 8
    Budget = 40
    Group = 2
    Small <- MCSmall
    Hooks <- MCHooks
    Plans <- MCPlans
    Keys <- MCKeys
    Passes <- HookPasses
    Words <- HookWords

SPECIFICATION Spec

INVARIANT
    ColumnsHold
