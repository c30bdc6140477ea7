SPECIFICATION FairSpec
CONSTANTS
    s1 = s1
    s2 = s2
    Free = Free
    UsizeMax = 63
    I32Max = 20
    NEAR_JUMP_SIZE = 2
    TRAMPOLINE_ALIGNMENT = 4
    PageSize = 12
    Granularity = 16
    Sessions = {s1, s2}
    Sites = {2, 35, 48}
    Sizes = {2}
    CallSizes = {5}
    Builders <- MCFewBuilders
    MaxPatches = 1
INVARIANT NoPageLeaks
PROPERTIES
    CallReturns
    SearchesNearestFirst
