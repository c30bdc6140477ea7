SPECIFICATION FairSpec
CONSTANTS
    UsizeMax = 63
    I32Max = 19
    NEAR_JUMP_SIZE = 2
    TRAMPOLINE_ALIGNMENT = 2
    PageSize = 4
    Granularity = 8
    Hooks <- MCHooks
INVARIANT TypeOK
PROPERTIES
    TriesNearestFirst
    SearchReturns
