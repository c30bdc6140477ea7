SPECIFICATION Spec
CONSTANTS
    t1 = t1
    t2 = t2
    UsizeMax = 31
    I32Max = 12
    NEAR_JUMP_SIZE = 3
    TRAMPOLINE_ALIGNMENT = 4
    Trampolines = {t1}
    DataLengths = {0, 1}
    ABSOLUTE_CALL_SIZE = 4
    ABSOLUTE_JUMP_SIZE = 3
    DISPLACEMENT_SIZE = 2
    Destinations = {0, 17}
    ForeignLabels = FALSE
    MaxCode = 10
    MaxLabels = 2
INVARIANTS
    TypeOK
    BranchesLeadToTargets
    BuildsLikeABuilder
