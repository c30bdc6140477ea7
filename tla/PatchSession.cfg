SPECIFICATION Spec
CONSTANTS
    s1 = s1
    s2 = s2
    Free = Free
    UsizeMax = 63
    I32Max = 20
    NEAR_JUMP_SIZE = 2
    TRAMPOLINE_ALIGNMENT = 4
    PageSize = 12
    Granularity = 16
    Sessions = {s1}
    Sites = {2, 35, 50, 62}
    Sizes = {0, 2, 3}
    CallSizes = {5}
    Builders <- MCBuilders
    MaxPatches = 3
INVARIANTS
    TypeOK
    TrampolinesDisjoint
    DetoursConnect
PROPERTY PreparesAllOrNothing
