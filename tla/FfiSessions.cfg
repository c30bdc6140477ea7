SPECIFICATION Spec
CONSTANTS
    c1 = c1
    c2 = c2
    s1 = s1
    s2 = s2
    h1 = h1
    h2 = h2
    new = new
    old = old
    NULL = NULL
    Threads = {c1, c2}
    Sessions = {s1, s2}
    Trampolines = {}
    PreparationErrors = {"OverlappingPatch", "NoMemoryCave"}
    Replacements <- OneReplacement
    InitialCode <- MCInitialCode
    UsizeMax = 2
    I32Max = 4
    NEAR_JUMP_SIZE = 1
    TRAMPOLINE_ALIGNMENT = 1
    DataLengths = {}
    ABSOLUTE_CALL_SIZE = 1
    ABSOLUTE_JUMP_SIZE = 1
    DISPLACEMENT_SIZE = 1
    Destinations = {}
    MaxCode = 0
    MaxLabels = 0
    MaxPatches = 1
INVARIANTS
    HandlesHaveOneOwner
    HeldSessionsAreOpen
    MessageMatchesStatus
PROPERTY StatusTellsInstalled
