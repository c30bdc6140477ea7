SPECIFICATION Spec
CONSTANTS
    c1 = c1
    c2 = c2
    s1 = s1
    s2 = s2
    h1 = h1
    h2 = h2
    new = new
    old = old
    NULL = NULL
    Threads = {c1}
    Sessions = {s1}
    Trampolines = {h1}
    PreparationErrors = {"EmptyPatch", "PatchTooSmall", "NoMemoryCave"}
    Replacements <- WideReplacement
    InitialCode <- MCInitialCode
    UsizeMax = 6
    I32Max = 3
    NEAR_JUMP_SIZE = 1
    TRAMPOLINE_ALIGNMENT = 1
    DataLengths = {1}
    ABSOLUTE_CALL_SIZE = 3
    ABSOLUTE_JUMP_SIZE = 2
    DISPLACEMENT_SIZE = 1
    Destinations = {6}
    MaxCode = 3
    MaxLabels = 2
    MaxPatches = 1
INVARIANTS
    HandlesHaveOneOwner
    NumbersNameTheirLabels
PROPERTY FailedCallsChangeNothing
