SPECIFICATION Spec
CONSTANTS
    s1 = s1
    s2 = s2
    p1 = p1
    p2 = p2
    nop = nop
    b1 = b1
    NoSession = NoSession
    NoPage = NoPage
    UsizeMax = 7
    PageSize = 4
    NEAR_JUMP_SIZE = 2
    Sessions1 = {s1}
    Sessions2 = {s2}
    Sites1 = {1, 3}
    Sites2 = {4, 5}
    CodePages = {p1, p2}
    Data = {nop, b1}
    Nop = nop
    InitialCode <- MCInitialCode
    InitialProtection <- MCInitialProtection
    Payloads <- MCPayloads
    DetourSizes = {2}
    MaxPatches = 1
SYMMETRY Symmetry
INVARIANTS
    JumpsStayAlive
    UnsharedPagesAreWritable
    UnsharedPagesAreRestored
    UnsharedCodeStaysIntact
