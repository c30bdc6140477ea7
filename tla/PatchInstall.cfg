SPECIFICATION Spec
CONSTANTS
    s1 = s1
    s2 = s2
    p1 = p1
    p2 = p2
    nop = nop
    b1 = b1
    NoSession = NoSession
    NoPage = NoPage
    UsizeMax = 7
    PageSize = 4
    NEAR_JUMP_SIZE = 2
    Sessions = {s1, s2}
    CodePages = {p1, p2}
    Data = {nop, b1}
    Nop = nop
    InitialCode <- MCInitialCode
    InitialProtection <- MCInitialProtection
    Payloads <- MCPayloads
    Sites = {2, 3}
    DetourSizes = {2}
    HostCells = {3}
    HostRaces = FALSE
    MaxPatches = 2
SYMMETRY Symmetry
INVARIANTS
    TypeOK
    NoDanglingJump
    InstalledIntact
    CopiesIntoWritablePages
    LeftWritableIsReported
    ResultTellsTheTruth
    PagesAreReleased
    OverwritesOnlyExpected
PROPERTY ChangesOnlyRegisteredCode
