SPECIFICATION FairSpec
CONSTANTS
    s1 = s1
    s2 = s2
    p1 = p1
    p2 = p2
    nop = nop
    b1 = b1
    NoSession = NoSession
    NoPage = NoPage
    UsizeMax = 7
    PageSize = 4
    NEAR_JUMP_SIZE = 2
    Sessions = {s1, s2}
    CodePages = {p1}
    Data = {nop, b1}
    Nop = nop
    InitialCode <- MCInitialCode
    InitialProtection <- MCInitialProtection
    Payloads <- OnePayload
    Sites = {3, 5}
    DetourSizes = {3}
    HostCells = {5}
    HostRaces = TRUE
    MaxPatches = 2
INVARIANT IInv
PROPERTIES
    InstallsAtomically
    InstallReturns
