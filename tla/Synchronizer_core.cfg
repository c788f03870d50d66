SPECIFICATION FairSpec
CONSTANTS
    A = A
    B = B
    C = C
    D = D
    f = f
    s = s
    r = r
    Addr = {A, B, C, D}
    ChangeAddr = {A, B, D}
    Derivation <- MoveOrder
    InitDerived = 2
    Tx = {f, s}
    Pays <- MovePays
    Takes <- MoveTakes
    SavedHistory <- NoHistory
    SavedTxs = {}
    SavedRetired = {D}
    Limit = 1
    InitChain = {f}
    Reorgs = TRUE
    Errors = {"tx"}
    MaxChanges = 1
    MaxErrors = 1
    MaxLosses = 1
    NotRequested = NotRequested
INVARIANTS TypeOK NothingForgotten
PROPERTIES SettledMeansSubscribed ReleasedIsInert Settles
CHECK_DEADLOCK FALSE
