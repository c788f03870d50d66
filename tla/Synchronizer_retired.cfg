SPECIFICATION Spec
CONSTANTS
    A = A
    B = B
    C = C
    D = D
    f = f
    s = s
    r = r
    Addr = {A, B, C}
    ChangeAddr = {B, C}
    Derivation <- TwiceOrder
    InitDerived = 3
    Tx = {f, s}
    Pays <- TwicePays
    Takes <- TwiceTakes
    SavedHistory <- NoHistory
    SavedTxs = {}
    SavedRetired = {}
    Limit = 1
    InitChain = {f, s}
    Reorgs = FALSE
    Errors = {}
    MaxChanges = 2
    MaxErrors = 0
    MaxLosses = 0
    NotRequested = NotRequested
INVARIANTS RetiredIsSpent
CHECK_DEADLOCK FALSE
