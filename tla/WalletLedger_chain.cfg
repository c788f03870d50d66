SPECIFICATION Spec
CONSTANTS
    A = A
    B = B
    f = f
    s = s
    r = r
    d = d
    c1 = c1
    c2 = c2
    c3 = c3
    c4 = c4
    Other = Other
    NoTx = NoTx
    NoHeight = NoHeight
    NoEntry = NoEntry
    Addr = {A, B}
    InitMine = {A}
    Height = {0, 1}
    SyncReads = TRUE
    Tx <- ChainTx
    Coin <- ChainCoin
    Fund <- ChainFund
    Owner <- ChainOwner
    Spends <- ChainSpends
    Opaque = {c2}
    Token = {c3}
INVARIANTS LedgerInv UtxoIsExact SpentIsReceived CacheCoherent
