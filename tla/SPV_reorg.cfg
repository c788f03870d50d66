SPECIFICATION FairSpec
CONSTANTS
    t1 = t1
    t2 = t2
    t3 = t3
    R = R
    X = X
    Y = Y
    NoChain = NoChain
    NoTx = NoTx
    Error = Error
    Tx = {t1, t2}
    Chain <- Fork
    Base <- BaseOf
    Parent <- ParentOf
    Blocks <- BlocksOf
    Includes <- IncludesOf
    Time <- TimeOf
    FirstChain = R
    MaxQlen = 1
    MaxSwitches = 2
    MaxRestarts = 1
INVARIANTS
    TypeOK
    VerifiedIsIncluded
    ProvedIsVerified
PROPERTIES
    SwitchUndoes
    Verifies
