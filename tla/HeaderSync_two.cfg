SPECIFICATION FairSyncSpec
CONSTANTS
    s1 = s1
    s2 = s2
    Server = {s1, s2}
    FirstTip <- StrayTips
    Reorgs = {s2}
    ChunkSize = 2
    NoChain = NoChain
    Nobody = Nobody
    Header <- Forks
    Prev <- PrevOf
    Height <- HeightOf
    Checkpoint = "k1"
    Genesis = "k0"
    Trunk <- TrunkOf
    Insufficient = {}
    Chunks <- AllChunks
    Chain = {1, 2}
    NULL_HEADER = NULL_HEADER
    NoHeader = NoHeader
    Broken = Broken
    NoSwap = NoSwap
    MaxForks = 1
    MaxCrashes = 0
INVARIANTS
    SyncTypeOK BracketHeld
    CatchUpHeld
PROPERTIES
    StoreSteps SearchEnds
