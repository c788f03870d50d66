SPECIFICATION Spec
CONSTANTS
    Header <- TwoBranches
    Prev <- PrevOf
    Height <- HeightOf
    Checkpoint = "k1"
    Genesis = "k0"
    Trunk <- TrunkOf
    Insufficient = {"w3"}
    Chunks <- HonestChunks
    Chain = {1, 2}
    NULL_HEADER = NULL_HEADER
    NoHeader = NoHeader
    Broken = Broken
    NoSwap = NoSwap
    MaxForks = 1
    MaxCrashes = 2
INVARIANTS
    TypeOK
    RootIsLongest
PROPERTIES
    ChainsAreLinked
