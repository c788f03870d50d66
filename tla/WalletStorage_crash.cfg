SPECIFICATION Spec
CONSTANTS
    gui = gui
    network = network
    cleaner = cleaner
    k1 = k1
    Thread = {gui, network}
    Daemon = {}
    Pubkey = {k1}
    NoKey = NoKey
    NoFile = NoFile
    Broken = Broken
    Nobody = Nobody
    MaxVersion = 2
    MaxContacts = 1
    MaxFailures = 2
INVARIANTS
    TypeOK
    NothingUnsaved
    HistoryIsBacked
PROPERTIES
    SavesAtomically
SYMMETRY Writers
