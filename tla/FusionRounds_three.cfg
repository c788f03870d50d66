SPECIFICATION FairSpec
CONSTANTS
    p1 = p1
    p2 = p2
    p3 = p3
    Player = {p1, p2, p3}
    MinSafe = 2
    MaxFaults = 2
    MaxRound = 4
INVARIANTS TypeOK SignedByAll HashAgrees
PROPERTIES Ends
CHECK_DEADLOCK FALSE
