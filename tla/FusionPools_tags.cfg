SPECIFICATION FairSpec
CONSTANTS
    c1 = c1
    c2 = c2
    c3 = c3
    c4 = c4
    c5 = c5
    x = x
    y = y
    Client = {c1, c2, c3, c4}
    Tier = {1, 2}
    TierSets <- FirstOrBoth
    Tag = {x, y}
    TagsOf <- Tags
    maxsimul <- Once
    tag_max = 2
    min_clients = 1
    max_clients = 2
    start_time_max = 2
    start_time_min = 0
    start_time_spacing = 1
    Nobody = Nobody
    NoTier = NoTier
INVARIANTS TypeOK TagsAreExact QueueIsBlocked FavouredIsFilled
PROPERTY FilledStarts
CHECK_DEADLOCK FALSE
