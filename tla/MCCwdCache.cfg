SPECIFICATION FairSpec
CONSTANTS
    g1 = g1
    g2 = g2
    g3 = g3
    k1 = k1
    None = None
    Keys = {k1}
    Getters = {g1, g2}
    TTL = 2
    ForceMinInterval = 1
    MaxClock = 3
INVARIANTS
    HitIsFresh
PROPERTIES
    EntriesNeverGoBack
    Answered
