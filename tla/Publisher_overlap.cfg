SPECIFICATION FairSpec
CONSTANTS
    p1 = p1
    p2 = p2
    w1 = w1
    w2 = w2
    Publishers = {p1, p2}
    Externals <- MCExternals
    Quorum = 1
    Faulty = {w2}
    MaxSize = 2
    MaxFaults = 1
    NoSize = NoSize
INVARIANTS
    PublishedHasQuorum
PROPERTIES
    NoRegression
    EventuallyPublished
