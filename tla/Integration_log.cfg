SPECIFICATION FairSpec
CONSTANTS
    w1 = w1
    w2 = w2
    a = a
    b = b
    c = c
    d = d
    Workers = {w1, w2}
    Entries = {a, b, c, d}
    EntryAt <- MCEntryAt
    W = 2
    BatchSize = 3
    MaxSize = 4
    MaxFaults = 1
    Zero = Zero
    NoRoot = NoRoot
INVARIANTS
    RootCommitsLog
    CommittedTreesServed
PROPERTIES
    ObjectsImmutable
    ImplementsLog
    EventuallyIntegrated
