SPECIFICATION FairSpec
CONSTANTS
    k1 = k1
    k2 = k2
    Keys = {k1, k2}
    KeysAt <- MCKeysAt
    LookupKeys = {k1}
    BatchSize = 3
    SnapshotInterval = 2
    MaxKeys = 2
    MaxIndicesPerKey = 2
    MaxKeysPerEntry = 2
    MaxSize = 4
    MaxCrashes = 2
    MaxErrors = 3
    MaxOthers = 1
    NoSnapshot = NoSnapshot
    Torn = Torn
INVARIANTS
    IndexExact
    IntegratedIsIndexed
    DiskCovers
    LookupExact
PROPERTY EventuallyIndexed
