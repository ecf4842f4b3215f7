SPECIFICATION Spec
CONSTANTS
    k1 = k1
    k2 = k2
    Keys = {k1, k2}
    KeysAt <- MCKeysAt
    LookupKeys = {k1}
    BatchSize = 2
    SnapshotInterval = 0
    MaxKeys = 2
    MaxIndicesPerKey = 2
    MaxKeysPerEntry = 2
    MaxSize = 4
    MaxCrashes = 0
    MaxErrors = 0
    MaxOthers = 0
    NoSnapshot = NoSnapshot
    Torn = Torn
INVARIANT ResponseVerifies
