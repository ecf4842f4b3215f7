SPECIFICATION FairSpec
CONSTANTS
    i1 = i1
    i2 = i2
    a = a
    b = b
    c = c
    d = d
    Importers = {i1, i2}
    Files <- MCFiles
    BadLine = BadLine
    ServerEntry = s
    ChunkSizes = {2}
    W = 2
    MaxSize = 4
    MaxChanges = 1
    MaxFaults = 1
    MaxRequests = 1
    Zero = Zero
    NoRoot = NoRoot
    NoMode = NoMode
    NoSize = NoSize
    NoOne = NoOne
\* A log whose import and server are done comes to rest.
CHECK_DEADLOCK FALSE
INVARIANTS
    CommittedTreesServed
    ImportedIsPreflighted
PROPERTIES
    LogOnlyGrows
    EventuallyImported
