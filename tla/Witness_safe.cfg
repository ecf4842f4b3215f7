SPECIFICATION WitnessSpec
CONSTANTS
    l1 = l1
    l2 = l2
    a = a
    b = b
    h1 = h1
    h2 = h2
    BadEmpty = BadEmpty
    Logs = {l1, l2}
    Heads <- MCHeads
    SizeOf <- MCSizeOf
    EmptyHead <- MCEmptyHead
    Extends <- MCExtends
    Signed <- MCSigned
    Requests <- MCRequests
    Handlers = {h1, h2}
    MaxRequests = 3
    NoState = NoState
INVARIANTS
    WitnessTypeOK
    NoSplitView
    CosignedIsPersisted
PROPERTY StateOnlyExtends
