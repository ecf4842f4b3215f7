SPECIFICATION FairSpec
CONSTANTS
    p1 = p1
    p2 = p2
    r1 = r1
    r2 = r2
    r3 = r3
    a = a
    b = b
    Procs = {p1, p2}
    Requests = {r1, r2, r3}
    Entries = {a, b}
    EntryOf <- MCEntryOf
    Modes = {"rekor", "tessera"}
    BatchMaxSize = 2
    ChannelSize = 2
    MaxIndex = 2
    MaxFaults = 1
    NoProc = NoProc
    NoMode = NoMode
INVARIANTS
    RowsGapless
    AnswerIsDurable
    RekorUnique
    NoDoubleSequencing
PROPERTIES
    EventuallyAnswered
