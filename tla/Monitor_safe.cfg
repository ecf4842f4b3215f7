SPECIFICATION Spec
CONSTANTS
    p1 = p1
    p2 = p2
    l1 = l1
    l2 = l2
    a = a
    b = b
    again = again
    swapped = swapped
    broken = broken
    Procs = {p1, p2}
    Logs = {l1, l2}
    Entries = {a, b, again, swapped, broken}
    Malformed = {broken}
    Sha256 <- MCSha256
    Filename <- MCFilename
    Signed <- MCSigned
    MaxRequests = 3
    MaxFaults = 1
    NoProc = NoProc
    NoState = NoState
    NoValue = NoValue
INVARIANTS
    ContentExact
    CosignedIsValid
    RefusedIsInvalid
    MonitorNoSplitView
