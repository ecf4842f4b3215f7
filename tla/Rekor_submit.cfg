SPECIFICATION FairSpec
CONSTANTS
    s1 = s1
    s2 = s2
    c1 = c1
    c2 = c2
    k1 = k1
    k2 = k2
    Servers = {s1, s2}
    SignerOf <- MCSignerOf
    WitnessSigner <- MCWitnessSigner
    Origin = "origin"
    Clients = {c1, c2}
    Submissions <- MCSubmissions
    Content <- MCContent
    MaySubmit <- MCMaySubmit
    Encodings <- MCEncodings
    MaxEntrySize = 2
    MaxFaults = 1
    None = None
\* Once every client was answered, nothing more happens.
CHECK_DEADLOCK FALSE
INVARIANTS
    LoggedEntriesVerify
    CreatedIsProven
    OneIndexPerSubmission
PROPERTIES
    EventuallyIncluded
