SPECIFICATION Spec
CONSTANTS
    ByteBits = 2
    KeyBytes = 3
    Keys <- MCKeys
    Values = {1, 2}
INVARIANTS
    RootIsOfMap
    LookupProves
