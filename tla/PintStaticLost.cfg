SPECIFICATION Spec
CONSTANTS
    a = a
    b = b
    c3 = c3
    d = d
    PINT_CORE_NUM = 2
    STATIC_SWITCH_MODE_SIZE = 99
    PINT_NCORE_LIST_SIZE = 2
    Threads = {a, b, c3, d}
    Always = {b}
    Lists <- ShortLists
    Wakes <- MCWakes
    PList <- MCPList
    None = None
    Cap = 4
    MaxPass = 2
    MaxEdges = 1
    MaxItems = 7
INVARIANT NoEntryLost
CHECK_DEADLOCK FALSE
