SPECIFICATION Spec
CONSTANTS
    a = a
    b = b
    c3 = c3
    d = d
    PINT_CORE_NUM = 2
    STATIC_SWITCH_MODE_SIZE = 3
    PINT_NCORE_LIST_SIZE = 2
    Threads = {a, b, c3, d}
    Always = {b}
    Lists <- MixedLists
    Wakes <- MCWakes
    PList <- MCPList
    None = None
    Cap = 3
    MaxPass = 2
    MaxEdges = 1
    MaxItems = 9
INVARIANTS EachItemOnce PickedRuns NoWildRead
PROPERTY PassEnds
CHECK_DEADLOCK FALSE
