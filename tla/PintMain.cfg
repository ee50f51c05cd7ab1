SPECIFICATION Spec
CONSTANTS
    n1 = n1
    l1 = l1
    s1 = s1
    s2 = s2
    Procs = {p1, p2}
    Statics = {s1, s2}
    Always = {s2}
    Lpms = {l1}
    Nbs = {n1}
    Strobes = {m1}
    SList <- MCSList
    PList <- MCPList
    LList <- MCLList
    Delays = {0, 1, 2}
    None = None
    MaxT = 2
    Fuel = 4
INVARIANTS OnePlace BitMeansQueued
PROPERTIES NeverDropped OnTime StopsWhenIdle Stratified Terminates
CHECK_DEADLOCK FALSE
