SPECIFICATION Spec
CONSTANTS
    Cores = {c1, c2}
    Waiters = {w1, w2}
    Triggers = {t1, t2}
    None = None
    MaxT = 1
INVARIANTS LockExcludes KeptUnlessStale MovedOnce
PROPERTY PhaseEnds
CHECK_DEADLOCK FALSE
