SPECIFICATION Spec
CONSTANTS
    Cores = {c1, c2}
    Waiters = {w1, w2}
    Triggers = {t1}
    None = None
    MaxT = 2
INVARIANT NoThreadLost
CHECK_DEADLOCK FALSE
