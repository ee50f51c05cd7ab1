SPECIFICATION Spec
CONSTANTS
    Cores = {c1, c2}
    Mcore = mcore
    p = p
    q = q
    x = x
    y = y
    z = z
    Lpms = {x, y, z}
    Procs = {p, q}
    Values = {0, 1}
    None = None
    Inputs <- MCInputs
    Fanout <- MCFanout
    Eval <- MCEval
    InitVal <- MCInitVal
    NeedsInit = {x, y}
    QLen = 5
    MaxT = 1
INVARIANTS TypeOK NoFault NoDoubleDispatch NoSlotClobber FlagMeansPending Settled
PROPERTY Quiesces
CHECK_DEADLOCK FALSE
