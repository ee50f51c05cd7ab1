SPECIFICATION Spec
CONSTANTS
  NCores = 2
  Stmt = {s1, s2}
  Value = {v1, v2}
  Cap = 3
  MaxExec = 4
  MaxCompactions = 2
INVARIANTS BlocksApart EachMovedOnce ValueKept
SYMMETRY Interchangeable
CHECK_DEADLOCK FALSE
