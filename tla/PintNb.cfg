SPECIFICATION Spec
CONSTANTS
  c1 = c1
  c2 = c2
  a1 = a1
  a2 = a2
  Core = {c1, c2}
  Array = {a1, a2}
  Size <- MixedSize
  UPDT_MAX = 2
  Writes <- SharedArray
  MaxSteps = 2
INVARIANTS ChangeNoted Updated
CHECK_DEADLOCK FALSE
