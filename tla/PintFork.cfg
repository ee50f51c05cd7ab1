SPECIFICATION Spec
CONSTANTS
  Core = {c1, c2, c3}
  Child = {k1, k2, k3}
  Rounds = 3
INVARIANTS OneCopy FreshStart
PROPERTIES JoinAfterAll Joins
