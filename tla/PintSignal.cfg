SPECIFICATION Spec
CONSTANTS
  p1 = p1
  p2 = p2
  Proc = {p1, p2}
  Word = {0, 1}
  MaxNum = 2
  Designs <- MCDesigns
INVARIANTS Receives RunsSensitive
