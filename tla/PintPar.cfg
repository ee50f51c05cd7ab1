\* Two workers, four processes: the map fills up to the limit of two.
CONSTANTS
  Worker = {w1, w2}
  PINT_PAR_ANLS_NUM = 2
  proc_num = 4
SPECIFICATION Spec
INVARIANTS InOrder OnePlace
PROPERTY Completes
