SPECIFICATION MCSpec
CONSTANTS
  W = 5
  Before = 4
  InFile = {in, no}
  OutFile = {out}
  Denied = {no}
  Contents <- MCContents
  RegBytes = 2
  BufBytes = 4
  TotalOpens = 6
  MaxLen = 1
INVARIANTS RoundTrip InputKept ReadsWhole
PROPERTY ReaderEnds
CHECK_DEADLOCK FALSE
