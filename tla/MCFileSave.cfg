SPECIFICATION Spec
CONSTANTS
  empty = empty
  t1 = t1
  t2 = t2
  Torn = Torn
  None = None
  Text <- MCText
  Size <- MCSize
  MaxClock = 1
  MaxKept = 1
SYMMETRY MCSymmetry
INVARIANTS Recoverable ChangeReported CleanMatchesFile
