SPECIFICATION LockSpec
CONSTANTS
  e1 = e1
  e2 = e2
  b1 = b1
  b2 = b2
  c1 = c1
  Unknown = Unknown
  Nil = Nil
  Proc = {e1, e2}
  Buffer = {b1, b2, c1}
  Writer = {e1, e2}
  Owner <- MCOwner
  Faulty = {e1}
INVARIANTS LocksAreHeld EditsAnnounced ReadOnlyKept
PROPERTY WarningsClear
