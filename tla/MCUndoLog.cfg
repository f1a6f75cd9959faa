CONSTANTS
  a = a
  Byte = {a}
  Pad = a
  NoPoint = NoPoint
  Holder = {mark, ring}
  View = {w}
  Payload <- MCPayload
  Rectangle <- MCRectangle
  InitText <- MCInitText
  WantsFinalNewline = TRUE
  MergeLimit = 1
  MaxRows = 3
  MaxCols = 1
  MaxRecords = 2
  MaxSkip = 1
SPECIFICATION Spec
INVARIANTS TypeOK HeldInText
PROPERTY HeldInOrder
SYMMETRY Symmetry
VIEW Places
