CONSTANTS
  a = a
  Byte = {a}
  Pad = a
  NoPoint = NoPoint
  Holder = {}
  View = {}
  Payload <- MCPayload
  Rectangle <- MCRectangle
  InitText <- MCInitText
  WantsFinalNewline = TRUE
  MergeLimit = 1
  MaxRows = 3
  MaxCols = 2
  MaxRecords = 2
  MaxSkip = 0
SPECIFICATION HSpec
INVARIANTS PairsWhole RunsClosed RecordsFitText FinalNewline CleanMatchesDisk
PROPERTY ImplementsHistory
