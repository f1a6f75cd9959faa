CONSTANTS
  a = a
  b = b
  Byte = {a, b}
  NL = NL
  Holder = {mark}
  NoPoint = NoPoint
  Payload <- MCPayload
  MaxRows = 3
  MaxCols = 2
SPECIFICATION Spec
INVARIANTS TypeOK HeldInText OffsetsInverse EditsInvert InsertionsJoin
PROPERTY ImplementsFlatText
