SPECIFICATION Spec
CONSTANTS
  a = a
  b = b
  r = r
  z = z
  NoKill = NoKill
  Edit = Edit
  Unset = Unset
  Plain = {a, b}
  Rectangle = {r, z}
  Empty = {z}
  Position = {1, 2}
  HistoryMax = 3
  MarkRingSize = 3
  MaxEdits = 2
INVARIANT CyclesThroughAll
PROPERTIES YankPopReplacesYank ImplementsMarkRotation
CONSTRAINT Small
