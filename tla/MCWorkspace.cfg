SPECIFICATION Spec
CONSTANTS
  a1 = a1
  a2 = a2
  a3 = a3
  Minibuf = Minibuf
  Nil = Nil
  f = f
  NoName = NoName
  Scratch = Scratch
  Completions = Completions
  Preview = Preview
  Palette = Palette
  Output = Output
  Shell = Shell
  Address = {a1, a2, a3}
  File = {f}
  MaxWindows = 2
  JumpLimit = 1
SYMMETRY Symmetry
INVARIANTS TypeOK ReferencesLive ScreenRestored
PROPERTY NoEditsDropped
