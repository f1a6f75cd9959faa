SPECIFICATION Spec
CONSTANTS
  Program <- MCProgram
  Capacity = 1
  InputLen = 2
  Naps = 1
INVARIANTS TypeOK NothingLost RepairedInTime ResizeSeen
PROPERTIES ShellCompletes CancelWorks
