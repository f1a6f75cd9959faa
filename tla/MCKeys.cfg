SPECIFICATION Spec
CONSTANTS
  Keystroke = {"(", ")", "e", "x", "r", "C-x", "C-q", "C-s", "C-g", "Ret", "Home", "Zap", "Uni", "AltUni"}
  MaxKeys = 5
  MaxReps = 2
CONSTRAINT Small
INVARIANTS TypeOK KeystrokeWhole ReplayFaithful
PROPERTIES PlaybackUndisturbed PlaybackEnds
