SPECIFICATION Spec
CONSTANTS
  Workers = {w1, w2}
  NoFile = NoFile
  Attempts = 3
  SerialStarts = FALSE
INVARIANTS
  OneHolder
CHECK_DEADLOCK FALSE
