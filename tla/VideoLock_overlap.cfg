SPECIFICATION Spec
CONSTANTS
  Requests = {r1, r2, r3}
  Impatient = {r1, r2, r3}
INVARIANT
  OneProcessor
CHECK_DEADLOCK FALSE
