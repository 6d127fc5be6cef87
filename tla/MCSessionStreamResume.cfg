CONSTANTS
  b1 = b1
  b2 = b2
  t1 = t1
  Browsers = {b1}
  Terminals = {}
  Depth = 1
  Capacity = 2
  Chunk = 1
  MaxBytes = 3
  Complete <- TwoByteCharacter
  Lossy = TRUE
  Masked = FALSE
  Watched = FALSE
  None = None
SPECIFICATION Spec
INVARIANTS ResumeRestores
CHECK_DEADLOCK FALSE
