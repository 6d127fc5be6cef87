\* Viewers beside the pump: full queues, drops and a character read in two.
CONSTANTS
  b1 = b1
  b2 = b2
  t1 = t1
  Browsers = {b1}
  Terminals = {t1}
  Depth = 1
  Capacity = 1
  Chunk = 2
  MaxBytes = 3
  Complete <- TwoByteCharacter
  Lossy = TRUE
  Masked = FALSE
  Watched = FALSE
  None = None
SPECIFICATION Spec
INVARIANTS TypeOK CursorHonest BrowserRepaired TerminalsSeeTheEnd
CHECK_DEADLOCK FALSE
