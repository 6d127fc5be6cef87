CONSTANTS
  b1 = b1
  b2 = b2
  t1 = t1
  Browsers = {b1}
  Terminals = {}
  Depth = 1
  Capacity = 2
  Chunk = 2
  MaxBytes = 3
  Complete <- TwoByteCharacter
  Lossy = FALSE
  Masked = TRUE
  Watched = TRUE
  None = None
SPECIFICATION PumpFair
PROPERTIES AgentNeverWaits BrowsersCatchUp
CHECK_DEADLOCK FALSE
