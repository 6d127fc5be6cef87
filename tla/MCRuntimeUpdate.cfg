SPECIFICATION FairSpec
CONSTANTS
  a = a  b = b  c = c  d = d
  None = None
  Builds = {a, b, c, d}
  Dispatching = {b, c, d}
  Payloads = {b, c, d}
  Rollbacks = TRUE
  Stuck = TRUE
  MaxCrashes = 2
  Version <- MCVersion
  ShortId <- MCShortId
INVARIANTS TypeOK NeverWedged WayBack
PROPERTIES EveryUpdateLands ReplacedKept Implements
CHECK_DEADLOCK FALSE
