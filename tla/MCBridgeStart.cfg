\* A runtime of a Generation, with kills, stops, slow starts and foreign listeners.
CONSTANTS
  s1 = s1
  s2 = s2
  s3 = s3
  s4 = s4
  v1 = v1
  v2 = v2
  v3 = v3
  d1 = d1
  d2 = d2
  Starters = {s1, s2, s3}
  Servers = {v1, v2}
  ByHand = {v2}
  Legacy = FALSE
  Faults = {"crash", "slow", "stop", "other", "blank", "spawn"}
  Ports = {11}
  Documents = {d1}
  MaxToken = 2
  None = None
  Blank = Blank
  Other = Other
SPECIFICATION Spec
INVARIANTS TypeOK StarterHoldsLock ServedWhereRemembered
CHECK_DEADLOCK FALSE
SYMMETRY Symmetry
