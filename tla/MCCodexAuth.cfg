CONSTANTS
  m1 = m1
  m2 = m2
  t1 = t1
  t2 = t2
  t3 = t3
  Managers = {m1, m2}
  Turns = {t1, t2, t3}
  Home <- MCHome
  None = None
  Faults = {"cancel", "crash", "network", "disk", "logout"}
  Opaque = {2}
  MaxToken = 3
SPECIFICATION Spec
INVARIANTS TypeOK LockInv LoginLive
PROPERTIES OnlyWornTokensRotate
CHECK_DEADLOCK FALSE
