CONSTANTS
  m1 = m1
  m2 = m2
  t1 = t1
  t2 = t2
  t3 = t3
  Managers = {m1, m2}
  Turns = {t1, t2, t3}
  Home <- MCHome
  None = None
  Faults = {"cancel", "crash", "cli"}
  Opaque = {}
  MaxToken = 2
SPECIFICATION FairSpec
PROPERTIES TurnsEnd
CHECK_DEADLOCK FALSE
