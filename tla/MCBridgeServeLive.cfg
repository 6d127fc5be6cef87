SPECIFICATION ServeFairSpec
CONSTANTS
  c1 = c1  c2 = c2  c3 = c3  n1 = n1  n2 = n2  r1 = r1  r2 = r2  f1 = f1
  Coders = {}
  Natives = {n1, n2}
  Routes = {r1, r2}
  Files = {f1}
  RouteOf <- MCRouteOf
  FileOf <- MCFileOf
  Keys = 3
  Cap = 2
  Limit = 1
  Grace = 1
  MaxTime = 1
  MaxStops = 1
INVARIANTS EarlierKeysWork
PROPERTIES TurnsAnswered
ACTION_CONSTRAINT ClockRunsInGrace
CHECK_DEADLOCK FALSE
