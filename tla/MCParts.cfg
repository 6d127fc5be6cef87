\* The parts that share nothing; Init chooses the one that moves.
SPECIFICATION Spec
CONSTANTS
  Coders = {"c1", "c2", "c3"}
  Natives = {}
  Routes = {"r1", "r2"}
  Files = {"f1"}
  RouteOf <- PartRouteOf
  FileOf <- PartFileOf
  Keys = 1
  Cap = 2
  Limit = 1
  Grace = 1
  MaxTime = 3
  MaxStops = 1
  Turns <- PartTurns
  Equipped = {"p", "q"}
  Faults = {"cancel", "kill", "lock", "switch", "signout", "retry"}
  MaxTokens = 2
  MaxAccounts = 2
  MaxRetries = 1
  SwitchRetries = 1
  Requests <- PartRequests
  ViasOf <- PartRoutes
  MaxTears = 1
  Hubs = {1, 2, 3}
  Sessions = {"s", "t"}
  Tmux = {"t"}
  HubFaults = {"unwritable", "unreadable", "garbled", "stuck", "detach", "silent"}
  Letters = {"a", "b"}
  Families <- PartFamilies
  MinSecret = 2
  MaxOutput = 6
  MaxChunk = 3
  MaxWritten = 4
  MaxOdd = 1
INVARIANTS
  TypeOK
  SharedLogin
  OneAgy
  ProjectIsOwn
  LedgerTrue
  FilesFollowSessions
  ScrubUnseen
  ChunkingUnseen
  CountedOnce
PROPERTIES IdleStops
CHECK_DEADLOCK FALSE
