\* The Legacy runtime, with ports and files that are taken or cannot be written.
CONSTANTS
  s1 = s1
  s2 = s2
  s3 = s3
  s4 = s4
  v1 = v1
  v2 = v2
  v3 = v3
  d1 = d1
  d2 = d2
  Starters = {s1, s2}
  Servers = {v1, v2, v3}
  ByHand = {v3}
  Legacy = TRUE
  Faults = {"other", "disk", "unwritable"}
  Ports = {11, 12}
  Documents = {d1, d2}
  MaxToken = 6
  None = None
  Blank = Blank
  Other = Other
SPECIFICATION FairSpec
INVARIANTS TokenHeals SettingsFollow
PROPERTIES AskersGetBridge
CHECK_DEADLOCK FALSE
