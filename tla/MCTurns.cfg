\* One turn of any provider, told to every surface at once.
SPECIFICATION Spec
CONSTANTS
  Wires = {"codex", "gemini", "chat", "messages", "responses"}
  Items = {0, 1}
  MaxPieces = 2
  MaxPings = 1
  MaxParts = 4
  MaxSaid = 4
  Capacity = 2
INVARIANTS TypeOK WellFormed ClientsSeeAll GatheredAgrees SignaturesReturn
CHECK_DEADLOCK FALSE
