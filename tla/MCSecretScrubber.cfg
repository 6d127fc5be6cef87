SPECIFICATION ScrubSpec
CONSTANTS
  Letters = {"a", "b", "-"}
  Families <- TwoCredentials
  MinSecret = 2
  MaxChunk = 3
  MaxOutput = 6
INVARIANT ScrubUnseenNested
CHECK_DEADLOCK FALSE
