CONSTANTS
  Word <- MCWord
  Add <- MCAdd
  Xor32 <- MCXor32
  ROTL7 <- MCROTL7
  ROTL11 <- MCROTL11
  zero = 0
  one = 1
  Rounds = 2
  Parameters <- MCParameters
  Blocks <- MCBlocks
  MaxBlocks = 2
  WordBits = 4
  Modulus = 16
  And <- And4
  Or <- Or4
  Xor <- Xor4
  Not <- Not4
  SHL <- SHL4
  SHR <- SHR4
  constant <- constant4
  Keys <- MCKeys
  Plaintexts <- MCPlaintexts
  Tweaks <- MCTweaks
  Orders <- Outward
  MaxReentries = 3
  Urls = {"a", "b", "c"}
  Hits = {1, 2, 3}
  MaxUpdates = 4
  Rows <- MovingList
  MaxViewers = 1
SPECIFICATION PartsSpec
CHECK_DEADLOCK FALSE
INVARIANTS
  InStep Ordered NothingLost AllHops ChainInv
  BodiesAgree Retraces HashesTheMessage AdlerExact CodecsExact WidthsAdd
PROPERTIES
  CallsReturn ExitsFromRest EachAnswered
