CONSTANTS
  HeaderLen = 2
  MaxParts = 6
  None = None
  MaxLen = 36
  MaxPiece = 40
  MaxOurs = 3
  MaxTheirs = 2
  MaxDepth = 3
  MaxLeaves = 5
  MaxHeight = 40
  HalvingInterval = 5
  BaseReward = 50
  MaxHalvings = 4
  DogeInterval = 3
  DogeReward = 100
  DogeTail = 1
  BlocksPerYear = 9
  DashReward = 500
  Decimals = 2
  Bits = 14
  ByteValues = 8
  VarintBits = 5
SPECIFICATION Spec
INVARIANTS CutsFit MapsKept Decodes TreeFolds SupplyAddsUp AmountsExact TextKept CodesExact
CHECK_DEADLOCK FALSE
