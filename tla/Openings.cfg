CONSTANTS
  P = 97
  Generator = 5
  TwoAdicity = 5
  PackWidth = 4
  LogWarp = 1
  TileLog = 2
  NThreads = 4
  Limbs = 2
  BlockDim = 2
  TaskSize = 4
  MonomialRows = 1
  ChunkSize = 4
  TargetBlocks = 6
  Unlimited = 1000
  Setups <- SmallSetups
  Challenges <- MCChallenges
SPECIFICATION Spec
INVARIANT ProversAgree
INVARIANT OnlyHonestAccepted
INVARIANT SharedMemorySafe
CHECK_DEADLOCK FALSE
