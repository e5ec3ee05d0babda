CONSTANTS
  Inputs <- RacingInput
  SmallTree = 32
  TargetBlocks = 4
  MinTile = 1
  MaxTile = 4
  BlockSize = 4
  MinBlockSize = 1
  WarpSize = 1
  GridTarget = 8
SPECIFICATION Spec
INVARIANT NoRace
CHECK_DEADLOCK FALSE
