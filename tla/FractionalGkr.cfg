CONSTANTS
  Inputs <- SmallInputs
  SmallTree = 32
  TargetBlocks = 4
  MinTile = 1
  MaxTile = 4
  BlockSize = 4
  MinBlockSize = 1
  WarpSize = 1
  GridTarget = 8
SPECIFICATION Spec
INVARIANT LaunchesSafe
INVARIANT SumsTheLayer
INVARIANT ClaimsHold
INVARIANT TreeKept
CHECK_DEADLOCK FALSE
