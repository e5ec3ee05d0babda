CONSTANTS
  WIDTH = 3
  RATE = 2
  Zero = Zero
  Permute <- Term
  NumObs = 2
  NumSamples = 2
  Value = {Zero, One}
  Digest = {d1, d2}
  MaxCalls = 6
SPECIFICATION Spec
INVARIANTS SameChallenges DeviceAgrees Binding
PROPERTY Fresh
CHECK_DEADLOCK FALSE
