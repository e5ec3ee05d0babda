SPECIFICATION Spec
CONSTANT
  Keys <- MCKeys
  ByteBits = 2
INVARIANT Lockstep
INVARIANT Aligned
INVARIANT NoPanic
INVARIANT ChallengeBinds
INVARIANT EverythingBound
INVARIANT RoundTrip
