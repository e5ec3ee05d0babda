CONSTANTS
  s1 = s1  s2 = s2  h1 = h1  h2 = h2  h3 = h3  h4 = h4  k1 = k1  k2 = k2
  InitStream = InitStream
  Stream = {s1, s2}
  Kernel = {k1, k2}
  Handle = {h1, h2, h3}
  VaSize = 4
  VaBase <- Apart
  InitialPages = 0
  Request <- SmallRequests
  MaxEvents = 4
  Faults <- NoFaults
SPECIFICATION FairSpec
INVARIANTS RegionsDisjoint HarvestSuffices RegionFound NothingLeaks
PROPERTIES MinUse AddressesKept ImplementsAllocator CallReturns
