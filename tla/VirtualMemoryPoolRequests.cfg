CONSTANTS
  s1 = s1  s2 = s2  h1 = h1  h2 = h2  h3 = h3  h4 = h4  k1 = k1  k2 = k2
  InitStream = InitStream
  Stream = {s1, s2}
  Kernel = {k1, k2}
  Handle = {h1, h2, h3}
  VaSize = 3
  VaBase <- Adjacent
  InitialPages = 1
  Request <- AllRequests
  MaxEvents = 4
  Faults <- AllFaults
SPECIFICATION Spec
SYMMETRY Symmetry
INVARIANTS PagesBacked NoFault NoRace
