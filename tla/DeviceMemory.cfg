CONSTANTS
  t1 = t1  t2 = t2  s1 = s1  s2 = s2  k1 = k1  k2 = k2
  g1 = g1  g2 = g2  g3 = g3  p1 = p1  p2 = p2
  b1 = b1  b2 = b2  None = None
  Thread = {t1, t2}
  Stream = {s1, s2}
  Kernel = {k1, k2}
  Page = {g1, g2, g3}
  PoolPage = {g2, g3}
  Pointer = {p1, p2}
  Buffer = {b1, b2}
  page_size = 2
  Size <- Pages
  Length <- Lengths
SPECIFICATION MemorySpec
SYMMETRY Symmetry
CHECK_DEADLOCK FALSE
INVARIANT Ordered
INVARIANT BuffersOwn
INVARIANT StreamLifetime
INVARIANT Accounted
INVARIANT FaultsContained
