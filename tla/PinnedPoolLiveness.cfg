CONSTANTS
  s1 = s1  s2 = s2  d1 = d1  d2 = d2
  Stream = {s1}
  DeviceOf <- TwoDevices
  Buffer = {b1, b2}
  Cleaner = {c1, c2}
  Closer = {t1}
  MinSize = {2}
  Cap = {2}
  DefaultCap = 2
  BatchSize = 2
  MaxQueue = 2
  Faults <- Failing
SPECIFICATION FairSpec
PROPERTIES Recycled ShutdownReturns
