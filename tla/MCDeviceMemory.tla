--------------------------- MODULE MCDeviceMemory ---------------------------
(* A small instance of DeviceMemory for TLC.                                *)
EXTENDS DeviceMemory, TLC

CONSTANTS t1, t2, s1, s2, k1, k2, g1, g2, g3, p1, p2, b1, b2

Pages == 1 .. 2

(* Nothing, a small request, and one that the pool rounds up to two pages.  *)
Lengths == {0, 1, 3}

Symmetry ==
  Permutations({t1, t2}) \cup Permutations({s1, s2}) \cup Permutations({k1, k2})
    \cup Permutations({g2, g3}) \cup Permutations({p1, p2})
    \cup Permutations({b1, b2})
=============================================================================
