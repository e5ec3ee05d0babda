---------------------------- MODULE MCPinnedPool ----------------------------
(* A small instance of PinnedPool for TLC.                                  *)
EXTENDS PinnedPool, TLC

CONSTANTS s1, s2, d1, d2  \* streams and devices, by name

TwoDevices == [s \in Stream |-> IF s = s1 THEN d1 ELSE d2]

Sizes == {1, 2}
Caps == {1, 3}
Symmetric == Permutations(Cleaner) \cup Permutations(Buffer)
Failing == {"register", "synchronize"}
=============================================================================
