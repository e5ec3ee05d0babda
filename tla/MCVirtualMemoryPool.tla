------------------------ MODULE MCVirtualMemoryPool ------------------------
(* Small instances of VirtualMemoryPool for TLC.                            *)
EXTENDS VirtualMemoryPool, TLC

CONSTANTS s1, s2, h1, h2, h3, h4, k1, k2

(* Two chunks that touch, two chunks far apart.                  *)
Adjacent == {0, VaSize}
Apart == {0, VaSize + 2}

(* Requests of every size up to a chunk, and one that no chunk can hold.    *)
SmallRequests == 1 .. 2
AllRequests == 1 .. (VaSize + 1)

NoFaults == {}
OnlyMap == {"map"}
AllFaults == {"oom", "create", "map", "access", "wait", "unmap"}

(* Streams and kernels are interchangeable; handles are not, as TLC chooses *)
(* among them.                                                              *)
Symmetry == Permutations({s1, s2}) \cup Permutations({k1, k2})
=============================================================================
