--------------------------- MODULE MCFractionalGkr ---------------------------
(* Small inputs, builds and environments for FractionalGkr.                 *)
EXTENDS FractionalGkr

Input(sz, w, precompute, min_n, min_blocks) ==
  [real |-> sz[1], leaves |-> sz[2], window |-> w, default_min_n |-> 2 * w,
   precompute |-> precompute, min_n |-> min_n, min_blocks |-> min_blocks]

(* Every padding of the small trees, a few of the large ones.               *)
Sizes ==
  {sz \in (1 .. 32) \X {2, 4, 8, 16, 32} : sz[2] <= 2 * sz[1] /\ sz[1] <= sz[2]}
    \cup ({32, 33, 43, 58, 63, 64} \X {64}) \cup ({65, 96, 127, 128} \X {128})
(* Without windows the compact fold in place races except on these.         *)
FoldSizes ==
  {sz \in Sizes : sz[2] <= 8 \/ sz[1] = sz[2]}
    \cup ({8, 9, 11, 12, 13, 15} \X {16}) \cup {<<29, 32>>, <<31, 32>>, <<61, 64>>}

(* Windows of one challenge, several in a round; windows of two and three;  *)
(* too few blocks for a window; no windows at all.                          *)
SmallInputs ==
  {Input(sz, 1, TRUE, 2, 1) : sz \in Sizes}
    \cup {Input(sz, 2, TRUE, n, 1) : sz \in {t \in Sizes : t[2] >= 64}, n \in {3, 4}}
    \cup {Input(sz, 3, TRUE, 4, 1) : sz \in {151, 256} \X {256}}
    \cup {Input(sz, 2, TRUE, 4, 64) : sz \in {t \in Sizes : t[2] <= 32}}
    \cup {Input(sz, 1, FALSE, 2, 1) : sz \in FoldSizes}

(* The smallest input whose compact fold in place races.                    *)
RacingInput == {Input(<<10, 16>>, 1, FALSE, 2, 1)}
=============================================================================
