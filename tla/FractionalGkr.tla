---------------------------- MODULE FractionalGkr ----------------------------
(***************************************************************************)
(* fractional_sumcheck_gpu: the GKR prover of the GPU back end.  One step  *)
(* is one launch.  The tree is built in place over the leaves; each round  *)
(* reverts one layer and runs a sumcheck over it, either folding after     *)
(* each challenge or a window of them at a time, between two buffers.      *)
(***************************************************************************)
EXTENDS Integers, Sequences, FiniteSets

-----------------------------------------------------------------------------
(***************************************************************************)
(* The compact segment tree of the fractional sumcheck on the GPU and the  *)
(* kernels that read and write it, slot by slot.  A value is what it       *)
(* stands for: a fraction summed over len leaves, or a combination of such *)
(* sums with the weights of the challenges bound so far.  A leaf the input *)
(* does not have is padding; it has no slot and contributes no term.       *)
(***************************************************************************)

Pow2(k) == 2 ^ k
Log2(n) == CHOOSE k \in 0 .. 31 : Pow2(k) = n  \* sizes are powers of two in 32 bits
DivCeil(n, d) == (n + d - 1) \div d

(* d with its Log2(size) bits reversed.                                     *)
Rev(d, size) ==
  LET rev[k \in 0 .. Log2(size)] ==  \* the lowest k bits
        IF k = 0 THEN 0 ELSE 2 * rev[k - 1] + ((d \div Pow2(k - 1)) % 2)
  IN  rev[Log2(size)]

Garbage == [len |-> -1, real |-> {}]
(* The leaf s as uploaded, before alpha is added to its denominator.        *)
Raw(s, R) == [len |-> 0, real |-> IF s < R THEN {<<s, <<>>>>} ELSE {}]
(* The sum over the leaves s .. s + len - 1.                                *)
Node(s, len, R) == [len |-> len, real |-> IF s < R THEN {<<s, <<>>>>} ELSE {}]
virtual_padding_q(len) == [len |-> len, real |-> {}]

WithAlpha(v) == IF v.len = 0 THEN [v EXCEPT !.len = 1] ELSE Garbage

(* Natural position of a tree node, or that of any padding for padding.     *)
At(v, R) == IF v.real = {} THEN R ELSE (CHOOSE t \in v.real : TRUE)[1]
Bound(v) == \E t \in v.real : t[2] # <<>>

frac_add(a, b, R) ==
  LET s == At(a, R)
  IN  IF \/ a.len < 1 \/ b.len # a.len \/ Bound(a) \/ Bound(b)
         \/ a.real # {} /\ b # Node(s + a.len, a.len, R)
         \/ a.real = {} /\ b.real # {}
      THEN Garbage
      ELSE Node(s, 2 * a.len, R)

frac_unadd(a, b, R) ==
  LET s == At(a, R)
  IN  IF \/ b.len < 1 \/ a.len # 2 * b.len \/ Bound(a) \/ Bound(b)
         \/ a.real # {} /\ b # Node(s + b.len, b.len, R)
         \/ a.real = {} /\ b.real # {}
      THEN Garbage
      ELSE Node(s, b.len, R)

(* Bits of beta, the first challenge of the window on top.                  *)
Bits(beta, w) == [i \in 1 .. w |-> (beta \div Pow2(w - i)) % 2]

(* vals[beta] weighted with eq of beta and the w challenges.                *)
Fold(vals, w) ==
  LET len == vals[0].len
  IN  IF \E b \in DOMAIN vals : vals[b].len # len \/ len < 1 THEN Garbage
      ELSE [len |-> len,
            real |-> UNION {{<<t[1], t[2] \o Bits(b, w)>> : t \in vals[b].real} :
                              b \in DOMAIN vals}]

-----------------------------------------------------------------------------
(* Where the node d of the level with active nodes is kept.                 *)
Start(d, active, logical) == Rev(d, active) * (logical \div active)
Slots(d, active, real, logical) ==
  IF Start(d, active, logical) >= real THEN {}
  ELSE {IF d < real THEN d ELSE Start(d, active, logical)}

Load(m, b, slot) == IF slot \in DOMAIN m[b] THEN m[b][slot] ELSE Garbage

virtual_node_value(m, b, d, active, real, logical) ==
  IF Slots(d, active, real, logical) = {}
  THEN virtual_padding_q(logical \div active)
  ELSE Load(m, b, CHOOSE s \in Slots(d, active, real, logical) : TRUE)

Reads(b, D, active, real, logical) ==
  {<<b, s>> : s \in UNION {Slots(d, active, real, logical) : d \in D}}
virtual_node_store(b, d, active, real, logical, v) ==
  {[at |-> <<b, s>>, v |-> v] : s \in Slots(d, active, real, logical)}

(* A kernel is one record per thread; barrier: all loads precede stores.    *)
Kernel(barrier, threads) == [barrier |-> barrier, threads |-> threads]
Idle == Kernel(TRUE, <<>>)
Stored(t) == {w.at : w \in t.writes}
Touched(kernel) ==
  UNION {kernel.threads[i].reads \cup Stored(kernel.threads[i]) :
           i \in DOMAIN kernel.threads}
Races(kernel) ==
  \E i, j \in DOMAIN kernel.threads :
    /\ i # j
    /\ Stored(kernel.threads[i]) \cap
         (Stored(kernel.threads[j])
            \cup IF kernel.barrier THEN {} ELSE kernel.threads[j].reads) # {}

Run(m, kernel) ==
  LET W == UNION {kernel.threads[i].writes : i \in DOMAIN kernel.threads}
      at == {w.at : w \in W}
  IN  [b \in DOMAIN m |->
         [s \in DOMAIN m[b] |->
            IF <<b, s>> \in at THEN (CHOOSE w \in W : w.at = <<b, s>>).v
            ELSE m[b][s]]]

-----------------------------------------------------------------------------
(* bit_rev_frac_ext swaps slots pairwise; one thread for each pair.         *)
bit_rev_frac_ext(m, L) ==
  Kernel(FALSE, [i \in 0 .. L - 1 |->
    IF i > Rev(i, L) THEN [reads |-> {}, writes |-> {}]
    ELSE [reads |-> {<<"layer", i>>, <<"layer", Rev(i, L)>>},
          writes |-> {[at |-> <<"layer", i>>, v |-> Load(m, "layer", Rev(i, L))],
                      [at |-> <<"layer", Rev(i, L)>>, v |-> Load(m, "layer", i)]}]])

(* The first layer over natural leaves with padding: one block, a barrier.  *)
build_virtual_leaves(m, R, L) ==
  LET half == L \div 2
      leaf(s) == IF s < R THEN Load(m, "layer", s) ELSE Raw(R, R)
  IN  Kernel(TRUE, [i \in 0 .. half - 1 |->
        LET s == 2 * Rev(i, half)
            lhs == WithAlpha(leaf(s))
            rhs == WithAlpha(leaf(s + 1))
        IN  [reads |-> {<<"layer", x>> : x \in {s, s + 1} \cap 0 .. R - 1},
             writes |->
               virtual_node_store("layer", i, half, R, L, frac_add(lhs, rhs, R))
                 \cup IF s + 1 < R
                      THEN virtual_node_store("layer", i + half, L, R, L, rhs)
                      ELSE {}]])

(* One layer of size nodes, on leaves without alpha when apply_alpha.       *)
build_tree_layer(m, size, R, L, apply_alpha) ==
  LET half == size \div 2
      val(d) == virtual_node_value(m, "layer", d, size, R, L)
      leaf(d) == IF apply_alpha THEN WithAlpha(val(d)) ELSE val(d)
  IN  Kernel(FALSE, [i \in 0 .. half - 1 |->
        [reads |-> Reads("layer", {i, i + half}, size, R, L),
         writes |-> virtual_node_store("layer", i, half, R, L,
                      frac_add(leaf(i), leaf(i + half), R))]])

frac_add_alpha(m, L) ==
  Kernel(FALSE, [i \in 0 .. L \div 2 - 1 |->
    LET at == <<"layer", L \div 2 + i>>
    IN  [reads |-> {at},
         writes |-> {[at |-> at, v |-> WithAlpha(Load(m, "layer", at[2]))]}]])

revert_tree_layer(m, size, R, L) ==
  LET half == size \div 2
  IN  Kernel(FALSE, [i \in 0 .. half - 1 |->
        [reads |-> Reads("layer", {i}, half, R, L)
                     \cup Reads("layer", {i + half}, size, R, L),
         writes |-> virtual_node_store("layer", i, size, R, L,
           frac_unadd(virtual_node_value(m, "layer", i, half, R, L),
                      virtual_node_value(m, "layer", i + half, size, R, L), R))]])

build_tree_two_layers(m, half_i1, R, L) ==
  LET size == 4 * half_i1
      half_i == 2 * half_i1
      val(d) == virtual_node_value(m, "layer", d, size, R, L)
  IN  Kernel(FALSE, [j \in 0 .. half_i1 - 1 |->
        LET lhs == frac_add(val(j), val(j + half_i), R)
            rhs == frac_add(val(j + half_i1), val(j + half_i + half_i1), R)
        IN  [reads |-> Reads("layer",
                         {j + k * half_i1 : k \in 0 .. 3}, size, R, L),
             writes |->
               virtual_node_store("layer", j, half_i1, R, L, frac_add(lhs, rhs, R))
                 \cup virtual_node_store("layer", j + half_i1, half_i, R, L, rhs)]])

(* A tile of 8 x 8 leaves moves to its reversed place and two layers are    *)
(* built on the way; tiles g and Rev(g) change places in one thread group.  *)
build_k2(m, R, L) ==
  LET step == L \div 8
      groups == L \div 64
      leaf(s) == WithAlpha(IF s < R THEN Load(m, "layer", s) ELSE Raw(R, R))
      tile(g) == {<<i, i * step + g * 8 + x>> : i \in 0 .. 7, x \in 0 .. 7}
      level(i) == IF i < 2 THEN L \div 4 ELSE IF i < 4 THEN L \div 2 ELSE L
      row(d, i) == leaf(Rev(d % 8, 8) * step
                          + Rev((d % step) \div 8, groups) * 8 + Rev(i, 8))
      one(d, i) == frac_add(row(d, i), row(d, i + 4), R)
      out(d, i) == IF i < 2 THEN frac_add(one(d, i), one(d, i + 2), R)
                   ELSE IF i < 4 THEN one(d, i) ELSE row(d, i)
  IN  Kernel(FALSE, [g \in 0 .. groups - 1 |->
        LET T == IF g > Rev(g, groups) THEN {}
                 ELSE tile(g) \cup tile(Rev(g, groups))
        IN  [reads |-> {<<"layer", t[2]>> : t \in {u \in T : u[2] < R}},
             writes |-> UNION {virtual_node_store("layer", t[2], level(t[1]), R, L,
                                                  out(t[2], t[1])) : t \in T}]])

-----------------------------------------------------------------------------
(* Folding: output j of a fold of size values pairs two inputs.             *)
Pair(j, size) ==
  IF j < size \div 4 THEN <<j, j + size \div 4>>
  ELSE <<j + size \div 4, j + size \div 2>>

folded(m, src, size, real, logical, j) ==
  Fold([b \in {0, 1} |->
          virtual_node_value(m, src, Pair(j, size)[b + 1], size, real, logical)], 1)

(* Threads of the fused kernel write four outputs each.                     *)
fused_fold(m, src, dst, size, real, logical, dst_real, dst_logical) ==
  Kernel(FALSE, [i \in 0 .. size \div 8 - 1 |->
    LET out == {i + k * (size \div 8) : k \in 0 .. 3}
    IN  [reads |-> Reads(src, UNION {{Pair(j, size)[1], Pair(j, size)[2]} : j \in out},
                         size, real, logical),
         writes |-> UNION {virtual_node_store(dst, j, size \div 2, dst_real, dst_logical,
                             folded(m, src, size, real, logical, j)) : j \in out}]])

(* Threads of the plain fold write two.                                     *)
fold_ef_columns(m, src, dst, size, real, logical) ==
  Kernel(FALSE, [i \in 0 .. size \div 4 - 1 |->
    LET out == {i, i + size \div 4}
    IN  [reads |-> Reads(src, UNION {{Pair(j, size)[1], Pair(j, size)[2]} : j \in out},
                         size, real, logical),
         writes |-> {[at |-> <<dst, j>>,
                      v |-> folded(m, src, size, real, logical, j)] : j \in out}]])

multifold(m, src, dst, buf_vars, w, real, logical) ==
  LET tail == Pow2(buf_vars - w)
      stride == Pow2(buf_vars)
      ins(o, poly) == [b \in 0 .. Pow2(w) - 1 |-> poly * stride + b * tail + o]
  IN  Kernel(FALSE, [o \in 0 .. tail - 1 |->
        [reads |-> Reads(src, UNION {{ins(o, p)[b] : b \in 0 .. Pow2(w) - 1} : p \in {0, 1}},
                         2 * stride, real, logical),
         writes |-> {[at |-> <<dst, p * tail + o>>,
                      v |-> Fold([b \in 0 .. Pow2(w) - 1 |->
                               virtual_node_value(m, src, ins(o, p)[b], 2 * stride,
                                                  real, logical)], w)] : p \in {0, 1}}]])

-----------------------------------------------------------------------------
(* The value at j of the level of a nodes once t variables are bound: the   *)
(* definition the kernels are checked against.                              *)
Expected(a, t, j, R, L) ==
  LET rest == a \div Pow2(t + 1)
      start(b) == Start((j \div rest) * (a \div 2) + b * rest + (j % rest), a, L)
      betas == {b \in 0 .. Pow2(t) - 1 : start(b) < R}
  IN  [len |-> L \div a, real |-> {<<start(b), Bits(b, t)>> : b \in betas}]

-----------------------------------------------------------------------------

CONSTANTS
  Inputs,      \* [real, leaves, window, default_min_n, precompute, min_n,
               \*  min_blocks]: an input, the build and the environment
  SmallTree,   \* largest tree built layer by layer
  TargetBlocks, MinTile, MaxTile,      \* tiling of a window
  BlockSize, MinBlockSize, WarpSize, GridTarget  \* launch of a round

(* A tile moves 8 x 8 leaves, so the tree it belongs to has more than 32.   *)
ASSUME TreeAssumption == SmallTree \in Nat /\ SmallTree >= 32
ASSUME LaunchAssumption ==
  {BlockSize, MinBlockSize, WarpSize, GridTarget} \subseteq Nat \ {0}

VARIABLES
  sys,      \* one of Inputs
  mem,      \* buffer -> slot -> value
  pc,       \* next phase of the prover
  r,        \* locals of the tree build, or of the current round
  claims,   \* the root, then the pairs claimed for each layer
  kernel,   \* the last launch
  summed    \* what the last round polynomial was summed over

vars == <<sys, mem, pc, r, claims, kernel, summed>>

R == sys.real
L == sys.leaves
virtual_input == R < L
total_rounds == Log2(L)
last_outer_round == r.round = total_rounds - 1
Largest(S) == CHOOSE x \in S : \A y \in S : y <= x

max_work_size ==
  IF total_rounds <= 2 THEN 0
  ELSE IF sys.precompute
       THEN Largest({L \div Pow2(1 + sys.window), Pow2(sys.default_min_n)})
       ELSE L \div 4

(* Elements of the scratch of block sums for a round over num_x points.     *)
round_temp_size(num_x) ==
  LET elements == num_x \div 2
      blocks == DivCeil(elements, BlockSize)
      warps == DivCeil(DivCeil(elements, GridTarget), WarpSize)
      size == Largest({MinBlockSize, warps * WarpSize})
  IN  2 * IF blocks < GridTarget /\ elements >= MinBlockSize
          THEN DivCeil(elements, size) ELSE blocks
tmp_block_sums ==
  Largest({round_temp_size(Pow2(k)) : k \in {total_rounds - 1} \cup 1 .. r.round})

build_tail_tile(rem_n) ==
  LET want == DivCeil(Pow2(rem_n - sys.window), Largest({TargetBlocks, sys.min_blocks}))
  IN  IF want < MinTile THEN MinTile ELSE IF want > MaxTile THEN MaxTile ELSE want
window_w(rem_n, rounds_left) ==
  /\ rem_n >= sys.min_n
  /\ rounds_left >= sys.window
  /\ DivCeil(Pow2(rem_n - sys.window), build_tail_tile(rem_n)) >= sys.min_blocks
stop(round) == DivCeil(round, 2)
PrecomputeM(round) == sys.precompute /\ window_w(round - 1, stop(round) - 1)

Launch(k) == kernel' = k /\ mem' = Run(mem, k)
NoSum == [t |-> 0, eq |-> 0, at |-> <<>>]

Init ==
  /\ sys \in Inputs
  /\ mem = [layer |-> [s \in 0 .. sys.real - 1 |-> Raw(s, sys.real)],
            work |-> [s \in {} |-> s], final |-> [s \in {} |-> s]]
  /\ pc = "start"
  /\ r = [i |-> 0, round |-> 0]
  /\ claims = <<>>
  /\ kernel = Idle
  /\ summed = NoSum

-----------------------------------------------------------------------------
(* The segment tree.                                                        *)
BuildK2 ==
  /\ pc = "start" /\ L > SmallTree
  /\ Launch(build_k2(mem, R, L))
  /\ pc' = "tree" /\ r' = [r EXCEPT !.i = 2]
  /\ UNCHANGED <<sys, claims, summed>>

BitReverse ==
  /\ pc = "start" /\ L <= SmallTree /\ ~virtual_input
  /\ Launch(bit_rev_frac_ext(mem, L))
  /\ pc' = "leaves"
  /\ UNCHANGED <<sys, r, claims, summed>>

BuildLeaves ==
  /\ IF virtual_input THEN pc = "start" /\ L <= SmallTree ELSE pc = "leaves"
  /\ Launch(IF virtual_input THEN build_virtual_leaves(mem, R, L)
            ELSE build_tree_layer(mem, L, R, L, TRUE))
  /\ pc' = IF virtual_input THEN "tree" ELSE "alpha"
  /\ r' = [r EXCEPT !.i = 1]
  /\ UNCHANGED <<sys, claims, summed>>

AddAlpha ==
  /\ pc = "alpha"
  /\ Launch(frac_add_alpha(mem, L))
  /\ pc' = "tree"
  /\ UNCHANGED <<sys, r, claims, summed>>

BuildTwoLayers ==
  /\ pc = "tree" /\ r.i + 1 < total_rounds
  /\ Launch(build_tree_two_layers(mem, L \div Pow2(r.i + 2), R, L))
  /\ r' = [r EXCEPT !.i = @ + 2]
  /\ UNCHANGED <<sys, pc, claims, summed>>

BuildLastLayer ==
  /\ pc = "tree" /\ r.i + 1 = total_rounds
  /\ Launch(build_tree_layer(mem, L \div Pow2(r.i), R, L, FALSE))
  /\ r' = [r EXCEPT !.i = @ + 1]
  /\ UNCHANGED <<sys, pc, claims, summed>>

NextRound(n) == pc' = IF n < total_rounds THEN "round" ELSE "done"

(* The root is read, the top layer reverted and its two nodes claimed.      *)
Root ==
  /\ pc = "tree" /\ r.i >= total_rounds
  /\ LET k == revert_tree_layer(mem, 2, R, L)
         m == Run(mem, k)
     IN  /\ kernel' = k
         /\ mem' = [m EXCEPT !.work = [s \in 0 .. max_work_size - 1 |-> Garbage]]
         /\ claims' = <<<<mem.layer[0]>>,
              [c \in 1 .. 2 |-> virtual_node_value(m, "layer", c - 1, 2, R, L)]>>
  /\ NextRound(1)
  /\ r' = [r EXCEPT !.round = 1]
  /\ UNCHANGED <<sys, summed>>

-----------------------------------------------------------------------------
(* The round polynomial t is a sum over these values, weighted with the eq  *)
(* table of the challenges that follow.                                     *)
Sum(vals) == summed' = [t |-> r.polys, eq |-> r.eq_n, at |-> vals]
Polys_OneBase(n) == [r EXCEPT !.polys = @ + n, !.eq_n = Largest({0, @ - n}), !.base = @ + 1]
Polys(n) == [r EXCEPT !.polys = @ + n, !.eq_n = Largest({0, @ - n}), !.base = @ + n]

(* Where the windows fold to; spilled leaves forbid the layer itself.       *)
active_pq_Layer == IF last_outer_round THEN "layer" ELSE "work"
active_pq == IF last_outer_round /\ ~virtual_input THEN "layer" ELSE "work"

(* do_sumcheck_round_and_revert: the first sumcheck round reverts a layer.  *)
StartRound ==
  LET round == r.round
      half == Pow2(round)
      parent(j) == virtual_node_value(mem, "layer", j, half, R, L)
      child(j) == virtual_node_value(mem, "layer", j + half, 2 * half, R, L)
      left(j) == frac_unadd(parent(j), child(j), R)
  IN  /\ pc = "round"
      /\ Launch(Kernel(FALSE, [i \in 0 .. half \div 2 - 1 |->
           LET own == {i, i + half \div 2}
           IN  [reads |-> Reads("layer", own, half, R, L)
                            \cup Reads("layer", {j + half : j \in own}, 2 * half, R, L),
                writes |-> UNION {virtual_node_store("layer", j, 2 * half, R, L, left(j)) :
                                    j \in own}]]))
      /\ summed' = [t |-> 0, eq |-> round - 1,
                    at |-> [j \in 0 .. 2 * half - 1 |->
                              IF j < half THEN left(j) ELSE child(j - half)]]
      /\ r' = [round |-> round, pq_size |-> 2 * half, polys |-> 1, base |-> 1,
               eq_n |-> Largest({0, round - 2}), in_work |-> FALSE,
               src_real |-> R, src_logical |-> L, pending |-> TRUE, upload |-> 0,
               active |-> active_pq]
      /\ pc' = IF PrecomputeM(round) THEN "window" ELSE "fold"
      /\ UNCHANGED <<sys, claims>>

folded_virtual_support_len_Short(len) ==
  IF len = 0 THEN 0 ELSE 2 * ((len - 1) \div 4) + 1
folded_virtual_support_len(len) ==
  IF len = 0 THEN 0
  ELSE 2 * ((len - 1) \div 4) + IF (len - 1) % 4 = 0 THEN 1 ELSE 2

(* BufferScheduler::next_target: source and destination of a fused round.   *)
next_target_PingPong(post) ==
  LET here == IF r.in_work THEN "work" ELSE "layer"
      there == IF r.in_work THEN "layer" ELSE "work"
  IN  IF post <= max_work_size THEN <<here, there>> ELSE <<"layer", "layer">>
next_target(post) ==
  LET here == IF r.in_work THEN "work" ELSE "layer"
      there == IF r.in_work THEN "layer" ELSE "work"
  IN  IF last_outer_round
      THEN IF post <= max_work_size THEN <<here, there>> ELSE <<"layer", "layer">>
      ELSE <<here, "work">>

(* do_fused_sumcheck_round and its in-place variant: fold by the previous   *)
(* challenge and sum the next polynomial in one launch.                     *)
FusedRound ==
  LET post == r.pq_size \div 2
      target == next_target(post)
      virtual_source == r.src_logical = L /\ virtual_input
      support == IF virtual_source THEN DivCeil(R, L \div r.pq_size) ELSE r.src_real
      dst_real == IF target = <<"layer", "layer">> /\ virtual_source
                  THEN folded_virtual_support_len(support) ELSE post
  IN  /\ pc = "fold" /\ r.base < r.round
      /\ Launch(fused_fold(mem, target[1], target[2], r.pq_size, r.src_real,
                           r.src_logical, dst_real, post))
      /\ Sum([j \in 0 .. post - 1 |->
                folded(mem, target[1], r.pq_size, r.src_real, r.src_logical, j)])
      /\ r' = [Polys(1) EXCEPT !.pq_size = post, !.in_work = target[2] = "work",
                 !.src_real = dst_real, !.src_logical = post]
      /\ UNCHANGED <<sys, pc, claims>>

(* The fold after the last challenge of the round.                          *)
FinalFold ==
  LET src == IF r.in_work THEN "work" ELSE "layer"
      compact == r.src_real < r.src_logical
      dst == IF r.in_work THEN IF compact THEN "final" ELSE "work"
             ELSE IF ~last_outer_round THEN "work"
             ELSE IF compact THEN "final" ELSE "layer"
      m == IF dst = "final" THEN [mem EXCEPT !.final = [s \in 0 .. r.pq_size \div 2 - 1 |-> Garbage]]
           ELSE mem
  IN  /\ pc = "fold" /\ r.base = r.round
      /\ kernel' = fold_ef_columns(m, src, dst, r.pq_size, r.src_real, r.src_logical)
      /\ mem' = Run(m, kernel')
      /\ r' = [r EXCEPT !.pq_size = @ \div 2, !.active = dst]
      /\ pc' = "claims"
      /\ UNCHANGED <<sys, claims, summed>>

-----------------------------------------------------------------------------
(* One window: M is built from the source, folded inline the first time,    *)
(* and gives the polynomials of the window; then all of it is folded away.  *)
MoreWindows ==
  r.base < stop(r.round) /\ window_w(r.round - r.base, stop(r.round) - r.base)
WindowSource == IF r.pending THEN "layer" ELSE r.active
WindowReal == IF r.pending THEN R ELSE r.pq_size
WindowLogical == IF r.pending THEN L ELSE r.pq_size

Window ==
  /\ pc = "window" /\ MoreWindows
  /\ Launch(Kernel(FALSE, <<[reads |-> Reads(WindowSource, 0 .. r.pq_size - 1, r.pq_size,
                                             WindowReal, WindowLogical),
                             writes |-> {}]>>))
  /\ Sum([j \in 0 .. Pow2(r.round - r.base + 1) - 1 |->
            IF r.pending THEN folded(mem, "layer", r.pq_size, R, L, j)
            ELSE mem[r.active][j]])
  /\ r' = Polys(sys.window)
  /\ pc' = "multifold"
  /\ UNCHANGED <<sys, claims>>

MultiFold ==
  LET w_fold == sys.window + IF r.pending THEN 1 ELSE 0
  IN  /\ pc = "multifold"
      /\ Launch(multifold(mem, WindowSource, r.active, Log2(r.pq_size) - 1, w_fold,
                          WindowReal, WindowLogical))
      /\ r' = [r EXCEPT !.pq_size = @ \div Pow2(w_fold), !.pending = FALSE,
                        !.upload = Pow2(w_fold)]
      /\ pc' = "window"
      /\ UNCHANGED <<sys, claims, summed>>

(* Rounds left after the windows: the first finds its input folded.         *)
TailRound ==
  /\ pc = "window" /\ ~MoreWindows
  /\ Launch(Kernel(FALSE, <<[reads |-> {<<r.active, s>> : s \in 0 .. r.pq_size - 1},
                             writes |-> {}]>>))
  /\ Sum([j \in 0 .. r.pq_size - 1 |-> mem[r.active][j]])
  /\ r' = Polys(1)
  /\ pc' = "tail"
  /\ UNCHANGED <<sys, claims>>

TailFold ==
  LET post == r.pq_size \div 2
  IN  /\ pc = "tail" /\ r.base < r.round
      /\ Launch(fused_fold(mem, r.active, r.active, r.pq_size, r.pq_size, r.pq_size,
                           post, post))
      /\ Sum([j \in 0 .. post - 1 |->
                folded(mem, r.active, r.pq_size, r.pq_size, r.pq_size, j)])
      /\ r' = [Polys(1) EXCEPT !.pq_size = post]
      /\ UNCHANGED <<sys, pc, claims>>

TailFinalFold ==
  /\ pc = "tail" /\ r.base = r.round
  /\ Launch(fold_ef_columns(mem, r.active, r.active, r.pq_size, r.pq_size, r.pq_size))
  /\ r' = [r EXCEPT !.pq_size = @ \div 2]
  /\ pc' = "claims"
  /\ UNCHANGED <<sys, claims, summed>>

(* The two folded values are the claims of the next layer.                  *)
Claim ==
  /\ pc = "claims"
  /\ claims' = Append(claims, <<mem[r.active][0], mem[r.active][r.pq_size \div 2]>>)
  /\ r' = [r EXCEPT !.round = @ + 1]
  /\ NextRound(r.round + 1)
  /\ kernel' = Idle
  /\ UNCHANGED <<sys, mem, summed>>

Next ==
  \/ BuildK2 \/ BitReverse \/ BuildLeaves \/ AddAlpha
  \/ BuildTwoLayers \/ BuildLastLayer \/ Root
  \/ StartRound \/ FusedRound \/ FinalFold
  \/ Window \/ MultiFold \/ TailRound \/ TailFold \/ TailFinalFold
  \/ Claim

Spec == Init /\ [][Next]_vars

-----------------------------------------------------------------------------
(* No two threads of a launch meet in a slot that one of them writes: in    *)
(* place kernels, spilled leaves and tiles that change places included.     *)
NoRace == ~Races(kernel)

(* A launch stays within its buffers, the window's table in its scratch.    *)
InBounds ==
  /\ \A a \in Touched(kernel) : a[2] \in DOMAIN mem[a[1]]
  /\ pc = "window" /\ r.upload > 0 => r.upload <= tmp_block_sums

(* Both, for every launch of the prover.                                    *)
LaunchesSafe == NoRace /\ InBounds

(* Every round polynomial is summed over the layer with exactly the sampled *)
(* challenges bound, under the eq table of exactly the remaining ones.      *)
SumsTheLayer ==
  summed # NoSum /\ pc \in {"fold", "window", "multifold", "tail"} =>
    LET a == Pow2(r.round + 1)
    IN  /\ Cardinality(DOMAIN summed.at) = a \div Pow2(summed.t)
        /\ \A j \in DOMAIN summed.at : summed.at[j] = Expected(a, summed.t, j, R, L)
        /\ summed.eq = r.round - 1 - summed.t

(* Claims are the layers bound at all challenges of their round, which had  *)
(* one polynomial for each.                                                 *)
ClaimsHold ==
  /\ pc = "claims" => r.polys = r.round
  /\ \A n \in DOMAIN claims :
       IF n = 1 THEN claims[1] = <<Node(0, L, R)>>
       ELSE \A c \in {1, 2} :
              claims[n][c] = Expected(Pow2(n - 1), n - 2, c - 1, R, L)

(* Until the last round, the tree below the layer at work is intact: every  *)
(* right sibling, spilled or not, waits unharmed for its revert.            *)
TreeKept ==
  pc = "round" =>
    /\ \A d \in 0 .. Pow2(r.round) - 1 :
         virtual_node_value(mem, "layer", d, Pow2(r.round), R, L)
           = Expected(Pow2(r.round), 0, d, R, L)
    /\ \A k \in r.round + 1 .. total_rounds : \A d \in Pow2(k - 1) .. Pow2(k) - 1 :
         virtual_node_value(mem, "layer", d, Pow2(k), R, L) = Expected(Pow2(k), 0, d, R, L)

=============================================================================
