-------------------------- MODULE StackedReduction ---------------------------
(***************************************************************************)
(* The sumcheck that reduces the openings of all trace columns at r, those *)
(* of the next row too, to openings of the stacked columns at a point u.   *)
(* The reference and the CPU fold the stacked matrix; the GPU folds the    *)
(* traces, keeps the tables of all dimensions in one buffer, and moves     *)
(* what is completely folded to lists indexed by the log of the height.    *)
(* A context is [p, r, lambda, views]; columns shorter than the skip       *)
(* domain D have dimension n < 0 and live on a subgroup of D.              *)
(***************************************************************************)
EXTENDS StackedPcs

Dim(p, log_height) == log_height - p.l_skip
Lifted(n) == IF n > 0 THEN n ELSE 0
rot_prev(x, n) == IF x = 0 THEN 2 ^ n - 1 ELSE x - 1

(* One view per stacked column, in the order of the commitments.            *)
trace_views(layouts, need_rot) ==
  FlattenSeq([d \in DOMAIN layouts |-> [i \in DOMAIN layouts[d].sorted_cols |->
    LET s == layouts[d].sorted_cols[i] IN [com |-> d, slice |-> s, rot |-> need_rot[d][s.mat]]]])

lambda_eq(c, i) == Pow(c.lambda, 2 * (i - 1))
lambda_rot(c, i) == IF c.views[i].rot THEN Pow(c.lambda, 2 * i - 1) ELSE 0

eq_const(c) == eval_eq_uni_at_one(c.p.l_skip, (c.r[1] * two_adic_generator(c.p.l_skip)) % P)

(* Generator, order and point of the subgroup on which a column lives.      *)
SkipDomain(c, n) ==
  IF n < 0 THEN [l |-> c.p.l_skip + n, r |-> Pow(c.r[1], 2 ^ (-n))]
  ELSE [l |-> c.p.l_skip, r |-> c.r[1]]
r_rot(dom) == (dom.r * two_adic_generator(dom.l)) % P

(* The bit of the row that the variable of this round selects.              *)
RowBit(c, i, round) == Bit(c.views[i].slice.row_idx, c.p.l_skip + round - 1)
eq1(x, b) == IF b = 1 THEN x ELSE 1 - x

OverViews(c, Term(_)) == SumTo(Len(c.views), LAMBDA i : Term(i + 1))

-----------------------------------------------------------------------------
(* The reference.  Its state is [q, eq, rot, ub]: columns of the folded     *)
(* matrices, tables for each height, and for each view what the variables   *)
(* behind its own contributed.                                              *)

(* The kernels of a column at (z, x), from the table of eq on the cube.     *)
prism_kernels(c, log_height, eq_rs, z, x) ==
  LET n == Dim(c.p, log_height)
      dom == SkipDomain(c, n)
      ind == eval_in_uni(c.p.l_skip, n, z)
      step == (eq_const(c) * eval_eq_uni_at_one(c.p.l_skip, z)) % P
  IN  [eq  |-> (((ind * eval_eq_uni(dom.l, z, dom.r)) % P) * eq_rs[x]) % P,
       rot |-> (ind * ((eval_eq_uni(dom.l, z, r_rot(dom)) * eq_rs[x]
                        + step * (eq_rs[rot_prev(x, Lifted(n))] - eq_rs[x])) % P)) % P]

eq_r(c, log_height) == evals_eq_hypercube(SubSeq(c.r, 2, 1 + Lifted(Dim(c.p, log_height))))

(* The points of the cosets g D and g^2 D, and the polynomial of the round  *)
(* from its values there.                                                   *)
coset_points(l_skip) ==
  Array(2 * 2 ^ l_skip, LAMBDA i :
    (Pow(Generator, 1 + (i % 2)) * Pow(two_adic_generator(l_skip), i \div 2)) % P)

round0_poly(l_skip, values) ==
  LET coeffs == from_geometric_cosets_evals_idft(values, 2, Generator, Generator)
  IN  Array(2 * (2 ^ l_skip - 1) + 1, LAMBDA k : coeffs[k])

(* The full slice of a column, though a short column fills few of its rows. *)
SliceChunk(c, commits, i, x) ==
  LET s == c.views[i].slice
      m == commits[c.views[i].com].matrix
  IN  Array(2 ^ c.p.l_skip, LAMBDA z :
        m.values[s.col_idx * m.height + s.row_idx + x * 2 ^ c.p.l_skip + z])

(* Its value at z, by a transform to the coset on which z lies.             *)
column_at(c, commits, i, x, z) == eval_on_domain(SliceChunk(c, commits, i, x), z)

reference_round0(c, commits) ==
  LET points == coset_points(c.p.l_skip)
      Weight(i, k) == lambda_eq(c, i) * k.eq + lambda_rot(c, i) * k.rot
      Term(i, z) ==
        LET lh == c.views[i].slice.log_height
        IN  SumTo(2 ^ Lifted(Dim(c.p, lh)), LAMBDA x :
              column_at(c, commits, i, x, z)
                * (Weight(i, prism_kernels(c, lh, eq_r(c, lh), z, x)) % P))
  IN  round0_poly(c.p.l_skip,
        Array(Size(points), LAMBDA j : OverViews(c, LAMBDA i : Term(i, points[j]))))

LOCAL Heights(c) == {c.views[i].slice.log_height : i \in DOMAIN c.views}
LOCAL Columns(d) == Array(d.matrix.width, LAMBDA col : Chunk(d.matrix.values, col, d.matrix.height))
LOCAL Tables(c, Table(_)) == [lh \in Heights(c) |-> Table(lh)] @@ <<>>

HostFolded(c, q, u_0) ==
  LET Kernels(lh, x) == prism_kernels(c, lh, eq_r(c, lh), u_0, x)
      Cube(lh) == 2 ^ Lifted(Dim(c.p, lh))
  IN  [q |-> q,
       eq |-> Tables(c, LAMBDA lh : Array(Cube(lh), LAMBDA x : Kernels(lh, x).eq)),
       rot |-> Tables(c, LAMBDA lh : Array(Cube(lh), LAMBDA x : Kernels(lh, x).rot)),
       ub |-> [i \in DOMAIN c.views |-> 1]]

reference_fold_ple(c, commits, u_0) ==
  LET Fold(columns) == Array(Size(columns), LAMBDA col :
                         fold_ple_evals(c.p.l_skip, columns[col], u_0))
  IN  HostFolded(c, [d \in DOMAIN commits |-> Fold(Columns(commits[d]))] \o <<>>, u_0)

(* One view at x: over the rest of its cube, or, once that is bound, with   *)
(* the bits of its row in the stacked column.                               *)
view_eval(c, s, round, i, x) ==
  LET v == c.views[i]
      lh == v.slice.log_height
      n_lift == Lifted(Dim(c.p, lh))
      q == s.q[v.com][v.slice.col_idx]
      At(table, y) == Linear(table[2 * y], table[2 * y + 1], x)
      Weight(eq, rot) == ((lambda_eq(c, i) * eq + lambda_rot(c, i) * rot) % P) * s.ub[i]
  IN  IF round <= n_lift
      THEN LET half == 2 ^ (n_lift - round)
               start == (v.slice.row_idx \div 2 ^ lh) * half
           IN  SumTo(half, LAMBDA y :
                 At(q, start + y) * (Weight(At(s.eq[lh], y), At(s.rot[lh], y)) % P))
      ELSE At(q, v.slice.row_idx \div 2 ^ (c.p.l_skip + round))
             * ((Weight(s.eq[lh][0], s.rot[lh][0]) % P) * eq1(x, RowBit(c, i, round)) % P)

reference_poly_eval(c, s, round) ==
  [x \in 1 .. 2 |-> OverViews(c, LAMBDA i : view_eval(c, s, round, i, x))]

LOCAL UpdatedUb(c, ub, round, u_round) ==
  [i \in DOMAIN ub |-> IF round > Lifted(Dim(c.p, c.views[i].slice.log_height))
                       THEN (ub[i] * eq1(u_round, RowBit(c, i, round))) % P ELSE ub[i]]

reference_fold_mle(c, s, round, u_round) ==
  [q   |-> [d \in DOMAIN s.q |-> Array(Size(s.q[d]), LAMBDA col : fold_mle_evals(s.q[d][col], u_round))] \o <<>>,
   eq  |-> Tables(c, LAMBDA lh : fold_mle_evals(s.eq[lh], u_round)),
   rot |-> Tables(c, LAMBDA lh : fold_mle_evals(s.rot[lh], u_round)),
   ub  |-> UpdatedUb(c, s.ub, round, u_round)]

into_stacked_openings(s) ==
  [d \in DOMAIN s.q |-> [j \in 1 .. Size(s.q[d]) |-> s.q[d][j - 1][0]]]

-----------------------------------------------------------------------------
(* The CPU: transforms of its own in round 0, where the weights of the      *)
(* columns are added before the kernels are applied, and barycentric        *)
(* weights in the fold; then it repeats the reference.                      *)

cpu_round0(c, commits) ==
  LET l_skip == c.p.l_skip
      tw == DftTwiddles(l_skip)
      points == coset_points(l_skip)
      Pre(z, n, dom) == LET ind == eval_in_uni(l_skip, n, z)
                        IN  [eq |-> (eval_eq_uni(dom.l, z, dom.r) * ind) % P,
                             rot |-> (eval_eq_uni(dom.l, z, r_rot(dom)) * ind) % P,
                             one |-> (eq_const(c) * eval_eq_uni_at_one(l_skip, z) * ind) % P]
      Cosets(i, x) == LET coeffs == idft_inplace(tw, SliceChunk(c, commits, i, x))
                      IN  [k \in 1 .. 2 |-> coset_dft_inplace(tw, coeffs, Pow(Generator, k))]
      Value(coset, eq_rs, n, x, i, pre) ==
        LET delta == eq_rs[rot_prev(x, Lifted(n))] - eq_rs[x]
        IN  coset * (((((pre.eq * eq_rs[x]) % P) * lambda_eq(c, i))
                      + ((pre.rot * eq_rs[x] + pre.one * delta) % P) * lambda_rot(c, i)) % P)
      Column(i, eq_rs, n, cosets, pre) ==
        Array(Size(points), LAMBDA j : SumTo(2 ^ Lifted(n), LAMBDA x :
          Value(cosets[x][1 + (j % 2)][j \div 2], eq_rs, n, x, i, pre[j])))
      View(i) == LET lh == c.views[i].slice.log_height
                     n == Dim(c.p, lh)
                 IN  Column(i, eq_r(c, lh), n, Array(2 ^ Lifted(n), LAMBDA x : Cosets(i, x)),
                            Array(Size(points), LAMBDA j : Pre(points[j], n, SkipDomain(c, n))))
      Total(columns) == Array(Size(points), LAMBDA j : OverViews(c, LAMBDA i : columns[i][j]))
  IN  round0_poly(l_skip, Total([i \in DOMAIN c.views |-> View(i)] \o <<>>))

fold_ple_evals_cpu(l_skip, col, r) ==
  LET n == 2 ^ l_skip
      omega == two_adic_generator(l_skip)
      col_scale == Array(n, LAMBDA i : (Pow(omega, i) * Recip(r - Pow(omega, i))) % P)
      scaling_factor == ((Pow(r, n) - 1) * Recip(n % P)) % P
      lifted == IF Size(col) > n THEN Size(col) ELSE n
  IN  Array(lifted \div n, LAMBDA x :
        (SumTo(n, LAMBDA z : col_scale[z] * col[(x * n + z) % Size(col)]) * scaling_factor) % P)

cpu_fold_ple(c, commits, u_0) ==
  LET Fold(columns) == Array(Size(columns), LAMBDA col :
                         fold_ple_evals_cpu(c.p.l_skip, columns[col], u_0))
  IN  HostFolded(c, [d \in DOMAIN commits |-> Fold(Columns(commits[d]))] \o <<>>, u_0)

cpu_poly_eval(c, s, round) == reference_poly_eval(c, s, round)

fold_eval_map(c, tables, r) ==
  Tables(c, LAMBDA lh :
    IF Size(tables[lh]) <= 1 THEN tables[lh]
    ELSE Array(Size(tables[lh]) \div 2, LAMBDA y :
           (tables[lh][2 * y] * (1 - r) + tables[lh][2 * y + 1] * r) % P))

cpu_fold_mle(c, s, round, u_round) ==
  [q   |-> [d \in DOMAIN s.q |-> Array(Size(s.q[d]), LAMBDA col : fold_mle_evals(s.q[d][col], u_round))] \o <<>>,
   eq  |-> fold_eval_map(c, s.eq, u_round),
   rot |-> fold_eval_map(c, s.rot, u_round),
   ub  |-> UpdatedUb(c, s.ub, round, u_round)]

-----------------------------------------------------------------------------
(* The claims: for each AIR and each of its parts the openings of the       *)
(* columns, each with that of the next row where the AIR reads it.          *)

column_openings_by_rot(openings, need_rot) ==
  IF need_rot THEN [i \in 1 .. Len(openings) \div 2 |-> <<openings[2 * i - 1], openings[2 * i]>>]
  ELSE [i \in DOMAIN openings |-> <<openings[i], 0>>]

(* The verifier's order of the claims: the common parts, then the others.   *)
t_claims(column_openings, need_rot) ==
  LET Parts(a) == [k \in 1 .. Len(column_openings[a]) - 1 |->
                     column_openings_by_rot(column_openings[a][k + 1], need_rot[a])]
  IN  FlattenSeq([a \in DOMAIN column_openings |->
                    column_openings_by_rot(column_openings[a][1], need_rot[a])])
        \o FlattenSeq(FlattenSeq([a \in DOMAIN column_openings |-> Parts(a)]))

(* What the opening of a stacked column counts in the final claim.          *)
view_coefficient(c, u, i) ==
  LET s == c.views[i].slice
      n == Dim(c.p, s.log_height)
      n_lift == Lifted(n)
      b == [j \in 1 .. c.p.n_stack - n_lift |-> Bit(s.row_idx, c.p.l_skip + n_lift + j - 1)]
      l == IF n < 0 THEN c.p.l_skip + n ELSE c.p.l_skip
      rs_n == IF n < 0 THEN <<Pow(c.r[1], 2 ^ (-n))>> ELSE SubSeq(c.r, 1, 1 + n_lift)
      prism == SubSeq(u, 1, 1 + n_lift)
      lambda_sqr == Pow((c.lambda * c.lambda) % P, i - 1)
      batched == eval_eq_prism(l, prism, rs_n)
                   + (IF c.views[i].rot THEN c.lambda * eval_rot_kernel_prism(l, prism, rs_n) ELSE 0)
      scale == (eval_eq_mle(SubSeq(u, n_lift + 2, Len(u)), b) * eval_in_uni(c.p.l_skip, n, u[1])) % P
  IN  (((lambda_sqr * scale) % P) * (batched % P)) % P

verify_stacked_reduction(c, claims, proof, u) ==
  LET coeffs == proof.univariate_round_coeffs
      s_0 == SumTo(Len(claims), LAMBDA i :
               ((claims[i + 1][1] + claims[i + 1][2] * c.lambda) % P) * Pow((c.lambda * c.lambda) % P, i))
      at_zero == SumTo(Size(coeffs), LAMBDA k : IF k % 2 ^ c.p.l_skip = 0 THEN coeffs[k] ELSE 0)
      claim == Iterate(c.p.n_stack, horner_eval(coeffs, u[1]), LAMBDA j, cl :
        LET s == proof.sumcheck_round_polys[j + 1]
        IN  interpolate_quadratic_at_012(cl - s[1], s[1], s[2], u[j + 2]))
      final_sum == OverViews(c, LAMBDA i :
        view_coefficient(c, u, i) * proof.stacking_openings[c.views[i].com][c.views[i].slice.col_idx + 1])
  IN  /\ Len(claims) = Len(c.views)
      /\ s_0 = (at_zero * 2 ^ c.p.l_skip) % P
      /\ claim = final_sum

-----------------------------------------------------------------------------
(***************************************************************************)
(* The GPU's stacked reduction (stacked_reduction.rs and .cu).  The state   *)
(* is [q, eq_r_ns, k_rot_ns, eq_stable, k_rot_stable, ub]: flat buffers,    *)
(* one per commitment; tables of all dimensions in a buffer where that of   *)
(* dimension n starts at 2^n; and lists whose element log_height + 1        *)
(* belongs to the columns of that height once nothing of them is folded     *)
(* any more.                                                               *)
(***************************************************************************)

LOCAL Trace(c, commits, i) == commits[c.views[i].com].traces[c.views[i].slice.mat]
n_max(c) == Len(c.r) - 1
stacked_height(c, round) == 2 ^ (c.p.n_stack - (round - 1))

gpu_new(c) ==
  [q |-> <<>>, eq_r_ns |-> EqEvalSegments(Tail(c.r)), k_rot_ns |-> <<>>,
   eq_stable |-> <<>>, k_rot_stable |-> <<>>, ub |-> [i \in DOMAIN c.views |-> 1]]

(* Three sums over the cube for every point of D, from the traces: with eq, *)
(* and with eq and the step of its rotation for the next row.  Columns go   *)
(* to the bucket of their |n| if n < 0, else to bucket 0.                   *)
stacked_reduction_round0_block_sum(c, commits, s, bucket) ==
  LET Dimension(i) == Dim(c.p, c.views[i].slice.log_height)
      log_stride(i) == IF Dimension(i) < 0 THEN -Dimension(i) ELSE 0
      Eval(trace, col, i, x, z) ==
        IF z % 2 ^ log_stride(i) = 0
        THEN trace.values[(col - 1) * trace.height + x * 2 ^ (c.p.l_skip - log_stride(i))
                            + z \div 2 ^ log_stride(i)]
        ELSE 0
      Weight(g, i, num_x, x) ==
        LET eq_cube == s.eq_r_ns[num_x + x]
        IN  CASE g = 0 -> lambda_eq(c, i) * eq_cube
              [] g = 1 -> lambda_rot(c, i) * eq_cube
              [] g = 2 -> lambda_rot(c, i) * (s.eq_r_ns[num_x + rot_prev(x, Lifted(Dimension(i)))] - eq_cube)
      Term(g, i, z) ==
        LET num_x == 2 ^ Lifted(Dimension(i))
        IN  SumTo(num_x, LAMBDA x :
              (Weight(g, i, num_x, x) % P) * Eval(Trace(c, commits, i), c.views[i].slice.col, i, x, z))
  IN  Array(3, LAMBDA g : Array(2 ^ c.p.l_skip, LAMBDA z :
        OverViews(c, LAMBDA i : IF log_stride(i) = bucket THEN Term(g, i, z) ELSE 0)))

Padded(a, n) == Array(n, LAMBDA k : IF k < Size(a) THEN a[k] ELSE 0)

poly_multiply_ntt(a, b, size) ==
  LET Product(x, y) == idft(Array(size, LAMBDA k : (x[k] * y[k]) % P))
  IN  Product(dft(Padded(a, size), Log2(size)), dft(Padded(b, size), Log2(size)))

eq_uni_poly(l, x) ==
  Array(2 ^ l, LAMBDA k : (Recip(2 ^ l % P) * (IF k = 0 THEN 1 ELSE Pow(x, 2 ^ l - k))) % P)
eq_uni_at_one_poly(l, scale) == Array(2 ^ l, LAMBDA k : (Recip(2 ^ l % P) * scale) % P)
build_indicator_poly(l_skip, n_abs) ==
  Array(2 ^ l_skip, LAMBDA k : IF k % 2 ^ (l_skip - n_abs) = 0 THEN Recip(2 ^ n_abs % P) ELSE 0)

reconstruct_s0_from_g(c, g) ==
  LET l_skip == c.p.l_skip
      domain == IF l_skip = 0 THEN 1 ELSE 2 ^ (l_skip + 1)
      E(dom) == <<eq_uni_poly(dom.l, dom.r), eq_uni_poly(dom.l, r_rot(dom)),
                  eq_uni_at_one_poly(dom.l, eq_const(c))>>
      Factor(k, e) == IF k = 0 THEN e ELSE poly_multiply_ntt(e, build_indicator_poly(l_skip, k), domain)
      Bucket(k, es) == [i \in 1 .. 3 |->
        poly_multiply_ntt(Factor(k, es[i]), idft(g[k][i - 1]), domain)] \o <<>>
      products == Array(l_skip + 1, LAMBDA k : Bucket(k, E(SkipDomain(c, -k))))
  IN  Array(2 * (2 ^ l_skip - 1) + 1, LAMBDA at :
        SumTo(l_skip + 1, LAMBDA k : products[k][1][at] + products[k][2][at] + products[k][3][at]))

gpu_round0(c, commits, s) ==
  reconstruct_s0_from_g(c, Array(c.p.l_skip + 1, LAMBDA bucket :
    stacked_reduction_round0_block_sum(c, commits, s, bucket)))

compute_barycentric_inv_lagrange_denoms(l_skip, z) ==
  LET omega == two_adic_generator(l_skip)
      scale_factor == ((Pow(z, 2 ^ l_skip) - 1) * Recip(2 ^ l_skip % P)) % P
  IN  Array(2 ^ l_skip, LAMBDA i :
        LET denom == (z - Pow(omega, i)) % P
        IN  ((IF denom = 0 THEN 1 ELSE Recip(denom)) * scale_factor) % P)

(* A trace, folded, column by column.                                       *)
stacked_reduction_fold_ple(l_skip, trace, inv_lagrange_denoms) ==
  LET src_len == IF trace.height < 2 ^ l_skip THEN trace.height ELSE 2 ^ l_skip
      stride == 2 ^ l_skip \div src_len
      omega == two_adic_generator(l_skip)
  IN  [at \in 1 .. (trace.height \div src_len) * trace.width |->
        SumTo(src_len, LAMBDA idx :
          trace.values[(at - 1) * src_len + idx] * Pow(omega, idx * stride)
            * inv_lagrange_denoms[idx * stride])] \o <<>>

initialize_k_rot_from_eq_segments(c, eq_r_ns, k_rot_uni_0, k_rot_uni_1) ==
  LET Cube(at) == CHOOSE n \in 0 .. n_max(c) : 2 ^ n <= at /\ at < 2 ^ (n + 1)
      Rotated(at, n) == eq_r_ns[2 ^ n + rot_prev(at - 2 ^ n, n)]
  IN  Array(Size(eq_r_ns), LAMBDA at :
        IF at = 0 THEN 0
        ELSE (k_rot_uni_0 * eq_r_ns[at] + k_rot_uni_1 * (Rotated(at, Cube(at)) - eq_r_ns[at])) % P)

(* The traces fill the rows of the folded matrix from the start.            *)
gpu_fold_ple(c, commits, s, u_0) ==
  LET l_skip == c.p.l_skip
      dom == SkipDomain(c, 0)
      denoms == compute_barycentric_inv_lagrange_denoms(l_skip, u_0)
      Buffer(cells, len) == Array(len, LAMBDA at : IF at < Len(cells) THEN cells[at + 1] ELSE 0)
      Folded(d) == Buffer(FlattenSeq([t \in DOMAIN d.traces |->
                            stacked_reduction_fold_ple(l_skip, d.traces[t], denoms)]) \o <<>>,
                          stacked_height(c, 1) * d.layout.width)
      Stable(Uni(_)) == [h \in 1 .. l_skip |->
        (eval_in_uni(l_skip, h - 1 - l_skip, u_0) * Uni(SkipDomain(c, h - 1 - l_skip))) % P] \o <<>>
      eq_uni_u0r0 == eval_eq_uni(l_skip, u_0, dom.r)
  IN  [s EXCEPT
        !.q = [d \in DOMAIN commits |-> Folded(commits[d])] \o <<>>,
        !.eq_r_ns = Array(Size(s.eq_r_ns), LAMBDA at : (s.eq_r_ns[at] * eq_uni_u0r0) % P),
        !.k_rot_ns = initialize_k_rot_from_eq_segments(c, s.eq_r_ns,
                       eval_eq_uni(l_skip, u_0, r_rot(dom)),
                       (eq_const(c) * eval_eq_uni_at_one(l_skip, u_0)) % P),
        !.eq_stable = Stable(LAMBDA sub : eval_eq_uni(sub.l, u_0, sub.r)),
        !.k_rot_stable = Stable(LAMBDA sub : eval_eq_uni(sub.l, u_0, r_rot(sub)))]

(* Before a round the tables of dimension 0 become stable.                  *)
move_to_stable(c, s, round) ==
  IF n_max(c) >= round - 1
  THEN [s EXCEPT !.eq_stable = Append(@, s.eq_r_ns[1]), !.k_rot_stable = Append(@, s.k_rot_ns[1])]
  ELSE s

stacked_reduction_sumcheck_mle_round(c, s, round, i, x) ==
  LET slice == c.views[i].slice
      num_y == 2 ^ (slice.log_height - c.p.l_skip - round)
      q == s.q[c.views[i].com]
      q_offset == slice.col_idx * stacked_height(c, round)
                    + (slice.row_idx \div 2 ^ slice.log_height) * 2 * num_y
      At(table, at) == Linear(table[at], table[at + 1], x)
  IN  SumTo(num_y, LAMBDA y :
        ((lambda_eq(c, i) * At(s.eq_r_ns, 2 * num_y + 2 * y)
           + lambda_rot(c, i) * At(s.k_rot_ns, 2 * num_y + 2 * y)) % P) * At(q, q_offset + 2 * y))

stacked_reduction_sumcheck_mle_round_degenerate(c, s, round, i, x) ==
  LET slice == c.views[i].slice
      q == s.q[c.views[i].com]
      q_offset == slice.col_idx * stacked_height(c, round)
                    + 2 * (slice.row_idx \div 2 ^ (c.p.l_skip + round))
      eq_ub_x == (s.ub[i] * eq1(x, RowBit(c, i, round))) % P
      h == slice.log_height + 1
  IN  (((lambda_eq(c, i) * s.eq_stable[h] + lambda_rot(c, i) * s.k_rot_stable[h]) % P) * eq_ub_x % P)
        * Linear(q[q_offset], q[q_offset + 1], x)

gpu_poly_eval(c, s, round) ==
  [x \in 1 .. 2 |-> OverViews(c, LAMBDA i :
     IF c.views[i].slice.log_height < c.p.l_skip + round
     THEN stacked_reduction_sumcheck_mle_round_degenerate(c, s, round, i, x)
     ELSE stacked_reduction_sumcheck_mle_round(c, s, round, i, x))]

triangular_fold_mle(input, r, output_max_n) ==
  Array(2 ^ (output_max_n + 1), LAMBDA at :
    IF at = 0 THEN 0 ELSE Linear(input[2 * at], input[2 * at + 1], r))

gpu_fold_mle(c, s, round, u_round) ==
  LET input_max_n == n_max(c) - (round - 1)
      Fold(segments) == IF input_max_n > 0 THEN triangular_fold_mle(segments, u_round, input_max_n - 1)
                        ELSE IF input_max_n = 0 THEN Array(1, LAMBDA i : 0) ELSE segments
      Update(i) == IF round + c.p.l_skip > c.views[i].slice.log_height
                   THEN (s.ub[i] * eq1(u_round, RowBit(c, i, round))) % P ELSE s.ub[i]
      Halved(q) == Array(Size(q) \div 2, LAMBDA at : Linear(q[2 * at], q[2 * at + 1], u_round))
  IN  [s EXCEPT !.q = [d \in DOMAIN s.q |-> Halved(s.q[d])] \o <<>>,
                !.eq_r_ns = Fold(@), !.k_rot_ns = Fold(@),
                !.ub = [i \in DOMAIN s.ub |-> Update(i)]]

get_stacked_openings(s) == [d \in DOMAIN s.q |-> [j \in 1 .. Size(s.q[d]) |-> s.q[d][j - 1]]]

=============================================================================
