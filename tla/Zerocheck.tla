------------------------------ MODULE Zerocheck -------------------------------
(***************************************************************************)
(* The batch sumcheck that ties the constraints and the interactions of    *)
(* all AIRs to the openings of their columns at a point r                  *)
(* (prover/logup_zerocheck of stark-backend and of cpu-backend, and        *)
(* verifier/batch_constraints.rs): a univariate round over the skip domain *)
(* D, then a multilinear round per variable of the highest trace; a trace  *)
(* whose variables are bound stays in the batch as a linear term.  GKR is  *)
(* taken by its contract: the layer it starts from, and the claims about   *)
(* that layer's multilinear extension at xi.                               *)
(*                                                                         *)
(* A context is [p, airs, xi, alpha, beta, lambda, mu, r]: xi has a value  *)
(* for each variable of the interactions or of the highest trace, r[1] is  *)
(* the challenge of the univariate round.  An AIR has parts (the common    *)
(* one first), need_rot, log_height, degree, constraints, interactions.    *)
(***************************************************************************)
EXTENDS StackedReduction

AirIds(c) == DOMAIN c.airs
DimOf(c, a) == Dim(c.p, c.airs[a].log_height)
n_lift(c, a) == Lifted(DimOf(c, a))
norm_factor(c, a) == Recip(2 ^ Lifted(-DimOf(c, a)) % P)
Degree(c) == c.p.max_constraint_degree

-----------------------------------------------------------------------------
(* An expression is a sum of terms [coeff, vars]; a variable is             *)
(* <<part, index, offset>>.  Part 0 has the three selectors; the cached     *)
(* parts come before the common one, each followed by its rotation where    *)
(* the AIR reads the next row.                                              *)

MainParts(air) == Tail(air.parts) \o <<Head(air.parts)>>

Rotated(col) == Array(Size(col), LAMBDA i : col[(i + 1) % Size(col)])

view_mats(air) ==
  LET Cols(m) == Array(m.width, LAMBDA j : Chunk(m.values, j, m.height))
      Views(m) == IF air.need_rot THEN <<Cols(m), Array(m.width, LAMBDA j : Rotated(Cols(m)[j]))>>
                  ELSE <<Cols(m)>>
  IN  FlattenSeq([k \in DOMAIN air.parts |-> Views(MainParts(air)[k])]) \o <<>>

evaluator(air, row_parts, var) ==
  row_parts[IF var[1] = 0 THEN 1 ELSE IF air.need_rot THEN 2 * var[1] + var[3] ELSE var[1] + 1][var[2]]

eval_expr(air, row_parts, expr) ==
  SumTo(Len(expr), LAMBDA i : expr[i + 1].coeff
    * ProductTo(Len(expr[i + 1].vars), LAMBDA j : evaluator(air, row_parts, expr[i + 1].vars[j + 1])))

acc_constraints(c, air, row_parts) ==
  SumTo(Len(air.constraints), LAMBDA k :
    Pow(c.lambda, k) * eval_expr(air, row_parts, air.constraints[k + 1]))

(* Count and hashed message of an interaction, without alpha.               *)
eval_interaction(c, air, row_parts, i) ==
  <<eval_expr(air, row_parts, i.count),
    (Pow(c.beta, Len(i.message)) * (i.bus + 1)
      + SumTo(Len(i.message), LAMBDA j : Pow(c.beta, j) * eval_expr(air, row_parts, i.message[j + 1]))) % P>>

LOCAL WeightedSums(weights, evals) ==
  [e \in 1 .. 2 |-> SumTo(Len(evals), LAMBDA k : weights[k + 1] * evals[k + 1][e])] \o <<>>

acc_interactions(c, air, row_parts, eq_3bs) ==
  WeightedSums(eq_3bs, [k \in DOMAIN air.interactions |->
                          eval_interaction(c, air, row_parts, air.interactions[k])] \o <<>>)

-----------------------------------------------------------------------------
(* The interactions of all AIRs are stacked into one column.                *)

calculate_n_logup(l_skip, total) ==
  IF total = 0 THEN 0 ELSE (CHOOSE k \in 1 .. total : 2 ^ (k - 1) <= total /\ total < 2 ^ k) - l_skip

LiftedLogHeight(c, a) == c.p.l_skip + n_lift(c, a)

total_interactions(c) ==
  FoldLeft(LAMBDA sum, a : sum + Len(c.airs[a].interactions) * 2 ^ LiftedLogHeight(c, a), 0,
           [a \in AirIds(c) |-> a])

n_logup(c) == calculate_n_logup(c.p.l_skip, total_interactions(c))

interactions_layout(c) ==
  Layout(0, c.p.l_skip + n_logup(c),
         [a \in AirIds(c) |-> <<Len(c.airs[a].interactions), LiftedLogHeight(c, a)>>])

(* eq of the place of each interaction, from the variables behind its rows. *)
eq_3b_at(c, a, stacked_idx) ==
  LET low == LiftedLogHeight(c, a)
      high == c.p.l_skip + n_logup(c)
  IN  eval_eq_mle(SubSeq(c.xi, low + 1, high), [j \in 1 .. high - low |-> Bit(stacked_idx, low + j - 1)])

LOCAL AtSlices(c, a, slices) == [k \in DOMAIN slices |-> eq_3b_at(c, a, slices[k].row_idx)] \o <<>>
eq_3b(c, a) == AtSlices(c, a, SelectSeq(interactions_layout(c).sorted_cols, LAMBDA s : s.mat = a))

(* First, transition, last: the selectors of a row of the unlifted trace.   *)
selector(k, i, height) == IF <<i = 0, i # height - 1, i = height - 1>>[k + 1] THEN 1 ELSE 0

RowParts(views, height, i) ==
  <<Array(3, LAMBDA k : selector(k, i, height))>>
    \o [v \in DOMAIN views |-> Array(Size(views[v]), LAMBDA j : views[v][j][i])]

(* The first layer of GKR, a short trace repeated to the size of D.         *)
LOCAL FracsAt(c, air, row_parts) ==
  [k \in DOMAIN air.interactions |-> eval_interaction(c, air, row_parts, air.interactions[k])] \o <<>>

LOCAL StackedFracs(c, sorted_cols, pq_evals) ==
  LET Fill(evals, s) == [at \in s.row_idx .. s.row_idx + 2 ^ s.log_height - 1 |->
          LET pq == pq_evals[s.mat][(at - s.row_idx) % 2 ^ c.airs[s.mat].log_height][s.col]
          IN  <<(pq[1] * norm_factor(c, s.mat)) % P, pq[2]>>] @@ evals
      AddAlpha(evals) == Array(Size(evals), LAMBDA at : <<evals[at][1], (evals[at][2] + c.alpha) % P>>)
  IN  IF sorted_cols = <<>> THEN Array(0, LAMBDA at : <<0, 0>>)
      ELSE AddAlpha(FoldLeft(Fill, Array(2 ^ (c.p.l_skip + n_logup(c)), LAMBDA at : <<0, 0>>), sorted_cols))

gkr_input_evals(c) ==
  LET Unstacked(air, views) == Array(2 ^ air.log_height, LAMBDA i :
                                 FracsAt(c, air, RowParts(views, 2 ^ air.log_height, i)))
  IN  StackedFracs(c, interactions_layout(c).sorted_cols,
        [a \in AirIds(c) |-> Unstacked(c.airs[a], view_mats(c.airs[a]))] \o <<>>)

-----------------------------------------------------------------------------
(* Round 0.  The tables of eq on the cubes of dimension 0 to n, of the last *)
(* variables each, in one buffer; a fold drops the largest.                 *)

evals_eq_hypercubes(n, x) ==
  LET Cube(at) == CHOOSE k \in 0 .. n : 2 ^ k - 1 <= at /\ at < 2 ^ (k + 1) - 1
      tables == [k \in 0 .. n |-> evals_eq_hypercube(SubSeq(x, n - k + 1, n))] @@ <<>>
  IN  Array(2 ^ (n + 1) - 1, LAMBDA at : tables[Cube(at)][at + 1 - 2 ^ Cube(at)])

TrimBack(tree) ==
  IF Size(tree) > 1 THEN Array(Size(tree) \div 2, LAMBDA at : tree[at]) ELSE tree

eq_xi_tree(c, a) ==
  evals_eq_hypercubes(n_lift(c, a), SubSeq(c.xi, c.p.l_skip + 1, LiftedLogHeight(c, a)))

(* The selectors of the lifted trace, by column.                            *)
selectors(c, a) ==
  LET height == 2 ^ c.airs[a].log_height
  IN  Array(3, LAMBDA k : Array(2 ^ LiftedLogHeight(c, a), LAMBDA i : selector(k, i % height, height)))

(* The points of the cosets g^1 D to g^d D, coset by coset at each element  *)
(* of D, and the columns there above x, by an interpolation on D.           *)
round0_points(l_skip, d) ==
  LET omega_skip == two_adic_generator(l_skip)
  IN  Array(d * 2 ^ l_skip, LAMBDA k :
        (Pow(Generator, 1 + (k % d)) * Pow(omega_skip, k \div d)) % P)

LOCAL AtPoints(coeffs, points) ==
  Array(Size(points), LAMBDA k : [v \in DOMAIN coeffs |->
    Array(Size(coeffs[v]), LAMBDA j : horner_eval(coeffs[v][j], points[k]))] \o <<>>)

mats_at_zs(c, views, points, x) ==
  LET len == 2 ^ c.p.l_skip
      Block(col) == Array(len, LAMBDA z : col[(x * len + z) % Size(col)])
  IN  AtPoints([v \in DOMAIN views |-> Array(Size(views[v]), LAMBDA j : idft(Block(views[v][j])))] \o <<>>, points)

(* The columns at each point, for each place on the cube.                   *)
LOCAL CubeAtPoints(c, a, views, points) ==
  Array(2 ^ n_lift(c, a), LAMBDA x : mats_at_zs(c, views, points, x))

(* Point by point, a sum over the cube with the largest table of eq.        *)
LOCAL OverCubeAtPoints(c, a, d, eq, terms) ==
  Array(d * 2 ^ c.p.l_skip, LAMBDA k : SumTo(2 ^ n_lift(c, a), LAMBDA x :
    eq[2 ^ n_lift(c, a) - 1 + x] * terms[x, k]))

NoPoly == Array(0, LAMBDA k : 0)
Coeff(poly, k) == IF k \in DOMAIN poly THEN poly[k] ELSE 0

sumcheck_uni_round0_poly(l_skip, d, values) ==
  IF d = 0 THEN NoPoly ELSE from_geometric_cosets_evals_idft(values, d, Generator, Generator)

sumcheck_round0_deg(l_skip, d) == d * (2 ^ l_skip - 1)

(* q (Z^(2^l_skip) - 1), for a quotient of cosets of D.                     *)
TimesZerofier(l_skip, degree, q) ==
  Array(sumcheck_round0_deg(l_skip, degree) + 1, LAMBDA k :
    (Coeff(q, k - 2 ^ l_skip) - Coeff(q, k)) % P)

LOCAL Round0Views(c, a) == <<selectors(c, a)>> \o view_mats(c.airs[a])

LOCAL ZerocheckTerms(c, air, zerofier_invs, rows) ==
  [x \in DOMAIN rows, k \in DOMAIN zerofier_invs |->
     (acc_constraints(c, air, rows[x][k]) * zerofier_invs[k]) % P]

LOCAL ZerofierInvs(c, points) ==
  Array(Size(points), LAMBDA k : Recip((Pow(points[k], 2 ^ c.p.l_skip) - 1) % P))

(* The zerocheck polynomial vanishes on D: its quotient needs a coset less. *)
sp_0_zerocheck(c, a) ==
  LET air == c.airs[a]
      l_skip == c.p.l_skip
      d == air.degree - 1
  IN  IF air.degree = 0 THEN NoPoly
      ELSE TimesZerofier(l_skip, air.degree, sumcheck_uni_round0_poly(l_skip, d,
             OverCubeAtPoints(c, a, d, eq_xi_tree(c, a),
               ZerocheckTerms(c, air, ZerofierInvs(c, round0_points(l_skip, d)),
                              CubeAtPoints(c, a, Round0Views(c, a), round0_points(l_skip, d))))))

(* Numerator and denominator of the interactions.                           *)
LOCAL LogupTerms(c, air, d, eq_3bs, rows) ==
  [x \in DOMAIN rows |-> [k \in 0 .. d * 2 ^ c.p.l_skip - 1 |->
     acc_interactions(c, air, rows[x][k], eq_3bs)] @@ <<>>] @@ <<>>

LOCAL LogupPolys(c, a, d, eq, terms) ==
  [e \in 1 .. 2 |->
     sumcheck_uni_round0_poly(c.p.l_skip, d,
       OverCubeAtPoints(c, a, d, eq, [x \in DOMAIN terms, k \in 0 .. d * 2 ^ c.p.l_skip - 1 |->
         IF e = 1 THEN (terms[x][k][1] * norm_factor(c, a)) % P ELSE terms[x][k][2]]))] \o <<>>

sp_0_logup(c, a) ==
  LET air == c.airs[a]
  IN  IF air.interactions = <<>> THEN <<NoPoly, NoPoly>>
      ELSE LogupPolys(c, a, air.degree, eq_xi_tree(c, a),
             LogupTerms(c, air, air.degree, eq_3b(c, a),
               CubeAtPoints(c, a, Round0Views(c, a), round0_points(c.p.l_skip, air.degree))))

sumcheck_uni_round0_polys(c) ==
  [logup |-> [a \in AirIds(c) |-> sp_0_logup(c, a)] \o <<>>,
   zerocheck |-> [a \in AirIds(c) |-> sp_0_zerocheck(c, a)] \o <<>>]

-----------------------------------------------------------------------------
(* What all provers do with these polynomials: multiply each by its eq      *)
(* factor in the first variable, claim the sums of the logup ones over D,   *)
(* and batch them with powers of mu.                                        *)

eq_sharp_uni_poly(xi_1) == idft(evals_eq_hypercube(xi_1))

eval_eq_sharp_uni(l_skip, xi_1, z) ==
  LET eq_xi_evals == evals_eq_hypercube(xi_1)
  IN  SumTo(2 ^ l_skip, LAMBDA i :
        eval_eq_uni(l_skip, z, Pow(two_adic_generator(l_skip), i)) * eq_xi_evals[i])

Log2Ceil(n) == CHOOSE k \in 0 .. n : 2 ^ k >= n /\ 2 ^ k < 2 * n

LOCAL MultiplyOn(log, p, q) ==
  LET p_evals == dft(p, log)
      q_evals == dft(q, log)
  IN  idft(Array(2 ^ log, LAMBDA i : (p_evals[i] * q_evals[i]) % P))

LOCAL Truncated(poly, len) == Array(len, LAMBDA k : Coeff(poly, k))

SumOverDomain(l_skip, coeffs) ==
  (2 ^ l_skip * SumTo(Size(coeffs), LAMBDA k : IF k % 2 ^ l_skip = 0 THEN coeffs[k] ELSE 0)) % P

(* The power of mu of the e-th term of an AIR: 1 and 2 for logup, and 3.    *)
mu_pow(c, a, e) ==
  Pow(c.mu, IF e = 3 THEN 2 * Len(c.airs) + a - 1 ELSE 2 * (a - 1) + e - 1)

LOCAL BatchedTerms(c, s_0_logup, s_0_zc) ==
  LET num_traces == Len(c.airs)
      Claim(e) == [a \in AirIds(c) |-> SumOverDomain(c.p.l_skip, s_0_logup[a][e])] \o <<>>
  IN  [numerator_term_per_air |-> Claim(1), denominator_term_per_air |-> Claim(2),
       univariate_round_coeffs |-> Array(Size(s_0_zc), LAMBDA k :
         (s_0_zc[k] + SumTo(2 * num_traces, LAMBDA i :
           mu_pow(c, 1 + (i \div 2), 1 + (i % 2)) * s_0_logup[1 + (i \div 2)][1 + (i % 2)][k])) % P),
       sumcheck_round_polys |-> <<>>, column_openings |-> <<>>]

batch_round0(c, sp_0) ==
  LET l_skip == c.p.l_skip
      sp_0_len == sumcheck_round0_deg(l_skip, Degree(c)) + 1
      s_0_len == sumcheck_round0_deg(l_skip, Degree(c) + 1) + 1
      Times(eq, sp) == Truncated(MultiplyOn(Log2Ceil(s_0_len), eq, Truncated(sp, sp_0_len)), s_0_len)
      Logup(eq_sharp) == [a \in AirIds(c) |-> [e \in 1 .. 2 |-> Times(eq_sharp, sp_0.logup[a][e])] \o <<>>] \o <<>>
      sp_0_zc == Array(sp_0_len, LAMBDA k : SumTo(Len(c.airs), LAMBDA a :
        mu_pow(c, a + 1, 3) * Coeff(sp_0.zerocheck[a + 1], k)))
  IN  BatchedTerms(c, Logup(eq_sharp_uni_poly(SubSeq(c.xi, 1, l_skip))),
                   Times(eq_uni_poly(l_skip, c.xi[1]), sp_0_zc))

-----------------------------------------------------------------------------
(* The multilinear rounds of the reference.  Its state is [mats, sels,      *)
(* eq_xi, eq_ns, eq_sharp_ns, zc_tilde, logup_tilde, prev_s_eval]: folded   *)
(* columns, the tables of eq, what the bound variables contribute, and the  *)
(* values of the AIRs all of whose variables are bound.                     *)

reference_fold_evals(c, s_0) ==
  LET l_skip == c.p.l_skip
      Fold(cols) == Array(Size(cols), LAMBDA j : fold_ple_evals(l_skip, cols[j], c.r[1]))
      FoldAll(views) == [v \in DOMAIN views |-> Fold(views[v])] \o <<>>
  IN  [mats |-> [a \in AirIds(c) |-> FoldAll(view_mats(c.airs[a]))] \o <<>>,
       sels |-> [a \in AirIds(c) |-> Fold(selectors(c, a))] \o <<>>,
       eq_xi |-> [a \in AirIds(c) |-> TrimBack(eq_xi_tree(c, a))] \o <<>>,
       eq_ns |-> <<eval_eq_uni(l_skip, c.xi[1], c.r[1])>>,
       eq_sharp_ns |-> <<eval_eq_sharp_uni(l_skip, SubSeq(c.xi, 1, l_skip), c.r[1])>>,
       zc_tilde |-> [a \in AirIds(c) |-> 0], logup_tilde |-> [a \in AirIds(c) |-> <<0, 0>>],
       prev_s_eval |-> horner_eval(s_0, c.r[1])]

LOCAL Interpolated(views, y, x) ==
  [v \in DOMAIN views |-> Array(Size(views[v]), LAMBDA j :
     Linear(views[v][j][2 * y], views[v][j][2 * y + 1], x))] \o <<>>

(* The three sums of an AIR, over these rows of its cube and on one row     *)
(* when all variables are bound.                                            *)
LOCAL Normed(c, a, logup, zc) == <<(logup[1] * norm_factor(c, a)) % P, logup[2], zc>>

LOCAL EqTable(s, a, num_y) == [y \in 1 .. num_y |-> s.eq_xi[a][num_y - 2 + y]]

round_sums(c, s, a, rows) ==
  LET num_y == Size(rows)
      Logup(eq_3bs) == [y \in 1 .. num_y |-> acc_interactions(c, c.airs[a], rows[y - 1], eq_3bs)] \o <<>>
  IN  Normed(c, a, WeightedSums(EqTable(s, a, num_y), Logup(eq_3b(c, a))),
             SumTo(num_y, LAMBDA y : s.eq_xi[a][num_y - 1 + y] * acc_constraints(c, c.airs[a], rows[y])))

evals_at_r(c, a, row) ==
  Normed(c, a, acc_interactions(c, c.airs[a], row, eq_3b(c, a)), acc_constraints(c, c.airs[a], row))

(* Terms of exhausted AIRs: the values at r with eq, then one more          *)
(* challenge in each round.                                                 *)
WithTildeEvals(c, s, round, at_r) ==
  LET last == Len(s.eq_ns)
      Logup(a, e) == IF n_lift(c, a) + 1 = round THEN s.eq_sharp_ns[last] * at_r[a][e]
                     ELSE s.logup_tilde[a][e] * c.r[round]
      Zc(a) == IF n_lift(c, a) + 1 = round THEN s.eq_ns[last] * at_r[a][3] ELSE s.zc_tilde[a] * c.r[round]
      Late(a) == round > n_lift(c, a)
  IN  [s EXCEPT !.zc_tilde = [a \in AirIds(c) |-> IF Late(a) THEN Zc(a) % P ELSE @[a]] \o <<>>,
                !.logup_tilde = [a \in AirIds(c) |->
                   IF Late(a) /\ c.airs[a].interactions # <<>>
                   THEN [e \in 1 .. 2 |-> Logup(a, e) % P] \o <<>> ELSE @[a]] \o <<>>]

(* The sums of the other AIRs, for each x.                                  *)
Heads(c, round, sums) ==
  [a \in AirIds(c) |-> IF round > n_lift(c, a) THEN <<>>
                       ELSE [x \in 1 .. Degree(c) |-> sums[a, x]] \o <<>>] \o <<>>

reference_tilde_evals(c, s, round) ==
  LET First(cols) == Array(Size(cols), LAMBDA j : cols[j][0])
      Row(views) == [v \in DOMAIN views |-> First(views[v])] \o <<>>
  IN  WithTildeEvals(c, s, round, [a \in AirIds(c) |-> evals_at_r(c, a, Row(<<s.sels[a]>> \o s.mats[a]))])

reference_polys_eval(c, s, round) ==
  LET Rows(a, x) == Array(2 ^ (n_lift(c, a) - round), LAMBDA y :
                      Interpolated(<<s.sels[a]>> \o s.mats[a], y, x))
  IN  Heads(c, round, [a \in AirIds(c), x \in 1 .. Degree(c) |-> round_sums(c, s, a, Rows(a, x))])

(* The values at 0, 1, ... of a polynomial determine its value at x.        *)
lagrange_interpolate(evals, x) ==
  LET n == Size(evals)
      Basis(i) == ProductTo(n, LAMBDA j : IF j = i THEN 1 ELSE (x - j) * Recip((i - j) % P))
  IN  SumTo(n, LAMBDA i : evals[i] * Basis(i))

(* The polynomial of a round: eq times the sums of the AIRs that still have *)
(* variables, plus X times the terms of the tail.  The value of the first   *)
(* factor at 0 follows from the claim.                                      *)
LOCAL Sampled(xi_cur, prev_s_eval, sp_heads, sp_tail, x) ==
  LET sp_0 == (((prev_s_eval - xi_cur * sp_heads[0] - sp_tail) % P) * Recip((1 - xi_cur) % P)) % P
      evals == Array(Size(sp_heads) + 1, LAMBDA i : IF i = 0 THEN sp_0 ELSE sp_heads[i - 1])
  IN  (Linear(1 - xi_cur, xi_cur, x) * lagrange_interpolate(evals, x) + sp_tail * x) % P

head_and_tail(c, s, round, heads, tail, x) ==
  LET Weighted(a, sums, eq_sharp, eq) ==
        eq_sharp * (mu_pow(c, a, 1) * sums[1] + mu_pow(c, a, 2) * sums[2]) + eq * mu_pow(c, a, 3) * sums[3]
      OverAirs(T, Term(_)) == SumTo(Len(c.airs), LAMBDA a : IF a + 1 \in T THEN Term(a + 1) ELSE 0)
      heads_sum == Array(Degree(c), LAMBDA i : OverAirs(AirIds(c) \ tail, LAMBDA a :
        Weighted(a, heads[a][i + 1], s.eq_sharp_ns[round], s.eq_ns[round])))
      tail_sum == OverAirs(tail, LAMBDA a : Weighted(a, s.logup_tilde[a] \o <<s.zc_tilde[a]>>, 1, 1))
  IN  Sampled(c.xi[c.p.l_skip + round], s.prev_s_eval, heads_sum, tail_sum, x)

(* The tail begins at the first AIR without variables: AIRs are sorted.     *)
tail_airs(c, round) == {a \in AirIds(c) : \E b \in 1 .. a : round > DimOf(c, b)}

batch_s(c, s, round, heads, x) == head_and_tail(c, s, round, heads, tail_airs(c, round), x)

batch_s_evals(c, s, round, heads) ==
  [x \in 1 .. Degree(c) + 1 |-> batch_s(c, s, round, heads, x)] \o <<>>

(* The next challenge binds a variable.                                     *)
PushEq(c, s, round) ==
  LET eq_x == eval_eq_mle(<<c.xi[c.p.l_skip + round]>>, <<c.r[round + 1]>>)
  IN  [s EXCEPT !.eq_ns = Append(@, (@[round] * eq_x) % P),
                !.eq_sharp_ns = Append(@, (@[round] * eq_x) % P)]

LOCAL TrimBacks(eq_xi) == [a \in DOMAIN eq_xi |-> TrimBack(eq_xi[a])] \o <<>>

reference_fold_mle_evals(c, s, round, heads) ==
  LET r_round == c.r[round + 1]
      Fold(cols) == Array(Size(cols), LAMBDA j : fold_mle_evals(cols[j], r_round))
  IN  [PushEq(c, s, round) EXCEPT
         !.mats = [a \in AirIds(c) |-> [v \in DOMAIN @[a] |-> Fold(@[a][v])] \o <<>>] \o <<>>,
         !.sels = [a \in AirIds(c) |-> Fold(@[a])] \o <<>>,
         !.eq_xi = TrimBacks(@),
         !.prev_s_eval = batch_s(c, s, round, heads, r_round)]

(* What is left of each column is its opening; the common part and its      *)
(* rotation, which were last, come first.                                   *)
LOCAL InOrder(air, Opening(_, _), Width(_)) ==
  LET parts == Len(air.parts)
      Part(k) == IF air.need_rot
                 THEN FlattenSeq([j \in 1 .. Width(2 * k) |-> <<Opening(2 * k - 1, j - 1), Opening(2 * k, j - 1)>>])
                 ELSE [j \in 1 .. Width(k) |-> Opening(k, j - 1)]
  IN  [k \in 1 .. parts |-> Part(IF k = 1 THEN parts ELSE k - 1) \o <<>>] \o <<>>

reference_column_openings(c, s) ==
  [a \in AirIds(c) |-> InOrder(c.airs[a], LAMBDA v, j : s.mats[a][v][j][0], LAMBDA v : Size(s.mats[a][v]))] \o <<>>

-----------------------------------------------------------------------------
(* The CPU backend: row-major matrices, blocks of rows that are transformed *)
(* together, and the constraints on packs of points.                        *)

view_mats_rowmaj(air) ==
  LET Views(m) == IF air.need_rot THEN <<[rm |-> m, offset |-> 0], [rm |-> m, offset |-> 1]>>
                  ELSE <<[rm |-> m, offset |-> 0]>>
  IN  FlattenSeq([k \in DOMAIN air.parts |-> Views(to_row_major(MainParts(air)[k]))]) \o <<>>

LOCAL RmHeight(rm) == Size(rm.values) \div rm.width

sels_rm(c, a) ==
  LET height == 2 ^ c.airs[a].log_height
  IN  [rm |-> [values |-> Array(3 * 2 ^ LiftedLogHeight(c, a), LAMBDA at :
                 selector(at % 3, (at \div 3) % height, height)), width |-> 3],
       offset |-> 0]

extract_rm_block(l_skip, view, x) ==
  LET w == view.rm.width
  IN  Array(w * 2 ^ l_skip, LAMBDA at :
        view.rm.values[((x * 2 ^ l_skip + (at \div w) + view.offset) % RmHeight(view.rm)) * w + (at % w)])

batch_coset_dft(l_skip, coeffs, w, shift) ==
  LET columns == Array(w, LAMBDA j : dft(Array(2 ^ l_skip, LAMBDA k : (coeffs[j][k] * Pow(shift, k)) % P), l_skip))
  IN  Array(w * 2 ^ l_skip, LAMBDA at : columns[at % w][at \div w])

LOCAL AllCosets(l_skip, coeffs, w, d) ==
  Array(d, LAMBDA ci : batch_coset_dft(l_skip, coeffs, w, Pow(Generator, ci + 1)))

extract_and_dft_blocks(l_skip, views, x, d) ==
  LET Coeffs(block, w) == Array(w, LAMBDA j : idft(Array(2 ^ l_skip, LAMBDA z : block[z * w + j])))
  IN  [v \in DOMAIN views |->
         AllCosets(l_skip, Coeffs(extract_rm_block(l_skip, views[v], x), views[v].rm.width),
                   views[v].rm.width, d)] \o <<>>

LOCAL RowAt(views, cosets, ci, z_idx) ==
  [v \in DOMAIN views |-> LET w == views[v].rm.width
                          IN  Array(w, LAMBDA col : cosets[v][ci][z_idx * w + col])] \o <<>>

(* A pack has the rows of PackWidth points, zeros behind the last one.      *)
packed_row_parts(l_skip, views, cosets, ci, z_base) ==
  LET Zeros(view) == Array(view.rm.width, LAMBDA col : 0)
  IN  Array(PackWidth, LAMBDA lane :
        IF z_base + lane < 2 ^ l_skip THEN RowAt(views, cosets, ci, z_base + lane)
        ELSE [v \in DOMAIN views |-> Zeros(views[v])] \o <<>>)

(* A row is read where it lies.                                             *)
build_row_parts(mats, i, height) ==
  LET Row(view) == Array(view.rm.width, LAMBDA col :
        view.rm.values[((i + view.offset) % RmHeight(view.rm)) * view.rm.width + col])
  IN  <<Array(3, LAMBDA k : selector(k, i, height))>> \o [v \in DOMAIN mats |-> Row(mats[v])]

cpu_gkr_input_evals(c) ==
  LET Unstacked(air, mats) == Array(2 ^ air.log_height, LAMBDA i :
                                FracsAt(c, air, build_row_parts(mats, i, 2 ^ air.log_height)))
  IN  StackedFracs(c, interactions_layout(c).sorted_cols,
        [a \in AirIds(c) |-> Unstacked(c.airs[a], view_mats_rowmaj(c.airs[a]))] \o <<>>)

LOCAL CosetBlocks(c, a, views, d) ==
  Array(2 ^ n_lift(c, a), LAMBDA x : extract_and_dft_blocks(c.p.l_skip, views, x, d))

LOCAL PackedRows(c, views, blocks, d) ==
  LET Lane(cosets, ci, z_idx) ==
        packed_row_parts(c.p.l_skip, views, cosets, ci, z_idx - (z_idx % PackWidth))[z_idx % PackWidth]
  IN  Array(Size(blocks), LAMBDA x : Array(d * 2 ^ c.p.l_skip, LAMBDA k : Lane(blocks[x], k % d, k \div d)))

LOCAL BlockRows(c, views, blocks, d) ==
  Array(Size(blocks), LAMBDA x : Array(d * 2 ^ c.p.l_skip, LAMBDA k : RowAt(views, blocks[x], k % d, k \div d)))

LOCAL CpuViews(c, a) == <<sels_rm(c, a)>> \o view_mats_rowmaj(c.airs[a])

cpu_sp_0_zerocheck(c, a) ==
  LET air == c.airs[a]
      l_skip == c.p.l_skip
      d == air.degree - 1
      zerofier_invs == Array(d * 2 ^ l_skip, LAMBDA k : Recip((Pow(Generator, ((k % d) + 1) * 2 ^ l_skip) - 1) % P))
  IN  IF air.degree = 0 THEN NoPoly
      ELSE TimesZerofier(l_skip, air.degree, sumcheck_uni_round0_poly(l_skip, d,
             OverCubeAtPoints(c, a, d, eq_xi_tree(c, a),
               ZerocheckTerms(c, air, zerofier_invs,
                 PackedRows(c, CpuViews(c, a), CosetBlocks(c, a, CpuViews(c, a), d), d)))))

cpu_sp_0_logup(c, a) ==
  LET air == c.airs[a]
  IN  IF air.interactions = <<>> THEN <<NoPoly, NoPoly>>
      ELSE LogupPolys(c, a, air.degree, eq_xi_tree(c, a),
             LogupTerms(c, air, air.degree, eq_3b(c, a),
               BlockRows(c, CpuViews(c, a), CosetBlocks(c, a, CpuViews(c, a), air.degree), air.degree)))

cpu_uni_round0_polys(c) ==
  [logup |-> [a \in AirIds(c) |-> cpu_sp_0_logup(c, a)] \o <<>>,
   zerocheck |-> [a \in AirIds(c) |-> cpu_sp_0_zerocheck(c, a)] \o <<>>]

fold_ple_evals_rowmajor(l_skip, view, r) ==
  LET n == 2 ^ l_skip
      w == view.rm.width
      omega == two_adic_generator(l_skip)
      col_scale == Array(n, LAMBDA i : (Pow(omega, i) * Recip(r - Pow(omega, i))) % P)
      scaling_factor == ((Pow(r, n) - 1) * Recip(n % P)) % P
      height == RmHeight(view.rm)
      new_height == IF height > n THEN height \div n ELSE 1
      Row(x, z) == (x * n + z + view.offset) % height
  IN  [values |-> Array(w * new_height, LAMBDA at :
         (SumTo(n, LAMBDA z : col_scale[z] * view.rm.values[Row(at \div w, z) * w + (at % w)]) * scaling_factor) % P),
       width |-> w]

cpu_fold_evals(c, s_0) ==
  LET Fold(view) == fold_ple_evals_rowmajor(c.p.l_skip, view, c.r[1])
      FoldAll(views) == [v \in DOMAIN views |-> Fold(views[v])] \o <<>>
  IN  [reference_fold_evals(c, s_0) EXCEPT
         !.mats = [a \in AirIds(c) |-> FoldAll(view_mats_rowmaj(c.airs[a]))] \o <<>>,
         !.sels = [a \in AirIds(c) |-> Fold(sels_rm(c, a))] \o <<>>]

cpu_tilde_evals(c, s, round) ==
  LET Row(mats) == [v \in DOMAIN mats |-> mats[v].values]
  IN  WithTildeEvals(c, s, round, [a \in AirIds(c) |-> evals_at_r(c, a, Row(<<s.sels[a]>> \o s.mats[a]))])

(* Rows 2y and 2y + 1 lie next to each other.                               *)
sumcheck_round_poly_evals_rm(m, y, x) ==
  Array(m.width, LAMBDA j : Linear(m.values[2 * y * m.width + j], m.values[(2 * y + 1) * m.width + j], x))

cpu_polys_eval(c, s, round) ==
  LET Row(mats, y, x) == [v \in DOMAIN mats |-> sumcheck_round_poly_evals_rm(mats[v], y, x)] \o <<>>
      Rows(a, x) == Array(2 ^ (n_lift(c, a) - round), LAMBDA y : Row(<<s.sels[a]>> \o s.mats[a], y, x))
  IN  Heads(c, round, [a \in AirIds(c), x \in 1 .. Degree(c) |-> round_sums(c, s, a, Rows(a, x))])

fold_mle_evals_rm(m, r) ==
  IF RmHeight(m) <= 1 THEN m
  ELSE [m EXCEPT !.values = Array(Size(@) \div 2, LAMBDA at :
          LET j == at % m.width
              y == at \div m.width
          IN  (m.values[2 * y * m.width + j] * (1 - r) + m.values[(2 * y + 1) * m.width + j] * r) % P)]

cpu_fold_mle_evals(c, s, round, heads) ==
  LET Fold(m) == fold_mle_evals_rm(m, c.r[round + 1])
  IN  [PushEq(c, s, round) EXCEPT
         !.mats = [a \in AirIds(c) |-> [v \in DOMAIN @[a] |-> Fold(@[a][v])] \o <<>>] \o <<>>,
         !.sels = [a \in AirIds(c) |-> Fold(@[a])] \o <<>>,
         !.eq_xi = TrimBacks(@),
         !.prev_s_eval = batch_s(c, s, round, heads, c.r[round + 1])]

cpu_column_openings(c, s) ==
  [a \in AirIds(c) |-> InOrder(c.airs[a], LAMBDA v, j : s.mats[a][v].values[j],
                               LAMBDA v : s.mats[a][v].width)] \o <<>>

-----------------------------------------------------------------------------
(* The verifier.  A short trace is evaluated as a trace over the subgroup   *)
(* of D on which it lives.                                                  *)

progression_exp_2(m, l) == ProductTo(l, LAMBDA i : 1 + Pow(m, 2 ^ i))

LOCAL VerifierSelectors(l, rs_n) ==
  LET inv == Recip(2 ^ l % P)
      last == Len(rs_n) - 1
      is_first_row == (((inv * progression_exp_2(rs_n[1], l)) % P)
                         * ProductTo(last, LAMBDA i : 1 - rs_n[i + 2])) % P
      is_last_row == (((inv * progression_exp_2((rs_n[1] * two_adic_generator(l)) % P, l)) % P)
                        * ProductTo(last, LAMBDA i : rs_n[i + 2])) % P
  IN  Array(3, LAMBDA k : <<is_first_row, (1 - is_last_row) % P, is_last_row>>[k + 1])

VerifierRowParts(c, a, openings) ==
  LET n == DimOf(c, a)
      need_rot == c.airs[a].need_rot
      parts == Tail(openings) \o <<openings[1]>>
      Row(claims, rot) == Array(Len(claims), LAMBDA j : claims[j + 1][rot])
      Rows(claims) == IF need_rot THEN <<Row(claims, 1), Row(claims, 2)>> ELSE <<Row(claims, 1)>>
  IN  <<IF n < 0 THEN VerifierSelectors(c.p.l_skip + n, <<Pow(c.r[1], 2 ^ (-n))>>)
        ELSE VerifierSelectors(c.p.l_skip, SubSeq(c.r, 1, n + 1))>>
        \o FlattenSeq([k \in DOMAIN parts |-> Rows(column_openings_by_rot(parts[k], need_rot))])

(* The verifier counts the rows of the interactions itself.                 *)
verifier_eq_3b(c, a) ==
  LET Before(i) == FoldLeft(LAMBDA sum, b : sum + Len(c.airs[b].interactions) * 2 ^ LiftedLogHeight(c, b),
                            (i - 1) * 2 ^ LiftedLogHeight(c, a), [b \in 1 .. a - 1 |-> b])
  IN  [i \in DOMAIN c.airs[a].interactions |-> eq_3b_at(c, a, Before(i))] \o <<>>

(* eq on the bound variables, times the challenges of the later rounds.     *)
LOCAL EqAtR(c, n, eq_uni) ==
  LET n_global == Len(c.r) - 1
  IN  (((eq_uni * eval_eq_mle(SubSeq(c.xi, c.p.l_skip + 1, c.p.l_skip + n), SubSeq(c.r, 2, n + 1))) % P)
        * ProductTo(n_global - n, LAMBDA i : c.r[n + 2 + i])) % P

LOCAL Batched(c, a, sums, eq_uni, eq_sharp_uni) ==
  LET n == n_lift(c, a)
  IN  ((mu_pow(c, a, 1) * sums[1] + mu_pow(c, a, 2) * sums[2]) % P) * EqAtR(c, n, eq_sharp_uni)
        + ((mu_pow(c, a, 3) * sums[3]) % P) * EqAtR(c, n, eq_uni)

LOCAL EvaluatedAt(c, a, row_parts) ==
  Normed(c, a, acc_interactions(c, c.airs[a], row_parts, verifier_eq_3b(c, a)),
         acc_constraints(c, c.airs[a], row_parts))

(* What an AIR counts in the claim that is left in the end.                 *)
evaluated(c, a, openings) ==
  Batched(c, a, EvaluatedAt(c, a, VerifierRowParts(c, a, openings)),
          eval_eq_uni(c.p.l_skip, c.xi[1], c.r[1]),
          eval_eq_sharp_uni(c.p.l_skip, SubSeq(c.xi, 1, c.p.l_skip), c.r[1]))

verify_zerocheck_and_logup(c, p_xi_claim, q_xi_claim, proof) ==
  LET l_skip == c.p.l_skip
      num_traces == Len(c.airs)
      Sum(terms) == SumTo(num_traces, LAMBDA a : terms[a + 1])
      sum_claim == SumTo(num_traces, LAMBDA a :
        mu_pow(c, a + 1, 1) * proof.numerator_term_per_air[a + 1]
          + mu_pow(c, a + 1, 2) * proof.denominator_term_per_air[a + 1])
      cur_sum == Iterate(Len(c.r) - 1, horner_eval(proof.univariate_round_coeffs, c.r[1]),
        LAMBDA j, cur :
          LET evals == proof.sumcheck_round_polys[j + 1]
          IN  lagrange_interpolate(Array(Len(evals) + 1, LAMBDA i :
                IF i = 0 THEN (cur - evals[1]) % P ELSE evals[i]), c.r[j + 2]))
  IN  /\ p_xi_claim = Sum(proof.numerator_term_per_air)
      /\ q_xi_claim = (Sum(proof.denominator_term_per_air) + c.alpha) % P
      /\ sum_claim = SumOverDomain(l_skip, proof.univariate_round_coeffs)
      /\ cur_sum = SumTo(num_traces, LAMBDA a : evaluated(c, a + 1, proof.column_openings[a + 1]))

=============================================================================
