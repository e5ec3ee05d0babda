--------------------------------- MODULE Whir ---------------------------------
(***************************************************************************)
(* WHIR: the opening of the committed matrices at a point u.  The three    *)
(* provers keep the batched polynomial and its weight differently, the     *)
(* reference and the CPU as values on the hypercube, the GPU as            *)
(* coefficients and moments.  A prover state is                            *)
(*   [f, w, log_rs, rs_tree, g_tree, proof],                               *)
(* trees are sets of at most one.  Challenges are parameters: c has mu,    *)
(* alphas, z0s, gammas and, for each round, the query indices.  Proof of   *)
(* work is left out.                                                       *)
(***************************************************************************)
EXTENDS StackedPcs

num_whir_rounds(p) == Len(p.queries)
Only(S) == CHOOSE x \in S : TRUE

EmptyProof == [sumcheck_polys |-> <<>>, codeword_commits |-> <<>>, ood_values |-> <<>>,
               initial_rows |-> <<>>, initial_proofs |-> <<>>,
               codeword_values |-> <<>>, codeword_proofs |-> <<>>, final_poly |-> <<>>]

LOCAL State(p, f, w) ==
  [f |-> f, w |-> w, log_rs |-> p.l_skip + p.n_stack + p.log_blowup,
   rs_tree |-> {}, g_tree |-> {}, proof |-> EmptyProof]

(* The columns of all commitments, batched with the powers of mu.           *)
LOCAL Batch(columns, mu, height) ==
  Array(height, LAMBDA i : SumTo(Len(columns), LAMBDA j : Pow(mu, j) * columns[j + 1][i]))

LOCAL Plus(w, Term(_)) == Array(Size(w), LAMBDA b : (w[b] + Term(b)) % P)

-----------------------------------------------------------------------------
(* The reference prover.                                                    *)

reference_start(p, commits, mu, u) ==
  LET height == 2 ^ (p.l_skip + p.n_stack)
      Mles(d) == [j \in 1 .. d.matrix.width |->
        coeffs_to_evals(eval_to_coeff_rs_message(p.l_skip, Chunk(d.matrix.values, j - 1, height)))]
  IN  State(p, Batch(FlattenSeq([d \in DOMAIN commits |-> Mles(commits[d])]), mu, height),
            evals_mobius_eq_hypercube(u))

reference_sumcheck(s) ==
  [x \in 1 .. 2 |-> SumTo(Size(s.f) \div 2, LAMBDA y :
     Linear(s.f[2 * y], s.f[2 * y + 1], x) * Linear(s.w[2 * y], s.w[2 * y + 1], x))]

reference_fold(s, alpha) ==
  [s EXCEPT !.f = fold_mle_evals(s.f, alpha), !.w = fold_mle_evals(s.w, alpha)]

reference_codeword(p, s) ==
  MerkleTree(ColMajor(dft(evals_to_coeffs(s.f), s.log_rs - 1), 1), 2 ^ p.k_whir)

reference_ood(s, z0) ==
  eval_coeffs_at_point(evals_to_coeffs(s.f), exp_powers_of_2(z0, Log2(Size(s.f))))

reference_final(s) == evals_to_coeffs(s.f)

(* Rows and siblings per query: of each commitment in the first round, of   *)
(* the previous codeword, whose rows are single values, later.              *)
LOCAL Opened(indices, tree, Rows(_, _)) ==
  [rows |-> [q \in DOMAIN indices |-> Rows(tree, indices[q])],
   proofs |-> [q \in DOMAIN indices |-> query_merkle_proof(tree, indices[q])]]

reference_initial_openings(commits, indices) ==
  LET opened == [d \in DOMAIN commits |-> Opened(indices, commits[d].tree, get_opened_rows)]
  IN  [rows |-> [d \in DOMAIN commits |-> opened[d].rows],
       proofs |-> [d \in DOMAIN commits |-> opened[d].proofs]]

reference_openings(s, indices) ==
  Opened(indices, Only(s.rs_tree), LAMBDA tree, i : FlattenSeq(get_opened_rows(tree, i)))

w_evals_accumulate(w, z, gamma) ==
  LET Add(eq) == Plus(w, LAMBDA b : gamma * eq[b])
  IN  Add(evals_eq_hypercube(exp_powers_of_2(z, Log2(Size(w)))))

reference_accumulate(s, z0, zs, gamma) ==
  [s EXCEPT !.w = Iterate(Len(zs), w_evals_accumulate(s.w, z0, gamma),
                          LAMBDA i, w : w_evals_accumulate(w, zs[i + 1], Pow(gamma, i + 2)))]

-----------------------------------------------------------------------------
(* The CPU prover: as the reference, with its own transforms and trees.     *)

cpu_start(p, commits, mu, u) ==
  LET height == 2 ^ (p.l_skip + p.n_stack)
      Mles(d) == [j \in 1 .. d.matrix.width |->
        coeffs_to_evals(eval_to_coeff_cpu(Chunk(d.matrix.values, j - 1, height), DftTwiddles(p.l_skip)))]
  IN  State(p, Batch(FlattenSeq([d \in DOMAIN commits |-> Mles(commits[d])]), mu, height),
            evals_mobius_eq_hypercube(u))

cpu_sumcheck(s) ==
  [x \in 1 .. 2 |-> SumTo(Size(s.f) \div 2, LAMBDA y :
     Linear(s.f[2 * y], s.f[2 * y + 1], x) * Linear(s.w[2 * y], s.w[2 * y + 1], x))]

cpu_fold(s, alpha) ==
  LET Folded(v) == Array(Size(v) \div 2, LAMBDA y : Linear(v[2 * y], v[2 * y + 1], alpha))
  IN  [s EXCEPT !.f = Folded(@), !.w = Folded(@)]

cpu_ood(s, z0) ==
  eval_coeffs_at_point(evals_to_coeffs(s.f), exp_powers_of_2(z0, Log2(Size(s.f))))
cpu_final(s) == evals_to_coeffs(s.f)

build_ef_merkle_tree_packed(g_rs, rows_per_query) ==
  CpuMerkleTree([values |-> g_rs, width |-> 1], rows_per_query)

cpu_codeword(p, s) ==
  build_ef_merkle_tree_packed(dft(evals_to_coeffs(s.f), s.log_rs - 1), 2 ^ p.k_whir)

cpu_initial_openings(commits, indices) ==
  LET opened == [d \in DOMAIN commits |-> Opened(indices, commits[d].tree, cpu_get_opened_rows)]
  IN  [rows |-> [d \in DOMAIN commits |-> opened[d].rows],
       proofs |-> [d \in DOMAIN commits |-> opened[d].proofs]]

cpu_openings(s, indices) ==
  Opened(indices, Only(s.rs_tree), LAMBDA tree, i : FlattenSeq(cpu_get_opened_rows(tree, i)))

fill_eq_evals(first, z_pows) ==
  Iterate(Len(z_pows), Array(1, LAMBDA i : first), LAMBDA j, eq :
    hypercube_stage(eq, z_pows[j + 1], LAMBDA z : 1 - z, LAMBDA z : z))

w_evals_accumulate_ef(w, z, gamma) ==
  LET Add(eq) == Plus(w, LAMBDA b : eq[b])
  IN  Add(fill_eq_evals(gamma, exp_powers_of_2(z, Log2(Size(w)))))

w_evals_accumulate_base(w, z, gamma) ==
  LET Add(eq) == Plus(w, LAMBDA b : gamma * eq[b])
  IN  Add(fill_eq_evals(1, exp_powers_of_2(z, Log2(Size(w)))))

cpu_accumulate(s, z0, zs, gamma) ==
  [s EXCEPT !.w = Iterate(Len(zs), w_evals_accumulate_ef(s.w, z0, gamma),
                          LAMBDA i, w : w_evals_accumulate_base(w, zs[i + 1], Pow(gamma, i + 2)))]

-----------------------------------------------------------------------------
(* The GPU prover.  It batches the traces themselves: a packet says where   *)
(* the columns of a trace lie in the stacked matrix.                        *)

packets(commits) ==
  LET Before(d) == FoldLeft(LAMBDA a, c : a + c.layout.width, 0, SubSeq(commits, 1, d - 1))
      Packet(d, t) ==
        LET s == commits[d].layout.sorted_cols[commits[d].layout.mat_starts[t] + 1]
        IN  [trace |-> commits[d].traces[t], stacked_row_start |-> s.row_idx,
             mu_idx |-> Before(d) + s.col_idx]
  IN  FlattenSeq([d \in DOMAIN commits |-> [t \in DOMAIN commits[d].traces |-> Packet(d, t)]])

(* The cells of a packet that lie in this row of the stacked matrix.        *)
whir_algebraic_batch_traces(pkts, mu, stacked_height, skip_domain) ==
  LET lifted(k) == IF k.trace.height >= skip_domain THEN k.trace.height ELSE skip_domain
      Stride(k) == IF skip_domain \div k.trace.height > 1 THEN skip_domain \div k.trace.height ELSE 1
      Value(k, cell) ==
        LET strided_row == cell % lifted(k)
        IN  IF strided_row % Stride(k) = 0
            THEN k.trace.values[((cell \div lifted(k)) * k.trace.height) + (strided_row \div Stride(k))]
            ELSE 0
      Term(k, row, offset) ==
        LET at == (offset * stacked_height) + row
        IN  IF k.stacked_row_start <= at /\ at < k.stacked_row_start + lifted(k) * k.trace.width
            THEN Pow(mu, k.mu_idx + offset) * Value(k, at - k.stacked_row_start) ELSE 0
      Offsets(k) == 1 + ((lifted(k) * k.trace.width) \div stacked_height)
  IN  Array(stacked_height, LAMBDA row : SumTo(Len(pkts), LAMBDA i :
        SumTo(Offsets(pkts[i + 1]), LAMBDA offset : Term(pkts[i + 1], row, offset))))

mle_interpolate_stage_ext(buffer, step) ==
  Array(Size(buffer), LAMBDA i :
    IF (i \div step) % 2 = 1 THEN Combine(FALSE, buffer[i], buffer[i - step]) ELSE buffer[i])

gpu_start(p, commits, mu, u) ==
  LET batched == whir_algebraic_batch_traces(packets(commits), mu, 2 ^ (p.l_skip + p.n_stack), 2 ^ p.l_skip)
  IN  State(p, Iterate(p.l_skip, batch_ntt_small(batched, p.l_skip, TRUE),
                       LAMBDA i, f : mle_interpolate_stage_ext(f, 2 ^ i)),
            gpu_evals_eq_hypercube(u))

whir_sumcheck_coeff_moments_round(s) ==
  <<SumTo(Size(s.f) \div 2, LAMBDA y : (s.f[2 * y] + s.f[2 * y + 1]) * s.w[2 * y + 1]),
    SumTo(Size(s.f) \div 2, LAMBDA y :
      ((s.f[2 * y] + 2 * s.f[2 * y + 1]) % P) * (3 * s.w[2 * y + 1] - s.w[2 * y]))>>

whir_fold_coeffs_and_moments(s, alpha) ==
  [s EXCEPT
     !.f = Array(Size(s.f) \div 2, LAMBDA y : (s.f[2 * y] + alpha * s.f[2 * y + 1]) % P),
     !.w = Array(Size(s.w) \div 2, LAMBDA y :
             ((1 - alpha) * s.w[2 * y] + (2 * alpha - 1) * s.w[2 * y + 1]) % P)]

gpu_codeword(p, s) ==
  LET height == 2 ^ (s.log_rs - 1)
      Leaves(matrix) == query_layer(Array(height, LAMBDA r : hash_slice(RowOf(matrix, r))), 2 ^ p.k_whir)
      Tree(matrix) == MerkleTreeGpu(matrix, 2 ^ p.k_whir, Leaves(matrix), TRUE)
  IN  Tree(ColMajor(batch_ntt(bit_rev(batch_expand_pad(s.f, 1, height, Size(s.f))), s.log_rs - 1, 1), 1))

eval_poly_ext_at_point_from_base(s, z0) == horner_eval(s.f, z0)

gpu_initial_openings(p, commits, indices) ==
  LET Matrix(d) == IF d.tree.backing # {} THEN Only(d.tree.backing)
                   ELSE gpu_rs_code_matrix(p, d.layout, d.traces, d.matrix)
      trees == [d \in DOMAIN commits |-> commits[d].tree]
      rows == batch_open_rows([d \in DOMAIN commits |-> Matrix(commits[d])], indices,
                              query_stride(trees[1]), trees[1].rows_per_query)
  IN  [rows |-> [d \in DOMAIN commits |-> [q \in DOMAIN indices |->
                   chunks_exact(rows[d][q], Size(rows[d][q]) \div trees[1].rows_per_query)]],
       proofs |-> batch_query_proofs(trees, indices)]

gpu_openings(s, indices) ==
  LET tree == Only(s.rs_tree)
      rows == batch_open_rows(<<Only(tree.backing)>>, indices, query_stride(tree), tree.rows_per_query)[1]
  IN  [rows |-> [q \in DOMAIN indices |-> [t \in 1 .. Size(rows[q]) |-> rows[q][t - 1]]],
       proofs |-> batch_query_proofs(<<tree>>, indices)[1]]

(* M(T) += gamma * z0^T + sum_i gamma^(i + 2) * z_i^T, with i from 0.       *)
w_moments_accumulate(s, z0, zs, gamma) ==
  LET log_height == Log2(Size(s.w))
      PowOf(pows2, exponent) ==
        ProductTo(log_height, LAMBDA bit : IF Bit(exponent, bit) = 1 THEN pows2[bit + 1] ELSE 1)
  IN  [s EXCEPT !.w = Plus(@, LAMBDA row :
         gamma * PowOf(exp_powers_of_2(z0, log_height), row)
         + SumTo(Len(zs), LAMBDA i :
             Pow(gamma, i + 2) * PowOf(exp_powers_of_2(zs[i + 1], log_height), row)))]

-----------------------------------------------------------------------------
(* The verifier.                                                            *)

(* From the values on the coset of x to the value of the fold at x^(2^k).   *)
binary_k_fold(values, alphas, x) ==
  LET n == Len(values)
      omega == two_adic_generator(Len(alphas))
      Fold(j, v) ==
        LET len == n \div 2 ^ (j + 1)
        IN  [i \in 1 .. len |->
              LET t == (Pow(omega, (i - 1) * 2 ^ j) * Pow(x, 2 ^ j)) % P
              IN  (v[i] + ((alphas[j + 1] - t) * (v[i] - v[i + len]) % P) * Half(Recip(t))) % P] \o <<>>
  IN  Iterate(Len(alphas), values, Fold)[1]

Alphas(p, c, round) == SubSeq(c.alphas, p.k_whir * (round - 1) + 1, p.k_whir * round)
LogRs(p, round) == p.l_skip + p.n_stack + p.log_blowup - (round - 1)

leaf_of(rows) == tree_compress([t \in DOMAIN rows |-> hash_slice(rows[t])])

(* A mutant of initial_query: only the opening of the common parts is       *)
(* checked against its root.                                                *)
initial_query_Common(p, proof, commitments, c, q) ==
  LET Row(t) == FlattenSeq([d \in DOMAIN commitments |-> proof.initial_rows[d][q][t]])
      Value(row) == SumTo(Len(row), LAMBDA j : Pow(c.mu, j) * row[j + 1])
  IN  [ok |-> merkle_verify(commitments[1], c.indices[1][q], leaf_of(proof.initial_rows[1][q]),
                            proof.initial_proofs[1][q]),
       values |-> [t \in 1 .. 2 ^ p.k_whir |-> Value(Row(t))]]

initial_query(p, proof, commitments, c, q) ==
  LET Row(t) == FlattenSeq([d \in DOMAIN commitments |-> proof.initial_rows[d][q][t]])
      Value(row) == SumTo(Len(row), LAMBDA j : Pow(c.mu, j) * row[j + 1])
  IN  [ok |-> \A d \in DOMAIN commitments :
                merkle_verify(commitments[d], c.indices[1][q], leaf_of(proof.initial_rows[d][q]),
                              proof.initial_proofs[d][q]),
       values |-> [t \in 1 .. 2 ^ p.k_whir |-> Value(Row(t))]]

codeword_query(proof, c, round, q) ==
  LET values == proof.codeword_values[round - 1][q]
  IN  [ok |-> merkle_verify(proof.codeword_commits[round - 1], c.indices[round][q],
                            leaf_of([t \in DOMAIN values |-> <<values[t]>>]),
                            proof.codeword_proofs[round - 1][q]),
       values |-> values]

Root(p, c, round, q) == Pow(two_adic_generator(LogRs(p, round)), c.indices[round][q])

whir_query(p, proof, commitments, c, round, q) ==
  LET Folded(query) == [ok |-> query.ok,
        y |-> binary_k_fold(query.values, Alphas(p, c, round), Root(p, c, round, q))]
  IN  Folded(IF round = 1 THEN initial_query(p, proof, commitments, c, q)
             ELSE codeword_query(proof, c, round, q))

(* The claim after a round: the sumchecks reduce it, the out-of-domain      *)
(* value and the folded openings are added with powers of gamma.            *)
round_claim(p, proof, c, round, claim, ys) ==
  LET Reduce(k, cl) ==
        LET at == p.k_whir * (round - 1) + k + 1
            ev == proof.sumcheck_polys[at]
        IN  interpolate_quadratic_at_012(cl - ev[1], ev[1], ev[2], c.alphas[at])
      ood == IF round < num_whir_rounds(p) THEN proof.ood_values[round] * c.gammas[round] ELSE 0
  IN  (Iterate(p.k_whir, claim, Reduce) + ood
        + SumTo(Len(ys), LAMBDA i : ys[i + 1] * Pow(c.gammas[round], i + 2))) % P

(* What the constraints of a round are for the final polynomial.            *)
final_terms(p, proof, c, round) ==
  LET t == p.k_whir * num_whir_rounds(p)
      j == p.k_whir * round
      left == SubSeq(c.alphas, j + 1, t)
      At(z) == (eval_eq_mle(left, exp_powers_of_2(z, t - j))
                 * horner_eval(proof.final_poly, Pow(z, 2 ^ (t - j)))) % P
  IN  ((IF round < num_whir_rounds(p) THEN c.gammas[round] * At(c.z0s[round]) ELSE 0)
        + SumTo(p.queries[round], LAMBDA i :
            Pow(c.gammas[round], i + 2) * At(Pow(Root(p, c, round, i + 1), 2 ^ p.k_whir)))) % P

verify_whir(p, proof, stacking_openings, commitments, u, c) ==
  LET openings == FlattenSeq(stacking_openings)
      t == p.k_whir * num_whir_rounds(p)
      first == [ok |-> TRUE, claim |-> SumTo(Len(openings), LAMBDA i : Pow(c.mu, i) * openings[i + 1])]
      After(r, v, queries) ==
        [ok |-> v.ok /\ \A q \in DOMAIN queries : queries[q].ok,
         claim |-> round_claim(p, proof, c, r, v.claim, [q \in DOMAIN queries |-> queries[q].y])]
      Round(i, v) == After(i + 1, v, [q \in 1 .. p.queries[i + 1] |->
                                       whir_query(p, proof, commitments, c, i + 1, q)] \o <<>>)
      acc == ((eval_mobius_eq_mle(SubSeq(u, 1, t), SubSeq(c.alphas, 1, t))
                * eval_mle_evals_at_point(proof.final_poly, SubSeq(u, t + 1, Len(u)))) % P)
             + SumTo(num_whir_rounds(p), LAMBDA i : final_terms(p, proof, c, i + 1))
      Accept(v) == v.ok /\ acc % P = v.claim
  IN  /\ Size(proof.final_poly) = 2 ^ (p.l_skip + p.n_stack - t)
      /\ Accept(Iterate(num_whir_rounds(p), first, Round))

=============================================================================
