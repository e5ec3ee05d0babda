------------------------------ MODULE Provers -------------------------------
(***************************************************************************)
(* The transcripts and the proofs of the three provers: the reference      *)
(* backend (stark-backend), the CPU backend and the GPU backend.  Each     *)
(* operator gives the log of its transcript operations and the fields of   *)
(* the proof that it fills.                                                *)
(***************************************************************************)
EXTENDS TranscriptLog, ProofShape, TLC

(* ProvingContext::into_sorted; heights maps the present AIRs to their log  *)
(* heights.                                                                 *)
into_sorted(heights) ==
  SetToSortSeq(DOMAIN heights, LAMBDA a, b : \/ heights[a] > heights[b]
                                             \/ heights[a] = heights[b] /\ a < b)

CachedCommits(vk, a) == [c \in DOMAIN vk.airs[a].cached_mains |-> <<"cached_commit", <<a, c>>>>]

(* Coordinator::prove, up to the constraints.                               *)
prove_preamble(vk, heights) ==
  LET vdata == [a \in DOMAIN vk.airs |->
                  IF a \in DOMAIN heights
                  THEN [present |-> TRUE, log_height |-> heights[a],
                        cached_commitments |-> CachedCommits(vk, a)]
                  ELSE Absent]
      pvs == [a \in DOMAIN vk.airs |->
                IF a \in DOMAIN heights
                THEN [i \in 1 .. vk.airs[a].num_public_values |-> <<"public_value", <<a, i>>>>]
                ELSE <<>>]
      flag(a) == IF vk.airs[a].is_required THEN <<>>
                 ELSE <<Obs(Flag(a, vdata[a].present))>>
      trace(a) == IF ~vdata[a].present THEN <<>>
                  ELSE <<Obs(IF vk.airs[a].has_preprocessed THEN <<"preprocessed_commit", <<a>>>>
                             ELSE Height(a, vdata[a].log_height))>>
                       \o ObsAll(vdata[a].cached_commitments)
  IN [log |-> <<Obs(<<"vk_pre_hash", <<>>>>), Obs(<<"common_main_commit", <<>>>>)>>
              \o Each(Len(vk.airs), LAMBDA a : flag(a) \o trace(a) \o ObsAll(pvs[a])),
      proof |-> [common_main_commit |-> <<"common_main_commit", <<>>>>,
                 trace_vdata |-> vdata, public_values |-> pvs]]

-----------------------------------------------------------------------------
(* Fractional sumcheck.                                                     *)

GkrProof(total_rounds) ==
  [q0_claim |-> IF total_rounds = 0 THEN One ELSE <<"q0_claim", <<>>>>,
   claims_per_layer |-> Terms("claims", total_rounds),
   sumcheck_polys |-> [r \in 1 .. Above(total_rounds, 1) |->
                         [i \in 1 .. r |-> <<"gkr_poly", <<r, i>>>>]]]

fractional_sumcheck_LateClaims(total_rounds) ==
  LET p == GkrProof(total_rounds)
      subround(r, i) == <<Obs(p.sumcheck_polys[r][i]), GkrR(r, i)>>
      round(r) == <<GkrLambda(r)>> \o Each(r, LAMBDA i : subround(r, i))
                  \o <<GkrMu(r + 1), Obs(p.claims_per_layer[r + 1])>>
  IN IF total_rounds = 0 THEN <<>>
     ELSE <<Obs(p.q0_claim), Obs(p.claims_per_layer[1]), GkrMu(1)>>
          \o Each(total_rounds - 1, round)
fractional_sumcheck(total_rounds) ==
  LET p == GkrProof(total_rounds)
      subround(r, i) == <<Obs(p.sumcheck_polys[r][i]), GkrR(r, i)>>
      round(r) == <<GkrLambda(r)>> \o Each(r, LAMBDA i : subround(r, i))
                  \o <<Obs(p.claims_per_layer[r + 1]), GkrMu(r + 1)>>
  IN IF total_rounds = 0 THEN <<>>
     ELSE <<Obs(p.q0_claim), Obs(p.claims_per_layer[1]), GkrMu(1)>>
          \o Each(total_rounds - 1, round)

(* On the GPU the first sub-round of a round is fused with reverting the    *)
(* tree layer; the others follow one of two strategies.                     *)
fractional_sumcheck_gpu(total_rounds) ==
  LET p == GkrProof(total_rounds)
      observe_and_update(r, i) == <<Obs(p.sumcheck_polys[r][i]), GkrR(r, i)>>
      round(r) == <<GkrLambda(r)>> \o observe_and_update(r, 1)
                  \o Each(r - 1, LAMBDA i : observe_and_update(r, i + 1))
                  \o <<Obs(p.claims_per_layer[r + 1]), GkrMu(r + 1)>>
  IN IF total_rounds = 0 THEN <<>>
     ELSE <<Obs(p.q0_claim), Obs(p.claims_per_layer[1]), GkrMu(1)>>
          \o Each(total_rounds - 1, round)

-----------------------------------------------------------------------------
(* Constraints.                                                             *)

ColumnOpenings(vk, sorted) ==
  [t \in DOMAIN sorted |->
     LET air == vk.airs[sorted[t]]
         width == <<air.common_main>> \o OwnParts(air)
         per_col == IF air.need_rot THEN 2 ELSE 1
     IN [p \in DOMAIN width |->
           [j \in 1 .. width[p] * per_col |-> <<"opening", <<t, p, j>>>>]]]

(* Common main openings of all traces first.                                *)
ObserveOpenings(vk, sorted, openings) ==
  LET rot(t) == vk.airs[sorted[t]].need_rot
  IN Each(Len(openings), LAMBDA t : ObsByRot(openings[t][1], rot(t)))
     \o Each(Len(openings), LAMBDA t :
          Each(Len(openings[t]) - 1, LAMBDA p : ObsByRot(openings[t][p + 1], rot(t))))

InteractionsLayout(vk, heights, sorted, n_logup) ==
  Layout(0, vk.l_skip + n_logup,
         [t \in DOMAIN sorted |-> <<vk.airs[sorted[t]].num_interactions,
                                    MaxOf(heights[sorted[t]], vk.l_skip)>>])

(* The part that the three implementations write alike: batch sumcheck.     *)
BatchProof(vk, sorted, n_max) ==
  LET s_deg == vk.max_constraint_degree + 1
  IN [numerator_term_per_air |-> Terms("numerator", Len(sorted)),
      denominator_term_per_air |-> Terms("denominator", Len(sorted)),
      batch_univariate_coeffs |-> Terms("batch_coeff", s_deg * (2 ^ vk.l_skip - 1) + 1),
      batch_round_polys |-> [r \in 1 .. n_max |-> [e \in 1 .. s_deg |-> <<"batch_eval", <<r, e>>>>]],
      column_openings |-> ColumnOpenings(vk, sorted)]

(* Numerators and denominators take the powers of mu in turn.               *)
MuOrder(p) == Each(Len(p.numerator_term_per_air), LAMBDA t :
                <<p.numerator_term_per_air[t], p.denominator_term_per_air[t]>>)

Batch(vk, sorted, p) ==
  <<Smp(<<"lambda", <<>>>>)>>
  \o ObsAll(MuOrder(p)) \o <<Smp(<<"mu", <<>>>>), Use(<<"mu", <<>>>>, MuOrder(p))>>
  \o ObsAll(p.batch_univariate_coeffs) \o <<Smp(<<"r", <<0>>>>)>>
  \o Each(Len(p.batch_round_polys), LAMBDA r :
       ObsAll(p.batch_round_polys[r]) \o <<Smp(<<"r", <<r>>>>)>>)
  \o ObserveOpenings(vk, sorted, p.column_openings)

(* Each backend has its own rounds; the operations are the same.            *)
batch_sumcheck(vk, sorted, p) == Batch(vk, sorted, p)
batch_sumcheck_cpu(vk, sorted, p) == Batch(vk, sorted, p)
batch_sumcheck_gpu(vk, sorted, p) == Batch(vk, sorted, p)

RapConstraints(vk, heights, Sumcheck(_), BatchSumcheck(_, _, _)) ==
  LET sorted == into_sorted(heights)
      n_max == Above(heights[sorted[1]], vk.l_skip)
      total == FoldLeft(LAMBDA sum, a : sum + vk.airs[a].num_interactions
                                              * 2 ^ MaxOf(heights[a], vk.l_skip), 0, sorted)
      n_logup == calculate_n_logup(vk.l_skip, total)
      layout == InteractionsLayout(vk, heights, sorted, n_logup)
      rounds == IF layout.sorted_cols = <<>> THEN 0 ELSE vk.l_skip + n_logup
      p == BatchProof(vk, sorted, n_max)
      witness == Witness(vk.pow.logup, "logup_pow_witness", <<>>)
  IN [log |-> Pow(vk.pow.logup, witness, <<1>>)
              \o <<Smp(<<"alpha", <<>>>>), Smp(<<"beta", <<>>>>)>>
              \o Sumcheck(rounds)
              \o SampleXi(rounds, vk.l_skip + MaxOf(n_max, n_logup))
              \o <<Place([i \in DOMAIN layout.sorted_cols |-> layout.sorted_cols[i].row_idx])>>
              \o BatchSumcheck(vk, sorted, p),
      proof |-> [logup_pow_witness |-> witness] @@ GkrProof(rounds) @@ p]

(* The CPU backend takes the fractional sumcheck of the reference backend.  *)
prove_zerocheck_and_logup(vk, heights) ==
  RapConstraints(vk, heights, fractional_sumcheck, batch_sumcheck)
prove_zerocheck_and_logup_cpu(vk, heights) ==
  RapConstraints(vk, heights, fractional_sumcheck, batch_sumcheck_cpu)
prove_zerocheck_and_logup_gpu(vk, heights) ==
  RapConstraints(vk, heights, fractional_sumcheck_gpu, batch_sumcheck_gpu)

-----------------------------------------------------------------------------
(* Openings.                                                                *)

(* The commitments to open: the common main one, then for every trace its   *)
(* preprocessed and its cached ones.  parts[m] is the part of a trace that  *)
(* is matrix m of the commitment.                                           *)
committed(vk, heights) ==
  LET sorted == into_sorted(heights)
      lay(mats) == Layout(vk.l_skip, log_stacked_height(vk), mats)
      common == [t \in DOMAIN sorted |-> <<vk.airs[sorted[t]].common_main, heights[sorted[t]]>>]
      own(t) == OwnParts(vk.airs[sorted[t]])
      commits(t) ==
        LET a == sorted[t]
        IN (IF vk.airs[a].has_preprocessed THEN <<<<"preprocessed_commit", <<a>>>>>> ELSE <<>>)
             \o CachedCommits(vk, a)
      data(t, p) == [commit |-> commits(t)[p], layout |-> lay(<<<<own(t)[p], heights[sorted[t]]>>>>),
                     parts |-> <<<<t, p + 1>>>>, need_rot |-> <<vk.airs[sorted[t]].need_rot>>]
  IN <<[commit |-> <<"common_main_commit", <<>>>>, layout |-> lay(common),
        parts |-> [t \in DOMAIN sorted |-> <<t, 1>>],
        need_rot |-> [t \in DOMAIN sorted |-> vk.airs[sorted[t]].need_rot]]>>
     \o Each(Len(sorted), LAMBDA t : [p \in DOMAIN own(t) |-> data(t, p)])

(* The claim of a column and that of its rotation.                          *)
ClaimOf(part, col, need_rot) ==
  IF need_rot
  THEN <<<<"opening", part \o <<2 * col - 1>>>>, <<"opening", part \o <<2 * col>>>>>>
  ELSE <<<<"opening", part \o <<col>>>>, Zero>>

(* StackedReductionCpu::new: the powers of lambda go to the columns in the  *)
(* order of the layouts.                                                    *)
lambda_order(commits) ==
  Each(Len(commits), LAMBDA c :
    LET d == commits[c]
    IN [i \in DOMAIN d.layout.sorted_cols |->
          LET s == d.layout.sorted_cols[i]
          IN  ClaimOf(d.parts[s.mat], s.col, d.need_rot[s.mat])])

lambda_order_cpu(commits) == lambda_order(commits)

(* StackedReductionGpu::new walks the traces and their places in the layout. *)
lambda_order_gpu(commits) ==
  Each(Len(commits), LAMBDA c :
    LET d == commits[c]
        start == d.layout.mat_starts
        width(m) == (IF m = Len(start) THEN Len(d.layout.sorted_cols) ELSE start[m + 1]) - start[m]
    IN Each(Len(start), LAMBDA m :
         [j \in 1 .. width(m) |->
            LET s == d.layout.sorted_cols[start[m] + j]
            IN  ClaimOf(d.parts[s.mat], s.col, d.need_rot[m])]))

StackingProof(vk, widths) ==
  [stack_univariate_coeffs |-> Terms("stack_coeff", 2 * (2 ^ vk.l_skip - 1) + 1),
   stack_round_polys |-> Terms("stack_poly", vk.n_stack),
   stacking_openings |->
     [c \in DOMAIN widths |-> [j \in 1 .. widths[c] |-> <<"stacking_opening", <<c, j>>>>]]]

Widths(commits) == [c \in DOMAIN commits |-> commits[c].layout.width]

StackedReduction(vk, commits, Order(_)) ==
  LET p == StackingProof(vk, Widths(commits))
  IN [log |-> <<Smp(<<"stack_lambda", <<>>>>), Use(<<"stack_lambda", <<>>>>, FlattenSeq(Order(commits)))>>
              \o ObsAll(p.stack_univariate_coeffs) \o <<Smp(<<"u", <<0>>>>)>>
              \o Each(vk.n_stack, LAMBDA j : <<Obs(p.stack_round_polys[j]), Smp(<<"u", <<j>>>>)>>)
              \o Each(Len(commits), LAMBDA c : ObsAll(p.stacking_openings[c])),
      proof |-> p]

prove_stacked_opening_reduction(vk, commits) == StackedReduction(vk, commits, lambda_order)
prove_stacked_opening_reduction_cpu(vk, commits) == StackedReduction(vk, commits, lambda_order_cpu)
prove_stacked_opening_reduction_gpu(vk, commits) == StackedReduction(vk, commits, lambda_order_gpu)

-----------------------------------------------------------------------------
(* WHIR.                                                                    *)

(* The rows and paths that a prover finds for a query in its trees; they    *)
(* are not observed.                                                        *)
OpenedRows(vk, widths) ==
  [c \in DOMAIN widths |-> [q \in 1 .. vk.num_queries[1] |-> [j \in 1 .. 2 ^ vk.k |->
     [col \in 1 .. widths[c] |-> <<"row", <<c, q, j, col>>>>]]]]
CodewordValues(vk) ==
  [r \in 1 .. num_whir_rounds(vk) - 1 |-> [q \in 1 .. vk.num_queries[r + 1] |->
     [j \in 1 .. 2 ^ vk.k |-> <<"codeword_value", <<r, q, j>>>>]]]
Path(name, index, depth) == [d \in 1 .. depth |-> <<name, index \o <<d>>>>]

WhirProof(vk, widths) ==
  LET rounds == num_whir_rounds(vk)
      log_domain == log_stacked_height(vk) + vk.log_blowup
  IN [mu_pow_witness |-> Witness(vk.pow.mu, "mu_pow_witness", <<>>),
      whir_sumcheck_polys |-> Terms("whir_poly", rounds * vk.k),
      codeword_commits |-> Terms("codeword_commit", rounds - 1),
      ood_values |-> Terms("ood_value", rounds - 1),
      folding_pow_witnesses |-> [i \in 1 .. rounds * vk.k |-> Witness(vk.pow.folding, "folding_pow_witness", <<i>>)],
      query_phase_pow_witnesses |-> [r \in 1 .. rounds |-> Witness(vk.pow.query, "query_pow_witness", <<r>>)],
      initial_round_opened_rows |-> OpenedRows(vk, widths),
      initial_round_merkle_proofs |-> [c \in DOMAIN widths |-> [q \in 1 .. vk.num_queries[1] |->
         Path("path", <<c, q>>, Above(log_domain, vk.k))]],
      codeword_opened_values |-> CodewordValues(vk),
      codeword_merkle_proofs |-> [r \in 1 .. rounds - 1 |-> [q \in 1 .. vk.num_queries[r + 1] |->
         Path("codeword_path", <<r, q>>, log_domain - r - vk.k)]],
      final_poly |-> Terms("final_poly", 2 ^ log_final_poly_len(vk))]

Whir(vk, commits) ==
  LET p == WhirProof(vk, Widths(commits))
      rounds == num_whir_rounds(vk)
      fold(i) == <<Obs(p.whir_sumcheck_polys[i])>>
                 \o Pow(vk.pow.folding, p.folding_pow_witnesses[i], <<3, i>>)
                 \o <<Smp(<<"whir_alpha", <<i>>>>)>>
      next(r) == IF r < rounds
                 THEN <<Obs(p.codeword_commits[r]), Smp(<<"z0", <<r>>>>), Obs(p.ood_values[r])>>
                 ELSE ObsAll(p.final_poly)
      queries(r) == Pow(vk.pow.query, p.query_phase_pow_witnesses[r], <<4, r>>)
                    \o Each(vk.num_queries[r], LAMBDA q : <<Smp(<<"query", <<r, q>>>>)>>)
      round(r) == Each(vk.k, LAMBDA j : fold((r - 1) * vk.k + j)) \o next(r) \o queries(r)
                  \o <<Smp(<<"gamma", <<r>>>>)>>
  IN [log |-> Pow(vk.pow.mu, p.mu_pow_witness, <<2>>) \o <<Smp(<<"whir_mu", <<>>>>)>>
              \o Each(rounds, round),
      proof |-> p]

(* Each backend has its own implementation; the operations are the same.    *)
prove_whir_opening(vk, commits) == Whir(vk, commits)
prove_whir_opening_cpu(vk, commits) == Whir(vk, commits)
prove_whir_opening_gpu(vk, commits) == Whir(vk, commits)

(* prove_openings: the stacked reduction, then WHIR over its commitments.   *)
(* The CPU backend enters the reference's reduction with its own prover.    *)
Openings(stacking, whir) ==
  [log |-> stacking.log \o whir.log, proof |-> stacking.proof @@ whir.proof]

prove_openings(vk, heights) ==
  LET commits == committed(vk, heights)
  IN Openings(prove_stacked_opening_reduction(vk, commits), prove_whir_opening(vk, commits))
prove_openings_cpu(vk, heights) ==
  LET commits == committed(vk, heights)
  IN Openings(prove_stacked_opening_reduction_cpu(vk, commits), prove_whir_opening_cpu(vk, commits))
prove_openings_gpu(vk, heights) ==
  LET commits == committed(vk, heights)
  IN Openings(prove_stacked_opening_reduction_gpu(vk, commits), prove_whir_opening_gpu(vk, commits))

=============================================================================
