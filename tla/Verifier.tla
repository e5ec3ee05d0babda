------------------------------ MODULE Verifier ------------------------------
(***************************************************************************)
(* The verifier (verifier/): for every stage the log of its transcript     *)
(* operations, of the elements that a challenge is combined with, and of   *)
(* what is opened against a commitment; and whether the stage's checks     *)
(* that need no field arithmetic hold.  A read out of range and a failed   *)
(* assertion are panics.                                                   *)
(***************************************************************************)
EXTENDS TranscriptLog, ProofShape

num_traces(proof) == Cardinality({a \in DOMAIN proof.trace_vdata : proof.trace_vdata[a].present})

trace_id_to_air_id(proof) ==
  LET vdata == proof.trace_vdata
      Before(a, b) ==
        \/ vdata[a].present /\ ~vdata[b].present
        \/ /\ vdata[a].present = vdata[b].present
           /\ \/ vdata[a].log_height > vdata[b].log_height
              \/ vdata[a].log_height = vdata[b].log_height /\ a < b
  IN SubSeq(SetToSortSeq(DOMAIN vdata, Before), 1, num_traces(proof))

TraceHeightsFit(vk, vdata) ==
  \A c \in DOMAIN vk.trace_height_constraints :
    LET constraint == vk.trace_height_constraints[c]
    IN MapThenSumSet(LAMBDA a : constraint.coefficients[a] * 2 ^ MaxOf(vdata[a].log_height, vk.l_skip),
                     {a \in DOMAIN vdata : vdata[a].present}) < constraint.threshold

PreprocessedHeightsMatch(vk, vdata) ==
  \A a \in DOMAIN vk.airs :
    vdata[a].present /\ vk.airs[a].has_preprocessed
      => vk.airs[a].preprocessed_log_height = vdata[a].log_height

verify_preamble(vk, proof) ==
  LET air(a) == vk.airs[a]
      vdata(a) == proof.trace_vdata[a]
      flag(a) == IF air(a).is_required THEN <<>> ELSE <<Obs(Flag(a, vdata(a).present))>>
      trace(a) ==
        IF ~vdata(a).present THEN <<>>
        ELSE <<Obs(IF air(a).has_preprocessed THEN <<"preprocessed_commit", <<a>>>>
                   ELSE Height(a, vdata(a).log_height))>>
             \o ObsAll(vdata(a).cached_commitments)
  IN [ok  |-> TraceHeightsFit(vk, proof.trace_vdata) /\ PreprocessedHeightsMatch(vk, proof.trace_vdata),
      log |-> <<Obs(<<"vk_pre_hash", <<>>>>), Obs(proof.common_main_commit)>>
              \o Each(Len(vk.airs), LAMBDA a : flag(a) \o trace(a) \o ObsAll(proof.public_values[a]))]

(* What the statement consists of: it is absorbed before any challenge.     *)
Statement(vk, proof) ==
  <<proof.common_main_commit>>
  \o Each(Len(vk.airs), LAMBDA a : proof.trace_vdata[a].cached_commitments \o proof.public_values[a])

-----------------------------------------------------------------------------
(* verify_gkr.                                                              *)

verify_gkr(proof, total_rounds) ==
  LET claims(layer) == Read(proof.claims_per_layer, layer)
      polys(r) == ReadAll(proof.sumcheck_polys, r)
      mu(layer) == <<Obs(claims(layer)), GkrMu(layer), Use(<<"gkr_mu", <<layer>>>>, <<claims(layer)>>)>>
      subround(r, i) == <<Obs(polys(r)[i]), GkrR(r, i), Use(<<"gkr_r", <<r, i>>>>, <<polys(r)[i]>>)>>
      round(r) == <<GkrLambda(r), Use(<<"gkr_lambda", <<r>>>>, <<claims(r)>>)>>
                  \o Each(Len(polys(r)), LAMBDA i : subround(r, i)) \o mu(r + 1)
  IN [ok  |-> /\ Len(proof.claims_per_layer) = total_rounds
              /\ Len(proof.sumcheck_polys) = total_rounds - 1
              /\ All(proof.sumcheck_polys, LAMBDA r, poly : Len(poly) = r),
      log |-> <<Obs(proof.q0_claim)>> \o mu(1)
              \o <<Use(<<"gkr_mu", <<1>>>>, <<proof.q0_claim>>)>> \o Each(total_rounds - 1, round)]

-----------------------------------------------------------------------------
(* verify_zerocheck_and_logup.                                              *)

(* The rows of the interactions, by a running index: each must be aligned   *)
(* to the height it takes.                                                  *)
eq_3b_rows(vk, n_lifts, traces, n_logup) ==
  LET num(t) == vk.airs[traces[t]].num_interactions
      step(t) == 2 ^ (vk.l_skip + n_lifts[t])
      base(t) == MapThenSumSet(LAMBDA s : num(s) * step(s), 1 .. t - 1)
      rows(t) == [i \in 1 .. num(t) |-> base(t) + (i - 1) * step(t)]
  IN Each(Len(traces), LAMBDA t :
       Each(num(t), LAMBDA i :
              Ensure(/\ rows(t)[i] < 2 ^ (vk.l_skip + n_logup)
                     /\ rows(t)[i] % step(t) = 0)))
     \o <<Place(Each(Len(traces), rows))>>

(* The evaluator reads every column of every part.                          *)
EvaluatorReads(air, openings) ==
  LET own == OwnParts(air)
      cols(p) == Len(ByRot(ReadAll(openings, p), air.need_rot))
  IN Ensure(/\ Len(openings) >= 1
            /\ cols(1) >= air.common_main
            /\ \A p \in DOMAIN own : 1 + p \in DOMAIN openings /\ cols(1 + p) >= own[p])

observe_openings(vk, traces, column_openings) ==
  LET air(t) == vk.airs[Read(traces, t)]
      common(t) == ObsByRot(ReadAll(column_openings[t], 1), air(t).need_rot)
      others(t) == Each(Len(column_openings[t]) - 1, LAMBDA p :
                          ObsByRot(column_openings[t][p + 1], air(t).need_rot))
  IN Each(Len(column_openings), common)
     \o Each(Len(column_openings), LAMBDA t :
          others(t) \o EvaluatorReads(air(t), column_openings[t]))

verify_zerocheck_and_logup(vk, proof) ==
  LET traces == trace_id_to_air_id(proof)
      n_lifts == [t \in DOMAIN traces |-> Above(proof.trace_vdata[traces[t]].log_height, vk.l_skip)]
      n_max == Max(Range(n_lifts))
      total == total_interactions(vk, proof.trace_vdata)
      n_logup == calculate_n_logup(vk.l_skip, total)
      rounds == IF total = 0 THEN 0 ELSE vk.l_skip + n_logup
      gkr == IF total = 0 THEN [ok |-> proof.q0_claim = One, log |-> <<>>]
             ELSE verify_gkr(proof, rounds)
      terms == Each(Min({Len(proof.numerator_term_per_air), Len(proof.denominator_term_per_air)}),
                    LAMBDA t : <<proof.numerator_term_per_air[t], proof.denominator_term_per_air[t]>>)
      round(r) == LET evals == ReadAll(proof.batch_round_polys, r)
                  IN ObsAll(evals) \o Ensure(Len(evals) >= vk.max_constraint_degree + 1)
                     \o <<Smp(<<"r", <<r>>>>), Use(<<"r", <<r>>>>, evals)>>
      fits == Len(proof.column_openings) <= Len(traces)
  IN [ok  |-> gkr.ok,
      log |-> Pow(vk.pow.logup, proof.logup_pow_witness, <<1>>)
              \o <<Smp(<<"alpha", <<>>>>), Smp(<<"beta", <<>>>>)>>
              \o <<Use(<<"alpha", <<>>>>, Statement(vk, proof)), Use(<<"beta", <<>>>>, Statement(vk, proof))>>
              \o gkr.log
              \o SampleXi(rounds, vk.l_skip + MaxOf(n_max, n_logup))
              \o <<Smp(<<"lambda", <<>>>>), Use(<<"lambda", <<>>>>, Statement(vk, proof))>>
              \o ObsAll(terms) \o <<Smp(<<"mu", <<>>>>), Use(<<"mu", <<>>>>, terms)>>
              \o ObsAll(proof.batch_univariate_coeffs)
              \o <<Smp(<<"r", <<0>>>>), Use(<<"r", <<0>>>>, proof.batch_univariate_coeffs)>>
              \o Ensure(Len(proof.batch_univariate_coeffs)
                          = (vk.max_constraint_degree + 1) * (2 ^ vk.l_skip - 1) + 1)
              \o Each(n_max, round)
              \o eq_3b_rows(vk, n_lifts, traces, n_logup)
              \o (IF fits THEN observe_openings(vk, traces, proof.column_openings) ELSE <<Obs(Panic)>>)]

-----------------------------------------------------------------------------
(* verify_stacked_reduction.                                                *)

need_rot_per_commit(vk, proof) ==
  LET traces == trace_id_to_air_id(proof)
      rot(t) == vk.airs[traces[t]].need_rot
      own(t) == (IF vk.airs[traces[t]].has_preprocessed THEN 1 ELSE 0)
                  + Len(proof.trace_vdata[traces[t]].cached_commitments)
  IN <<[t \in DOMAIN traces |-> rot(t)]>>
     \o Each(Len(traces), LAMBDA t : [p \in 1 .. own(t) |-> <<rot(t)>>])

commits(vk, proof) ==
  LET traces == trace_id_to_air_id(proof)
      preprocessed(a) == IF vk.airs[a].has_preprocessed THEN <<<<"preprocessed_commit", <<a>>>>>> ELSE <<>>
  IN <<proof.common_main_commit>>
     \o Each(Len(traces), LAMBDA t : preprocessed(traces[t])
                                     \o proof.trace_vdata[traces[t]].cached_commitments)

(* The claims in the order of the powers of lambda: common main columns of  *)
(* all traces, then the other parts trace by trace.                         *)
t_claims_ByTrace(vk, proof) ==
  LET rots == need_rot_per_commit(vk, proof)
  IN Each(Len(proof.column_openings), LAMBDA t :
       FlattenSeq([p \in DOMAIN proof.column_openings[t] |->
         ByRot(proof.column_openings[t][p], rots[1][t])]))
t_claims(vk, proof) ==
  LET rots == need_rot_per_commit(vk, proof)
      openings == proof.column_openings
      before(t) == MapThenSumSet(LAMBDA s : Len(openings[s]) - 1, 1 .. t - 1)
  IN Each(Len(openings), LAMBDA t : ByRot(openings[t][1], rots[1][t]))
     \o Each(Len(openings), LAMBDA t :
          Each(Len(openings[t]) - 1, LAMBDA p : ByRot(openings[t][p + 1], rots[1 + before(t) + p][1])))

verify_stacked_reduction(vk, proof) ==
  LET layouts == Layouts(vk, proof.trace_vdata)
      claims == t_claims(vk, proof)
      claims_len == FoldLeft(LAMBDA sum, l : sum + Len(l.sorted_cols), 0, layouts)
      polys == proof.stack_round_polys
      coeffs == proof.stack_univariate_coeffs
      places(c) == Ensure(All(layouts[c].sorted_cols,
                              LAMBDA i, s : s.col_idx + 1 \in DOMAIN ReadAll(proof.stacking_openings, c)))
      round(j) == <<Obs(Read(polys, j)), Smp(<<"u", <<j>>>>), Use(<<"u", <<j>>>>, <<Read(polys, j)>>)>>
  IN [ok  |-> TRUE,
      log |-> Ensure(/\ [c \in DOMAIN layouts |-> Len(layouts[c].mat_starts)]
                          = [c \in DOMAIN need_rot_per_commit(vk, proof) |->
                               Len(need_rot_per_commit(vk, proof)[c])]
                     /\ Len(claims) = claims_len)
              \o <<Smp(<<"stack_lambda", <<>>>>), Use(<<"stack_lambda", <<>>>>, FlattenSeq(claims))>>
              \o ObsAll(coeffs) \o <<Smp(<<"u", <<0>>>>), Use(<<"u", <<0>>>>, coeffs)>>
              \o Each(vk.n_stack, round)
              \o Each(Len(layouts), places)
              \o ObsAll(FlattenSeq(proof.stacking_openings))]

-----------------------------------------------------------------------------
(* verify_whir.                                                             *)

(* A query of the first round opens a row of every commitment.              *)
initial_query(vk, proof, q) ==
  LET of(c) ==
        LET rows == ReadAll(ReadAll(proof.initial_round_opened_rows, c), q)
            path == ReadAll(ReadAll(proof.initial_round_merkle_proofs, c), q)
        IN Ensure(/\ Len(rows) >= 2 ^ vk.k
                  /\ All(rows, LAMBDA j, row : Len(row) >= Len(proof.stacking_openings[c])))
           \o <<Open(commits(vk, proof)[c], FlattenSeq(rows) \o path)>>
  IN Each(Min({Len(commits(vk, proof)), Len(proof.initial_round_opened_rows),
               Len(proof.initial_round_merkle_proofs)}), of)

codeword_query(vk, proof, r, q) ==
  LET values == ReadAll(ReadAll(proof.codeword_opened_values, r - 1), q)
      path == ReadAll(ReadAll(proof.codeword_merkle_proofs, r - 1), q)
  IN Ensure(Len(values) = 2 ^ vk.k)
     \o <<Open(Read(proof.codeword_commits, r - 1), values \o path)>>

(* A round ends with the commitment to the next codeword and its value      *)
(* outside the domain, the last one with the polynomial itself.             *)
round_end_Guess(vk, proof, r) ==
  LET commit == Read(proof.codeword_commits, r)
  IN IF r = num_whir_rounds(vk) THEN ObsAll(proof.final_poly)
     ELSE <<Smp(<<"z0", <<r>>>>), Use(<<"z0", <<r>>>>, <<commit>>), Obs(commit),
            Obs(Read(proof.ood_values, r))>>
round_end(vk, proof, r) ==
  LET commit == Read(proof.codeword_commits, r)
  IN IF r = num_whir_rounds(vk) THEN ObsAll(proof.final_poly)
     ELSE <<Obs(commit), Smp(<<"z0", <<r>>>>), Use(<<"z0", <<r>>>>, <<commit>>),
            Obs(Read(proof.ood_values, r))>>

(* The folds of a round, its end, and the queries to the codeword before.   *)
whir_round(vk, proof, r) ==
  LET final == r = num_whir_rounds(vk)
      fold(i) ==
        <<Obs(proof.whir_sumcheck_polys[i])>>
        \o Pow(vk.pow.folding, Read(proof.folding_pow_witnesses, i), <<3, i>>)
        \o <<Smp(<<"whir_alpha", <<i>>>>), Use(<<"whir_alpha", <<i>>>>, <<proof.whir_sumcheck_polys[i]>>)>>
      first == (r - 1) * vk.k
      folds == Each(Min({vk.k, Above(Len(proof.whir_sumcheck_polys), first)}), LAMBDA j : fold(first + j))
      asked == IF final THEN proof.final_poly
               ELSE <<Read(proof.codeword_commits, r), Read(proof.ood_values, r)>>
      query(q) ==
        <<Smp(<<"query", <<r, q>>>>), Use(<<"query", <<r, q>>>>, asked)>>
        \o (IF r = 1 THEN initial_query(vk, proof, q) ELSE codeword_query(vk, proof, r, q))
  IN folds \o round_end(vk, proof, r)
     \o Pow(vk.pow.query, proof.query_phase_pow_witnesses[r], <<4, r>>)
     \o Each(vk.num_queries[r], query)
     \o <<Smp(<<"gamma", <<r>>>>), Use(<<"gamma", <<r>>>>, asked)>>

verify_whir(vk, proof) ==
  LET openings == FlattenSeq(proof.stacking_openings)
      rounds == Min({Len(proof.query_phase_pow_witnesses), num_whir_rounds(vk)})
  IN [ok  |-> Len(proof.final_poly) = 2 ^ log_final_poly_len(vk),
      log |-> Pow(vk.pow.mu, proof.mu_pow_witness, <<2>>)
              \o <<Smp(<<"whir_mu", <<>>>>), Use(<<"whir_mu", <<>>>>, openings)>>
              \o Each(rounds, LAMBDA r : whir_round(vk, proof, r))]

=============================================================================
