------------------------------- MODULE Openings -------------------------------
(***************************************************************************)
(* Commitments, constraints and openings: the reference, the CPU and the   *)
(* GPU backend commit to the same traces, prove by the batch sumcheck that *)
(* the constraints hold and the interactions sum to what GKR claimed,      *)
(* reduce the column openings to the stacked columns and open these by     *)
(* WHIR, in lockstep and for the same challenges; then the verifier checks *)
(* the proof, as it is or with one value changed.  On the GPU the rows of  *)
(* the common commitment are hashed by the threads of MerkleKernel.        *)
(***************************************************************************)
EXTENDS ZerocheckGpu, Whir, MerkleKernel

CONSTANTS Setups,     \* parameters and AIRs with their traces
          Challenges  \* a sequence of field elements the challenges are drawn from

(* No challenge lies in the skip domain, where the barycentric folds divide *)
(* by zero, or where a sumcheck forgets an evaluation: the nodes 0, 1, ...  *)
(* of its interpolation and, as the value at 0 is derived from that at 1,   *)
(* one over their number.                                                   *)
ASSUME ChallengeAssumption ==
  \A s \in Setups, i \in DOMAIN Challenges :
    /\ Challenges[i] \in s.max_constraint_degree + 2 .. P - 1
    /\ 3 * Challenges[i] % P # 1
    /\ (s.max_constraint_degree + 2) * Challenges[i] % P # 1
    /\ Pow(Challenges[i], 2 ^ s.l_skip) # 1

VARIABLES
  setup,
  step,      \* the protocol step that comes next: <<name, round>>
  data,      \* the commitments of each backend
  layer,     \* the first layer of GKR of each backend
  zerocheck, \* the state of each backend's batch sumcheck
  batch,     \* and its BatchConstraintProof
  reduction, \* the state of each backend's reduction prover
  stacking,  \* and its StackingProof
  whir,      \* the state of each backend's WHIR prover, with its proof
  verdict    \* what was changed, and whether the verifier accepted

vars == <<setup, step, data, layer, zerocheck, batch, reduction, stacking, whir, verdict, kernel>>

-----------------------------------------------------------------------------
(* Traces and challenges of a setup.  An AIR has a common part and cached   *)
(* parts, all of its height.                                                *)

TraceOf(a, part) == setup.airs[a].parts[part]
NeedRot == [a \in DOMAIN setup.airs |-> setup.airs[a].need_rot]

(* The common parts together, then each cached part on its own.             *)
LOCAL PerCommit(common, Cached(_, _)) ==
  <<common>> \o FlattenSeq([a \in DOMAIN setup.airs |->
    [k \in 1 .. Len(setup.airs[a].parts) - 1 |-> Cached(a, k + 1)]])
CommonTraces == [a \in DOMAIN setup.airs |-> TraceOf(a, 1)] \o <<>>
need_rot_per_commit == PerCommit(NeedRot, LAMBDA a, part : <<setup.airs[a].need_rot>>)

Draw(k) == Challenges[((setup.salt + k) % Len(Challenges)) + 1]
Drawn(from, n) == [i \in 1 .. n |-> Draw(from + i)]

MaxDim == Lifted(setup.airs[1].log_height - setup.l_skip)
r == Drawn(0, 1 + MaxDim)
u == Drawn(10, 1 + setup.n_stack)
(* WHIR opens the multilinear form of the coefficients, at the powers of u. *)
u_cube == exp_powers_of_2(u[1], setup.l_skip) \o Tail(u)

Folds == setup.k_whir * num_whir_rounds(setup)
QueryRange(round) == 2 ^ (LogRs(setup, round) - setup.k_whir)
indices ==
  [round \in DOMAIN setup.queries |-> [q \in 1 .. setup.queries[round] |->
     (Draw(50 + 3 * round) * q * q + Draw(q)) % QueryRange(round)]]

whir_challenges ==
  [mu |-> Draw(21), alphas |-> Drawn(22, Folds), z0s |-> Drawn(31, num_whir_rounds(setup)),
   gammas |-> Drawn(41, num_whir_rounds(setup)), indices |-> indices]

InteractionsOf == [p |-> setup, airs |-> setup.airs]

batch_context ==
  LET logup == n_logup(InteractionsOf)
  IN  [p |-> setup, airs |-> setup.airs, r |-> r,
       xi |-> Drawn(60, setup.l_skip + (IF MaxDim > logup THEN MaxDim ELSE logup)),
       alpha |-> Draw(75), beta |-> Draw(76), lambda |-> Draw(77), mu |-> Draw(78)]

context(d) ==
  [p |-> setup, r |-> r, lambda |-> Draw(20),
   views |-> trace_views([i \in DOMAIN d |-> d[i].layout], need_rot_per_commit) \o <<>>]

-----------------------------------------------------------------------------
Backends == {"reference", "cpu", "gpu"}
Each(ref, cpu, gpu) == [b \in Backends |-> CASE b = "reference" -> ref [] b = "cpu" -> cpu [] b = "gpu" -> gpu]

NoBatch == [numerator_term_per_air |-> <<>>, denominator_term_per_air |-> <<>>,
            univariate_round_coeffs |-> <<>>, sumcheck_round_polys |-> <<>>, column_openings |-> <<>>]
NoStacking == [univariate_round_coeffs |-> <<>>, sumcheck_round_polys |-> <<>>, stacking_openings |-> <<>>]
NoVerdict == [change |-> <<"none">>, accepted |-> TRUE]
Idle == [scheme |-> "none", touched |-> {}]

Init ==
  /\ setup \in Setups
  /\ step = <<"commit", 0>>
  /\ data = [b \in Backends |-> <<>>]
  /\ layer = [b \in Backends |-> <<>>]
  /\ zerocheck = [b \in Backends |-> <<>>]
  /\ batch = [b \in Backends |-> NoBatch]
  /\ reduction = [b \in Backends |-> <<>>]
  /\ stacking = [b \in Backends |-> NoStacking]
  /\ whir = [b \in Backends |-> <<>>]
  /\ verdict = NoVerdict
  /\ kernel = Idle

(* The hosts commit to the common parts, the GPU encodes and launches.      *)
CommitCommon ==
  /\ step = <<"commit", 0>>
  /\ LET Launched(traces, layout) ==
           Launch(setup.scheme,
             gpu_rs_code_matrix(setup, layout, traces,
               IF setup.cache_stacked_matrix
               THEN {stack_traces(setup.l_skip, layout, traces, 2 ^ (setup.l_skip + setup.n_stack))}
               ELSE {}), setup.k_whir)
         ByRow(traces) == [a \in DOMAIN traces |-> to_row_major(traces[a])] \o <<>>
     IN  /\ data' = Each(<<stacked_commit(setup, CommonTraces)>>,
                         <<cpu_commit(setup, ByRow(CommonTraces))>>, <<>>)
         /\ kernel' = Launched(CommonTraces, layout_of(setup.l_skip, setup.n_stack, CommonTraces))
  /\ step' = <<"hash", 0>>
  /\ UNCHANGED <<setup, layer, zerocheck, batch, reduction, stacking, whir, verdict>>

HashRows ==
  /\ step = <<"hash", 0>> /\ KernelStep
  /\ UNCHANGED <<setup, step, data, layer, zerocheck, batch, reduction, stacking, whir, verdict>>

(* Cached parts were committed by the reference and brought to a backend.   *)
CommitCached ==
  /\ step = <<"hash", 0>> /\ KernelDone
  /\ LET OfHost(d, common) == PerCommit(common, LAMBDA a, part :
           LET host == stacked_commit(setup, <<TraceOf(a, part)>>)
           IN  IF d = "cpu" THEN [host EXCEPT !.tree = stacked_pcs_data_to_cpu(@)] ELSE host)
         OfGpu == PerCommit(gpu_commit(setup, layout_of(setup.l_skip, setup.n_stack, CommonTraces),
                                       CommonTraces, kernel.matrix, kernel.out),
           LAMBDA a, part : transport_and_unstack_single_data_h2d(
                              setup, stacked_commit(setup, <<TraceOf(a, part)>>)))
     IN  data' = Each(OfHost("reference", data["reference"][1]), OfHost("cpu", data["cpu"][1]), OfGpu)
  /\ kernel' = Idle /\ step' = <<"zerocheck", 0>>
  /\ UNCHANGED <<setup, layer, zerocheck, batch, reduction, stacking, whir, verdict>>

-----------------------------------------------------------------------------
(* The batch sumcheck: the univariate round, then one per variable of the   *)
(* highest trace.                                                           *)

LOCAL BeginBatch(c, proofs) ==
  /\ batch' = proofs
  /\ zerocheck' = Each(reference_fold_evals(c, proofs["reference"].univariate_round_coeffs),
                       cpu_fold_evals(c, proofs["cpu"].univariate_round_coeffs),
                       gpu_fold_evals(c, proofs["gpu"].univariate_round_coeffs))

LOCAL BatchRound0(c, sp_0) == [b \in Backends |-> batch_round0(c, sp_0[b])]

zerocheck_round0 ==
  /\ step = <<"zerocheck", 0>>
  /\ layer' = Each(gkr_input_evals(batch_context), cpu_gkr_input_evals(batch_context),
                   gkr_layer(batch_context, log_gkr_input_evals(batch_context, setup.interaction_mem)))
  /\ BeginBatch(batch_context, BatchRound0(batch_context,
       Each(sumcheck_uni_round0_polys(batch_context), cpu_uni_round0_polys(batch_context),
            gpu_uni_round0_polys(batch_context))))
  /\ step' = <<"zerocheck", 1>>
  /\ UNCHANGED <<setup, data, reduction, stacking, whir, verdict, kernel>>

(* Tilde evaluations, then the sums of the AIRs that still have variables,  *)
(* then the polynomial that is sent, then the fold by the next challenge.   *)
LOCAL FoldBatch(c, round, s, heads) ==
  /\ batch' = [b \in Backends |-> [batch[b] EXCEPT !.sumcheck_round_polys =
       Append(@, IF b = "gpu" THEN gpu_batch_s_evals(c, s[b], round, heads[b])
                 ELSE batch_s_evals(c, s[b], round, heads[b]))]]
  /\ zerocheck' = Each(reference_fold_mle_evals(c, s["reference"], round, heads["reference"]),
                       cpu_fold_mle_evals(c, s["cpu"], round, heads["cpu"]),
                       gpu_fold_mle_evals(c, s["gpu"], round, heads["gpu"]))

LOCAL EvaluateBatch(c, round, s) ==
  FoldBatch(c, round, s, Each(reference_polys_eval(c, s["reference"], round),
                              cpu_polys_eval(c, s["cpu"], round),
                              gpu_polys_eval(c, s["gpu"], round)))

LOCAL RoundOfBatch(c, round) ==
  EvaluateBatch(c, round, Each(reference_tilde_evals(c, zerocheck["reference"], round),
                               cpu_tilde_evals(c, zerocheck["cpu"], round),
                               gpu_tilde_evals(c, zerocheck["gpu"], round)))

zerocheck_round ==
  /\ step[1] = "zerocheck" /\ step[2] \in 1 .. MaxDim
  /\ RoundOfBatch(batch_context, step[2])
  /\ step' = <<"zerocheck", step[2] + 1>>
  /\ UNCHANGED <<setup, data, layer, reduction, stacking, whir, verdict, kernel>>

column_openings ==
  /\ step = <<"zerocheck", MaxDim + 1>>
  /\ LET c == batch_context
         Opened == Each(reference_column_openings(c, zerocheck["reference"]),
                        cpu_column_openings(c, zerocheck["cpu"]),
                        gpu_column_openings(c, zerocheck["gpu"]))
     IN  batch' = [b \in Backends |-> [batch[b] EXCEPT !.column_openings = Opened[b]]]
  /\ zerocheck' = [b \in Backends |-> <<>>]
  /\ step' = <<"round0", 0>>
  /\ UNCHANGED <<setup, data, layer, reduction, stacking, whir, verdict, kernel>>

-----------------------------------------------------------------------------
(* The stacked reduction: the univariate round, then one per variable.      *)

univariate_round ==
  /\ step[1] = "round0"
  /\ LET Reduce(c, g) ==
           /\ stacking' = [b \in Backends |-> [stacking[b] EXCEPT !.univariate_round_coeffs =
                CASE b = "reference" -> reference_round0(c, data[b])
                  [] b = "cpu" -> cpu_round0(c, data[b])
                  [] b = "gpu" -> gpu_round0(c, data[b], g)]]
           /\ reduction' = Each(reference_fold_ple(c, data["reference"], u[1]),
                                cpu_fold_ple(c, data["cpu"], u[1]),
                                gpu_fold_ple(c, data["gpu"], g, u[1]))
     IN  Reduce(context(data["reference"]), gpu_new(context(data["gpu"])))
  /\ step' = <<"round", 1>>
  /\ UNCHANGED <<setup, data, layer, zerocheck, batch, whir, verdict, kernel>>

multilinear_round ==
  /\ step[1] = "round" /\ step[2] <= setup.n_stack
  /\ LET round == step[2]
         Reduce(c, s) ==
           /\ stacking' = [b \in Backends |-> [stacking[b] EXCEPT !.sumcheck_round_polys =
                Append(@, CASE b = "reference" -> reference_poly_eval(c, s[b], round)
                            [] b = "cpu" -> cpu_poly_eval(c, s[b], round)
                            [] b = "gpu" -> gpu_poly_eval(c, s[b], round))]]
           /\ reduction' = Each(reference_fold_mle(c, s["reference"], round, u[round + 1]),
                                cpu_fold_mle(c, s["cpu"], round, u[round + 1]),
                                gpu_fold_mle(c, s["gpu"], round, u[round + 1]))
     IN  Reduce(context(data["reference"]), [reduction EXCEPT !["gpu"] =
                  move_to_stable(context(data["gpu"]), @, round)])
  /\ step' = <<"round", step[2] + 1>>
  /\ UNCHANGED <<setup, data, layer, zerocheck, batch, whir, verdict, kernel>>

(* The stacked openings end the reduction, and WHIR batches the columns.    *)
start_whir ==
  /\ step = <<"round", setup.n_stack + 1>>
  /\ stacking' = [b \in Backends |-> [stacking[b] EXCEPT !.stacking_openings =
       IF b = "gpu" THEN get_stacked_openings(reduction[b]) ELSE into_stacked_openings(reduction[b])]]
  /\ whir' = Each(reference_start(setup, data["reference"], whir_challenges.mu, u_cube),
                  cpu_start(setup, data["cpu"], whir_challenges.mu, u_cube),
                  gpu_start(setup, data["gpu"], whir_challenges.mu, u_cube))
  /\ reduction' = [b \in Backends |-> <<>>]
  /\ step' = <<"sumcheck", 1>>
  /\ UNCHANGED <<setup, data, layer, zerocheck, batch, verdict, kernel>>

-----------------------------------------------------------------------------
(* WHIR: k_whir sumcheck rounds, a new codeword or the final polynomial,    *)
(* and queries; step[2] counts the sumcheck rounds.                         *)

whir_sumcheck ==
  /\ step[1] = "sumcheck"
  /\ LET alpha == whir_challenges.alphas[step[2]]
         Sent(s, evals) == [s EXCEPT !.proof.sumcheck_polys = Append(@, evals)]
     IN  whir' = Each(
           reference_fold(Sent(whir["reference"], reference_sumcheck(whir["reference"])), alpha),
           cpu_fold(Sent(whir["cpu"], cpu_sumcheck(whir["cpu"])), alpha),
           whir_fold_coeffs_and_moments(
             Sent(whir["gpu"], whir_sumcheck_coeff_moments_round(whir["gpu"])), alpha))
  /\ step' = IF step[2] % setup.k_whir = 0 THEN <<"codeword", step[2]>> ELSE <<"sumcheck", step[2] + 1>>
  /\ UNCHANGED <<setup, data, layer, zerocheck, batch, reduction, stacking, verdict, kernel>>

whir_round_of(at) == at \div setup.k_whir

whir_codeword ==
  /\ step[1] = "codeword" /\ step[2] < Folds
  /\ LET z0 == whir_challenges.z0s[whir_round_of(step[2])]
         Sent(s, tree, ood) ==
           [s EXCEPT !.g_tree = {tree}, !.proof.codeword_commits = Append(@, root(tree)),
                     !.proof.ood_values = Append(@, ood)]
     IN  whir' = Each(
           Sent(whir["reference"], reference_codeword(setup, whir["reference"]),
                reference_ood(whir["reference"], z0)),
           Sent(whir["cpu"], cpu_codeword(setup, whir["cpu"]), cpu_ood(whir["cpu"], z0)),
           Sent(whir["gpu"], gpu_codeword(setup, whir["gpu"]),
                eval_poly_ext_at_point_from_base(whir["gpu"], z0)))
  /\ step' = <<"query", step[2]>>
  /\ UNCHANGED <<setup, data, layer, zerocheck, batch, reduction, stacking, verdict, kernel>>

whir_final_poly ==
  /\ step = <<"codeword", Folds>>
  /\ LET Sent(s, final_poly) == [s EXCEPT !.proof.final_poly = final_poly]
     IN  whir' = Each(Sent(whir["reference"], reference_final(whir["reference"])),
                      Sent(whir["cpu"], cpu_final(whir["cpu"])),
                      Sent(whir["gpu"], whir["gpu"].f))
  /\ step' = <<"query", Folds>>
  /\ UNCHANGED <<setup, data, layer, zerocheck, batch, reduction, stacking, verdict, kernel>>

(* The first queries open the commitments, the later ones the codeword of   *)
(* the round before; then the weights take the new constraints up.          *)
query_points(s, round) ==
  [q \in DOMAIN indices[round] |->
     Pow(two_adic_generator(s.log_rs - setup.k_whir), indices[round][q])]

whir_queries ==
  /\ step[1] = "query"
  /\ LET round == whir_round_of(step[2])
         SentRows(s, o) ==
           IF round = 1
           THEN [s EXCEPT !.proof.initial_rows = o.rows, !.proof.initial_proofs = o.proofs]
           ELSE [s EXCEPT !.proof.codeword_values = Append(@, o.rows),
                          !.proof.codeword_proofs = Append(@, o.proofs)]
         Opened(b) ==
           CASE b = "reference" -> IF round = 1 THEN reference_initial_openings(data[b], indices[1])
                                   ELSE reference_openings(whir[b], indices[round])
             [] b = "cpu" -> IF round = 1 THEN cpu_initial_openings(data[b], indices[1])
                             ELSE cpu_openings(whir[b], indices[round])
             [] b = "gpu" -> IF round = 1 THEN gpu_initial_openings(setup, data[b], indices[1])
                             ELSE gpu_openings(whir[b], indices[round])
         z0 == whir_challenges.z0s[round]
         gamma == whir_challenges.gammas[round]
         Constrained(b, s) ==
           CASE b = "reference" -> reference_accumulate(s, z0, query_points(s, round), gamma)
             [] b = "cpu" -> cpu_accumulate(s, z0, query_points(s, round), gamma)
             [] b = "gpu" -> w_moments_accumulate(s, z0, query_points(s, round), gamma)
         Shifted(s) == [s EXCEPT !.rs_tree = s.g_tree, !.g_tree = {}, !.log_rs = @ - 1]
     IN  whir' = [b \in Backends |->
           IF round = num_whir_rounds(setup) THEN SentRows(whir[b], Opened(b))
           ELSE Shifted(Constrained(b, SentRows(whir[b], Opened(b))))]
  /\ step' = IF step[2] = Folds THEN <<"verify", 0>> ELSE <<"sumcheck", step[2] + 1>>
  /\ UNCHANGED <<setup, data, layer, zerocheck, batch, reduction, stacking, verdict, kernel>>

-----------------------------------------------------------------------------
(* The verifier gets the roots and the three proofs.  From GKR it has the   *)
(* claims about the extension of its first layer at xi.                     *)

Sent ==
  [batch |-> batch["gpu"],
   roots |-> [d \in DOMAIN data["gpu"] |-> root(data["gpu"][d].tree)] \o <<>>,
   stacking |-> stacking["gpu"], whir |-> whir["gpu"].proof]

(* Every value that may be changed.                                         *)
Changes(sent) ==
  LET In(name, f) == {<<name, i>> : i \in DOMAIN f}
      In2(name, f) == UNION {{<<name, i, j>> : j \in DOMAIN f[i]} : i \in DOMAIN f}
      In3(name, f) == UNION {UNION {{<<name, i, j, k>> : k \in DOMAIN f[i][j]} : j \in DOMAIN f[i]} : i \in DOMAIN f}
  IN  {<<"none">>}
        \cup In("numerator", sent.batch.numerator_term_per_air)
        \cup In("denominator", sent.batch.denominator_term_per_air)
        \cup In("batch_univariate", sent.batch.univariate_round_coeffs)
        \cup In2("batch_round", sent.batch.sumcheck_round_polys)
        \cup In3("claim", sent.batch.column_openings)
        \cup In("univariate", sent.stacking.univariate_round_coeffs)
        \cup In2("round", sent.stacking.sumcheck_round_polys)
        \cup In2("opening", sent.stacking.stacking_openings)
        \cup In2("whir_sumcheck", sent.whir.sumcheck_polys)
        \cup In("codeword_commit", sent.whir.codeword_commits)
        \cup In("ood", sent.whir.ood_values)
        \cup In("final", sent.whir.final_poly)
        \cup In3("initial_row", sent.whir.initial_rows)
        \cup In3("initial_proof", sent.whir.initial_proofs)
        \cup In3("codeword_value", sent.whir.codeword_values)
        \cup In3("codeword_proof", sent.whir.codeword_proofs)

Other(value) == (value + 1) % P
OtherDigest(digest) == hash_slice(<<digest>>)

Changed(sent, at) ==
  CASE at[1] = "none" -> sent
    [] at[1] = "numerator" -> [sent EXCEPT !.batch.numerator_term_per_air[at[2]] = Other(@)]
    [] at[1] = "denominator" -> [sent EXCEPT !.batch.denominator_term_per_air[at[2]] = Other(@)]
    [] at[1] = "batch_univariate" -> [sent EXCEPT !.batch.univariate_round_coeffs[at[2]] = Other(@)]
    [] at[1] = "batch_round" -> [sent EXCEPT !.batch.sumcheck_round_polys[at[2]][at[3]] = Other(@)]
    [] at[1] = "claim" -> [sent EXCEPT !.batch.column_openings[at[2]][at[3]][at[4]] = Other(@)]
    [] at[1] = "univariate" -> [sent EXCEPT !.stacking.univariate_round_coeffs[at[2]] = Other(@)]
    [] at[1] = "round" -> [sent EXCEPT !.stacking.sumcheck_round_polys[at[2]][at[3]] = Other(@)]
    [] at[1] = "opening" -> [sent EXCEPT !.stacking.stacking_openings[at[2]][at[3]] = Other(@)]
    [] at[1] = "whir_sumcheck" -> [sent EXCEPT !.whir.sumcheck_polys[at[2]][at[3]] = Other(@)]
    [] at[1] = "codeword_commit" -> [sent EXCEPT !.whir.codeword_commits[at[2]] = OtherDigest(@)]
    [] at[1] = "ood" -> [sent EXCEPT !.whir.ood_values[at[2]] = Other(@)]
    [] at[1] = "final" -> [sent EXCEPT !.whir.final_poly[at[2]] = Other(@)]
    [] at[1] = "initial_row" ->
         [sent EXCEPT !.whir.initial_rows[at[2]][at[3]][at[4]] = [@ EXCEPT ![1] = Other(@)]]
    [] at[1] = "initial_proof" -> [sent EXCEPT !.whir.initial_proofs[at[2]][at[3]][at[4]] = OtherDigest(@)]
    [] at[1] = "codeword_value" -> [sent EXCEPT !.whir.codeword_values[at[2]][at[3]][at[4]] = Other(@)]
    [] at[1] = "codeword_proof" -> [sent EXCEPT !.whir.codeword_proofs[at[2]][at[3]][at[4]] = OtherDigest(@)]

layer_claim(c, e) ==
  IF Size(layer["reference"]) = 0 THEN <<0, c.alpha>>[e]
  ELSE eval_mle_evals_at_point(Array(Size(layer["reference"]), LAMBDA i : layer["reference"][i][e]),
                               SubSeq(c.xi, 1, setup.l_skip + n_logup(c)))

Accepts(sent) ==
  /\ verify_zerocheck_and_logup(batch_context, layer_claim(batch_context, 1), layer_claim(batch_context, 2),
                                sent.batch)
  /\ verify_stacked_reduction(context(data["gpu"]), t_claims(sent.batch.column_openings, NeedRot), sent.stacking, u)
  /\ verify_whir(setup, sent.whir, sent.stacking.stacking_openings, sent.roots, u_cube, whir_challenges)

Verify ==
  /\ step = <<"verify", 0>>
  /\ LET Check(sent) == \E at \in Changes(sent) :
           verdict' = [change |-> at, accepted |-> Accepts(Changed(sent, at))]
     IN  Check(Sent)
  /\ step' = <<"done", 0>>
  /\ UNCHANGED <<setup, data, layer, zerocheck, batch, reduction, stacking, whir, kernel>>

Next ==
  \/ CommitCommon \/ HashRows \/ CommitCached
  \/ zerocheck_round0 \/ zerocheck_round \/ column_openings
  \/ univariate_round \/ multilinear_round \/ start_whir
  \/ whir_sumcheck \/ whir_codeword \/ whir_final_poly \/ whir_queries
  \/ Verify

Spec == Init /\ [][Next]_vars

-----------------------------------------------------------------------------
(* The three backends commit to the same roots, hand the same layer to GKR  *)
(* and send the same messages, whatever they keep, whichever kernels and    *)
(* launches evaluate an AIR, in whichever order the threads hash.           *)
ProversAgree ==
  \A b \in Backends :
    /\ layer[b] = layer["reference"]
    /\ batch[b] = batch["reference"]
    /\ stacking[b] = stacking["reference"]
    /\ whir[b] # <<>> => whir[b].proof = whir["reference"].proof
    /\ \A d \in DOMAIN data[b] : root(data[b][d].tree) = root(data["reference"][d].tree)

(* The verifier accepts what an honest prover sends, and notices one        *)
(* changed claim, root, message, opened value or sibling.                   *)
OnlyHonestAccepted == verdict.accepted <=> verdict.change = <<"none">>

=============================================================================
