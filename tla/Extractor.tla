----------------------------- MODULE Extractor ------------------------------
(***************************************************************************)
(* extract_proof (verifier/transcript_extractor.rs): the proof is rebuilt  *)
(* from the verifying key, the log of a transcript, and the openings of    *)
(* the queries.  What the cursor expects next is a sequence of operations  *)
(* on slots; reading the log against it fills the slots.                   *)
(***************************************************************************)
EXTENDS Provers, ProofData

Entry(log, i) == IF i \in DOMAIN log THEN log[i] ELSE <<"end", <<"end", <<>>>>, <<>>>>

(* extract_trace_preamble, one AIR.  A flag is zero or one (observe_bool).  *)
extract_trace(vk, log, at, a) ==
  LET air == vk.airs[a]
      flags == IF air.is_required THEN 0 ELSE 1
      flag == Entry(log, at.position + 1)
      present == air.is_required \/ Value(flag[2]) = 1
      flagged == air.is_required \/ Value(flag[2]) \in {0, 1}
      height == Entry(log, at.position + flags + 1)
      cached == at.position + flags + 1
      pvs == cached + Len(air.cached_mains)
      end == IF present THEN pvs + air.num_public_values ELSE at.position + flags
      observed == \A i \in at.position + 1 .. end : Entry(log, i)[1] = "observe"
      taken(from, n) == [i \in 1 .. n |-> log[from + i][2]]
  IN IF ~at.ok \/ ~observed \/ ~flagged THEN [at EXCEPT !.ok = FALSE]
     ELSE IF ~present
     THEN [at EXCEPT !.position = end, !.trace_vdata = Append(@, Absent),
                     !.public_values = Append(@, <<>>)]
     ELSE [ok |-> air.has_preprocessed => height[2] = <<"preprocessed_commit", <<a>>>>,
           position |-> end,
           trace_vdata |-> Append(at.trace_vdata,
             [present |-> TRUE,
              log_height |-> IF air.has_preprocessed THEN air.preprocessed_log_height
                             ELSE Value(height[2]),
              cached_commitments |-> taken(cached, Len(air.cached_mains))]),
           public_values |-> Append(at.public_values, taken(pvs, air.num_public_values))]

extract_trace_preamble(vk, log) ==
  FoldLeft(LAMBDA at, a : extract_trace(vk, log, at, a),
           [ok |-> TRUE, position |-> 2, trace_vdata |-> <<>>, public_values |-> <<>>],
           [a \in DOMAIN vk.airs |-> a])

-----------------------------------------------------------------------------
(* The rest of the log, from the shapes.                                    *)

extract_witness(bits, slot) == IF bits = 0 THEN <<>> ELSE <<Obs(slot), Smp(<<"pow", <<>>>>)>>
Sampled(n) == [i \in 1 .. n |-> Smp(<<"challenge", <<>>>>)]

extract_gkr(vk, p) ==
  LET rounds == Len(p.claims_per_layer)
      subround(r, i) == <<Obs(p.sumcheck_polys[r][i])>> \o Sampled(1)
      round(r) == Sampled(1) \o Each(r, LAMBDA i : subround(r, i))
                  \o <<Obs(p.claims_per_layer[r + 1])>> \o Sampled(1)
  IN extract_witness(vk.pow.logup, p.logup_pow_witness) \o Sampled(2)
     \o (IF rounds = 0 THEN <<>>
         ELSE <<Obs(p.q0_claim), Obs(p.claims_per_layer[1])>> \o Sampled(1) \o Each(rounds - 1, round))

(* A column that needs no rotation is followed by a zero.                   *)
read_column_openings_part_NoZero(openings, need_rot) == ObsAll(openings)
read_column_openings_part(openings, need_rot) ==
  Each(Len(openings), LAMBDA j : <<Obs(openings[j])>> \o (IF need_rot THEN <<>> ELSE <<Obs(Zero)>>))

extract_batch_constraints(vk, present, padding, p) ==
  LET part(t, i) == read_column_openings_part(p.column_openings[t][i], vk.airs[present[t]].need_rot)
  IN Sampled(padding + 1)
     \o Each(Len(present), LAMBDA t : <<Obs(p.numerator_term_per_air[t]),
                                        Obs(p.denominator_term_per_air[t])>>)
     \o Sampled(1) \o ObsAll(p.batch_univariate_coeffs) \o Sampled(1)
     \o Each(Len(p.batch_round_polys), LAMBDA r : ObsAll(p.batch_round_polys[r]) \o Sampled(1))
     \o Each(Len(present), LAMBDA t : part(t, 1))
     \o Each(Len(present), LAMBDA t :
          Each(Len(p.column_openings[t]) - 1, LAMBDA i : part(t, i + 1)))

extract_stacking(p) ==
  Sampled(1) \o ObsAll(p.stack_univariate_coeffs) \o Sampled(1)
  \o Each(Len(p.stack_round_polys), LAMBDA j : <<Obs(p.stack_round_polys[j])>> \o Sampled(1))
  \o ObsAll(FlattenSeq(p.stacking_openings))

extract_whir(vk, p) ==
  LET rounds == num_whir_rounds(vk)
      fold(i) == <<Obs(p.whir_sumcheck_polys[i])>>
                 \o extract_witness(vk.pow.folding, p.folding_pow_witnesses[i]) \o Sampled(1)
      ending(r) == IF r = rounds THEN ObsAll(p.final_poly)
                   ELSE <<Obs(p.codeword_commits[r])>> \o Sampled(1) \o <<Obs(p.ood_values[r])>>
      round(r) == Each(vk.k, LAMBDA j : fold((r - 1) * vk.k + j)) \o ending(r)
                  \o extract_witness(vk.pow.query, p.query_phase_pow_witnesses[r])
                  \o Sampled(vk.num_queries[r] + 1)
  IN extract_witness(vk.pow.mu, p.mu_pow_witness) \o Sampled(1) \o Each(rounds, round)

Hinted == {"initial_round_opened_rows", "initial_round_merkle_proofs",
           "codeword_opened_values", "codeword_merkle_proofs"}

(* validate_initial_round_opened_rows and its like.                         *)
ValidHints(vk, proof) ==
  /\ Len(proof.initial_round_opened_rows) = Len(proof.stacking_openings)
  /\ Len(proof.initial_round_merkle_proofs) = Len(proof.stacking_openings)
  /\ Len(proof.codeword_opened_values) = num_whir_rounds(vk) - 1
  /\ Len(proof.codeword_merkle_proofs) = num_whir_rounds(vk) - 1
  /\ InitialOpeningsShape(vk, proof)
  /\ CodewordOpeningsShape(vk, proof)

(* ExtractionShape::new, and a record of slots of these shapes.             *)
ExtractionShape(vk, pre) ==
  LET present == PerTrace(pre.trace_vdata)
      layouts == Layouts(vk, pre.trace_vdata)
      n_max == Above(pre.trace_vdata[present[1]].log_height, vk.l_skip)
      n_logup == calculate_n_logup(vk.l_skip, total_interactions(vk, pre.trace_vdata))
      rounds == num_gkr_rounds(vk, pre.trace_vdata)
      widths == [c \in DOMAIN layouts |-> layouts[c].width]
  IN [present |-> present,
      padding |-> Above(vk.l_skip + MaxOf(n_max, n_logup), rounds),
      slots |-> [logup_pow_witness |-> Witness(vk.pow.logup, "logup_pow_witness", <<>>)]
                @@ GkrProof(rounds) @@ BatchProof(vk, present, n_max)
                @@ StackingProof(vk, widths) @@ WhirProof(vk, widths)]

expected_log(vk, shape) ==
  extract_gkr(vk, shape.slots)
  \o extract_batch_constraints(vk, shape.present, shape.padding, shape.slots)
  \o extract_stacking(shape.slots) \o extract_whir(vk, shape.slots)

(* The slots filled from the log, which has to end with the last of them.   *)
read_slots(log, position, expected) ==
  LET read(i) == Entry(log, position + i)
      agrees(i) == /\ read(i)[1] = expected[i][1]
                   /\ expected[i][2] = Zero => read(i)[2] = Zero
  IN  [ok |-> Len(log) = position + Len(expected) /\ \A i \in DOMAIN expected : agrees(i),
       filled |-> [slot \in {expected[i][2] : i \in DOMAIN expected} |->
                     read(CHOOSE i \in DOMAIN expected : expected[i][2] = slot)[2]]]

rebuilt_proof(log, pre, slots, filled, hints) ==
  LET Fill(slot) == IF slot \in {Zero, One} THEN slot ELSE filled[slot]
  IN  [f \in Fields |->
         IF f \in Hinted THEN hints[f]
         ELSE IF f = "common_main_commit" THEN Entry(log, 2)[2]
         ELSE IF f = "public_values" THEN pre.public_values
         ELSE MapLeaves(Fill, slots[f], Depth[f])]

extract_proof(vk, log, hints) ==
  LET Checked(pre, proof) ==
        IF ValidHints(vk, proof) THEN [ok |-> TRUE, proof |-> proof @@ [trace_vdata |-> pre.trace_vdata]]
        ELSE [ok |-> FALSE]
      Slots(pre, shape, slots) ==
        IF slots.ok THEN Checked(pre, rebuilt_proof(log, pre, shape.slots, slots.filled, hints))
        ELSE [ok |-> FALSE]
      Shape(pre, shape) == Slots(pre, shape, read_slots(log, pre.position, expected_log(vk, shape)))
      Preamble(pre) ==
        IF ~pre.ok \/ PerTrace(pre.trace_vdata) = <<>> \/ ~LayoutsOk(vk, pre.trace_vdata)
        THEN [ok |-> FALSE]
        ELSE Shape(pre, ExtractionShape(vk, pre))
  IN IF Entry(log, 1) # Obs(<<"vk_pre_hash", <<>>>>) \/ Entry(log, 2)[1] # "observe"
     THEN [ok |-> FALSE]
     ELSE Preamble(extract_trace_preamble(vk, log))

=============================================================================
