----------------------------- MODULE ProofShape -----------------------------
(***************************************************************************)
(* The verifying key, the quantities that prover and verifier derive from  *)
(* it and from the trace heights, and verify_proof_shape                   *)
(* (verifier/proof_shape.rs).  A proof is a record of nested sequences, as *)
(* in proof.rs; its leaves are terms that name the element.                *)
(***************************************************************************)
EXTENDS StackedLayout, FiniteSetsExt

MaxOf(a, b) == IF a >= b THEN a ELSE b
Above(a, b) == MaxOf(a - b, 0)

log_stacked_height(vk) == vk.l_skip + vk.n_stack
num_whir_rounds(vk) == Len(vk.num_queries)
num_whir_sumcheck_rounds(vk) == num_whir_rounds(vk) * vk.k
log_final_poly_len(vk) == log_stacked_height(vk) - num_whir_sumcheck_rounds(vk)

num_parts(air) == 1 + (IF air.has_preprocessed THEN 1 ELSE 0) + Len(air.cached_mains)

(* The parts of a trace that have a commitment of their own.                *)
OwnParts(air) ==
  (IF air.has_preprocessed THEN <<air.preprocessed>> ELSE <<>>) \o air.cached_mains

(* u64::BITS - leading_zeros.                                               *)
BitLength(x) == Min({n \in 0 .. 30 : x < 2 ^ n})

calculate_n_logup(l_skip, total) == IF total # 0 THEN BitLength(total) - l_skip ELSE 0

Absent == [present |-> FALSE, log_height |-> 0, cached_commitments |-> <<>>]

(* Present AIRs, highest first; equal heights in the order of the key.      *)
PerTrace(vdata) ==
  LET present == {a \in DOMAIN vdata : vdata[a].present}
      Higher(a, b) == \/ vdata[a].log_height > vdata[b].log_height
                      \/ vdata[a].log_height = vdata[b].log_height /\ a < b
  IN SetToSortSeq(present, Higher)

total_interactions(vk, vdata) ==
  MapThenSumSet(LAMBDA a : vk.airs[a].num_interactions
                             * 2 ^ MaxOf(vdata[a].log_height, vk.l_skip),
                {a \in DOMAIN vdata : vdata[a].present})

All(s, P(_, _)) == \A i \in DOMAIN s : P(i, s[i])

-----------------------------------------------------------------------------
(* verify_proof_shape.                                                      *)

TraceShape(vk, proof) ==
  /\ Len(proof.trace_vdata) = Len(vk.airs)
  /\ Len(proof.public_values) = Len(vk.airs)
  /\ \A a \in DOMAIN vk.airs :
       LET vdata == proof.trace_vdata[a]
           pvs == proof.public_values[a]
       IN IF ~vdata.present
          THEN ~vk.airs[a].is_required /\ pvs = <<>>
          ELSE /\ Len(vdata.cached_commitments) = Len(vk.airs[a].cached_mains)
               /\ vdata.log_height <= log_stacked_height(vk)
               /\ Len(pvs) = vk.airs[a].num_public_values

num_gkr_rounds(vk, vdata) ==
  LET total == total_interactions(vk, vdata)
  IN IF total = 0 THEN 0 ELSE vk.l_skip + calculate_n_logup(vk.l_skip, total)

GkrShape_Unread(vk, proof) ==
  LET rounds == num_gkr_rounds(vk, proof.trace_vdata)
  IN rounds # 0 =>
       /\ Len(proof.claims_per_layer) = rounds
       /\ Len(proof.sumcheck_polys) = Above(rounds, 1)
       /\ All(proof.sumcheck_polys, LAMBDA i, poly : Len(poly) = i)
GkrShape(vk, proof) ==
  LET rounds == num_gkr_rounds(vk, proof.trace_vdata)
  IN /\ Len(proof.claims_per_layer) = rounds
     /\ Len(proof.sumcheck_polys) = Above(rounds, 1)
     /\ All(proof.sumcheck_polys, LAMBDA i, poly : Len(poly) = i)

OpeningsShape_AnyCached(air, part_openings) ==
  LET per_col == IF air.need_rot THEN 2 ELSE 1
  IN /\ Len(part_openings) = num_parts(air)
     /\ Len(part_openings[1]) = air.common_main * per_col
     /\ air.has_preprocessed => Len(part_openings[2]) = air.preprocessed * per_col
OpeningsShape(air, part_openings) ==
  LET per_col == IF air.need_rot THEN 2 ELSE 1
      own == OwnParts(air)
  IN /\ Len(part_openings) = num_parts(air)
     /\ Len(part_openings[1]) = air.common_main * per_col
     /\ \A p \in DOMAIN own : Len(part_openings[1 + p]) = own[p] * per_col

BatchShape(vk, proof) ==
  LET per_trace == PerTrace(proof.trace_vdata)
      n_max == Above(proof.trace_vdata[per_trace[1]].log_height, vk.l_skip)
      s_deg == vk.max_constraint_degree + 1
      s_0_deg == s_deg * (2 ^ vk.l_skip - 1)
  IN /\ Len(proof.numerator_term_per_air) = Len(per_trace)
     /\ Len(proof.denominator_term_per_air) = Len(per_trace)
     /\ Len(proof.batch_univariate_coeffs) = s_0_deg + 1
     /\ Len(proof.batch_round_polys) = n_max
     /\ Len(proof.column_openings) = Len(per_trace)
     /\ All(proof.batch_round_polys, LAMBDA i, evals : Len(evals) = s_deg)
     /\ All(proof.column_openings,
            LAMBDA i, openings : OpeningsShape(vk.airs[per_trace[i]], openings))

(* One layout for the common main parts of all traces, one for every other  *)
(* part.                                                                    *)
Layouts(vk, vdata) ==
  LET per_trace == PerTrace(vdata)
      height(i) == vdata[per_trace[i]].log_height
      lay(sorted) == Layout(vk.l_skip, log_stacked_height(vk), sorted)
      common == [i \in DOMAIN per_trace |-> <<vk.airs[per_trace[i]].common_main, height(i)>>]
      other(i) == LET own == OwnParts(vk.airs[per_trace[i]])
                  IN  [p \in DOMAIN own |-> lay(<<<<own[p], height(i)>>>>)]
  IN <<lay(common)>> \o FlattenSeq([i \in DOMAIN per_trace |-> other(i)])

(* .unwrap() on every layout.                                               *)
LayoutsOk(vk, vdata) == All(Layouts(vk, vdata), LAMBDA i, layout : layout.ok)

StackingShape(vk, proof) ==
  LET layouts == Layouts(vk, proof.trace_vdata)
      width == FoldLeft(LAMBDA sum, layout : sum + layout.width, 0, layouts)
  IN /\ Len(proof.stack_univariate_coeffs) = 2 * (2 ^ vk.l_skip - 1) + 1
     /\ Len(proof.stack_round_polys) = vk.n_stack
     /\ width <= vk.w_stack
     /\ Len(proof.stacking_openings) = Len(layouts)
     /\ All(proof.stacking_openings,
            LAMBDA c, openings : Len(openings) = layouts[c].width)

WhirShape(vk, proof) ==
  LET rounds == num_whir_rounds(vk)
      num_layouts == Len(Layouts(vk, proof.trace_vdata))
  IN /\ Len(proof.whir_sumcheck_polys) = num_whir_sumcheck_rounds(vk)
     /\ Len(proof.codeword_commits) = rounds - 1
     /\ Len(proof.ood_values) = rounds - 1
     /\ Len(proof.folding_pow_witnesses) = num_whir_sumcheck_rounds(vk)
     /\ Len(proof.query_phase_pow_witnesses) = rounds
     /\ Len(proof.initial_round_opened_rows) = num_layouts
     /\ Len(proof.initial_round_merkle_proofs) = num_layouts
     /\ Len(proof.codeword_opened_values) = rounds - 1
     /\ Len(proof.codeword_merkle_proofs) = rounds - 1
     /\ Len(proof.final_poly) = 2 ^ log_final_poly_len(vk)

InitialOpeningsShape(vk, proof) ==
  \A c \in DOMAIN proof.initial_round_opened_rows :
    LET rows == proof.initial_round_opened_rows[c]
        paths == proof.initial_round_merkle_proofs[c]
        width == Len(proof.stacking_openings[c])
        depth == Above(log_stacked_height(vk) + vk.log_blowup, vk.k)
    IN /\ Len(rows) = vk.num_queries[1]
       /\ Len(paths) = vk.num_queries[1]
       /\ All(rows, LAMBDA q, opened : /\ Len(opened) = 2 ^ vk.k
                                       /\ All(opened, LAMBDA j, row : Len(row) = width))
       /\ All(paths, LAMBDA q, path : Len(path) = depth)

CodewordOpeningsShape(vk, proof) ==
  \A round \in 1 .. num_whir_rounds(vk) - 1 :
    LET values == proof.codeword_opened_values[round]
        paths == proof.codeword_merkle_proofs[round]
        depth == log_stacked_height(vk) + vk.log_blowup - vk.k - round
    IN /\ Len(values) = vk.num_queries[round + 1]
       /\ Len(paths) = vk.num_queries[round + 1]
       /\ All(values, LAMBDA q, opened : Len(opened) = 2 ^ vk.k)
       /\ All(paths, LAMBDA q, path : Len(path) = depth)

verify_proof_shape(vk, proof) ==
  /\ TraceShape(vk, proof)
  /\ GkrShape(vk, proof)
  /\ BatchShape(vk, proof)
  /\ StackingShape(vk, proof)
  /\ WhirShape(vk, proof)
  /\ InitialOpeningsShape(vk, proof)
  /\ CodewordOpeningsShape(vk, proof)

=============================================================================
