-------------------------- MODULE MCProofProtocol ---------------------------
(***************************************************************************)
(* Small keys.  Between them: required and optional AIRs, preprocessed and *)
(* cached parts, with and without rotations, interactions and public       *)
(* values, one to three WHIR rounds, and no work or some for each witness.  *)
(***************************************************************************)
EXTENDS ProofProtocol

Plain == [is_required |-> FALSE, has_preprocessed |-> FALSE, preprocessed |-> 0,
          preprocessed_log_height |-> 0, cached_mains |-> <<>>, common_main |-> 1,
          num_interactions |-> 0, need_rot |-> FALSE, num_public_values |-> 0]

(* An AIR of every kind of part, and two smaller ones.                      *)
Full == [Plain EXCEPT !.is_required = TRUE, !.has_preprocessed = TRUE, !.preprocessed = 1,
                      !.preprocessed_log_height = 1, !.cached_mains = <<1, 2>>,
                      !.need_rot = TRUE, !.num_interactions = 1, !.num_public_values = 1]
Bus == [Plain EXCEPT !.num_interactions = 2, !.common_main = 2]
Cached == [Plain EXCEPT !.cached_mains = <<1>>, !.num_public_values = 1, !.need_rot = TRUE]

Unlimited == <<>>
Base == [l_skip |-> 1, n_stack |-> 1, w_stack |-> 16, max_constraint_degree |-> 1, k |-> 1,
         num_queries |-> <<1, 1>>, log_blowup |-> 1,
         pow |-> [logup |-> 1, mu |-> 1, folding |-> 1, query |-> 1],
         trace_height_constraints |-> Unlimited, airs |-> <<Plain>>]

MCKeys ==
  {[Base EXCEPT !.airs = <<Bus, Full>>],
   [Base EXCEPT !.airs = <<Cached, Bus>>, !.num_queries = <<2>>,
                !.pow = [logup |-> 0, mu |-> 0, folding |-> 0, query |-> 0],
                !.trace_height_constraints = <<[coefficients |-> <<1, 2>>, threshold |-> 9]>>],
   [Base EXCEPT !.airs = <<Plain, Cached, Plain>>, !.l_skip = 0, !.n_stack = 3, !.w_stack = 3,
                !.num_queries = <<1, 1, 1>>]}

=============================================================================
