--------------------------- MODULE ProofProtocol ----------------------------
(***************************************************************************)
(* A proof and its verification.  One of the three provers writes a proof  *)
(* for a key and a set of traces; it is encoded and decoded, or one length *)
(* or one leaf of it is changed; the verifier takes it stage by stage; and *)
(* the extractor rebuilds it from the verifier's transcript.               *)
(*                                                                         *)
(* Field arithmetic is not modelled: on a changed proof every check that   *)
(* compares field elements may hold or fail.  On the prover's own proof it *)
(* holds, so what the model shows of such a proof is that both sides walk  *)
(* through the same transcript.                                            *)
(***************************************************************************)
EXTENDS Extractor

V == INSTANCE Verifier

CONSTANTS
  Keys        \* the verifying keys, as a set of records

Backends == {"reference", "cpu", "gpu"}

VARIABLES
  vk, heights, backend,   \* what is proved: present AIRs with their log heights
  proof, plog,            \* the proof and the prover's log
  vlog,                   \* the verifier's log
  phase,
  changed,                \* the proof is not the one that was written
  extracted               \* what extract_proof made of the verifier's log

vars == <<vk, heights, backend, proof, plog, vlog, phase, changed, extracted>>

NoProof == [none |-> TRUE]

(* What a prover accepts: the required AIRs are there, a preprocessed trace *)
(* has the height fixed in the key, and the heights meet its constraints.   *)
Vdata(key, h) ==
  [a \in DOMAIN key.airs |->
     IF a \in DOMAIN h THEN [present |-> TRUE, log_height |-> h[a], cached_commitments |-> <<>>]
     ELSE Absent]

Provable(key) ==
  LET airs == DOMAIN key.airs
      some == {s \in SUBSET airs : s # {} /\ \A a \in airs : key.airs[a].is_required => a \in s}
  IN {h \in UNION {[s -> 0 .. log_stacked_height(key)] : s \in some} :
        /\ \A a \in DOMAIN h : key.airs[a].has_preprocessed => h[a] = key.airs[a].preprocessed_log_height
        /\ V!TraceHeightsFit(key, Vdata(key, h))
        /\ FoldLeft(LAMBDA sum, l : sum + l.width, 0, Layouts(key, Vdata(key, h))) <= key.w_stack}

Init ==
  /\ vk \in Keys
  /\ heights \in Provable(vk)
  /\ backend \in Backends
  /\ proof = NoProof /\ plog = <<>> /\ vlog = <<>>
  /\ phase = "preamble" /\ changed = FALSE /\ extracted = NoProof

-----------------------------------------------------------------------------
(* The prover: Coordinator::prove.                                          *)

ProvePreamble ==
  /\ phase = "preamble"
  /\ LET step == prove_preamble(vk, heights)
     IN plog' = step.log /\ proof' = step.proof
  /\ phase' = "constraints"
  /\ UNCHANGED <<vk, heights, backend, vlog, changed, extracted>>

Constraints ==
  CASE backend = "reference" -> prove_zerocheck_and_logup(vk, heights)
    [] backend = "cpu"       -> prove_zerocheck_and_logup_cpu(vk, heights)
    [] backend = "gpu"       -> prove_zerocheck_and_logup_gpu(vk, heights)

Proves(from, to, step) ==
  /\ phase = from
  /\ plog' = plog \o step.log
  /\ proof' = proof @@ step.proof
  /\ phase' = to
  /\ UNCHANGED <<vk, heights, backend, vlog, changed, extracted>>

ProveConstraints == Proves("constraints", "openings", Constraints)

OpeningProof ==
  CASE backend = "reference" -> prove_openings(vk, heights)
    [] backend = "cpu"       -> prove_openings_cpu(vk, heights)
    [] backend = "gpu"       -> prove_openings_gpu(vk, heights)

ProveOpenings == Proves("openings", "proved", OpeningProof)

(* As bytes.                                                                *)
Deliver ==
  /\ phase = "proved"
  /\ LET decoded == decode_from_bytes(encode(proof))
     IN  \/ /\ Encodable(proof) /\ decoded.ok
            /\ proof' = decoded.proof /\ phase' = "shape"
         \/ /\ ~(Encodable(proof) /\ decoded.ok)
            /\ phase' = "rejected" /\ UNCHANGED proof
  /\ UNCHANGED <<vk, heights, backend, plog, vlog, changed, extracted>>

(* The description of one AIR's trace, changed.                             *)
VdataChanges(vdata) ==
  {[vdata EXCEPT !.present = ~@]}
  \cup {[vdata EXCEPT !.log_height = h] :
          h \in {vdata.log_height - 1, vdata.log_height + 1, log_stacked_height(vk) + 1} \cap Nat}
  \cup {[vdata EXCEPT !.cached_commitments = c] : c \in Changes(vdata.cached_commitments, 1)}

Normal(vdata) == IF vdata.present THEN vdata ELSE Absent

(* The three provers write the same proof: changes to one of them are       *)
(* enough.                                                                  *)
DeliverChanged ==
  /\ phase = "proved" /\ backend = "reference"
  /\ \/ \E f \in Fields : \E x \in Changes(proof[f], Depth[f]) :
          proof' = [proof EXCEPT ![f] = x]
     \/ \E a \in DOMAIN vk.airs : \E x \in VdataChanges(proof.trace_vdata[a]) :
          proof' = [proof EXCEPT !.trace_vdata[a] = Normal(x)]
     \/ \E x \in Changes([a \in DOMAIN vk.airs |-> <<"vdata", <<>>>>], 1) :
          Len(x) # Len(vk.airs) /\
          proof' = [proof EXCEPT !.trace_vdata =
                      [a \in DOMAIN x |-> IF a \in DOMAIN @ THEN @[a] ELSE Absent]]
  /\ proof' # proof
  /\ phase' = "shape" /\ changed' = TRUE
  /\ UNCHANGED <<vk, heights, backend, plog, vlog, extracted>>

-----------------------------------------------------------------------------
(* The verifier: verify.                                                    *)

Stage(from, to, step) ==
  /\ phase = from
  /\ vlog' = vlog \o step.log
  /\ \/ step.ok /\ phase' = to
     \/ (~step.ok \/ changed) /\ phase' = "rejected"
  /\ UNCHANGED <<vk, heights, backend, proof, plog, changed, extracted>>

(* The layouts are computed, and unwrapped, in the middle of the check.     *)
VerifyShape ==
  LET reached == TraceShape(vk, proof) /\ GkrShape(vk, proof) /\ BatchShape(vk, proof)
      empty == V!num_traces(proof) = 0
      laid == ~empty /\ reached => LayoutsOk(vk, proof.trace_vdata)
      accepted == ~empty /\ reached /\ laid /\ verify_proof_shape(vk, proof)
  IN /\ phase = "shape"
     /\ vlog' = Ensure(laid)
     /\ phase' = IF accepted THEN "verify_preamble" ELSE "rejected"
     /\ UNCHANGED <<vk, heights, backend, proof, plog, changed, extracted>>

VerifyPreamble == Stage("verify_preamble", "verify_constraints", V!verify_preamble(vk, proof))
VerifyConstraints ==
  Stage("verify_constraints", "verify_stacking", V!verify_zerocheck_and_logup(vk, proof))
VerifyStacking == Stage("verify_stacking", "verify_whir", V!verify_stacked_reduction(vk, proof))
VerifyWhir == Stage("verify_whir", "accepted", V!verify_whir(vk, proof))

Extract ==
  /\ phase = "accepted"
  /\ extracted' = extract_proof(vk, Absorbed(vlog), proof)
  /\ phase' = "extracted"
  /\ UNCHANGED <<vk, heights, backend, proof, plog, vlog, changed>>

Done == phase \in {"rejected", "extracted"} /\ UNCHANGED vars

Next ==
  \/ ProvePreamble \/ ProveConstraints \/ ProveOpenings
  \/ Deliver \/ DeliverChanged
  \/ VerifyShape \/ VerifyPreamble \/ VerifyConstraints \/ VerifyStacking \/ VerifyWhir
  \/ Extract
  \/ Done

Spec == Init /\ [][Next]_vars

-----------------------------------------------------------------------------
Accepted == phase \in {"accepted", "extracted"}

Ops(log, kind) == SelectSeq(log, LAMBDA op : op[1] = kind)

(* The prover's own proof is never refused, and on accepting it the         *)
(* verifier has gone through exactly the prover's transcript: the same      *)
(* elements, challenges and order, whichever backend proved.                *)
Lockstep ==
  ~changed => /\ phase # "rejected"
              /\ IsPrefix(Absorbed(vlog), Absorbed(plog))
              /\ Accepted => Absorbed(vlog) = Absorbed(plog)

(* Both sides give the powers of a batching challenge to the same elements  *)
(* in the same order, and find an interaction in the same row: the verifier *)
(* computes these orders by other loops than the provers.                   *)
Aligned ==
  ~changed /\ Accepted =>
    /\ Ops(vlog, "place") = Ops(plog, "place")
    /\ \A i \in DOMAIN plog : plog[i][1] = "use" => plog[i] \in Range(vlog)

(* No proof, however it is cut or padded, makes the verifier read out of    *)
(* range, fail an assertion or unwrap an error.                             *)
NoPanic == \A i \in DOMAIN vlog : vlog[i][1] # "panic"

(* An element that a challenge is combined with was absorbed before the     *)
(* challenge was drawn.                                                     *)
ChallengeBinds ==
  \A u \in DOMAIN vlog : vlog[u][1] = "use" =>
    \E s \in 1 .. u :
      /\ vlog[s] = Smp(vlog[u][2])
      /\ \A e \in Range(vlog[u][3]) : e = Zero \/ \E o \in 1 .. s : vlog[o] = Obs(e)

(* Witnesses for which no work is asked.                                    *)
Idle ==
  (IF vk.pow.logup = 0 THEN {"logup_pow_witness"} ELSE {})
  \cup (IF vk.pow.mu = 0 THEN {"mu_pow_witness"} ELSE {})
  \cup (IF vk.pow.folding = 0 THEN {"folding_pow_witnesses"} ELSE {})
  \cup (IF vk.pow.query = 0 THEN {"query_phase_pow_witnesses"} ELSE {})

Opened ==
  UNION {Range(vlog[i][3]) : i \in {j \in DOMAIN vlog : vlog[j][1] = "open" /\ Obs(vlog[j][2]) \in Range(vlog)}}

(* Every leaf of an accepted proof was absorbed by the transcript or opened *)
(* against an absorbed commitment; exempt are a witness for which no work   *)
(* is asked and values that the key fixes.                                  *)
EverythingBound ==
  Accepted =>
    LET seen == {vlog[i][2] : i \in {j \in DOMAIN vlog : vlog[j][1] = "observe"}}
    IN /\ \A f \in Fields \ Idle : Leaves(proof[f], Depth[f]) \subseteq seen \cup Opened \cup {One}
       /\ \A a \in DOMAIN proof.trace_vdata :
            LET vdata == proof.trace_vdata[a]
            IN /\ vk.airs[a].is_required \/ Flag(a, vdata.present) \in seen
               /\ vdata.present =>
                    /\ \/ Height(a, vdata.log_height) \in seen
                       \/ /\ vk.airs[a].has_preprocessed
                          /\ vdata.log_height = vk.airs[a].preprocessed_log_height
                    /\ Range(vdata.cached_commitments) \subseteq seen

(* The extractor reads any accepted proof back from the verifier's          *)
(* transcript, but for the witnesses nobody looks at; and its encoding      *)
(* decodes to it, whichever lengths the encoder leaves out.                 *)
RoundTrip ==
  phase = "extracted" =>
    /\ Encodable(proof) /\ decode_from_bytes(encode(proof)) = [ok |-> TRUE, proof |-> proof]
    /\ extracted.ok
    /\ \A f \in DOMAIN proof \ Idle : extracted.proof[f] = proof[f]

=============================================================================
