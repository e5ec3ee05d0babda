---------------------------- MODULE Transcripts -----------------------------
(***************************************************************************)
(* Every Fiat-Shamir transcript of the repository under the same calls:    *)
(* the duplex sponge, Plonky3's DuplexChallenger (CpuTranscript, and the   *)
(* host side of DuplexSpongeGpu), the multi-field transcript, and the      *)
(* snapshots that grind_gpu sends to the device.                           *)
(*                                                                         *)
(* Each call is made in two worlds at once.  They are equal until one      *)
(* observed value differs: what a challenge binds is then what makes it    *)
(* differ.  A digest, a squeezed element and a digit are terms; the        *)
(* permutation is given by the instance.                                   *)
(***************************************************************************)
EXTENDS Integers, Sequences, SequencesExt

-----------------------------------------------------------------------------
(***************************************************************************)
(* The permutation-based duplex sponge in overwrite mode                   *)
(* (transcript/duplex_sponge.rs).  The same code exists as                 *)
(* DeviceSpongeState in Rust and in CUDA, and twice over the large field.  *)
(***************************************************************************)

CONSTANTS
  WIDTH,         \* cells of the state
  RATE,          \* cells that are read and written
  Zero,          \* the default element of the field
  Permute(_, _)  \* state, i -> cell i of the permuted state

ASSUME SpongeAssumption ==
  /\ WIDTH \in Nat /\ RATE \in Nat \ {0}
  /\ RATE <= WIDTH

permute_mut(state) == [i \in 1 .. WIDTH |-> Permute(state, i)]

EmptySponge == [state |-> [i \in 1 .. WIDTH |-> Zero], absorb_idx |-> 0, sample_idx |-> 0]

Permuted(sponge) ==
  [state |-> permute_mut(sponge.state), absorb_idx |-> 0, sample_idx |-> RATE]

(* The value goes to the next cell; a full rate is permuted.                *)
absorb(sponge, value) ==
  LET i    == sponge.absorb_idx + 1
      next == [sponge EXCEPT !.state[i] = value, !.absorb_idx = i]
  IN IF i = RATE THEN Permuted(next) ELSE next

(* One value after the other, as the loops over a digest do.                *)
InTurn(op(_, _), sponge, values) ==
  LET after[i \in 0 .. Len(values)] ==
        IF i = 0 THEN sponge ELSE op(after[i - 1], values[i])
  IN  after[Len(values)]

(* A squeeze reads the next cell from the top, permuting first if anything  *)
(* was absorbed or the rate is used up.                                     *)
Stale_Consumed(sponge) == sponge.sample_idx = 0
Stale(sponge) == sponge.absorb_idx # 0 \/ sponge.sample_idx = 0

Ready(sponge) == IF Stale(sponge) THEN Permuted(sponge) ELSE sponge

squeeze_Repeats(sponge) ==
  LET ready == Ready(sponge)
  IN  [sponge |-> ready, value |-> ready.state[ready.sample_idx]]
squeeze(sponge) ==
  LET ready == Ready(sponge)
  IN  [sponge |-> [ready EXCEPT !.sample_idx = @ - 1],
       value  |-> ready.state[ready.sample_idx]]

-----------------------------------------------------------------------------
(***************************************************************************)
(* The multi-field transcript (transcript/multi_field.rs): observations of *)
(* a small field are packed into elements of the sponge's large field, and *)
(* every squeezed element gives several samples.                           *)
(***************************************************************************)

CONSTANTS
  NumObs,     \* num_obs_per_elem: small elements packed into one large one
  NumSamples  \* num_samples_per_elem: samples taken from one squeezed element

ASSUME MultiFieldAssumption == NumObs \in Nat \ {0} /\ NumSamples \in Nat \ {0}

EmptyMulti == [sponge |-> EmptySponge, observe_buf |-> <<>>, sample_buf |-> <<>>]

(* Base-2^bits packing is injective but for trailing zeros.                 *)
pack_f_to_sf(buf) ==
  <<"packed", SubSeq(buf, 1, Max({0} \cup {i \in DOMAIN buf : buf[i] # Zero}))>>

(* Base-p digits of a large element, lowest first.                          *)
extract_samples(value) == [i \in 1 .. NumSamples |-> <<"digit", i, value>>]

invalidate_samples_Never(multi) == multi
invalidate_samples(multi) == [multi EXCEPT !.sample_buf = <<>>]

flush_observe_buf(multi) ==
  IF multi.observe_buf = <<>> THEN multi
  ELSE [multi EXCEPT !.sponge = absorb(@, pack_f_to_sf(multi.observe_buf)),
                     !.observe_buf = <<>>]

MultiObserve(multi, value) ==
  LET buf  == Append(multi.observe_buf, value)
      next == [invalidate_samples(multi) EXCEPT !.observe_buf = buf]
  IN IF Len(buf) = NumObs THEN flush_observe_buf(next) ELSE next

(* The digits of one squeeze are handed out lowest first.                   *)
MultiSample(multi) ==
  IF multi.sample_buf # <<>>
  THEN [multi |-> [multi EXCEPT !.sample_buf = Tail(@)], value |-> Head(multi.sample_buf)]
  ELSE LET flushed == flush_observe_buf(multi)
           out     == squeeze(flushed.sponge)
           digits  == extract_samples(out.value)
       IN  [multi |-> [flushed EXCEPT !.sponge = out.sponge, !.sample_buf = Tail(digits)],
            value |-> Head(digits)]

(* Elements of the large field bypass the packing.                          *)
absorb_slice(multi, elems) ==
  LET flushed == flush_observe_buf(invalidate_samples(multi))
  IN  [flushed EXCEPT !.sponge = InTurn(absorb, @, elems)]

-----------------------------------------------------------------------------
(***************************************************************************)
(* The calls.                                                              *)
(***************************************************************************)

CONSTANTS
  Value,     \* elements of the small field that callers observe
  Digest,    \* commitments that callers observe
  MaxCalls   \* bound: calls of a behaviour

ASSUME TranscriptAssumption == Zero \in Value /\ MaxCalls \in Nat

World == {1, 2}

VARIABLES
  duplex,      \* world -> DuplexSponge
  challenger,  \* world -> DuplexChallenger
  multi,       \* world -> MultiFieldTranscript
  forked,      \* the worlds have observed different values
  drawn,       \* history: the samples so far, by transcript, in world 1
  last,        \* what the last call gave, by transcript and world
  calls

vars == <<duplex, challenger, multi, forked, drawn, last, calls>>

-----------------------------------------------------------------------------
(* Plonky3's DuplexChallenger: it buffers inputs until it permutes, and the *)
(* cells that the permutation gave until they are popped.                   *)

EmptyChallenger ==
  [sponge_state |-> EmptySponge.state, input_buffer |-> <<>>, output_buffer |-> <<>>]

Overlay(state, buf) ==
  [i \in 1 .. WIDTH |-> IF i <= Len(buf) THEN buf[i] ELSE state[i]]

Duplexing(ch) ==
  LET state == permute_mut(Overlay(ch.sponge_state, ch.input_buffer))
  IN  [sponge_state |-> state, input_buffer |-> <<>>,
       output_buffer |-> [i \in 1 .. RATE |-> state[i]]]

ChallengerObserve(ch, value) ==
  LET next == [ch EXCEPT !.output_buffer = <<>>, !.input_buffer = Append(@, value)]
  IN  IF Len(next.input_buffer) = RATE THEN Duplexing(next) ELSE next

ChallengerSample(ch) ==
  LET ready == IF ch.input_buffer # <<>> \/ ch.output_buffer = <<>>
               THEN Duplexing(ch) ELSE ch
      n == Len(ready.output_buffer)
  IN  [challenger |-> [ready EXCEPT !.output_buffer = SubSeq(@, 1, n - 1)],
       value |-> ready.output_buffer[n]]

-----------------------------------------------------------------------------
(* The device copies of grind_gpu.                                         *)

(* DuplexSpongeGpu::sync_h2d: the pending inputs overlay the state.         *)
sync_h2d_NoOverlay(ch) ==
  [state |-> ch.sponge_state,
   absorb_idx |-> Len(ch.input_buffer), sample_idx |-> Len(ch.output_buffer)]
sync_h2d(ch) ==
  [state |-> Overlay(ch.sponge_state, ch.input_buffer),
   absorb_idx |-> Len(ch.input_buffer), sample_idx |-> Len(ch.output_buffer)]

(* What the kernel samples for a witness.                                   *)
sponge_check_witness(device, witness) == squeeze(absorb(device, witness)).value

(* MultiFieldTranscriptGpu::sync_h2d: all but the buffered samples.         *)
multi_sync_h2d(m) == [m EXCEPT !.sample_buf = <<>>]

(* The kernel's copy of the transcript takes the first digit of a fresh     *)
(* squeeze and keeps no buffer.                                             *)
bn254_transcript_observe(device, value) ==
  LET next == [device EXCEPT !.observe_buf = Append(@, value)]
  IN  IF Len(next.observe_buf) = NumObs THEN flush_observe_buf(next) ELSE next
bn254_transcript_sample(device) ==
  extract_samples(squeeze(flush_observe_buf(device).sponge).value)[1]
bn254_sponge_check_witness(device, witness) ==
  bn254_transcript_sample(bn254_transcript_observe(device, witness))

-----------------------------------------------------------------------------
(* The calls.                                                              *)

Nothing == [w \in World |-> <<>>]

Init ==
  /\ duplex = [w \in World |-> EmptySponge]
  /\ challenger = [w \in World |-> EmptyChallenger]
  /\ multi = [w \in World |-> EmptyMulti]
  /\ forked = FALSE
  /\ drawn = [duplex |-> {}, multi |-> {}]
  /\ last = [op |-> "new", duplex |-> Nothing, challenger |-> Nothing, multi |-> Nothing,
             gpu |-> Nothing, multi_gpu |-> Nothing]
  /\ calls = 0

Gives(op, d, c, m, gpu, multi_gpu) ==
  last' = [op |-> op, duplex |-> d, challenger |-> c, multi |-> m,
           gpu |-> gpu, multi_gpu |-> multi_gpu]

Called == calls < MaxCalls /\ calls' = calls + 1

(* values[w] is observed in world w.                                        *)
observe(values) ==
  /\ Called
  /\ duplex' = [w \in World |-> absorb(duplex[w], values[w])]
  /\ challenger' = [w \in World |-> ChallengerObserve(challenger[w], values[w])]
  /\ multi' = [w \in World |-> MultiObserve(multi[w], values[w])]
  /\ forked' = (forked \/ values[1] # values[2])
  /\ Gives("observe", Nothing, Nothing, Nothing, Nothing, Nothing)
  /\ UNCHANGED drawn

(* A digest is RATE elements of the small field, or one of the large field. *)
limbs(digest) == [i \in 1 .. RATE |-> <<"limb", i, digest>>]

observe_commit(digests) ==
  LET cells(w) == limbs(digests[w])
  IN /\ Called
     /\ duplex' = [w \in World |-> InTurn(absorb, duplex[w], cells(w))]
     /\ challenger' =
          [w \in World |-> InTurn(ChallengerObserve, challenger[w], cells(w))]
     /\ multi' = [w \in World |-> absorb_slice(multi[w], <<digests[w]>>)]
     /\ forked' = (forked \/ digests[1] # digests[2])
     /\ Gives("observe", Nothing, Nothing, Nothing, Nothing, Nothing)
     /\ UNCHANGED drawn

sample ==
  LET d == [w \in World |-> squeeze(duplex[w])]
      c == [w \in World |-> ChallengerSample(challenger[w])]
      m == [w \in World |-> MultiSample(multi[w])]
      val(x) == [w \in World |-> x[w].value]
  IN /\ Called
     /\ duplex' = [w \in World |-> d[w].sponge]
     /\ challenger' = [w \in World |-> c[w].challenger]
     /\ multi' = [w \in World |-> m[w].multi]
     /\ drawn' = [duplex |-> drawn.duplex \cup {d[1].value},
                  multi  |-> drawn.multi \cup {m[1].value}]
     /\ Gives("sample", val(d), val(c), val(m), Nothing, Nothing)
     /\ UNCHANGED forked

(* grind and grind_gpu: a witness whose next sample is accepted is searched *)
(* on the device, then observed and sampled on the host.                    *)
grind(witness) ==
  LET d == [w \in World |-> squeeze(absorb(duplex[w], witness))]
      c == [w \in World |-> ChallengerSample(ChallengerObserve(challenger[w], witness))]
      m == [w \in World |-> MultiSample(MultiObserve(multi[w], witness))]
      val(x) == [w \in World |-> x[w].value]
  IN /\ Called
     /\ duplex' = [w \in World |-> d[w].sponge]
     /\ challenger' = [w \in World |-> c[w].challenger]
     /\ multi' = [w \in World |-> m[w].multi]
     /\ drawn' = [duplex |-> drawn.duplex \cup {d[1].value},
                  multi  |-> drawn.multi \cup {m[1].value}]
     /\ Gives("grind", val(d), val(c), val(m),
          [w \in World |-> sponge_check_witness(sync_h2d(challenger[w]), witness)],
          [w \in World |-> bn254_sponge_check_witness(multi_sync_h2d(multi[w]), witness)])
     /\ UNCHANGED forked

Same(v) == [w \in World |-> v]

Next ==
  \/ \E v \in Value : observe(Same(v))
  \/ \E u, v \in Value : ~forked /\ u # v /\ observe(<<u, v>>)
  \/ \E d \in Digest : observe_commit(Same(d))
  \/ \E d, e \in Digest : ~forked /\ d # e /\ observe_commit(<<d, e>>)
  \/ sample
  \/ \E v \in Value : grind(v)

Spec == Init /\ [][Next]_vars

-----------------------------------------------------------------------------
(* Properties.                                                             *)

(* "This implementation must be equivalent to Plonky3's DuplexChallenger":  *)
(* both give the same challenge at every sample and every grind.            *)
SameChallenges == last.duplex = last.challenger

(* A witness that the device accepted is one that the host, and so the      *)
(* verifier, accepts: the kernel sampled what the host samples.             *)
DeviceAgrees ==
  last.op = "grind" => last.gpu = last.challenger /\ last.multi_gpu = last.multi

(* A challenge binds everything observed before it: once two transcripts    *)
(* have observed different values under the same calls, none of their       *)
(* challenges is equal any more.                                            *)
Binding ==
  forked /\ last.op \in {"sample", "grind"} =>
    last.duplex[1] # last.duplex[2] /\ last.multi[1] # last.multi[2]

(* No challenge is given out twice.                                         *)
Fresh ==
  [][ last'.op \in {"sample", "grind"} =>
        /\ last'.duplex[1] \notin drawn.duplex
        /\ last'.multi[1] \notin drawn.multi ]_vars

=============================================================================
