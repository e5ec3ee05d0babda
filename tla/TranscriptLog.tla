--------------------------- MODULE TranscriptLog ----------------------------
(***************************************************************************)
(* The operations of a transcript as a log: what is observed, where a      *)
(* challenge is sampled, and, on the verifier's side, with which elements  *)
(* a challenge is combined and which elements are opened against a         *)
(* commitment.  An element and a challenge are terms <<name, index>>.      *)
(***************************************************************************)
EXTENDS Integers, Sequences, SequencesExt

Zero == <<"zero", <<>>>>
One == <<"one", <<>>>>
Panic == <<"panic", <<>>>>

(* Elements whose value the model follows: it is the last of the index.     *)
Flag(air, present) == <<"present", <<air, IF present THEN 1 ELSE 0>>>>
Height(air, log_height) == <<"log_height", <<air, log_height>>>>
Value(x) == Last(x[2])

Smp(challenge) == <<"sample", challenge, <<>>>>
Obs(x) == <<IF x = Panic THEN "panic" ELSE "observe", x, <<>>>>
Use(challenge, elements) == <<"use", challenge, elements>>
Open(commit, elements) == <<"open", commit, elements>>
(* The rows at which the columns of a stacked matrix are read.              *)
Place(rows) == <<"place", <<"interactions", <<>>>>, rows>>
Ensure(holds) == IF holds THEN <<>> ELSE <<Obs(Panic)>>

ObsAll(elements) == [i \in DOMAIN elements |-> Obs(elements[i])]

(* The operations of a loop over 1 .. n.                                    *)
Each(n, Body(_)) == FlattenSeq([i \in 1 .. n |-> Body(i)])

Terms(name, n) == [i \in 1 .. n |-> <<name, <<i>>>>]

(* grind and check_witness: no work is asked for with 0 bits, and the       *)
(* witness is zero.                                                         *)
Witness(bits, name, index) == IF bits = 0 THEN Zero ELSE <<name, index>>
Pow(bits, witness, index) ==
  IF bits = 0 THEN <<>> ELSE <<Obs(witness), Smp(<<"pow", index>>)>>

(* Elements read by index: the code panics out of range.                    *)
Read(s, i) == IF i \in DOMAIN s THEN s[i] ELSE Panic
ReadAll(s, i) == IF i \in DOMAIN s THEN s[i] ELSE <<Panic>>

(* column_openings_by_rot: claims in pairs, or each with a zero for the     *)
(* rotation that is not needed.                                             *)
ByRot(claims, need_rot) ==
  IF need_rot
  THEN [i \in 1 .. Len(claims) \div 2 |-> <<claims[2 * i - 1], claims[2 * i]>>]
  ELSE [i \in DOMAIN claims |-> <<claims[i], Zero>>]

ObsByRot(claims, need_rot) ==
  LET pairs == ByRot(claims, need_rot)
  IN  Each(Len(pairs), LAMBDA i : ObsAll(pairs[i]))

(* Challenges of the fractional sumcheck, whose layers and rounds are       *)
(* numbered from 1, and those that fill xi up.                              *)
GkrMu(layer) == Smp(<<"gkr_mu", <<layer>>>>)
GkrLambda(r) == Smp(<<"gkr_lambda", <<r>>>>)
GkrR(r, i) == Smp(<<"gkr_r", <<r, i>>>>)
SampleXi(from, upto) == Each(IF upto > from THEN upto - from ELSE 0,
                             LAMBDA i : <<Smp(<<"xi", <<from + i>>>>)>>)

(* What the transcript itself sees of the operations.                       *)
Absorbed(log) == SelectSeq(log, LAMBDA op : op[1] \in {"observe", "sample"})

=============================================================================
