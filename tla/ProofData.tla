------------------------------ MODULE ProofData ------------------------------
(***************************************************************************)
(* A proof as data (proof.rs, codec.rs): how deeply each field nests       *)
(* sequences, the proofs that differ from one in one length or one leaf,   *)
(* and the encoding.                                                       *)
(*                                                                         *)
(* The encoding is a sequence of words without names, with a length only   *)
(* where the decoder cannot derive it from what it has read.  A word is a  *)
(* length (u32), a byte of the bitmap (u8), an element of the base or the  *)
(* extension field, a digest, or an array of n extension elements (ext_n), *)
(* whose size is fixed by its type.                                        *)
(***************************************************************************)
EXTENDS TranscriptLog, ProofShape, TLC

CONSTANT ByteBits   \* bits of a byte of the bitmap (8)

ASSUME ByteAssumption == ByteBits \in Nat \ {0}

Depth ==
  [common_main_commit |-> 0, public_values |-> 2,
   logup_pow_witness |-> 0, q0_claim |-> 0, claims_per_layer |-> 1, sumcheck_polys |-> 2,
   numerator_term_per_air |-> 1, denominator_term_per_air |-> 1, batch_univariate_coeffs |-> 1,
   batch_round_polys |-> 2, column_openings |-> 3,
   stack_univariate_coeffs |-> 1, stack_round_polys |-> 1, stacking_openings |-> 2,
   mu_pow_witness |-> 0, whir_sumcheck_polys |-> 1, codeword_commits |-> 1, ood_values |-> 1,
   folding_pow_witnesses |-> 1, query_phase_pow_witnesses |-> 1,
   initial_round_opened_rows |-> 4, initial_round_merkle_proofs |-> 3,
   codeword_opened_values |-> 3, codeword_merkle_proofs |-> 3, final_poly |-> 1]

Fields == DOMAIN Depth

RECURSIVE Leaves(_, _)
Leaves(x, depth) ==
  IF depth = 0 THEN {x} ELSE UNION {Leaves(x[i], depth - 1) : i \in DOMAIN x}

RECURSIVE MapLeaves(_, _, _)
MapLeaves(F(_), x, depth) ==
  IF depth = 0 THEN F(x) ELSE [i \in DOMAIN x |-> MapLeaves(F, x[i], depth - 1)]

Other(leaf) == <<"other", leaf[2]>>

RECURSIVE Unlike(_)
Unlike(depth) == IF depth = 0 THEN <<"other", <<>>>> ELSE <<Unlike(depth - 1)>>

(* One element more or less in one sequence, the first or the last at its   *)
(* level, or another leaf.                                                  *)
RECURSIVE Changes(_, _)
Changes(x, depth) ==
  IF depth = 0 THEN {Other(x)}
  ELSE {Append(x, IF x = <<>> THEN Unlike(depth - 1)
                  ELSE MapLeaves(Other, x[Len(x)], depth - 1))}
       \cup (IF x = <<>> THEN {} ELSE {SubSeq(x, 1, Len(x) - 1)})
       \cup UNION {{[x EXCEPT ![i] = y] : y \in Changes(x[i], depth - 1)} :
                   i \in DOMAIN x \cap {1, Len(x)}}

-----------------------------------------------------------------------------
CODEC_VERSION == 3

(* The fields in the order of the encoding, among them the version and the  *)
(* lengths that are written by themselves.                                  *)
Order ==
  <<"version", "common_main_commit", "trace_vdata", "public_values",
    "logup_pow_witness", "q0_claim", "claims_per_layer", "sumcheck_polys",
    "numerator_term_per_air", "denominator_term_per_air", "batch_univariate_coeffs",
    "batch_round_polys", "column_openings",
    "stack_univariate_coeffs", "stack_round_polys", "stacking_openings",
    "mu_pow_witness", "whir_sumcheck_polys", "codeword_commits", "ood_values",
    "folding_pow_witnesses", "query_phase_pow_witnesses",
    "num_commits", "num_queries", "merkle_depth", "widths",
    "initial_round_opened_rows", "initial_round_merkle_proofs",
    "codeword_opened_values", "first_merkle_depth", "codeword_merkle_proofs", "final_poly">>

NotInProof == {"version", "num_commits", "num_queries", "merkle_depth", "widths", "first_merkle_depth"}

(* Single words, sequences behind their length, and sequences whose length  *)
(* follows from another field.                                              *)
WordOf ==
  [common_main_commit |-> "digest", logup_pow_witness |-> "base", q0_claim |-> "ext",
   mu_pow_witness |-> "base"]
SliceOf ==
  [claims_per_layer |-> "ext_4", numerator_term_per_air |-> "ext", batch_univariate_coeffs |-> "ext",
   stack_univariate_coeffs |-> "ext", stack_round_polys |-> "ext_2", whir_sumcheck_polys |-> "ext_2",
   codeword_commits |-> "digest", final_poly |-> "ext"]
IterOf ==
  [denominator_term_per_air |-> "ext", ood_values |-> "ext", folding_pow_witnesses |-> "base",
   query_phase_pow_witnesses |-> "base"]
DerivedLen(name, p) ==
  CASE name = "denominator_term_per_air" -> Len(p.numerator_term_per_air)
    [] name = "ood_values" -> Len(p.codeword_commits)
    [] name = "folding_pow_witnesses" -> Len(p.whir_sumcheck_polys)
    [] name = "query_phase_pow_witnesses" -> Len(p.codeword_commits) + 1

-----------------------------------------------------------------------------
(* Encode.                                                                  *)

encode_iter(kind, s) == [i \in DOMAIN s |-> <<kind, s[i]>>]
encode_len(s) == <<<<"u32", Len(s)>>>>
encode_slice(kind, s) == encode_len(s) \o encode_iter(kind, s)
LOCAL All2(s, Encode(_)) == Each(Len(s), LAMBDA i : Encode(s[i]))

Bitmap(vdata) ==
  LET bit(a) == IF a <= Len(vdata) /\ vdata[a].present THEN 1 ELSE 0
      byte(b) == FoldLeft(LAMBDA sum, i : sum + bit((b - 1) * ByteBits + i) * 2 ^ (i - 1), 0,
                          [i \in 1 .. ByteBits |-> i])
  IN  [b \in 1 .. (Len(vdata) + ByteBits - 1) \div ByteBits |-> byte(b)]

encode_trace_vdata(vdata) ==
  encode_len(vdata) \o encode_iter("u8", Bitmap(vdata))
  \o All2(vdata, LAMBDA v : IF ~v.present THEN <<>>
       ELSE <<<<"u32", v.log_height>>>> \o encode_slice("digest", v.cached_commitments))

encode_slices(kind, s) == encode_len(s) \o All2(s, LAMBDA inner : encode_slice(kind, inner))

encode_batch_round_polys(polys) ==
  encode_len(polys) \o (IF polys = <<>> THEN <<>> ELSE encode_len(polys[1]))
  \o All2(polys, LAMBDA evals : encode_iter("ext", evals))

(* Depth and widths are those of the first query of a commitment.           *)
Queried(p) == p.initial_round_opened_rows[1] # <<>>
encode_merkle_depth(p) ==
  IF ~Queried(p) THEN <<>> ELSE encode_len(p.initial_round_merkle_proofs[1][1])
encode_widths(p) ==
  IF ~Queried(p) THEN <<>>
  ELSE All2(p.initial_round_opened_rows, LAMBDA commit : encode_len(commit[1][1]))

(* The paths of a codeword are one shorter than those of the one before.    *)
(* A mutant of first_merkle_depth: the depth of the last codeword.          *)
first_merkle_depth_Last(p) ==
  IF p.codeword_commits = <<>> \/ ~Queried(p) THEN 0
  ELSE Len(Last(p.codeword_merkle_proofs)[1])
first_merkle_depth(p) ==
  IF p.codeword_commits = <<>> \/ ~Queried(p) THEN 0
  ELSE Len(p.codeword_merkle_proofs[1][1])

LOCAL All3(s, Encode(_)) == All2(s, LAMBDA inner : All2(inner, Encode))

encode_field(name, p) ==
  CASE name \in DOMAIN WordOf -> <<<<WordOf[name], p[name]>>>>
    [] name \in DOMAIN SliceOf -> encode_slice(SliceOf[name], p[name])
    [] name \in DOMAIN IterOf -> encode_iter(IterOf[name], p[name])
    [] name = "version" -> <<<<"u32", CODEC_VERSION>>>>
    [] name = "trace_vdata" -> encode_trace_vdata(p.trace_vdata)
    [] name = "public_values" -> encode_slices("base", p.public_values)
    [] name = "sumcheck_polys" -> All2(p.sumcheck_polys, LAMBDA round : encode_iter("ext_3", round))
    [] name = "batch_round_polys" -> encode_batch_round_polys(p.batch_round_polys)
    [] name = "column_openings" -> All2(p.column_openings, LAMBDA parts : encode_slices("ext", parts))
    [] name = "stacking_openings" -> encode_slices("ext", p.stacking_openings)
    [] name = "num_commits" -> encode_len(p.initial_round_opened_rows)
    [] name = "num_queries" -> encode_len(p.initial_round_opened_rows[1])
    [] name = "merkle_depth" -> encode_merkle_depth(p)
    [] name = "widths" -> encode_widths(p)
    [] name \in {"initial_round_opened_rows", "initial_round_merkle_proofs"} /\ ~Queried(p) -> <<>>
    [] name = "initial_round_opened_rows" ->
         All3(p[name], LAMBDA query : All2(query, LAMBDA row : encode_iter("base", row)))
    [] name = "initial_round_merkle_proofs" -> All3(p[name], LAMBDA path : encode_iter("digest", path))
    [] name = "codeword_opened_values" ->
         All2(p[name], LAMBDA round : encode_len(round) \o All2(round, LAMBDA vals : encode_iter("ext", vals)))
    [] name = "first_merkle_depth" -> <<<<"u32", first_merkle_depth(p)>>>>
    [] name = "codeword_merkle_proofs" -> All3(p[name], LAMBDA path : encode_iter("digest", path))

(* What the encoder asserts, or refuses.                                    *)
Encodable(p) ==
  /\ Len(p.whir_sumcheck_polys) % (Len(p.codeword_commits) + 1) = 0
  /\ Len(p.query_phase_pow_witnesses) = Len(p.codeword_commits) + 1
  /\ p.initial_round_opened_rows # <<>>

encode(p) == Each(Len(Order), LAMBDA i : encode_field(Order[i], p))

-----------------------------------------------------------------------------
(* Decode.  A reader has the words, the position of the next one, what it   *)
(* read last, and the fields read so far; a word of another kind makes it   *)
(* fail, and nothing is read after a failure.                               *)

Reader(words) == [words |-> words, at |-> 1, ok |-> TRUE, value |-> 0, proof |-> <<>>]

decode_word(kind, r) ==
  IF r.at \in DOMAIN r.words /\ r.words[r.at][1] = kind
  THEN [r EXCEPT !.at = @ + 1, !.value = r.words[r.at][2]]
  ELSE [r EXCEPT !.ok = FALSE, !.value = 0]
Refuse(r, when) == [r EXCEPT !.ok = @ /\ ~when]
With(r, value) == [r EXCEPT !.value = value]

LOCAL Times(n, r, Decode(_, _)) ==
  LET Collect(acc, one) == [one EXCEPT !.value = Append(acc.value, @)]
  IN  FoldLeft(LAMBDA acc, i : IF acc.ok THEN Collect(acc, Decode(i, acc)) ELSE acc,
                   With(r, <<>>), [i \in 1 .. n |-> i])
LOCAL TimesRead(len, Decode(_, _)) == Times(len.value, len, Decode)

decode_len(r) == decode_word("u32", r)
decode_n(kind, n, r) == Times(n, r, LAMBDA i, s : decode_word(kind, s))
decode_vec(kind, r) == TimesRead(decode_len(r), LAMBDA i, s : decode_word(kind, s))
decode_vecs(kind, r) == TimesRead(decode_len(r), LAMBDA i, s : decode_vec(kind, s))

decode_trace(r) ==
  LET Vdata(height, commits) ==
        With(commits, [present |-> TRUE, log_height |-> height, cached_commitments |-> commits.value])
      Commits(height) == Vdata(height.value, decode_vec("digest", height))
  IN  Commits(decode_len(r))

decode_trace_vdata(r) ==
  LET Bits(bitmap, a) == bitmap[1 + ((a - 1) \div ByteBits)] \div 2 ^ ((a - 1) % ByteBits)
      Traces(n, bitmap) ==
        Refuse(Times(n, bitmap, LAMBDA a, s : IF Bits(bitmap.value, a) % 2 = 0 THEN With(s, Absent)
                                              ELSE decode_trace(s)),
               n % ByteBits # 0 /\ Bits(bitmap.value, n) \div 2 # 0)
      Airs(len) == Traces(len.value, decode_n("u8", (len.value + ByteBits - 1) \div ByteBits, len))
  IN  Airs(decode_len(r))

decode_batch_round_polys(r) ==
  LET Polys(n_max, degree) == Times(n_max, degree, LAMBDA i, s : decode_n("ext", degree.value, s))
      Rounds(len) == Polys(len.value, IF len.value > 0 THEN decode_len(len) ELSE len)
  IN  Rounds(decode_len(r))

k_whir_exp(p) == 2 ^ (Len(p.whir_sumcheck_polys) \div (Len(p.codeword_commits) + 1))

(* The rows and paths of the first round.                                   *)
decode_queries(r, Decode(_, _)) ==
  Times(r.proof.num_commits, r, LAMBDA c, s :
    Times(r.proof.num_queries, s, LAMBDA q, t : Decode(c, t)))
decode_opened_rows(c, r) ==
  Times(k_whir_exp(r.proof), r, LAMBDA j, s : decode_n("base", r.proof.widths[c], s))

decode_codeword_values(r) ==
  LET Queries(len) == TimesRead(len, LAMBDA q, s : decode_n("ext", k_whir_exp(r.proof), s))
  IN  Times(Len(r.proof.codeword_commits), r, LAMBDA i, s : Queries(decode_len(s)))

(* A depth below zero makes the subtraction panic.                          *)
decode_codeword_paths(r) ==
  LET depth == r.proof.first_merkle_depth
  IN  Times(Len(r.proof.codeword_commits), r, LAMBDA i, s :
        Times(Len(r.proof.codeword_opened_values[i]), Refuse(s, depth < i),
              LAMBDA q, t : decode_n("digest", Above(depth, i - 1), t)))

decode_field(name, r) ==
  CASE name \in DOMAIN WordOf -> decode_word(WordOf[name], r)
    [] name \in DOMAIN SliceOf -> decode_vec(SliceOf[name], r)
    [] name \in DOMAIN IterOf -> decode_n(IterOf[name], DerivedLen(name, r.proof), r)
    [] name \in {"version", "num_commits", "num_queries", "first_merkle_depth"} -> decode_len(r)
    [] name = "trace_vdata" -> decode_trace_vdata(r)
    [] name = "public_values" -> decode_vecs("base", r)
    [] name = "sumcheck_polys" ->
         Times(Above(Len(r.proof.claims_per_layer), 1), r, LAMBDA n, s : decode_n("ext_3", n, s))
    [] name = "batch_round_polys" -> decode_batch_round_polys(r)
    [] name = "column_openings" ->
         Times(Len(r.proof.numerator_term_per_air), r, LAMBDA i, s : decode_vecs("ext", s))
    [] name = "stacking_openings" -> decode_vecs("ext", r)
    [] name = "merkle_depth" -> IF r.proof.num_queries = 0 THEN With(r, 0) ELSE decode_len(r)
    [] name = "widths" ->
         IF r.proof.num_queries = 0 THEN With(r, [c \in 1 .. r.proof.num_commits |-> 0])
         ELSE decode_n("u32", r.proof.num_commits, r)
    [] name = "initial_round_opened_rows" -> decode_queries(r, decode_opened_rows)
    [] name = "initial_round_merkle_proofs" ->
         decode_queries(r, LAMBDA c, s : decode_n("digest", r.proof.merkle_depth, s))
    [] name = "codeword_opened_values" -> decode_codeword_values(r)
    [] name = "codeword_merkle_proofs" -> decode_codeword_paths(r)

(* What the decoder refuses after a field.                                  *)
Refused(name, r) ==
  \/ name = "version" /\ r.value # CODEC_VERSION
  \/ name = "codeword_commits" /\ Len(r.proof.whir_sumcheck_polys) % (Len(r.value) + 1) # 0
  \/ name = "num_commits" /\ r.value = 0

decode_from_bytes(words) ==
  LET Put(name, r) == [r EXCEPT !.ok = @ /\ ~Refused(name, r), !.proof = @ @@ (name :> r.value)]
      Decoded(r) == [ok |-> r.ok /\ r.at = Len(words) + 1,
                     proof |-> [f \in DOMAIN r.proof \ NotInProof |-> r.proof[f]]]
  IN  Decoded(FoldLeft(LAMBDA r, name : IF r.ok THEN Put(name, decode_field(name, r)) ELSE r,
                       Reader(words), Order))

=============================================================================
