-------------------------- MODULE TranscriptProofs ---------------------------
(***************************************************************************)
(* Proofs about Transcripts, for any width, rate, permutation, values and  *)
(* packing.                                                                *)
(*                                                                         *)
(* The buffered challenger and the duplex sponge keep one state in two     *)
(* forms (Twins): the pending inputs of the one overlay its state in the   *)
(* other, and its remaining outputs are cells of the other.  A step of     *)
(* each on the same value keeps them twins and gives the same sample; the  *)
(* copy on the device is a twin too.                                       *)
(***************************************************************************)
EXTENDS Transcripts, TLAPS, WellFoundedInduction

LEMMA LeastNatural ==
  ASSUME NEW T, T \subseteq Nat, T # {}
  PROVE  \E x \in T : \A y \in T : x <= y
<1>1. IsWellFoundedOn(OpToRel(<, Nat), Nat)
  BY NatLessThanWellFounded
<1>2. PICK x \in T : \A y \in T : ~(<<y, x>> \in OpToRel(<, Nat))
  BY <1>1, WFMin, Zenon
<1>3. \A y \in T : ~(y < x)
  BY <1>2 DEF OpToRel
<1> QED
  BY <1>3

(* What holds at 0 and goes from each number below n to the next holds at n. *)
LEMMA UpTo ==
  ASSUME NEW n \in Nat, NEW S, 0 \in S, \A i \in 1 .. n : i - 1 \in S => i \in S
  PROVE  \A i \in 0 .. n : i \in S
<1> DEFINE T == {i \in 0 .. n : i \notin S}
<1> SUFFICES ASSUME T # {} PROVE FALSE
  OBVIOUS
<1>1. PICK x \in T : \A y \in T : x <= y
  <2>1. T \subseteq Nat
    OBVIOUS
  <2> QED
    BY <2>1, LeastNatural
<1>2. x \in 1 .. n /\ x - 1 \in 0 .. n
  BY <1>1
<1>3. x - 1 \in S
  BY <1>1, <1>2
<1> QED
  BY <1>1, <1>2, <1>3

-----------------------------------------------------------------------------
(* Buffers as sequences of anything.                                        *)

Listed(b) == \E S : b \in Seq(S)

LEMMA ListedEmpty == Listed(<<>>) /\ Len(<<>>) = 0
<1>1. <<>> \in Seq({})
  OBVIOUS
<1> QED
  BY <1>1 DEF Listed

LEMMA ListedLen ==
  ASSUME NEW b, Listed(b)
  PROVE  Len(b) \in Nat /\ DOMAIN b = 1 .. Len(b) /\ (b = <<>> <=> Len(b) = 0)
<1>1. PICK S : b \in Seq(S)
  BY DEF Listed
<1> QED
  BY <1>1

LEMMA ListedAppend ==
  ASSUME NEW b, Listed(b), NEW v
  PROVE  /\ Listed(Append(b, v)) /\ Len(Append(b, v)) = Len(b) + 1
         /\ \A i \in 1 .. Len(b) : Append(b, v)[i] = b[i]
         /\ Append(b, v)[Len(b) + 1] = v
<1>1. PICK S : b \in Seq(S)
  BY DEF Listed
<1>2. b \in Seq(S \cup {v}) /\ v \in S \cup {v}
  BY <1>1
<1>3. Append(b, v) \in Seq(S \cup {v})
  BY <1>2
<1> QED
  BY <1>2, <1>3 DEF Listed

LEMMA ListedPrefix ==
  ASSUME NEW b, Listed(b), NEW n \in 0 .. Len(b)
  PROVE  /\ Listed(SubSeq(b, 1, n)) /\ Len(SubSeq(b, 1, n)) = n
         /\ \A i \in 1 .. n : SubSeq(b, 1, n)[i] = b[i]
<1>1. PICK S : b \in Seq(S)
  BY DEF Listed
<1>2. Len(b) \in Nat
  BY <1>1
<1>3. SubSeq(b, 1, n) \in Seq(S)
  BY <1>1, <1>2
<1> QED
  BY <1>1, <1>2, <1>3 DEF Listed

LEMMA ListedFunction ==
  ASSUME NEW n \in Nat, NEW f, f = [i \in 1 .. n |-> f[i]]
  PROVE  Listed(f) /\ Len(f) = n
<1> DEFINE S == {f[i] : i \in 1 .. n}
<1>1. f \in [1 .. n -> S]
  OBVIOUS
<1>2. f \in Seq(S)
  BY <1>1
<1>3. DOMAIN f = 1 .. Len(f) /\ DOMAIN f = 1 .. n /\ Len(f) \in Nat
  BY <1>2
<1>4. Len(f) = n
  BY <1>3
<1> QED
  BY <1>2, <1>4 DEF Listed

-----------------------------------------------------------------------------
(* InTurn does one operation for each value.                                *)

LEMMA AbsorbInTurn ==
  ASSUME NEW d, NEW vals, Len(vals) \in Nat
  PROVE  \E after : /\ after[0] = d
                    /\ \A i \in 1 .. Len(vals) : after[i] = absorb(after[i - 1], vals[i])
                    /\ InTurn(absorb, d, vals) = after[Len(vals)]
<1> DEFINE n == Len(vals)
           Runs(f, k) == f = [i \in 0 .. k |-> IF i = 0 THEN d ELSE absorb(f[i - 1], vals[i])]
           Done == {k \in 0 .. n : \E f : Runs(f, k)}
<1>1. 0 \in Done
  <2> DEFINE g == [i \in 0 .. 0 |-> d]
  <2>1. Runs(g, 0)
    OBVIOUS
  <2> HIDE DEF g, Runs
  <2> QED
    BY <2>1
<1>2. \A k \in 1 .. n : k - 1 \in Done => k \in Done
  <2> SUFFICES ASSUME NEW k \in 1 .. n, k - 1 \in Done
               PROVE  k \in Done
    OBVIOUS
  <2>1. PICK f : Runs(f, k - 1)
    <3> HIDE DEF Runs
    <3> QED
      OBVIOUS
  <2> DEFINE g == [i \in 0 .. k |-> IF i = 0 THEN d ELSE absorb(f[i - 1], vals[i])]
  <2>2. \A i \in 0 .. k - 1 : g[i] = f[i]
    <3> TAKE i \in 0 .. k - 1
    <3>1. f[i] = IF i = 0 THEN d ELSE absorb(f[i - 1], vals[i])
      BY <2>1
    <3> QED
      BY <3>1
  <2>3. \A i \in 0 .. k : i # 0 => g[i - 1] = f[i - 1]
    <3> HIDE DEF g
    <3> QED
      BY <2>2
  <2>4. Runs(g, k)
    <3>1. \A i \in 0 .. k : (IF i = 0 THEN d ELSE absorb(g[i - 1], vals[i]))
                             = (IF i = 0 THEN d ELSE absorb(f[i - 1], vals[i]))
      <4> HIDE DEF g
      <4> QED
        BY <2>3
    <3> HIDE DEF Runs
    <3>2. g = [i \in 0 .. k |-> IF i = 0 THEN d ELSE absorb(g[i - 1], vals[i])]
      BY <3>1
    <3> QED
      BY <3>2 DEF Runs
  <2> HIDE DEF g, Runs
  <2> QED
    BY <2>4
<1>3. n \in Done
  <2> HIDE DEF Done
  <2>1. \A i \in 0 .. n : i \in Done
    BY <1>1, <1>2, UpTo
  <2> QED
    BY <2>1
<1> DEFINE run == CHOOSE f : Runs(f, n)
<1>4. Runs(run, n)
  <2> HIDE DEF Runs
  <2> QED
    BY <1>3
<1>5. InTurn(absorb, d, vals) = run[n]
  BY DEF InTurn
<1>6. run[0] = d /\ \A i \in 1 .. n : run[i] = absorb(run[i - 1], vals[i])
  <2> HIDE DEF run
  <2> QED
    BY <1>4
<1> HIDE DEF run
<1> QED
  BY <1>5, <1>6

LEMMA ObserveInTurn ==
  ASSUME NEW c, NEW vals, Len(vals) \in Nat
  PROVE  \E after : /\ after[0] = c
                    /\ \A i \in 1 .. Len(vals) : after[i] = ChallengerObserve(after[i - 1], vals[i])
                    /\ InTurn(ChallengerObserve, c, vals) = after[Len(vals)]
<1> DEFINE n == Len(vals)
           Runs(f, k) == f = [i \in 0 .. k |->
                               IF i = 0 THEN c ELSE ChallengerObserve(f[i - 1], vals[i])]
           Done == {k \in 0 .. n : \E f : Runs(f, k)}
<1>1. 0 \in Done
  <2> DEFINE g == [i \in 0 .. 0 |-> c]
  <2>1. Runs(g, 0)
    OBVIOUS
  <2> HIDE DEF g, Runs
  <2> QED
    BY <2>1
<1>2. \A k \in 1 .. n : k - 1 \in Done => k \in Done
  <2> SUFFICES ASSUME NEW k \in 1 .. n, k - 1 \in Done
               PROVE  k \in Done
    OBVIOUS
  <2>1. PICK f : Runs(f, k - 1)
    <3> HIDE DEF Runs
    <3> QED
      OBVIOUS
  <2> DEFINE g == [i \in 0 .. k |-> IF i = 0 THEN c ELSE ChallengerObserve(f[i - 1], vals[i])]
  <2>2. \A i \in 0 .. k - 1 : g[i] = f[i]
    <3> TAKE i \in 0 .. k - 1
    <3>1. f[i] = IF i = 0 THEN c ELSE ChallengerObserve(f[i - 1], vals[i])
      BY <2>1
    <3> QED
      BY <3>1
  <2>3. \A i \in 0 .. k : i # 0 => g[i - 1] = f[i - 1]
    <3> HIDE DEF g
    <3> QED
      BY <2>2
  <2>4. Runs(g, k)
    <3>1. \A i \in 0 .. k : (IF i = 0 THEN c ELSE ChallengerObserve(g[i - 1], vals[i]))
                             = (IF i = 0 THEN c ELSE ChallengerObserve(f[i - 1], vals[i]))
      <4> HIDE DEF g
      <4> QED
        BY <2>3
    <3> HIDE DEF Runs
    <3>2. g = [i \in 0 .. k |-> IF i = 0 THEN c ELSE ChallengerObserve(g[i - 1], vals[i])]
      BY <3>1
    <3> QED
      BY <3>2 DEF Runs
  <2> HIDE DEF g, Runs
  <2> QED
    BY <2>4
<1>3. n \in Done
  <2> HIDE DEF Done
  <2>1. \A i \in 0 .. n : i \in Done
    BY <1>1, <1>2, UpTo
  <2> QED
    BY <2>1
<1> DEFINE run == CHOOSE f : Runs(f, n)
<1>4. Runs(run, n)
  <2> HIDE DEF Runs
  <2> QED
    BY <1>3
<1>5. InTurn(ChallengerObserve, c, vals) = run[n]
  BY DEF InTurn
<1>6. run[0] = c /\ \A i \in 1 .. n : run[i] = ChallengerObserve(run[i - 1], vals[i])
  <2> HIDE DEF run
  <2> QED
    BY <1>4
<1> HIDE DEF run
<1> QED
  BY <1>5, <1>6

-----------------------------------------------------------------------------
(* What the operations of the sponge and of the challenger give.            *)

IsState(s) == s = [i \in 1 .. WIDTH |-> s[i]]

IsSponge(d) ==
  /\ d = [state |-> d.state, absorb_idx |-> d.absorb_idx, sample_idx |-> d.sample_idx]
  /\ IsState(d.state)
  /\ d.absorb_idx \in 0 .. RATE - 1 /\ d.sample_idx \in 0 .. RATE

IsChallenger(c) ==
  /\ c = [sponge_state |-> c.sponge_state, input_buffer |-> c.input_buffer,
          output_buffer |-> c.output_buffer]
  /\ IsState(c.sponge_state)
  /\ Listed(c.input_buffer) /\ Len(c.input_buffer) < RATE
  /\ Listed(c.output_buffer) /\ Len(c.output_buffer) <= RATE

SpongeOf(s, a, n) == [state |-> s, absorb_idx |-> a, sample_idx |-> n]
ChallengerOf(s, ins, outs) ==
  [sponge_state |-> s, input_buffer |-> ins, output_buffer |-> outs]

LEMMA PermutedState == ASSUME NEW s PROVE IsState(permute_mut(s))
  BY DEF IsState, permute_mut

LEMMA AbsorbIs ==
  ASSUME NEW d, IsSponge(d), NEW v
  PROVE  LET i == d.absorb_idx + 1
             s == [d.state EXCEPT ![i] = v]
         IN  absorb(d, v) = IF i = RATE THEN SpongeOf(permute_mut(s), 0, RATE)
                            ELSE SpongeOf(s, i, d.sample_idx)
<1> DEFINE i == d.absorb_idx + 1
           s == [d.state EXCEPT ![i] = v]
           next == [d EXCEPT !.state[i] = v, !.absorb_idx = i]
<1>1. next = SpongeOf(s, i, d.sample_idx)
  <2>1. d = SpongeOf(d.state, d.absorb_idx, d.sample_idx)
    BY DEF IsSponge, SpongeOf
  <2>2. next = [d EXCEPT !.state = s, !.absorb_idx = i]
    OBVIOUS
  <2> HIDE DEF i, s, next
  <2> QED
    BY <2>1, <2>2 DEF SpongeOf
<1>2. absorb(d, v) = IF i = RATE THEN Permuted(next) ELSE next
  BY DEF absorb
<1> HIDE DEF next, s, i
<1>3. Permuted(next) = SpongeOf(permute_mut(s), 0, RATE)
  BY <1>1 DEF Permuted, SpongeOf
<1>4. absorb(d, v) = IF i = RATE THEN SpongeOf(permute_mut(s), 0, RATE)
                     ELSE SpongeOf(s, i, d.sample_idx)
  BY <1>1, <1>2, <1>3
<1> QED
  BY <1>4 DEF s, i

LEMMA SqueezeIs ==
  ASSUME NEW d, IsSponge(d)
  PROVE  squeeze(d) =
           IF Stale(d)
           THEN [sponge |-> SpongeOf(permute_mut(d.state), 0, RATE - 1),
                 value  |-> permute_mut(d.state)[RATE]]
           ELSE [sponge |-> SpongeOf(d.state, 0, d.sample_idx - 1),
                 value  |-> d.state[d.sample_idx]]
<1> DEFINE ready == Ready(d)
<1>1. d = SpongeOf(d.state, d.absorb_idx, d.sample_idx) /\ d.absorb_idx \in Nat
  BY SpongeAssumption DEF IsSponge, SpongeOf
<1>2. ready = IF Stale(d) THEN SpongeOf(permute_mut(d.state), 0, RATE)
              ELSE SpongeOf(d.state, 0, d.sample_idx)
  BY <1>1 DEF Ready, Permuted, SpongeOf, Stale
<1>3. squeeze(d) = [sponge |-> [ready EXCEPT !.sample_idx = @ - 1],
                    value  |-> ready.state[ready.sample_idx]]
  BY DEF squeeze
<1> HIDE DEF ready
<1>4. CASE Stale(d)
  <2>1. ready.state = permute_mut(d.state) /\ ready.sample_idx = RATE
    BY <1>2, <1>4 DEF SpongeOf
  <2>2. [ready EXCEPT !.sample_idx = @ - 1] = SpongeOf(permute_mut(d.state), 0, RATE - 1)
    BY <1>2, <1>4 DEF SpongeOf
  <2> QED
    BY <1>3, <1>4, <2>1, <2>2
<1>5. CASE ~Stale(d)
  <2>1. ready.state = d.state /\ ready.sample_idx = d.sample_idx
    BY <1>2, <1>5 DEF SpongeOf
  <2>2. [ready EXCEPT !.sample_idx = @ - 1] = SpongeOf(d.state, 0, d.sample_idx - 1)
    BY <1>2, <1>5 DEF SpongeOf
  <2> QED
    BY <1>3, <1>5, <2>1, <2>2
<1> QED
  BY <1>4, <1>5

LEMMA DuplexingIs ==
  ASSUME NEW c, NEW s, s = permute_mut(Overlay(c.sponge_state, c.input_buffer))
  PROVE  Duplexing(c) = ChallengerOf(s, <<>>, [i \in 1 .. RATE |-> s[i]])
  BY DEF Duplexing, ChallengerOf

LEMMA ObserveIs ==
  ASSUME NEW c, IsChallenger(c), NEW v
  PROVE  LET ins == Append(c.input_buffer, v)
             s == permute_mut(Overlay(c.sponge_state, ins))
         IN  ChallengerObserve(c, v) =
               IF Len(ins) = RATE THEN ChallengerOf(s, <<>>, [i \in 1 .. RATE |-> s[i]])
               ELSE ChallengerOf(c.sponge_state, ins, <<>>)
<1> DEFINE ins == Append(c.input_buffer, v)
           s == permute_mut(Overlay(c.sponge_state, ins))
           next == [c EXCEPT !.output_buffer = <<>>, !.input_buffer = Append(@, v)]
<1>1. next = ChallengerOf(c.sponge_state, ins, <<>>)
  <2>1. c = ChallengerOf(c.sponge_state, c.input_buffer, c.output_buffer)
    BY DEF IsChallenger, ChallengerOf
  <2>2. next = [c EXCEPT !.output_buffer = <<>>, !.input_buffer = ins]
    OBVIOUS
  <2> HIDE DEF ins, next
  <2> QED
    BY <2>1, <2>2 DEF ChallengerOf
<1>2. ChallengerObserve(c, v) = IF Len(next.input_buffer) = RATE THEN Duplexing(next) ELSE next
  BY DEF ChallengerObserve
<1> HIDE DEF next, ins
<1>3. next.sponge_state = c.sponge_state /\ next.input_buffer = ins
  BY <1>1 DEF ChallengerOf
<1>4. s = permute_mut(Overlay(next.sponge_state, next.input_buffer))
  BY <1>3
<1> HIDE DEF s
<1>5. Duplexing(next) = ChallengerOf(s, <<>>, [i \in 1 .. RATE |-> s[i]])
  BY <1>4, DuplexingIs
<1>6. ChallengerObserve(c, v) =
        IF Len(ins) = RATE THEN ChallengerOf(s, <<>>, [i \in 1 .. RATE |-> s[i]])
        ELSE ChallengerOf(c.sponge_state, ins, <<>>)
  BY <1>1, <1>2, <1>3, <1>5
<1> QED
  BY <1>6 DEF s, ins

LEMMA SampleIs ==
  ASSUME NEW c, IsChallenger(c)
  PROVE  LET s == permute_mut(Overlay(c.sponge_state, c.input_buffer))
             outs == [i \in 1 .. RATE |-> s[i]]
             n == Len(c.output_buffer)
         IN  ChallengerSample(c) =
               IF c.input_buffer # <<>> \/ c.output_buffer = <<>>
               THEN [challenger |-> ChallengerOf(s, <<>>, SubSeq(outs, 1, RATE - 1)),
                     value |-> s[RATE]]
               ELSE [challenger |-> ChallengerOf(c.sponge_state, <<>>,
                                                 SubSeq(c.output_buffer, 1, n - 1)),
                     value |-> c.output_buffer[n]]
<1> DEFINE s == permute_mut(Overlay(c.sponge_state, c.input_buffer))
           outs == [i \in 1 .. RATE |-> s[i]]
           n == Len(c.output_buffer)
           stale == c.input_buffer # <<>> \/ c.output_buffer = <<>>
           ready == IF stale THEN Duplexing(c) ELSE c
           k == Len(ready.output_buffer)
<1>1. ChallengerSample(c) =
        [challenger |-> [ready EXCEPT !.output_buffer = SubSeq(@, 1, k - 1)],
         value |-> ready.output_buffer[k]]
  BY DEF ChallengerSample
<1>2. CASE stale
  <2>1. ready = ChallengerOf(s, <<>>, outs)
    BY <1>2, DuplexingIs
  <2>2. Len(outs) = RATE /\ outs[RATE] = s[RATE]
    <3>1. outs = [i \in 1 .. RATE |-> outs[i]]
      OBVIOUS
    <3> HIDE DEF s
    <3>2. outs[RATE] = s[RATE]
      BY SpongeAssumption
    <3> HIDE DEF outs
    <3> QED
      BY <3>1, <3>2, ListedFunction, SpongeAssumption
  <2> HIDE DEF ready, s, outs, stale
  <2>3. ready.output_buffer = outs
    BY <2>1 DEF ChallengerOf
  <2> DEFINE popped == SubSeq(outs, 1, RATE - 1)
             next == [ready EXCEPT !.output_buffer = SubSeq(@, 1, k - 1)]
  <2>6. next = [ready EXCEPT !.output_buffer = popped]
    BY <2>2, <2>3
  <2>4. next = ChallengerOf(s, <<>>, popped)
    <3> HIDE DEF next, popped
    <3> QED
      BY <2>1, <2>6 DEF ChallengerOf
  <2>5. ChallengerSample(c) =
          [challenger |-> ChallengerOf(s, <<>>, SubSeq(outs, 1, RATE - 1)), value |-> s[RATE]]
    BY <1>1, <2>2, <2>3, <2>4
  <2> QED
    BY <1>2, <2>5 DEF s, outs, stale
<1>3. CASE ~stale
  <2>1. c = ChallengerOf(c.sponge_state, <<>>, c.output_buffer) /\ ready = c
    BY <1>3 DEF IsChallenger, ChallengerOf
  <2> HIDE DEF ready, stale, s, outs
  <2>2. ready.output_buffer = c.output_buffer
    BY <2>1
  <2>3. [ready EXCEPT !.output_buffer = SubSeq(@, 1, k - 1)]
          = ChallengerOf(c.sponge_state, <<>>, SubSeq(c.output_buffer, 1, n - 1))
    BY <2>1, <2>2 DEF ChallengerOf
  <2>4. ChallengerSample(c) =
          [challenger |-> ChallengerOf(c.sponge_state, <<>>, SubSeq(c.output_buffer, 1, n - 1)),
           value |-> c.output_buffer[n]]
    BY <1>1, <2>2, <2>3
  <2> QED
    BY <1>3, <2>4 DEF stale
<1> QED
  BY <1>2, <1>3

-----------------------------------------------------------------------------
(* The duplex sponge and the buffered challenger in the same state.         *)

Twins(d, c) ==
  /\ IsSponge(d) /\ IsChallenger(c)
  /\ d.state = Overlay(c.sponge_state, c.input_buffer)
  /\ d.absorb_idx = Len(c.input_buffer)
  /\ d.absorb_idx = 0 =>
       /\ d.sample_idx = Len(c.output_buffer)
       /\ \A i \in 1 .. d.sample_idx : c.output_buffer[i] = d.state[i]

LEMMA OverlayNothing ==
  ASSUME NEW s, IsState(s), NEW b, Len(b) = 0
  PROVE  Overlay(s, b) = s
  BY DEF Overlay, IsState

LEMMA OverlayMore ==
  ASSUME NEW s, NEW b, Listed(b), Len(b) < RATE, NEW v
  PROVE  Overlay(s, Append(b, v)) = [Overlay(s, b) EXCEPT ![Len(b) + 1] = v]
<1> DEFINE n == Len(b)
           bv == Append(b, v)
<1>1. n \in Nat
  BY ListedLen
<1>2. Len(bv) = n + 1 /\ (\A i \in 1 .. n : bv[i] = b[i]) /\ bv[n + 1] = v
  BY ListedAppend
<1> HIDE DEF n, bv
<1>3. \A i \in 1 .. WIDTH :
        (IF i <= Len(bv) THEN bv[i] ELSE s[i])
          = IF i = n + 1 THEN v ELSE IF i <= n THEN b[i] ELSE s[i]
  BY <1>1, <1>2
<1>4. Overlay(s, bv) = [i \in 1 .. WIDTH |->
                          IF i = n + 1 THEN v ELSE IF i <= n THEN b[i] ELSE s[i]]
  BY <1>3 DEF Overlay
<1>5. Overlay(s, b) = [i \in 1 .. WIDTH |-> IF i <= n THEN b[i] ELSE s[i]]
  BY DEF Overlay, n
<1>6. [Overlay(s, b) EXCEPT ![n + 1] = v]
        = [i \in 1 .. WIDTH |-> IF i = n + 1 THEN v ELSE IF i <= n THEN b[i] ELSE s[i]]
  BY <1>5
<1> QED
  BY <1>4, <1>6 DEF n, bv

LEMMA TwinsPermuted ==
  ASSUME NEW s, IsState(s)
  PROVE  Twins(SpongeOf(s, 0, RATE), ChallengerOf(s, <<>>, [i \in 1 .. RATE |-> s[i]]))
<1> DEFINE outs == [i \in 1 .. RATE |-> s[i]]
           d == SpongeOf(s, 0, RATE)
           c == ChallengerOf(s, <<>>, outs)
<1>1. Listed(outs) /\ Len(outs) = RATE /\ \A i \in 1 .. RATE : outs[i] = s[i]
  <2>1. outs = [i \in 1 .. RATE |-> outs[i]] /\ \A i \in 1 .. RATE : outs[i] = s[i]
    OBVIOUS
  <2> HIDE DEF outs
  <2> QED
    BY <2>1, ListedFunction, SpongeAssumption
<1> HIDE DEF outs
<1>2. IsSponge(d)
  BY SpongeAssumption DEF IsSponge, SpongeOf
<1>3. IsChallenger(c)
  BY <1>1, ListedEmpty, SpongeAssumption DEF IsChallenger, ChallengerOf
<1>4. d.state = Overlay(c.sponge_state, c.input_buffer)
  BY OverlayNothing, ListedEmpty DEF SpongeOf, ChallengerOf
<1>5. /\ d.absorb_idx = Len(c.input_buffer) /\ d.sample_idx = Len(c.output_buffer)
      /\ \A i \in 1 .. d.sample_idx : c.output_buffer[i] = d.state[i]
  BY <1>1, ListedEmpty DEF SpongeOf, ChallengerOf
<1>6. Twins(d, c)
  BY <1>2, <1>3, <1>4, <1>5 DEF Twins
<1> QED
  BY <1>6 DEF outs

LEMMA TwinsAbsorb ==
  ASSUME NEW d, NEW c, Twins(d, c), NEW v
  PROVE  Twins(absorb(d, v), ChallengerObserve(c, v))
<1> DEFINE i == d.absorb_idx + 1
           s == [d.state EXCEPT ![i] = v]
           ins == Append(c.input_buffer, v)
           p == permute_mut(s)
<1>1. IsSponge(d) /\ IsChallenger(c)
  BY DEF Twins
<1>2. Listed(ins) /\ Len(ins) = i /\ i \in 1 .. RATE
  <2>1. Listed(c.input_buffer) /\ d.absorb_idx = Len(c.input_buffer) /\ d.absorb_idx \in 0 .. RATE - 1
    BY DEF Twins, IsChallenger, IsSponge
  <2> QED
    BY <2>1, ListedAppend, SpongeAssumption
<1>3. s = Overlay(c.sponge_state, ins)
  <2>1. d.state = Overlay(c.sponge_state, c.input_buffer) /\ i = Len(c.input_buffer) + 1
    BY DEF Twins
  <2>2. Listed(c.input_buffer) /\ Len(c.input_buffer) < RATE
    BY <1>1 DEF IsChallenger
  <2> QED
    BY <2>1, <2>2, OverlayMore
<1>4. IsState(s)
  BY <1>1, <1>2 DEF IsState, IsSponge
<1>5. absorb(d, v) = IF i = RATE THEN SpongeOf(p, 0, RATE) ELSE SpongeOf(s, i, d.sample_idx)
  BY <1>1, AbsorbIs
<1>6. ChallengerObserve(c, v) =
        IF Len(ins) = RATE THEN ChallengerOf(p, <<>>, [k \in 1 .. RATE |-> p[k]])
        ELSE ChallengerOf(c.sponge_state, ins, <<>>)
  BY <1>1, <1>3, ObserveIs
<1>7. CASE i = RATE
  <2>1. IsState(p)
    BY PermutedState
  <2> HIDE DEF p, ins, s, i
  <2> QED
    BY <1>2, <1>5, <1>6, <1>7, <2>1, TwinsPermuted
<1>8. CASE i # RATE
  <2> DEFINE e == SpongeOf(s, i, d.sample_idx)
             f == ChallengerOf(c.sponge_state, ins, <<>>)
  <2>1. d.sample_idx \in 0 .. RATE /\ IsState(c.sponge_state)
    BY <1>1 DEF IsSponge, IsChallenger
  <2> HIDE DEF p, ins, s, i
  <2>2. IsSponge(e)
    BY <1>2, <1>4, <1>8, <2>1, SpongeAssumption DEF IsSponge, SpongeOf
  <2>3. IsChallenger(f)
    BY <1>2, <1>8, <2>1, ListedEmpty, SpongeAssumption DEF IsChallenger, ChallengerOf
  <2>4. Twins(e, f)
    BY <1>2, <1>3, <2>2, <2>3 DEF Twins, SpongeOf, ChallengerOf
  <2> QED
    BY <1>2, <1>5, <1>6, <1>8, <2>4
<1> QED
  BY <1>7, <1>8

LEMMA TwinsSample ==
  ASSUME NEW d, NEW c, Twins(d, c)
  PROVE  /\ Twins(squeeze(d).sponge, ChallengerSample(c).challenger)
         /\ squeeze(d).value = ChallengerSample(c).value
<1> DEFINE s == permute_mut(d.state)
           outs == [i \in 1 .. RATE |-> s[i]]
           n == Len(c.output_buffer)
           stale == c.input_buffer # <<>> \/ c.output_buffer = <<>>
<1>1. IsSponge(d) /\ IsChallenger(c)
  BY DEF Twins
<1>2. squeeze(d) = IF Stale(d)
                   THEN [sponge |-> SpongeOf(s, 0, RATE - 1), value |-> s[RATE]]
                   ELSE [sponge |-> SpongeOf(d.state, 0, d.sample_idx - 1),
                         value  |-> d.state[d.sample_idx]]
  BY <1>1, SqueezeIs
<1>3. ChallengerSample(c) =
        IF stale
        THEN [challenger |-> ChallengerOf(s, <<>>, SubSeq(outs, 1, RATE - 1)), value |-> s[RATE]]
        ELSE [challenger |-> ChallengerOf(c.sponge_state, <<>>,
                                          SubSeq(c.output_buffer, 1, n - 1)),
              value |-> c.output_buffer[n]]
  <2>1. d.state = Overlay(c.sponge_state, c.input_buffer)
    BY DEF Twins
  <2> QED
    BY <1>1, <2>1, SampleIs
<1>4. Listed(c.input_buffer) /\ Listed(c.output_buffer) /\ n \in 0 .. RATE /\ IsState(c.sponge_state)
  <2>1. Listed(c.input_buffer) /\ Listed(c.output_buffer) /\ n <= RATE /\ IsState(c.sponge_state)
    BY <1>1 DEF IsChallenger
  <2> QED
    BY <2>1, ListedLen, SpongeAssumption
<1>5. Stale(d) <=> stale
  <2>1. (c.input_buffer # <<>> <=> d.absorb_idx # 0) /\ (c.output_buffer = <<>> <=> n = 0)
    BY <1>4, ListedLen DEF Twins
  <2>2. d.absorb_idx = 0 => d.sample_idx = n
    BY DEF Twins
  <2> QED
    BY <2>1, <2>2 DEF Stale
<1>6. CASE stale
  <2>1. Listed(outs) /\ Len(outs) = RATE /\ \A i \in 1 .. RATE : outs[i] = s[i]
    <3>1. outs = [i \in 1 .. RATE |-> outs[i]] /\ \A i \in 1 .. RATE : outs[i] = s[i]
      OBVIOUS
    <3> HIDE DEF outs
    <3> QED
      BY <3>1, ListedFunction, SpongeAssumption
  <2>2. IsState(s)
    BY PermutedState
  <2> DEFINE popped == SubSeq(outs, 1, RATE - 1)
             e == SpongeOf(s, 0, RATE - 1)
             f == ChallengerOf(s, <<>>, popped)
  <2> HIDE DEF s, outs, stale
  <2>3. Listed(popped) /\ Len(popped) = RATE - 1 /\ \A i \in 1 .. RATE - 1 : popped[i] = s[i]
    <3>1. RATE - 1 \in 0 .. Len(outs)
      BY <2>1, SpongeAssumption
    <3>2. /\ Listed(SubSeq(outs, 1, RATE - 1)) /\ Len(SubSeq(outs, 1, RATE - 1)) = RATE - 1
          /\ \A i \in 1 .. RATE - 1 : SubSeq(outs, 1, RATE - 1)[i] = outs[i]
      BY <2>1, <3>1, ListedPrefix
    <3> QED
      BY <2>1, <3>2, SpongeAssumption
  <2> HIDE DEF popped
  <2>4. IsSponge(e)
    BY <2>2, SpongeAssumption DEF IsSponge, SpongeOf
  <2>5. IsChallenger(f)
    BY <2>2, <2>3, ListedEmpty, SpongeAssumption DEF IsChallenger, ChallengerOf
  <2>6. e.state = Overlay(f.sponge_state, f.input_buffer)
    BY <2>2, OverlayNothing, ListedEmpty DEF SpongeOf, ChallengerOf
  <2>7. Twins(e, f)
    BY <2>3, <2>4, <2>5, <2>6, ListedEmpty DEF Twins, SpongeOf, ChallengerOf
  <2>8. squeeze(d) = [sponge |-> e, value |-> s[RATE]]
        /\ ChallengerSample(c) = [challenger |-> f, value |-> s[RATE]]
    BY <1>2, <1>3, <1>5, <1>6 DEF popped
  <2> HIDE DEF e, f
  <2> QED
    BY <2>7, <2>8
<1>7. CASE ~stale
  <2> DEFINE popped == SubSeq(c.output_buffer, 1, n - 1)
             e == SpongeOf(d.state, 0, d.sample_idx - 1)
             f == ChallengerOf(c.sponge_state, <<>>, popped)
  <2>1. /\ d.absorb_idx = 0 /\ d.sample_idx = n /\ n \in 1 .. RATE
        /\ \A i \in 1 .. n : c.output_buffer[i] = d.state[i]
        /\ Len(c.input_buffer) = 0
    BY <1>1, <1>4, <1>5, <1>7 DEF Twins, Stale, IsSponge
  <2>2. d.state = c.sponge_state
    BY <1>4, <2>1, OverlayNothing DEF Twins
  <2>3. Listed(popped) /\ Len(popped) = n - 1 /\ \A i \in 1 .. n - 1 : popped[i] = d.state[i]
    <3>1. n - 1 \in 0 .. Len(c.output_buffer)
      BY <2>1
    <3>2. /\ Listed(popped) /\ Len(popped) = n - 1
          /\ \A i \in 1 .. n - 1 : popped[i] = c.output_buffer[i]
      BY <1>4, <3>1, ListedPrefix
    <3> HIDE DEF popped
    <3> QED
      BY <2>1, <3>2
  <2> HIDE DEF popped, stale, n
  <2>4. IsSponge(e)
    BY <1>1, <2>1, SpongeAssumption DEF IsSponge, SpongeOf
  <2>5. IsChallenger(f)
    BY <1>4, <2>1, <2>3, ListedEmpty, SpongeAssumption DEF IsChallenger, ChallengerOf
  <2>6. e.state = Overlay(f.sponge_state, f.input_buffer)
    BY <1>4, <2>2, OverlayNothing, ListedEmpty DEF SpongeOf, ChallengerOf
  <2>7. Twins(e, f)
    BY <2>1, <2>3, <2>4, <2>5, <2>6, ListedEmpty DEF Twins, SpongeOf, ChallengerOf
  <2>8. squeeze(d) = [sponge |-> e, value |-> d.state[d.sample_idx]]
        /\ ChallengerSample(c) = [challenger |-> f, value |-> c.output_buffer[n]]
    BY <1>2, <1>3, <1>5, <1>7 DEF popped, n
  <2>9. d.state[d.sample_idx] = c.output_buffer[n]
    BY <2>1
  <2> HIDE DEF e, f
  <2> QED
    BY <2>7, <2>8, <2>9
<1> QED
  BY <1>6, <1>7

LEMMA TwinsInTurn ==
  ASSUME NEW d, NEW c, Twins(d, c), NEW vals, Len(vals) \in Nat
  PROVE  Twins(InTurn(absorb, d, vals), InTurn(ChallengerObserve, c, vals))
<1> DEFINE n == Len(vals)
<1>1. PICK run : /\ run[0] = d
                 /\ \A i \in 1 .. n : run[i] = absorb(run[i - 1], vals[i])
                 /\ InTurn(absorb, d, vals) = run[n]
  BY AbsorbInTurn, ZenonT(30)
<1>2. PICK ch : /\ ch[0] = c
                /\ \A i \in 1 .. n : ch[i] = ChallengerObserve(ch[i - 1], vals[i])
                /\ InTurn(ChallengerObserve, c, vals) = ch[n]
  BY ObserveInTurn, ZenonT(30)
<1> HIDE DEF n
<1> DEFINE S == {i \in 0 .. n : Twins(run[i], ch[i])}
<1>3. n \in Nat
  BY DEF n
<1>4. 0 \in S
  BY <1>1, <1>2, <1>3
<1>5. \A i \in 1 .. n : i - 1 \in S => i \in S
  <2> SUFFICES ASSUME NEW i \in 1 .. n, i - 1 \in S
               PROVE  i \in S
    OBVIOUS
  <2>1. Twins(run[i - 1], ch[i - 1])
    OBVIOUS
  <2>2. Twins(absorb(run[i - 1], vals[i]), ChallengerObserve(ch[i - 1], vals[i]))
    BY <2>1, TwinsAbsorb
  <2>3. Twins(run[i], ch[i])
    BY <1>1, <1>2, <2>2
  <2> QED
    BY <1>3, <2>3
<1>6. \A i \in 0 .. n : i \in S
  <2> HIDE DEF S
  <2> QED
    BY <1>3, <1>4, <1>5, UpTo
<1>7. Twins(run[n], ch[n])
  BY <1>3, <1>6
<1> QED
  BY <1>1, <1>2, <1>7 DEF n

LEMMA TwinsEmpty == Twins(EmptySponge, EmptyChallenger)
<1> DEFINE s == [i \in 1 .. WIDTH |-> Zero]
<1>1. IsState(s)
  BY DEF IsState
<1>2. EmptySponge = SpongeOf(s, 0, 0) /\ EmptyChallenger = ChallengerOf(s, <<>>, <<>>)
  BY DEF EmptySponge, EmptyChallenger, SpongeOf, ChallengerOf
<1> HIDE DEF s
<1>3. IsSponge(SpongeOf(s, 0, 0)) /\ IsChallenger(ChallengerOf(s, <<>>, <<>>))
  BY <1>1, ListedEmpty, SpongeAssumption DEF IsSponge, IsChallenger, SpongeOf, ChallengerOf
<1>4. Overlay(s, <<>>) = s
  BY <1>1, OverlayNothing, ListedEmpty
<1>5. Twins(SpongeOf(s, 0, 0), ChallengerOf(s, <<>>, <<>>))
  BY <1>3, <1>4, ListedEmpty DEF Twins, SpongeOf, ChallengerOf
<1> QED
  BY <1>2, <1>5

(* The copy that sync_h2d sends to the device is a twin of the challenger.  *)
LEMMA TwinsSync ==
  ASSUME NEW d, NEW c, Twins(d, c)
  PROVE  Twins(sync_h2d(c), c)
<1> DEFINE e == SpongeOf(Overlay(c.sponge_state, c.input_buffer),
                         Len(c.input_buffer), Len(c.output_buffer))
<1>1. sync_h2d(c) = e
  BY DEF sync_h2d, SpongeOf
<1>2. IsChallenger(c) /\ d.state = Overlay(c.sponge_state, c.input_buffer)
      /\ d.absorb_idx = Len(c.input_buffer) /\ IsState(d.state) /\ d.absorb_idx \in 0 .. RATE - 1
  BY DEF Twins, IsSponge
<1>3. Len(c.output_buffer) \in 0 .. RATE
  BY <1>2, ListedLen, SpongeAssumption DEF IsChallenger
<1>4. e = SpongeOf(d.state, d.absorb_idx, Len(c.output_buffer))
  BY <1>2
<1> HIDE DEF e
<1>5. IsSponge(e)
  BY <1>2, <1>3, <1>4 DEF IsSponge, SpongeOf
<1>6. e.state = d.state /\ e.absorb_idx = d.absorb_idx /\ e.sample_idx = Len(c.output_buffer)
  BY <1>4 DEF SpongeOf
<1>7. d.absorb_idx = 0 => \A i \in 1 .. Len(c.output_buffer) : c.output_buffer[i] = d.state[i]
  BY DEF Twins
<1>8. Twins(e, c)
  BY <1>2, <1>5, <1>6, <1>7 DEF Twins
<1> QED
  BY <1>1, <1>8

-----------------------------------------------------------------------------
(* What the operations of the multi-field transcript give.                  *)

LEMMA SpongeAbsorbed == ASSUME NEW d, IsSponge(d), NEW v PROVE IsSponge(absorb(d, v))
<1> DEFINE i == d.absorb_idx + 1
           s == [d.state EXCEPT ![i] = v]
           p == permute_mut(s)
<1>1. absorb(d, v) = IF i = RATE THEN SpongeOf(p, 0, RATE) ELSE SpongeOf(s, i, d.sample_idx)
  BY AbsorbIs
<1>2. i \in 1 .. RATE /\ d.sample_idx \in 0 .. RATE
  BY SpongeAssumption DEF IsSponge
<1>4. IsState(s)
  BY <1>2 DEF IsState, IsSponge
<1>3. IsState(p)
  BY PermutedState
<1> HIDE DEF i, s, p
<1> QED
  BY <1>1, <1>2, <1>3, <1>4, SpongeAssumption DEF IsSponge, SpongeOf

LEMMA SpongeSqueezed == ASSUME NEW d, IsSponge(d) PROVE IsSponge(squeeze(d).sponge)
<1> DEFINE p == permute_mut(d.state)
<1>1. squeeze(d).sponge = IF Stale(d) THEN SpongeOf(p, 0, RATE - 1)
                          ELSE SpongeOf(d.state, 0, d.sample_idx - 1)
  BY SqueezeIs
<1>2. IsState(p) /\ IsState(d.state) /\ d.sample_idx \in 0 .. RATE
  BY PermutedState DEF IsSponge
<1>3. ~Stale(d) => d.sample_idx # 0
  BY DEF Stale
<1> HIDE DEF p
<1> QED
  BY <1>1, <1>2, <1>3, SpongeAssumption DEF IsSponge, SpongeOf

MultiOf(sp, obs, smp) == [sponge |-> sp, observe_buf |-> obs, sample_buf |-> smp]

IsMulti(m) ==
  /\ m = MultiOf(m.sponge, m.observe_buf, m.sample_buf)
  /\ IsSponge(m.sponge)
  /\ Listed(m.observe_buf) /\ Len(m.observe_buf) < NumObs
  /\ Listed(m.sample_buf)

(* The sponge after the pending observations.                               *)
Flushed(sp, obs) == IF obs = <<>> THEN sp ELSE absorb(sp, pack_f_to_sf(obs))

LEMMA FlushIs ==
  ASSUME NEW sp, NEW obs, NEW smp
  PROVE  flush_observe_buf(MultiOf(sp, obs, smp)) = MultiOf(Flushed(sp, obs), <<>>, smp)
<1> DEFINE m == MultiOf(sp, obs, smp)
<1>1. m.sponge = sp /\ m.observe_buf = obs /\ m.sample_buf = smp
  BY DEF MultiOf
<1>2. CASE obs = <<>>
  BY <1>1, <1>2 DEF flush_observe_buf, Flushed
<1>3. CASE obs # <<>>
  <2> DEFINE a == absorb(sp, pack_f_to_sf(obs))
             next == [m EXCEPT !.sponge = absorb(@, pack_f_to_sf(m.observe_buf)),
                               !.observe_buf = <<>>]
  <2>1. flush_observe_buf(m) = next
    BY <1>1, <1>3 DEF flush_observe_buf
  <2>2. next = [m EXCEPT !.sponge = a, !.observe_buf = <<>>]
    BY <1>1
  <2> HIDE DEF a, next
  <2>3. next = MultiOf(a, <<>>, smp)
    BY <2>2 DEF MultiOf
  <2> QED
    BY <1>3, <2>1, <2>3 DEF Flushed, a
<1> QED
  BY <1>2, <1>3

LEMMA FlushedSponge ==
  ASSUME NEW sp, IsSponge(sp), NEW obs
  PROVE  IsSponge(Flushed(sp, obs))
  BY SpongeAbsorbed DEF Flushed

LEMMA MultiObserveIs ==
  ASSUME NEW m, IsMulti(m), NEW v
  PROVE  LET buf == Append(m.observe_buf, v)
         IN  MultiObserve(m, v) =
               IF Len(buf) = NumObs THEN MultiOf(absorb(m.sponge, pack_f_to_sf(buf)), <<>>, <<>>)
               ELSE MultiOf(m.sponge, buf, <<>>)
<1> DEFINE buf == Append(m.observe_buf, v)
           next == [invalidate_samples(m) EXCEPT !.observe_buf = buf]
<1>1. m = MultiOf(m.sponge, m.observe_buf, m.sample_buf)
  BY DEF IsMulti
<1>2. MultiObserve(m, v) = IF Len(buf) = NumObs THEN flush_observe_buf(next) ELSE next
  BY DEF MultiObserve
<1>3. buf # <<>>
  <2>1. Listed(buf) /\ Len(buf) = Len(m.observe_buf) + 1 /\ Len(m.observe_buf) \in Nat
    BY ListedAppend, ListedLen DEF IsMulti
  <2> HIDE DEF buf
  <2> QED
    BY <2>1, ListedLen
<1>4. next = MultiOf(m.sponge, buf, <<>>)
  <2>1. next = [[m EXCEPT !.sample_buf = <<>>] EXCEPT !.observe_buf = buf]
    BY DEF invalidate_samples
  <2> HIDE DEF next, buf
  <2> QED
    BY <1>1, <2>1 DEF MultiOf
<1>5. flush_observe_buf(next) = MultiOf(absorb(m.sponge, pack_f_to_sf(buf)), <<>>, <<>>)
  <2>1. flush_observe_buf(next) = MultiOf(Flushed(m.sponge, buf), <<>>, <<>>)
    BY <1>4, FlushIs
  <2> HIDE DEF buf, next
  <2> QED
    BY <1>3, <2>1 DEF Flushed
<1> HIDE DEF buf, next
<1>6. MultiObserve(m, v) =
        IF Len(buf) = NumObs THEN MultiOf(absorb(m.sponge, pack_f_to_sf(buf)), <<>>, <<>>)
        ELSE MultiOf(m.sponge, buf, <<>>)
  BY <1>2, <1>4, <1>5
<1> QED
  BY <1>6 DEF buf

LEMMA Digits ==
  ASSUME NEW v
  PROVE  /\ Listed(extract_samples(v)) /\ Len(extract_samples(v)) = NumSamples
         /\ \A i \in 1 .. NumSamples : extract_samples(v)[i] = <<"digit", i, v>>
<1> DEFINE f == extract_samples(v)
<1>1. f = [i \in 1 .. NumSamples |-> f[i]] /\ \A i \in 1 .. NumSamples : f[i] = <<"digit", i, v>>
  BY DEF extract_samples
<1> HIDE DEF f
<1>2. Listed(f) /\ Len(f) = NumSamples
  BY <1>1, ListedFunction, MultiFieldAssumption
<1> QED
  BY <1>1, <1>2 DEF f

LEMMA MultiSampleIs ==
  ASSUME NEW m, IsMulti(m)
  PROVE  LET out == squeeze(Flushed(m.sponge, m.observe_buf))
             digits == extract_samples(out.value)
         IN  MultiSample(m) =
               IF m.sample_buf # <<>>
               THEN [multi |-> MultiOf(m.sponge, m.observe_buf, Tail(m.sample_buf)),
                     value |-> Head(m.sample_buf)]
               ELSE [multi |-> MultiOf(out.sponge, <<>>, Tail(digits)), value |-> Head(digits)]
<1> DEFINE flushed == flush_observe_buf(m)
           out == squeeze(Flushed(m.sponge, m.observe_buf))
           digits == extract_samples(out.value)
           popped == [m EXCEPT !.sample_buf = Tail(@)]
           left == Tail(m.sample_buf)
           rest == Tail(digits)
           drawn1 == [flushed EXCEPT !.sponge = out.sponge, !.sample_buf = rest]
<1>1. m = MultiOf(m.sponge, m.observe_buf, m.sample_buf)
  BY DEF IsMulti
<1>2. flushed = MultiOf(Flushed(m.sponge, m.observe_buf), <<>>, m.sample_buf)
  BY <1>1, FlushIs
<1>3. popped = MultiOf(m.sponge, m.observe_buf, left)
  <2>1. popped = [m EXCEPT !.sample_buf = left]
    OBVIOUS
  <2> HIDE DEF popped, left
  <2> QED
    BY <1>1, <2>1 DEF MultiOf
<1>4. flushed.sponge = Flushed(m.sponge, m.observe_buf)
  BY <1>2 DEF MultiOf
<1>5. MultiSample(m) = IF m.sample_buf # <<>>
                       THEN [multi |-> popped, value |-> Head(m.sample_buf)]
                       ELSE [multi |-> drawn1, value |-> Head(digits)]
  BY <1>4 DEF MultiSample
<1>6. drawn1 = MultiOf(out.sponge, <<>>, rest)
  <2> DEFINE sp == out.sponge
             fs == Flushed(m.sponge, m.observe_buf)
  <2>1. drawn1 = [flushed EXCEPT !.sponge = sp, !.sample_buf = rest]
    OBVIOUS
  <2>2. flushed = MultiOf(fs, <<>>, m.sample_buf)
    BY <1>2
  <2> HIDE DEF drawn1, flushed, sp, fs, rest
  <2>3. drawn1 = MultiOf(sp, <<>>, rest)
    BY <2>1, <2>2 DEF MultiOf
  <2> QED
    BY <2>3 DEF sp
<1> HIDE DEF popped, drawn1
<1> QED
  BY <1>3, <1>5, <1>6

LEMMA MultiObserved == ASSUME NEW m, IsMulti(m), NEW v PROVE IsMulti(MultiObserve(m, v))
<1> DEFINE buf == Append(m.observe_buf, v)
           sp == absorb(m.sponge, pack_f_to_sf(buf))
<1>1. MultiObserve(m, v) = IF Len(buf) = NumObs THEN MultiOf(sp, <<>>, <<>>)
                           ELSE MultiOf(m.sponge, buf, <<>>)
  BY MultiObserveIs
<1>2. Listed(buf) /\ Len(buf) = Len(m.observe_buf) + 1 /\ Len(m.observe_buf) \in Nat
      /\ Len(m.observe_buf) < NumObs /\ IsSponge(m.sponge)
  BY ListedAppend, ListedLen DEF IsMulti
<1>3. IsSponge(sp)
  BY <1>2, SpongeAbsorbed
<1> HIDE DEF buf, sp
<1>4. IsMulti(MultiOf(sp, <<>>, <<>>))
  BY <1>3, ListedEmpty, MultiFieldAssumption DEF IsMulti, MultiOf
<1>5. Len(buf) # NumObs => IsMulti(MultiOf(m.sponge, buf, <<>>))
  BY <1>2, ListedEmpty, MultiFieldAssumption DEF IsMulti, MultiOf
<1> QED
  BY <1>1, <1>4, <1>5

LEMMA ListedTail ==
  ASSUME NEW b, Listed(b), b # <<>>
  PROVE  /\ Listed(Tail(b)) /\ Len(Tail(b)) = Len(b) - 1 /\ Head(b) = b[1]
         /\ \A i \in 1 .. Len(b) - 1 : Tail(b)[i] = b[i + 1]
<1>1. PICK S : b \in Seq(S)
  BY DEF Listed
<1>2. Tail(b) \in Seq(S) /\ Len(b) \in Nat /\ Len(b) > 0
  BY <1>1
<1> QED
  BY <1>1, <1>2 DEF Listed

LEMMA MultiSampled == ASSUME NEW m, IsMulti(m) PROVE IsMulti(MultiSample(m).multi)
<1> DEFINE out == squeeze(Flushed(m.sponge, m.observe_buf))
           digits == extract_samples(out.value)
           sp == out.sponge
           left == Tail(m.sample_buf)
           rest == Tail(digits)
<1>1. MultiSample(m).multi = IF m.sample_buf # <<>> THEN MultiOf(m.sponge, m.observe_buf, left)
                             ELSE MultiOf(sp, <<>>, rest)
  BY MultiSampleIs
<1>2. IsSponge(m.sponge) /\ Listed(m.observe_buf) /\ Len(m.observe_buf) < NumObs
      /\ Listed(m.sample_buf)
  BY DEF IsMulti
<1>3. IsSponge(sp)
  BY <1>2, FlushedSponge, SpongeSqueezed
<1>4. Listed(rest)
  <2>1. Listed(digits) /\ Len(digits) # 0
    BY Digits, MultiFieldAssumption
  <2> HIDE DEF digits
  <2>2. digits # <<>>
    BY <2>1, ListedEmpty
  <2> QED
    BY <2>1, <2>2, ListedTail
<1>5. m.sample_buf # <<>> => Listed(left)
  BY <1>2, ListedTail
<1> HIDE DEF sp, left, rest
<1>6. IsMulti(MultiOf(sp, <<>>, rest))
  BY <1>3, <1>4, ListedEmpty, MultiFieldAssumption DEF IsMulti, MultiOf
<1>7. m.sample_buf # <<>> => IsMulti(MultiOf(m.sponge, m.observe_buf, left))
  BY <1>2, <1>5 DEF IsMulti, MultiOf
<1> QED
  BY <1>1, <1>6, <1>7

LEMMA AbsorbedInTurn ==
  ASSUME NEW d, IsSponge(d), NEW vals, Len(vals) \in Nat
  PROVE  IsSponge(InTurn(absorb, d, vals))
<1> DEFINE n == Len(vals)
<1>1. PICK run : /\ run[0] = d
                 /\ \A i \in 1 .. n : run[i] = absorb(run[i - 1], vals[i])
                 /\ InTurn(absorb, d, vals) = run[n]
  BY AbsorbInTurn, ZenonT(30)
<1>2. n \in Nat
  OBVIOUS
<1> HIDE DEF n
<1> DEFINE S == {i \in 0 .. n : IsSponge(run[i])}
<1>3. 0 \in S
  BY <1>1, <1>2
<1>4. \A i \in 1 .. n : i - 1 \in S => i \in S
  BY <1>1, <1>2, SpongeAbsorbed
<1>5. \A i \in 0 .. n : i \in S
  <2> HIDE DEF S
  <2> QED
    BY <1>2, <1>3, <1>4, UpTo
<1> QED
  BY <1>1, <1>2, <1>5

LEMMA AbsorbSliceIs ==
  ASSUME NEW m, IsMulti(m), NEW elems
  PROVE  absorb_slice(m, elems) =
           MultiOf(InTurn(absorb, Flushed(m.sponge, m.observe_buf), elems), <<>>, <<>>)
<1> DEFINE fresh == invalidate_samples(m)
           flushed == flush_observe_buf(fresh)
           fs == Flushed(m.sponge, m.observe_buf)
           sp == InTurn(absorb, fs, elems)
           next == [flushed EXCEPT !.sponge = InTurn(absorb, @, elems)]
<1>1. m = MultiOf(m.sponge, m.observe_buf, m.sample_buf)
  BY DEF IsMulti
<1>2. fresh = MultiOf(m.sponge, m.observe_buf, <<>>)
  BY <1>1 DEF invalidate_samples, MultiOf
<1>3. flushed = MultiOf(fs, <<>>, <<>>)
  <2> HIDE DEF fresh
  <2> QED
    BY <1>2, FlushIs
<1>4. absorb_slice(m, elems) = next
  BY DEF absorb_slice
<1>5. flushed.sponge = fs
  <2> HIDE DEF flushed, fs
  <2> QED
    BY <1>3 DEF MultiOf
<1>6. next = [flushed EXCEPT !.sponge = sp]
  <2>1. next = [flushed EXCEPT !.sponge = InTurn(absorb, flushed.sponge, elems)]
    OBVIOUS
  <2> HIDE DEF next, flushed, fs
  <2> QED
    BY <2>1, <1>5
<1> HIDE DEF next, flushed, fs, sp
<1>7. next = MultiOf(sp, <<>>, <<>>)
  BY <1>3, <1>6 DEF MultiOf
<1> QED
  BY <1>4, <1>7 DEF sp, fs

LEMMA SliceAbsorbed ==
  ASSUME NEW m, IsMulti(m), NEW elems, Len(elems) \in Nat
  PROVE  IsMulti(absorb_slice(m, elems))
<1> DEFINE sp == InTurn(absorb, Flushed(m.sponge, m.observe_buf), elems)
<1>1. IsSponge(sp)
  BY FlushedSponge, AbsorbedInTurn DEF IsMulti
<1>2. absorb_slice(m, elems) = MultiOf(sp, <<>>, <<>>)
  BY AbsorbSliceIs
<1> HIDE DEF sp
<1> QED
  BY <1>1, <1>2, ListedEmpty, MultiFieldAssumption DEF IsMulti, MultiOf

(* The kernel's copy of the multi-field transcript samples, for a witness,  *)
(* what the host samples once it has observed it.                           *)
LEMMA MultiDeviceSamples ==
  ASSUME NEW m, IsMulti(m), NEW v
  PROVE  bn254_sponge_check_witness(multi_sync_h2d(m), v) = MultiSample(MultiObserve(m, v)).value
<1> DEFINE buf == Append(m.observe_buf, v)
           device == multi_sync_h2d(m)
           next == [device EXCEPT !.observe_buf = Append(@, v)]
           host == MultiObserve(m, v)
           filled == Len(buf) = NumObs
<1>1. device = MultiOf(m.sponge, m.observe_buf, <<>>)
  <2>1. m = MultiOf(m.sponge, m.observe_buf, m.sample_buf)
    BY DEF IsMulti
  <2> QED
    BY <2>1 DEF multi_sync_h2d, MultiOf
<1>2. next = MultiOf(m.sponge, buf, <<>>)
  <2>1. next = [device EXCEPT !.observe_buf = buf]
    BY <1>1 DEF MultiOf
  <2> HIDE DEF next, device, buf
  <2> QED
    BY <1>1, <2>1 DEF MultiOf
<1>3. bn254_transcript_observe(device, v) = IF filled THEN flush_observe_buf(next) ELSE next
  <2>1. next.observe_buf = buf
    <3> HIDE DEF next, buf
    <3> QED
      BY <1>2 DEF MultiOf
  <2> QED
    BY <2>1 DEF bn254_transcript_observe
<1>4. flush_observe_buf(next) = MultiOf(absorb(m.sponge, pack_f_to_sf(buf)), <<>>, <<>>)
  <2>1. buf # <<>>
    <3>1. Listed(buf) /\ Len(buf) = Len(m.observe_buf) + 1 /\ Len(m.observe_buf) \in Nat
      BY ListedAppend, ListedLen DEF IsMulti
    <3> HIDE DEF buf
    <3> QED
      BY <3>1, ListedLen
  <2>2. flush_observe_buf(next) = MultiOf(Flushed(m.sponge, buf), <<>>, <<>>)
    BY <1>2, FlushIs
  <2> HIDE DEF buf, next
  <2> QED
    BY <2>1, <2>2 DEF Flushed
<1>5. host = IF filled THEN MultiOf(absorb(m.sponge, pack_f_to_sf(buf)), <<>>, <<>>)
             ELSE MultiOf(m.sponge, buf, <<>>)
  BY MultiObserveIs
<1>6. bn254_transcript_observe(device, v) = host
  <2> HIDE DEF device, next, host, buf, filled
  <2> QED
    BY <1>2, <1>3, <1>4, <1>5
<1>7. IsMulti(host)
  BY MultiObserved
<1>8. host.sample_buf = <<>> /\ host = MultiOf(host.sponge, host.observe_buf, <<>>)
  <2> HIDE DEF host, buf, filled
  <2> QED
    BY <1>5 DEF MultiOf
<1> DEFINE fs == Flushed(host.sponge, host.observe_buf)
           digits == extract_samples(squeeze(fs).value)
<1>9. MultiSample(host).value = Head(digits)
  <2> HIDE DEF host
  <2> QED
    BY <1>7, <1>8, MultiSampleIs
<1>10. flush_observe_buf(host).sponge = fs
  <2> HIDE DEF host
  <2>1. flush_observe_buf(host) = MultiOf(fs, <<>>, <<>>)
    BY <1>8, FlushIs
  <2> HIDE DEF fs
  <2> QED
    BY <2>1 DEF MultiOf
<1>11. bn254_transcript_sample(host) = digits[1]
  BY <1>10 DEF bn254_transcript_sample
<1>12. Head(digits) = digits[1]
  <2>1. Listed(digits) /\ Len(digits) # 0
    BY Digits, MultiFieldAssumption
  <2> HIDE DEF digits
  <2>2. digits # <<>>
    BY <2>1, ListedEmpty
  <2> QED
    BY <2>1, <2>2, ListedTail
<1>13. bn254_sponge_check_witness(device, v) = bn254_transcript_sample(host)
  BY <1>6 DEF bn254_sponge_check_witness
<1> HIDE DEF device, host, digits
<1> QED
  BY <1>9, <1>11, <1>12, <1>13 DEF device, host

-----------------------------------------------------------------------------
(* The invariant and its theorems.                                          *)

AgreeInv ==
  /\ \A w \in World : Twins(duplex[w], challenger[w]) /\ IsMulti(multi[w])
  /\ SameChallenges /\ DeviceAgrees

LEMMA InitAgree == Init => AgreeInv
<1> SUFFICES ASSUME Init PROVE AgreeInv
  OBVIOUS
<1>1. IsSponge(EmptySponge)
  BY TwinsEmpty DEF Twins
<1>2. IsMulti(EmptyMulti)
  BY <1>1, ListedEmpty, MultiFieldAssumption DEF IsMulti, EmptyMulti, MultiOf
<1>3. \A w \in World : Twins(duplex[w], challenger[w]) /\ IsMulti(multi[w])
  BY <1>2, TwinsEmpty DEF Init
<1>4. SameChallenges /\ DeviceAgrees
  BY DEF Init, SameChallenges, DeviceAgrees
<1> QED
  BY <1>3, <1>4 DEF AgreeInv

LEMMA ObserveAgrees ==
  ASSUME AgreeInv, NEW vals, observe(vals)
  PROVE  AgreeInv'
<1>1. ASSUME NEW w \in World
      PROVE  Twins(duplex'[w], challenger'[w]) /\ IsMulti(multi'[w])
  <2>1. /\ duplex'[w] = absorb(duplex[w], vals[w])
        /\ challenger'[w] = ChallengerObserve(challenger[w], vals[w])
        /\ multi'[w] = MultiObserve(multi[w], vals[w])
    BY DEF observe
  <2>2. Twins(duplex[w], challenger[w]) /\ IsMulti(multi[w])
    BY DEF AgreeInv
  <2> QED
    BY <2>1, <2>2, TwinsAbsorb, MultiObserved
<1>2. last' = [op |-> "observe", duplex |-> Nothing, challenger |-> Nothing, multi |-> Nothing,
               gpu |-> Nothing, multi_gpu |-> Nothing]
  BY DEF observe, Gives
<1>3. SameChallenges' /\ DeviceAgrees'
  BY <1>2 DEF SameChallenges, DeviceAgrees
<1> QED
  BY <1>1, <1>3 DEF AgreeInv

LEMMA CommitAgrees ==
  ASSUME AgreeInv, NEW digests, observe_commit(digests)
  PROVE  AgreeInv'
<1>1. ASSUME NEW w \in World
      PROVE  Twins(duplex'[w], challenger'[w]) /\ IsMulti(multi'[w])
  <2> DEFINE cells == limbs(digests[w])
             elems == <<digests[w]>>
  <2>1. /\ duplex'[w] = InTurn(absorb, duplex[w], cells)
        /\ challenger'[w] = InTurn(ChallengerObserve, challenger[w], cells)
        /\ multi'[w] = absorb_slice(multi[w], elems)
    BY DEF observe_commit
  <2>2. Twins(duplex[w], challenger[w]) /\ IsMulti(multi[w])
    BY DEF AgreeInv
  <2>3. Len(cells) \in Nat /\ Len(elems) \in Nat
    <3>1. cells = [i \in 1 .. RATE |-> cells[i]]
      BY DEF limbs
    <3> HIDE DEF cells
    <3> QED
      BY <3>1, ListedFunction, SpongeAssumption
  <2> HIDE DEF cells, elems
  <2> QED
    BY <2>1, <2>2, <2>3, TwinsInTurn, SliceAbsorbed
<1>2. last' = [op |-> "observe", duplex |-> Nothing, challenger |-> Nothing, multi |-> Nothing,
               gpu |-> Nothing, multi_gpu |-> Nothing]
  BY DEF observe_commit, Gives
<1>3. SameChallenges' /\ DeviceAgrees'
  BY <1>2 DEF SameChallenges, DeviceAgrees
<1> QED
  BY <1>1, <1>3 DEF AgreeInv

LEMMA SampleAgrees ==
  ASSUME AgreeInv, sample
  PROVE  AgreeInv'
<1>1. ASSUME NEW w \in World
      PROVE  /\ Twins(duplex'[w], challenger'[w]) /\ IsMulti(multi'[w])
             /\ squeeze(duplex[w]).value = ChallengerSample(challenger[w]).value
  <2>1. /\ duplex'[w] = squeeze(duplex[w]).sponge
        /\ challenger'[w] = ChallengerSample(challenger[w]).challenger
        /\ multi'[w] = MultiSample(multi[w]).multi
    BY DEF sample
  <2>2. Twins(duplex[w], challenger[w]) /\ IsMulti(multi[w])
    BY DEF AgreeInv
  <2> QED
    BY <2>1, <2>2, TwinsSample, MultiSampled
<1>2. /\ last'.op = "sample"
      /\ last'.duplex = [w \in World |-> squeeze(duplex[w]).value]
      /\ last'.challenger = [w \in World |-> ChallengerSample(challenger[w]).value]
  BY DEF sample, Gives
<1>3. SameChallenges' /\ DeviceAgrees'
  BY <1>1, <1>2 DEF SameChallenges, DeviceAgrees
<1> QED
  BY <1>1, <1>3 DEF AgreeInv

LEMMA GrindAgrees ==
  ASSUME AgreeInv, NEW v, grind(v)
  PROVE  AgreeInv'
<1> DEFINE d(w) == squeeze(absorb(duplex[w], v))
           c(w) == ChallengerSample(ChallengerObserve(challenger[w], v))
           m(w) == MultiSample(MultiObserve(multi[w], v))
           g(w) == sponge_check_witness(sync_h2d(challenger[w]), v)
           b(w) == bn254_sponge_check_witness(multi_sync_h2d(multi[w]), v)
<1>1. ASSUME NEW w \in World
      PROVE  /\ Twins(duplex'[w], challenger'[w]) /\ IsMulti(multi'[w])
             /\ d(w).value = c(w).value /\ g(w) = c(w).value /\ b(w) = m(w).value
  <2>1. duplex'[w] = d(w).sponge /\ challenger'[w] = c(w).challenger /\ multi'[w] = m(w).multi
    BY DEF grind
  <2>2. Twins(duplex[w], challenger[w]) /\ IsMulti(multi[w])
    BY DEF AgreeInv
  <2>3. Twins(absorb(duplex[w], v), ChallengerObserve(challenger[w], v))
    BY <2>2, TwinsAbsorb
  <2>4. Twins(absorb(sync_h2d(challenger[w]), v), ChallengerObserve(challenger[w], v))
    BY <2>2, TwinsSync, TwinsAbsorb
  <2>5. Twins(d(w).sponge, c(w).challenger) /\ d(w).value = c(w).value
    BY <2>3, TwinsSample
  <2>6. g(w) = c(w).value
    BY <2>4, TwinsSample DEF sponge_check_witness
  <2>7. IsMulti(m(w).multi)
    BY <2>2, MultiObserved, MultiSampled
  <2>8. b(w) = m(w).value
    BY <2>2, MultiDeviceSamples
  <2> HIDE DEF d, c, m, g, b
  <2> QED
    BY <2>1, <2>5, <2>6, <2>7, <2>8
<1>2. /\ last'.op = "grind"
      /\ last'.duplex = [w \in World |-> d(w).value]
      /\ last'.challenger = [w \in World |-> c(w).value]
      /\ last'.multi = [w \in World |-> m(w).value]
      /\ last'.gpu = [w \in World |-> g(w)] /\ last'.multi_gpu = [w \in World |-> b(w)]
  BY DEF grind, Gives
<1> HIDE DEF d, c, m, g, b
<1>3. SameChallenges' /\ DeviceAgrees'
  BY <1>1, <1>2 DEF SameChallenges, DeviceAgrees
<1> QED
  BY <1>1, <1>3 DEF AgreeInv

(* In every reachable state the sponge and the challenger are twins in both *)
(* worlds.                                                                  *)
THEOREM AgreementInvariant == Spec => []AgreeInv
<1>1. AgreeInv /\ [Next]_vars => AgreeInv'
  <2> SUFFICES ASSUME AgreeInv, [Next]_vars PROVE AgreeInv'
    OBVIOUS
  <2>1. CASE Next
    BY <2>1, ObserveAgrees, CommitAgrees, SampleAgrees, GrindAgrees DEF Next
  <2>2. CASE UNCHANGED vars
    BY <2>2 DEF vars, AgreeInv, SameChallenges, DeviceAgrees
  <2> QED
    BY <2>1, <2>2
<1> QED
  BY <1>1, InitAgree, PTL DEF Spec

(* The duplex sponge and Plonky3's buffered challenger give the same        *)
(* challenges, for every width, rate and permutation and any sequence of    *)
(* calls.                                                                   *)
THEOREM ChallengesAgree == Spec => []SameChallenges
<1>1. AgreeInv => SameChallenges
  BY DEF AgreeInv
<1> QED
  BY <1>1, AgreementInvariant, PTL

(* What a kernel samples for a witness is what the host samples after       *)
(* observing it, whatever was pending in the buffers when the state was     *)
(* copied to the device.                                                    *)
THEOREM DeviceSamplesAgree == Spec => []DeviceAgrees
<1>1. AgreeInv => DeviceAgrees
  BY DEF AgreeInv
<1> QED
  BY <1>1, AgreementInvariant, PTL

-----------------------------------------------------------------------------
(* Binding: two worlds make the same calls.  Their sponges stay in step,    *)
(* and once an observed value differed, they differ in a cell that nothing  *)
(* will overwrite before it is permuted; the permutation then makes every   *)
(* cell differ.  A permutation that could lose a difference would lose a    *)
(* binding, so none may have a collision in a cell, and the capacity must   *)
(* keep the difference when the rate is overwritten.                        *)

Collisionless ==
  \A s, t : IsState(s) /\ IsState(t) /\ s # t =>
    \A i \in 1 .. WIDTH : Permute(s, i) # Permute(t, i)

InStep(a, b) ==
  /\ IsSponge(a) /\ IsSponge(b)
  /\ a.absorb_idx = b.absorb_idx /\ a.sample_idx = b.sample_idx

AllDiffer(s, t) == \A i \in 1 .. WIDTH : s[i] # t[i]

Parted(a, b) ==
  /\ \E i \in 1 .. WIDTH : (i <= a.absorb_idx \/ i > RATE) /\ a.state[i] # b.state[i]
  /\ a.absorb_idx = 0 => AllDiffer(a.state, b.state)

LEMMA PermutationParts ==
  ASSUME Collisionless, NEW s, NEW t, IsState(s), IsState(t),
         NEW i \in 1 .. WIDTH, s[i] # t[i]
  PROVE  AllDiffer(permute_mut(s), permute_mut(t))
<1>1. s # t
  OBVIOUS
<1>2. \A k \in 1 .. WIDTH : Permute(s, k) # Permute(t, k)
  BY <1>1 DEF Collisionless
<1> QED
  BY <1>2 DEF AllDiffer, permute_mut

LEMMA AbsorbInStep ==
  ASSUME NEW a, NEW b, InStep(a, b), NEW u, NEW v
  PROVE  InStep(absorb(a, u), absorb(b, v))
<1> DEFINE i == a.absorb_idx + 1
           s == [a.state EXCEPT ![i] = u]
           t == [b.state EXCEPT ![i] = v]
           p == permute_mut(s)
           q == permute_mut(t)
<1>1. absorb(a, u) = IF i = RATE THEN SpongeOf(p, 0, RATE) ELSE SpongeOf(s, i, a.sample_idx)
  BY AbsorbIs DEF InStep
<1>2. absorb(b, v) = IF i = RATE THEN SpongeOf(q, 0, RATE) ELSE SpongeOf(t, i, a.sample_idx)
  BY AbsorbIs DEF InStep
<1>3. IsSponge(absorb(a, u)) /\ IsSponge(absorb(b, v))
  BY SpongeAbsorbed DEF InStep
<1> HIDE DEF i, s, t, p, q
<1> QED
  BY <1>1, <1>2, <1>3 DEF InStep, SpongeOf

LEMMA AbsorbParts ==
  ASSUME Collisionless, RATE < WIDTH, NEW a, NEW b, InStep(a, b), NEW u, NEW v,
         Parted(a, b) \/ u # v
  PROVE  Parted(absorb(a, u), absorb(b, v))
<1> DEFINE i == a.absorb_idx + 1
           s == [a.state EXCEPT ![i] = u]
           t == [b.state EXCEPT ![i] = v]
           p == permute_mut(s)
           q == permute_mut(t)
<1>1. absorb(a, u) = IF i = RATE THEN SpongeOf(p, 0, RATE) ELSE SpongeOf(s, i, a.sample_idx)
  BY AbsorbIs DEF InStep
<1>2. absorb(b, v) = IF i = RATE THEN SpongeOf(q, 0, RATE) ELSE SpongeOf(t, i, a.sample_idx)
  BY AbsorbIs DEF InStep
<1>3. i \in 1 .. RATE /\ WIDTH \in Nat /\ RATE \in Nat /\ RATE < WIDTH /\ a.absorb_idx \in Nat
  BY SpongeAssumption DEF InStep, IsSponge
<1>4. a.state = [k \in 1 .. WIDTH |-> a.state[k]] /\ b.state = [k \in 1 .. WIDTH |-> b.state[k]]
  BY DEF InStep, IsSponge, IsState
<1>5. IsState(s) /\ IsState(t)
  <2> HIDE DEF i
  <2> QED
    BY <1>3, <1>4 DEF IsState
<1>6. /\ \A k \in 1 .. WIDTH : s[k] = IF k = i THEN u ELSE a.state[k]
      /\ \A k \in 1 .. WIDTH : t[k] = IF k = i THEN v ELSE b.state[k]
  <2> HIDE DEF i
  <2> QED
    BY <1>3, <1>4
<1>7. PICK k \in 1 .. WIDTH : (k <= i \/ k > RATE) /\ s[k] # t[k]
  <2> HIDE DEF s, t
  <2>1. CASE u # v
    <3>1. i \in 1 .. WIDTH /\ s[i] = u /\ t[i] = v
      BY <1>3, <1>6
    <3> QED
      BY <1>3, <2>1, <3>1
  <2>2. CASE Parted(a, b)
    <3>1. PICK k \in 1 .. WIDTH : (k <= a.absorb_idx \/ k > RATE) /\ a.state[k] # b.state[k]
      BY <2>2 DEF Parted
    <3>2. k # i /\ (k <= i \/ k > RATE)
      BY <1>3, <3>1
    <3> QED
      BY <1>6, <3>1, <3>2
  <2> QED
    BY <2>1, <2>2
<1>8. AllDiffer(p, q)
  <2> HIDE DEF s, t, i
  <2> QED
    BY <1>5, <1>7, PermutationParts
<1> HIDE DEF s, t, p, q, i
<1>9. CASE i = RATE
  <2>1. \E m \in 1 .. WIDTH : m > RATE /\ p[m] # q[m]
    BY <1>3, <1>8 DEF AllDiffer
  <2>2. Parted(SpongeOf(p, 0, RATE), SpongeOf(q, 0, RATE))
    BY <1>8, <2>1 DEF Parted, SpongeOf
  <2> QED
    BY <1>1, <1>2, <1>9, <2>2
<1>10. CASE i # RATE
  <2>1. Parted(SpongeOf(s, i, a.sample_idx), SpongeOf(t, i, a.sample_idx))
    BY <1>3, <1>7 DEF Parted, SpongeOf
  <2> QED
    BY <1>1, <1>2, <1>10, <2>1
<1> QED
  BY <1>9, <1>10

LEMMA SqueezeInStep ==
  ASSUME NEW a, NEW b, InStep(a, b)
  PROVE  InStep(squeeze(a).sponge, squeeze(b).sponge)
<1> DEFINE p == permute_mut(a.state)
           q == permute_mut(b.state)
<1>1. squeeze(a).sponge = IF Stale(a) THEN SpongeOf(p, 0, RATE - 1)
                          ELSE SpongeOf(a.state, 0, a.sample_idx - 1)
  BY SqueezeIs DEF InStep
<1>2. squeeze(b).sponge = IF Stale(a) THEN SpongeOf(q, 0, RATE - 1)
                          ELSE SpongeOf(b.state, 0, a.sample_idx - 1)
  BY SqueezeIs DEF InStep, Stale
<1>3. IsSponge(squeeze(a).sponge) /\ IsSponge(squeeze(b).sponge)
  BY SpongeSqueezed DEF InStep
<1> HIDE DEF p, q
<1> QED
  BY <1>1, <1>2, <1>3 DEF InStep, SpongeOf

LEMMA SqueezeParts ==
  ASSUME Collisionless, RATE < WIDTH, NEW a, NEW b, InStep(a, b), Parted(a, b)
  PROVE  /\ Parted(squeeze(a).sponge, squeeze(b).sponge)
         /\ squeeze(a).value # squeeze(b).value
<1> DEFINE p == permute_mut(a.state)
           q == permute_mut(b.state)
<1>1. squeeze(a) = IF Stale(a) THEN [sponge |-> SpongeOf(p, 0, RATE - 1), value |-> p[RATE]]
                   ELSE [sponge |-> SpongeOf(a.state, 0, a.sample_idx - 1),
                         value |-> a.state[a.sample_idx]]
  BY SqueezeIs DEF InStep
<1>2. squeeze(b) = IF Stale(a) THEN [sponge |-> SpongeOf(q, 0, RATE - 1), value |-> q[RATE]]
                   ELSE [sponge |-> SpongeOf(b.state, 0, a.sample_idx - 1),
                         value |-> b.state[a.sample_idx]]
  <2>1. Stale(b) <=> Stale(a)
    BY DEF InStep, Stale
  <2> QED
    BY <2>1, SqueezeIs DEF InStep
<1>3. IsState(a.state) /\ IsState(b.state) /\ a.sample_idx \in 0 .. RATE
      /\ RATE \in 1 .. WIDTH /\ WIDTH \in Nat /\ RATE < WIDTH
  BY SpongeAssumption DEF InStep, IsSponge
<1>4. AllDiffer(p, q)
  <2>1. PICK k \in 1 .. WIDTH : a.state[k] # b.state[k]
    BY DEF Parted
  <2> QED
    BY <1>3, <2>1, PermutationParts
<1> HIDE DEF p, q
<1>5. ASSUME NEW s, NEW t, AllDiffer(s, t), NEW n
      PROVE  Parted(SpongeOf(s, 0, n), SpongeOf(t, 0, n))
  <2>1. \E m \in 1 .. WIDTH : m > RATE /\ s[m] # t[m]
    BY <1>3, <1>5 DEF AllDiffer
  <2> QED
    BY <1>5, <2>1 DEF Parted, SpongeOf
<1>6. CASE Stale(a)
  <2>1. p[RATE] # q[RATE]
    BY <1>3, <1>4 DEF AllDiffer
  <2>2. Parted(SpongeOf(p, 0, RATE - 1), SpongeOf(q, 0, RATE - 1))
    BY <1>4, <1>5
  <2> QED
    BY <1>1, <1>2, <1>6, <2>1, <2>2
<1>7. CASE ~Stale(a)
  <2>1. a.absorb_idx = 0 /\ a.sample_idx \in 1 .. WIDTH
    BY <1>3, <1>7 DEF Stale
  <2>2. AllDiffer(a.state, b.state)
    BY <2>1 DEF Parted
  <2>3. a.state[a.sample_idx] # b.state[a.sample_idx]
    BY <2>1, <2>2 DEF AllDiffer
  <2>4. Parted(SpongeOf(a.state, 0, a.sample_idx - 1), SpongeOf(b.state, 0, a.sample_idx - 1))
    BY <1>5, <2>2
  <2> QED
    BY <1>1, <1>2, <1>7, <2>3, <2>4
<1> QED
  BY <1>6, <1>7

LEMMA InTurnInStep ==
  ASSUME NEW a, NEW b, InStep(a, b),
         NEW us, NEW vs, Len(us) \in Nat, Len(vs) = Len(us)
  PROVE  /\ InStep(InTurn(absorb, a, us), InTurn(absorb, b, vs))
         /\ /\ Collisionless /\ RATE < WIDTH
            /\ Parted(a, b) \/ (Len(us) # 0 /\ \A i \in 1 .. Len(us) : us[i] # vs[i])
            => Parted(InTurn(absorb, a, us), InTurn(absorb, b, vs))
<1> DEFINE n == Len(us)
           Safe == Collisionless /\ RATE < WIDTH
           Fork == \A i \in 1 .. n : us[i] # vs[i]
<1>1. PICK x : /\ x[0] = a
               /\ \A i \in 1 .. n : x[i] = absorb(x[i - 1], us[i])
               /\ InTurn(absorb, a, us) = x[n]
  <2> HIDE DEF Safe, Fork
  <2> QED
    BY ONLY Len(us) \in Nat, AbsorbInTurn, ZenonT(30)
<1>2. PICK y : /\ y[0] = b
               /\ \A i \in 1 .. n : y[i] = absorb(y[i - 1], vs[i])
               /\ InTurn(absorb, b, vs) = y[n]
  <2>1. PICK y : /\ y[0] = b
                 /\ \A i \in 1 .. Len(vs) : y[i] = absorb(y[i - 1], vs[i])
                 /\ InTurn(absorb, b, vs) = y[Len(vs)]
    <3> HIDE DEF Safe, Fork
    <3>1. Len(vs) \in Nat
      OBVIOUS
    <3> QED
      BY ONLY <3>1, AbsorbInTurn, ZenonT(30)
  <2> QED
    BY <2>1
<1>3. n \in Nat
  OBVIOUS
<1> HIDE DEF n
<1> DEFINE S == {i \in 0 .. n :
                   /\ InStep(x[i], y[i])
                   /\ Safe /\ (Parted(a, b) \/ (Fork /\ i # 0)) => Parted(x[i], y[i])}
<1>4. 0 \in S
  BY <1>1, <1>2, <1>3
<1>5. \A i \in 1 .. n : i - 1 \in S => i \in S
  <2> SUFFICES ASSUME NEW i \in 1 .. n, i - 1 \in S
               PROVE  i \in S
    OBVIOUS
  <2>1. InStep(x[i - 1], y[i - 1])
    OBVIOUS
  <2>2. x[i] = absorb(x[i - 1], us[i]) /\ y[i] = absorb(y[i - 1], vs[i])
    BY <1>1, <1>2
  <2>3. InStep(x[i], y[i])
    BY <2>1, <2>2, AbsorbInStep
  <2>4. ASSUME Safe, Parted(a, b) \/ Fork
        PROVE  Parted(x[i], y[i])
    <3>1. Parted(x[i - 1], y[i - 1]) \/ us[i] # vs[i]
      <4>1. CASE Parted(a, b)
        <5>1. Safe /\ Parted(a, b) => Parted(x[i - 1], y[i - 1])
          <6> HIDE DEF Safe, Fork
          <6> QED
            OBVIOUS
        <5> QED
          BY <2>4, <4>1, <5>1
      <4>2. CASE Fork
        <5>1. us[i] # vs[i]
          <6> HIDE DEF S
          <6> QED
            BY <4>2
        <5> QED
          BY <5>1
      <4> QED
        BY <2>4, <4>1, <4>2
    <3> QED
      BY <2>1, <2>2, <2>4, <3>1, AbsorbParts
  <2> HIDE DEF Safe, Fork
  <2> QED
    BY <1>3, <2>3, <2>4
<1>6. \A i \in 0 .. n : i \in S
  <2> HIDE DEF S
  <2> QED
    BY <1>3, <1>4, <1>5, UpTo
<1>7. /\ InStep(x[n], y[n])
      /\ Safe /\ (Parted(a, b) \/ (Fork /\ n # 0)) => Parted(x[n], y[n])
  <2> HIDE DEF Safe, Fork
  <2> QED
    BY <1>3, <1>6
<1> QED
  BY <1>1, <1>2, <1>7 DEF n

-----------------------------------------------------------------------------
(* The multi-field transcripts of the two worlds.                           *)

LEMMA ListedEqual ==
  ASSUME NEW b, NEW c, Listed(b), Listed(c), Len(b) = Len(c),
         \A i \in 1 .. Len(b) : b[i] = c[i]
  PROVE  b = c
<1>1. PICK S : b \in Seq(S)
  BY DEF Listed
<1>2. PICK T : c \in Seq(T)
  BY DEF Listed
<1>3. b \in Seq(S \cup T) /\ c \in Seq(S \cup T)
  BY <1>1, <1>2
<1> QED
  BY <1>3

(* Packing drops exactly the zeros at the end.                              *)
LEMMA PackedPrefix ==
  ASSUME NEW b, Listed(b)
  PROVE  \E n \in 0 .. Len(b) : /\ pack_f_to_sf(b) = <<"packed", SubSeq(b, 1, n)>>
                                /\ \A i \in n + 1 .. Len(b) : b[i] = Zero
<1> DEFINE S == {0} \cup {i \in DOMAIN b : b[i] # Zero}
           T == {k \in 0 .. Len(b) : \A i \in S : k >= i}
<1>1. Len(b) \in Nat /\ DOMAIN b = 1 .. Len(b)
  BY ListedLen
<1>2. S \subseteq 0 .. Len(b) /\ 0 \in S
  BY <1>1
<1> HIDE DEF S
<1>3. Len(b) \in T /\ T \subseteq Nat
  BY <1>1, <1>2
<1>4. PICK x \in T : \A y \in T : x <= y
  <2> HIDE DEF T
  <2> QED
    BY <1>3, LeastNatural
<1>5. x \in S
  <2> SUFFICES ASSUME x \notin S PROVE FALSE
    OBVIOUS
  <2>1. x \in Nat /\ x # 0
    BY <1>2, <1>3, <1>4
  <2>2. \A i \in S : x - 1 >= i
    BY <1>2, <1>1, <1>4, <2>1
  <2>3. x - 1 \in T
    BY <1>1, <1>4, <2>1, <2>2
  <2> QED
    BY <1>4, <2>1, <2>3
<1>6. \E y \in S : \A i \in S : y >= i
  BY <1>4, <1>5
<1> DEFINE n == Max(S)
<1>7. n \in S /\ \A i \in S : n >= i
  BY <1>6 DEF Max
<1>8. pack_f_to_sf(b) = <<"packed", SubSeq(b, 1, n)>>
  BY DEF pack_f_to_sf, S
<1> HIDE DEF n
<1>9. \A i \in n + 1 .. Len(b) : b[i] = Zero
  <2> SUFFICES ASSUME NEW i \in n + 1 .. Len(b), b[i] # Zero PROVE FALSE
    OBVIOUS
  <2>1. n \in Nat
    BY <1>1, <1>2, <1>7
  <2>2. i \in S
    BY <1>1, <2>1 DEF S
  <2> QED
    BY <1>7, <2>1, <2>2
<1> QED
  BY <1>2, <1>7, <1>8, <1>9

LEMMA SecondOfPair ==
  ASSUME NEW tag, NEW x, NEW y, <<tag, x>> = <<tag, y>>
  PROVE  x = y
  OBVIOUS

LEMMA PackingParts ==
  ASSUME NEW b, NEW c, Listed(b), Listed(c), Len(b) = Len(c), b # c
  PROVE  pack_f_to_sf(b) # pack_f_to_sf(c)
<1> SUFFICES ASSUME pack_f_to_sf(b) = pack_f_to_sf(c) PROVE FALSE
  OBVIOUS
<1>1. PICK n \in 0 .. Len(b) : /\ pack_f_to_sf(b) = <<"packed", SubSeq(b, 1, n)>>
                               /\ \A i \in n + 1 .. Len(b) : b[i] = Zero
  BY PackedPrefix
<1>2. PICK k \in 0 .. Len(c) : /\ pack_f_to_sf(c) = <<"packed", SubSeq(c, 1, k)>>
                               /\ \A i \in k + 1 .. Len(c) : c[i] = Zero
  BY PackedPrefix
<1>3. SubSeq(b, 1, n) = SubSeq(c, 1, k)
  BY <1>1, <1>2, SecondOfPair
<1>4. Len(SubSeq(b, 1, n)) = n /\ \A i \in 1 .. n : SubSeq(b, 1, n)[i] = b[i]
  BY ListedPrefix
<1>5. Len(SubSeq(c, 1, k)) = k /\ \A i \in 1 .. k : SubSeq(c, 1, k)[i] = c[i]
  BY ListedPrefix
<1>6. n = k
  BY <1>3, <1>4, <1>5
<1>7. \A i \in 1 .. n : b[i] = c[i]
  BY <1>3, <1>4, <1>5, <1>6
<1>8. Len(b) \in Nat
  BY ListedLen
<1>9. \A i \in 1 .. Len(b) : b[i] = c[i]
  BY <1>1, <1>2, <1>6, <1>7, <1>8
<1> QED
  BY <1>9, ListedEqual

MultiInStep(m, n) ==
  /\ IsMulti(m) /\ IsMulti(n)
  /\ InStep(m.sponge, n.sponge)
  /\ Len(m.observe_buf) = Len(n.observe_buf) /\ Len(m.sample_buf) = Len(n.sample_buf)

MultiParted(m, n) ==
  /\ Parted(m.sponge, n.sponge) \/ m.observe_buf # n.observe_buf
  /\ \A i \in 1 .. Len(m.sample_buf) : m.sample_buf[i] # n.sample_buf[i]

LEMMA FlushedInStep ==
  ASSUME NEW a, NEW b, InStep(a, b),
         NEW us, NEW vs, Listed(us), Listed(vs), Len(us) = Len(vs)
  PROVE  /\ InStep(Flushed(a, us), Flushed(b, vs))
         /\ Collisionless /\ RATE < WIDTH /\ (Parted(a, b) \/ us # vs)
              => Parted(Flushed(a, us), Flushed(b, vs))
<1>1. us = <<>> <=> vs = <<>>
  BY ListedLen
<1>2. CASE us = <<>>
  BY <1>1, <1>2 DEF Flushed
<1>3. CASE us # <<>>
  <2>1. /\ Flushed(a, us) = absorb(a, pack_f_to_sf(us))
        /\ Flushed(b, vs) = absorb(b, pack_f_to_sf(vs))
    BY <1>1, <1>3 DEF Flushed
  <2>2. us # vs => pack_f_to_sf(us) # pack_f_to_sf(vs)
    BY PackingParts
  <2> QED
    BY <2>1, <2>2, AbsorbInStep, AbsorbParts
<1> QED
  BY <1>2, <1>3

LEMMA MultiObserveInStep ==
  ASSUME NEW m, NEW n, MultiInStep(m, n), NEW u, NEW v
  PROVE  /\ MultiInStep(MultiObserve(m, u), MultiObserve(n, v))
         /\ Collisionless /\ RATE < WIDTH /\ (MultiParted(m, n) \/ u # v)
              => MultiParted(MultiObserve(m, u), MultiObserve(n, v))
<1> DEFINE us == Append(m.observe_buf, u)
           vs == Append(n.observe_buf, v)
           a == absorb(m.sponge, pack_f_to_sf(us))
           b == absorb(n.sponge, pack_f_to_sf(vs))
           Apart == MultiParted(m, n) \/ u # v
<1>1. MultiObserve(m, u) = IF Len(us) = NumObs THEN MultiOf(a, <<>>, <<>>)
                           ELSE MultiOf(m.sponge, us, <<>>)
  BY MultiObserveIs DEF MultiInStep
<1>2. MultiObserve(n, v) = IF Len(vs) = NumObs THEN MultiOf(b, <<>>, <<>>)
                           ELSE MultiOf(n.sponge, vs, <<>>)
  BY MultiObserveIs DEF MultiInStep
<1>3. IsMulti(MultiObserve(m, u)) /\ IsMulti(MultiObserve(n, v))
  BY MultiObserved DEF MultiInStep
<1>4. /\ Listed(us) /\ Listed(vs) /\ Len(us) = Len(vs)
      /\ m.observe_buf # n.observe_buf \/ u # v => us # vs
  <2>1. Listed(m.observe_buf) /\ Listed(n.observe_buf) /\ Len(m.observe_buf) = Len(n.observe_buf)
    BY DEF MultiInStep, IsMulti
  <2>2. Listed(us) /\ Listed(vs) /\ Len(us) = Len(vs)
    BY <2>1, ListedAppend
  <2>3. ASSUME us = vs
        PROVE  m.observe_buf = n.observe_buf /\ u = v
    <3>1. /\ \A i \in 1 .. Len(m.observe_buf) : us[i] = m.observe_buf[i]
          /\ us[Len(m.observe_buf) + 1] = u
      BY <2>1, ListedAppend
    <3>2. /\ \A i \in 1 .. Len(n.observe_buf) : vs[i] = n.observe_buf[i]
          /\ vs[Len(n.observe_buf) + 1] = v
      BY <2>1, ListedAppend
    <3> HIDE DEF us, vs
    <3>3. u = v /\ \A i \in 1 .. Len(m.observe_buf) : m.observe_buf[i] = n.observe_buf[i]
      BY <2>1, <2>3, <3>1, <3>2
    <3> QED
      BY <2>1, <3>3, ListedEqual
  <2> HIDE DEF us, vs
  <2> QED
    BY <2>2, <2>3
<1>5. InStep(m.sponge, n.sponge)
  BY DEF MultiInStep
<1>6. CASE Len(us) = NumObs
  <2>1. InStep(a, b)
    BY <1>5, AbsorbInStep
  <2>2. Collisionless /\ RATE < WIDTH /\ Apart => Parted(a, b)
    <3>1. Apart => Parted(m.sponge, n.sponge) \/ us # vs
      <4> HIDE DEF us, vs
      <4> QED
        BY <1>4 DEF MultiParted
    <3>2. us # vs => pack_f_to_sf(us) # pack_f_to_sf(vs)
      <4> HIDE DEF us, vs
      <4> QED
        BY <1>4, PackingParts
    <3> HIDE DEF us, vs, Apart
    <3> QED
      BY <1>5, <3>1, <3>2, AbsorbParts
  <2> HIDE DEF us, vs, a, b, Apart
  <2>3. MultiObserve(m, u) = MultiOf(a, <<>>, <<>>) /\ MultiObserve(n, v) = MultiOf(b, <<>>, <<>>)
    BY <1>1, <1>2, <1>4, <1>6
  <2>4. MultiInStep(MultiObserve(m, u), MultiObserve(n, v))
    BY <1>3, <2>1, <2>3 DEF MultiInStep, MultiOf
  <2>5. Parted(a, b) => MultiParted(MultiObserve(m, u), MultiObserve(n, v))
    BY <2>3, ListedEmpty DEF MultiParted, MultiOf
  <2> QED
    BY <2>2, <2>4, <2>5 DEF Apart
<1>7. CASE Len(us) # NumObs
  <2>1. Apart => Parted(m.sponge, n.sponge) \/ us # vs
    <3> HIDE DEF us, vs
    <3> QED
      BY <1>4 DEF MultiParted
  <2> HIDE DEF us, vs, a, b, Apart
  <2>2. MultiObserve(m, u) = MultiOf(m.sponge, us, <<>>)
        /\ MultiObserve(n, v) = MultiOf(n.sponge, vs, <<>>)
    BY <1>1, <1>2, <1>4, <1>7
  <2>3. MultiInStep(MultiObserve(m, u), MultiObserve(n, v))
    BY <1>3, <1>4, <1>5, <2>2 DEF MultiInStep, MultiOf
  <2>4. Apart => MultiParted(MultiObserve(m, u), MultiObserve(n, v))
    BY <2>1, <2>2, ListedEmpty DEF MultiParted, MultiOf
  <2> QED
    BY <2>3, <2>4 DEF Apart
<1> QED
  BY <1>6, <1>7

LEMMA SliceInStep ==
  ASSUME NEW m, NEW n, MultiInStep(m, n), NEW d, NEW e
  PROVE  /\ MultiInStep(absorb_slice(m, <<d>>), absorb_slice(n, <<e>>))
         /\ Collisionless /\ RATE < WIDTH /\ (MultiParted(m, n) \/ d # e)
              => MultiParted(absorb_slice(m, <<d>>), absorb_slice(n, <<e>>))
<1> DEFINE us == <<d>>
           vs == <<e>>
           a == Flushed(m.sponge, m.observe_buf)
           b == Flushed(n.sponge, n.observe_buf)
           x == InTurn(absorb, a, us)
           y == InTurn(absorb, b, vs)
<1>1. absorb_slice(m, us) = MultiOf(x, <<>>, <<>>) /\ absorb_slice(n, vs) = MultiOf(y, <<>>, <<>>)
  BY AbsorbSliceIs DEF MultiInStep
<1>2. Len(us) = 1 /\ Len(vs) = 1 /\ us[1] = d /\ vs[1] = e
  OBVIOUS
<1> HIDE DEF us, vs
<1>3. IsMulti(absorb_slice(m, us)) /\ IsMulti(absorb_slice(n, vs))
  BY <1>2, SliceAbsorbed DEF MultiInStep
<1>4. InStep(a, b) /\ (Collisionless /\ RATE < WIDTH /\ MultiParted(m, n) => Parted(a, b))
  <2>1. /\ InStep(m.sponge, n.sponge) /\ Listed(m.observe_buf) /\ Listed(n.observe_buf)
        /\ Len(m.observe_buf) = Len(n.observe_buf)
    BY DEF MultiInStep, IsMulti
  <2>2. MultiParted(m, n) => Parted(m.sponge, n.sponge) \/ m.observe_buf # n.observe_buf
    BY DEF MultiParted
  <2> QED
    BY <2>1, <2>2, FlushedInStep
<1>5. d # e => Len(us) # 0 /\ \A i \in 1 .. Len(us) : us[i] # vs[i]
  BY <1>2
<1> HIDE DEF a, b
<1>6. InStep(x, y) /\ (Collisionless /\ RATE < WIDTH /\ (MultiParted(m, n) \/ d # e) => Parted(x, y))
  BY <1>2, <1>4, <1>5, InTurnInStep
<1> HIDE DEF x, y
<1>7. MultiInStep(absorb_slice(m, us), absorb_slice(n, vs))
  BY <1>1, <1>3, <1>6 DEF MultiInStep, MultiOf
<1>8. Parted(x, y) => MultiParted(absorb_slice(m, us), absorb_slice(n, vs))
  BY <1>1, ListedEmpty DEF MultiParted, MultiOf
<1> QED
  BY <1>6, <1>7, <1>8 DEF us, vs

LEMMA MultiSampleInStep ==
  ASSUME NEW m, NEW n, MultiInStep(m, n)
  PROVE  /\ MultiInStep(MultiSample(m).multi, MultiSample(n).multi)
         /\ Collisionless /\ RATE < WIDTH /\ MultiParted(m, n)
              => /\ MultiParted(MultiSample(m).multi, MultiSample(n).multi)
                 /\ MultiSample(m).value # MultiSample(n).value
<1> DEFINE a == Flushed(m.sponge, m.observe_buf)
           b == Flushed(n.sponge, n.observe_buf)
           Apart == Collisionless /\ RATE < WIDTH /\ MultiParted(m, n)
<1>1. IsMulti(MultiSample(m).multi) /\ IsMulti(MultiSample(n).multi)
  BY MultiSampled DEF MultiInStep
<1>2. /\ Listed(m.sample_buf) /\ Listed(n.sample_buf) /\ Len(m.sample_buf) = Len(n.sample_buf)
      /\ Listed(m.observe_buf) /\ Listed(n.observe_buf)
      /\ Len(m.observe_buf) = Len(n.observe_buf) /\ InStep(m.sponge, n.sponge)
      /\ IsMulti(m) /\ IsMulti(n)
  BY DEF MultiInStep, IsMulti
<1>3. m.sample_buf = <<>> <=> n.sample_buf = <<>>
  BY <1>2, ListedLen
<1>4. CASE m.sample_buf # <<>>
  <2> DEFINE s == Tail(m.sample_buf)
             t == Tail(n.sample_buf)
  <2>1. MultiSample(m) = [multi |-> MultiOf(m.sponge, m.observe_buf, s), value |-> Head(m.sample_buf)]
    BY <1>2, <1>4, MultiSampleIs
  <2>2. MultiSample(n) = [multi |-> MultiOf(n.sponge, n.observe_buf, t), value |-> Head(n.sample_buf)]
    BY <1>2, <1>3, <1>4, MultiSampleIs
  <2>3. /\ Len(s) = Len(m.sample_buf) - 1 /\ Head(m.sample_buf) = m.sample_buf[1]
        /\ \A i \in 1 .. Len(m.sample_buf) - 1 : s[i] = m.sample_buf[i + 1]
    BY <1>2, <1>4, ListedTail
  <2>4. /\ Len(t) = Len(m.sample_buf) - 1 /\ Head(n.sample_buf) = n.sample_buf[1]
        /\ \A i \in 1 .. Len(m.sample_buf) - 1 : t[i] = n.sample_buf[i + 1]
    BY <1>2, <1>3, <1>4, ListedTail
  <2>5. Len(m.sample_buf) \in Nat \ {0}
    BY <1>2, <1>4, ListedLen
  <2> HIDE DEF s, t
  <2>6. MultiInStep(MultiSample(m).multi, MultiSample(n).multi)
    BY <1>1, <1>2, <2>1, <2>2, <2>3, <2>4 DEF MultiInStep, MultiOf
  <2>7. ASSUME MultiParted(m, n)
        PROVE  /\ MultiParted(MultiSample(m).multi, MultiSample(n).multi)
               /\ MultiSample(m).value # MultiSample(n).value
    <3>1. /\ Parted(m.sponge, n.sponge) \/ m.observe_buf # n.observe_buf
          /\ \A i \in 1 .. Len(m.sample_buf) : m.sample_buf[i] # n.sample_buf[i]
      BY <2>7 DEF MultiParted
    <3>2. Head(m.sample_buf) # Head(n.sample_buf)
      BY <2>3, <2>4, <2>5, <3>1
    <3>3. \A i \in 1 .. Len(s) : s[i] # t[i]
      <4> TAKE i \in 1 .. Len(s)
      <4>1. i \in 1 .. Len(m.sample_buf) - 1 /\ i + 1 \in 1 .. Len(m.sample_buf)
        BY <2>3, <2>5
      <4> QED
        BY <2>3, <2>4, <3>1, <4>1
    <3>4. MultiParted(MultiOf(m.sponge, m.observe_buf, s), MultiOf(n.sponge, n.observe_buf, t))
      BY <3>1, <3>3 DEF MultiParted, MultiOf
    <3> QED
      BY <2>1, <2>2, <3>2, <3>4
  <2> QED
    BY <2>6, <2>7
<1>5. CASE m.sample_buf = <<>>
  <2> DEFINE o == squeeze(a)
             p == squeeze(b)
             ds == extract_samples(o.value)
             es == extract_samples(p.value)
             s == Tail(ds)
             t == Tail(es)
  <2>1. MultiSample(m) = [multi |-> MultiOf(o.sponge, <<>>, s), value |-> Head(ds)]
    BY <1>2, <1>5, MultiSampleIs
  <2>2. MultiSample(n) = [multi |-> MultiOf(p.sponge, <<>>, t), value |-> Head(es)]
    BY <1>2, <1>3, <1>5, MultiSampleIs
  <2>3. InStep(a, b) /\ (Apart => Parted(a, b))
    <3>1. MultiParted(m, n) => Parted(m.sponge, n.sponge) \/ m.observe_buf # n.observe_buf
      BY DEF MultiParted
    <3> QED
      BY <1>2, <3>1, FlushedInStep
  <2>4. InStep(o.sponge, p.sponge)
    BY <2>3, SqueezeInStep
  <2>5. Apart => Parted(o.sponge, p.sponge) /\ o.value # p.value
    BY <2>3, SqueezeParts
  <2>6. /\ Listed(ds) /\ Len(ds) = NumSamples
        /\ \A i \in 1 .. NumSamples : ds[i] = <<"digit", i, o.value>>
    BY Digits
  <2>7. /\ Listed(es) /\ Len(es) = NumSamples
        /\ \A i \in 1 .. NumSamples : es[i] = <<"digit", i, p.value>>
    BY Digits
  <2>8. NumSamples \in Nat \ {0}
    BY MultiFieldAssumption
  <2> HIDE DEF o, p, a, b, ds, es
  <2>9. ds # <<>> /\ es # <<>>
    BY <2>6, <2>7, <2>8, ListedEmpty
  <2>10. Len(s) = NumSamples - 1 /\ Head(ds) = ds[1] /\ \A i \in 1 .. NumSamples - 1 : s[i] = ds[i + 1]
    BY <2>6, <2>9, ListedTail
  <2>11. Len(t) = NumSamples - 1 /\ Head(es) = es[1] /\ \A i \in 1 .. NumSamples - 1 : t[i] = es[i + 1]
    BY <2>7, <2>9, ListedTail
  <2> HIDE DEF s, t
  <2>12. MultiInStep(MultiSample(m).multi, MultiSample(n).multi)
    BY <1>1, <2>1, <2>2, <2>4, <2>10, <2>11 DEF MultiInStep, MultiOf
  <2>13. ASSUME Parted(o.sponge, p.sponge), o.value # p.value
         PROVE  /\ MultiParted(MultiSample(m).multi, MultiSample(n).multi)
                /\ MultiSample(m).value # MultiSample(n).value
    <3>1. \A i \in 1 .. NumSamples : ds[i] # es[i]
      BY <2>6, <2>7, <2>13
    <3>2. Head(ds) # Head(es)
      BY <2>8, <2>10, <2>11, <3>1
    <3>3. \A i \in 1 .. Len(s) : s[i] # t[i]
      <4> TAKE i \in 1 .. Len(s)
      <4>1. i \in 1 .. NumSamples - 1 /\ i + 1 \in 1 .. NumSamples
        BY <2>8, <2>10
      <4> QED
        BY <2>10, <2>11, <3>1, <4>1
    <3>4. MultiParted(MultiOf(o.sponge, <<>>, s), MultiOf(p.sponge, <<>>, t))
      BY <2>13, <3>3 DEF MultiParted, MultiOf
    <3> QED
      BY <2>1, <2>2, <3>2, <3>4
  <2> QED
    BY <2>5, <2>12, <2>13
<1> QED
  BY <1>4, <1>5

-----------------------------------------------------------------------------
(* Both worlds together.                                                    *)

Safe == Collisionless /\ RATE < WIDTH

BindInv ==
  /\ InStep(duplex[1], duplex[2]) /\ MultiInStep(multi[1], multi[2])
  /\ Safe /\ forked => Parted(duplex[1], duplex[2]) /\ MultiParted(multi[1], multi[2])
  /\ Safe => Binding

LEMMA InitBind == Init => BindInv
<1> SUFFICES ASSUME Init PROVE BindInv
  OBVIOUS
<1>1. duplex[1] = EmptySponge /\ duplex[2] = EmptySponge
      /\ multi[1] = EmptyMulti /\ multi[2] = EmptyMulti
  BY DEF Init, World
<1>2. IsSponge(EmptySponge)
  BY TwinsEmpty DEF Twins
<1>3. IsMulti(EmptyMulti)
  BY <1>2, ListedEmpty, MultiFieldAssumption DEF IsMulti, EmptyMulti, MultiOf
<1>4. EmptyMulti.sponge = EmptySponge
  BY DEF EmptyMulti
<1>5. ~forked
  BY DEF Init
<1> QED
  BY <1>1, <1>2, <1>3, <1>4, <1>5 DEF BindInv, InStep, MultiInStep, Binding

LEMMA ObserveBinds ==
  ASSUME BindInv, NEW vals, observe(vals)
  PROVE  BindInv'
<1>1. /\ duplex'[1] = absorb(duplex[1], vals[1]) /\ duplex'[2] = absorb(duplex[2], vals[2])
      /\ multi'[1] = MultiObserve(multi[1], vals[1])
      /\ multi'[2] = MultiObserve(multi[2], vals[2])
  BY DEF observe, World
<1>2. forked' = (forked \/ vals[1] # vals[2])
  BY DEF observe
<1>3. last'.op = "observe"
  BY DEF observe, Gives
<1>4. InStep(duplex'[1], duplex'[2]) /\ MultiInStep(multi'[1], multi'[2])
  BY <1>1, AbsorbInStep, MultiObserveInStep DEF BindInv
<1>5. ASSUME Safe, forked'
      PROVE  Parted(duplex'[1], duplex'[2]) /\ MultiParted(multi'[1], multi'[2])
  <2>1. /\ Parted(duplex[1], duplex[2]) \/ vals[1] # vals[2]
        /\ MultiParted(multi[1], multi[2]) \/ vals[1] # vals[2]
    BY <1>2, <1>5 DEF BindInv
  <2> QED
    BY <1>1, <1>5, <2>1, AbsorbParts, MultiObserveInStep DEF BindInv, Safe
<1>6. Binding'
  BY <1>3 DEF Binding
<1> QED
  BY <1>4, <1>5, <1>6 DEF BindInv, Safe, Collisionless

LEMMA CommitBinds ==
  ASSUME BindInv, NEW digests, observe_commit(digests)
  PROVE  BindInv'
<1> DEFINE us == limbs(digests[1])
           vs == limbs(digests[2])
           ms == <<digests[1]>>
           ns == <<digests[2]>>
<1>1. /\ duplex'[1] = InTurn(absorb, duplex[1], us) /\ duplex'[2] = InTurn(absorb, duplex[2], vs)
      /\ multi'[1] = absorb_slice(multi[1], ms) /\ multi'[2] = absorb_slice(multi[2], ns)
  BY DEF observe_commit, World
<1>2. forked' = (forked \/ digests[1] # digests[2])
  BY DEF observe_commit
<1>3. last'.op = "observe"
  BY DEF observe_commit, Gives
<1>4. /\ Len(us) = RATE /\ Len(vs) = RATE /\ RATE \in Nat \ {0}
      /\ digests[1] # digests[2] => \A i \in 1 .. RATE : us[i] # vs[i]
  <2>1. /\ us = [i \in 1 .. RATE |-> us[i]] /\ vs = [i \in 1 .. RATE |-> vs[i]]
        /\ \A i \in 1 .. RATE : us[i] = <<"limb", i, digests[1]>> /\ vs[i] = <<"limb", i, digests[2]>>
    BY DEF limbs
  <2> HIDE DEF us, vs
  <2>2. Len(us) = RATE /\ Len(vs) = RATE
    BY <2>1, ListedFunction, SpongeAssumption
  <2> QED
    BY <2>1, <2>2, SpongeAssumption
<1> HIDE DEF us, vs
<1>5. InStep(duplex[1], duplex[2]) /\ MultiInStep(multi[1], multi[2])
  BY DEF BindInv
<1>6. InStep(duplex'[1], duplex'[2])
  BY <1>1, <1>4, <1>5, InTurnInStep
<1>7. MultiInStep(multi'[1], multi'[2])
  BY <1>1, <1>5, SliceInStep
<1>8. ASSUME Safe, forked'
      PROVE  Parted(duplex'[1], duplex'[2]) /\ MultiParted(multi'[1], multi'[2])
  <2>1. /\ Parted(duplex[1], duplex[2]) \/ digests[1] # digests[2]
        /\ MultiParted(multi[1], multi[2]) \/ digests[1] # digests[2]
    BY <1>2, <1>8 DEF BindInv
  <2>2. Parted(duplex'[1], duplex'[2])
    BY <1>1, <1>4, <1>5, <1>8, <2>1, InTurnInStep DEF Safe
  <2>3. MultiParted(multi'[1], multi'[2])
    BY <1>1, <1>5, <1>8, <2>1, SliceInStep DEF Safe
  <2> QED
    BY <2>2, <2>3
<1>9. Binding'
  BY <1>3 DEF Binding
<1> QED
  BY <1>6, <1>7, <1>8, <1>9 DEF BindInv, Safe, Collisionless

LEMMA SampleBinds ==
  ASSUME BindInv, sample
  PROVE  BindInv'
<1>1. /\ duplex'[1] = squeeze(duplex[1]).sponge /\ duplex'[2] = squeeze(duplex[2]).sponge
      /\ multi'[1] = MultiSample(multi[1]).multi /\ multi'[2] = MultiSample(multi[2]).multi
      /\ forked' = forked
  BY DEF sample, World
<1>2. /\ last'.duplex[1] = squeeze(duplex[1]).value /\ last'.duplex[2] = squeeze(duplex[2]).value
      /\ last'.multi[1] = MultiSample(multi[1]).value
      /\ last'.multi[2] = MultiSample(multi[2]).value
  BY DEF sample, Gives, World
<1>3. InStep(duplex'[1], duplex'[2]) /\ MultiInStep(multi'[1], multi'[2])
  BY <1>1, SqueezeInStep, MultiSampleInStep DEF BindInv
<1>4. ASSUME Safe, forked'
      PROVE  /\ Parted(duplex'[1], duplex'[2]) /\ MultiParted(multi'[1], multi'[2])
             /\ last'.duplex[1] # last'.duplex[2] /\ last'.multi[1] # last'.multi[2]
  <2>1. /\ InStep(duplex[1], duplex[2]) /\ Parted(duplex[1], duplex[2])
        /\ MultiInStep(multi[1], multi[2]) /\ MultiParted(multi[1], multi[2])
    BY <1>1, <1>4 DEF BindInv
  <2> QED
    BY <1>1, <1>2, <1>4, <2>1, SqueezeParts, MultiSampleInStep DEF Safe
<1> QED
  BY <1>3, <1>4 DEF BindInv, Binding, Safe, Collisionless

LEMMA GrindBinds ==
  ASSUME BindInv, NEW v, grind(v)
  PROVE  BindInv'
<1> DEFINE a == absorb(duplex[1], v)
           b == absorb(duplex[2], v)
           m == MultiObserve(multi[1], v)
           n == MultiObserve(multi[2], v)
<1>1. /\ duplex'[1] = squeeze(a).sponge /\ duplex'[2] = squeeze(b).sponge
      /\ multi'[1] = MultiSample(m).multi /\ multi'[2] = MultiSample(n).multi
      /\ forked' = forked
  BY DEF grind, World
<1>2. /\ last'.duplex[1] = squeeze(a).value /\ last'.duplex[2] = squeeze(b).value
      /\ last'.multi[1] = MultiSample(m).value /\ last'.multi[2] = MultiSample(n).value
  BY DEF grind, Gives, World
<1>3. InStep(a, b) /\ MultiInStep(m, n)
  BY AbsorbInStep, MultiObserveInStep DEF BindInv
<1>4. ASSUME Safe, forked
      PROVE  Parted(a, b) /\ MultiParted(m, n)
  BY <1>4, AbsorbParts, MultiObserveInStep DEF BindInv, Safe
<1> HIDE DEF a, b, m, n
<1>5. InStep(duplex'[1], duplex'[2]) /\ MultiInStep(multi'[1], multi'[2])
  BY <1>1, <1>3, SqueezeInStep, MultiSampleInStep
<1>6. ASSUME Safe, forked'
      PROVE  /\ Parted(duplex'[1], duplex'[2]) /\ MultiParted(multi'[1], multi'[2])
             /\ last'.duplex[1] # last'.duplex[2] /\ last'.multi[1] # last'.multi[2]
  BY <1>1, <1>2, <1>3, <1>4, <1>6, SqueezeParts, MultiSampleInStep DEF Safe
<1> QED
  BY <1>5, <1>6 DEF BindInv, Binding, Safe, Collisionless

(* The worlds stay in step, and apart once they forked.                     *)
THEOREM BindingInvariant == Spec => []BindInv
<1>1. BindInv /\ [Next]_vars => BindInv'
  <2> SUFFICES ASSUME BindInv, [Next]_vars PROVE BindInv'
    OBVIOUS
  <2>1. CASE Next
    BY <2>1, ObserveBinds, CommitBinds, SampleBinds, GrindBinds DEF Next
  <2>2. CASE UNCHANGED vars
    BY <2>2 DEF vars, BindInv, Binding, Safe, Collisionless
  <2> QED
    BY <2>1, <2>2
<1> QED
  BY <1>1, InitBind, PTL DEF Spec

(* Whatever was observed, in whichever order and packing, is bound by every *)
(* later challenge, if no cell of the permutation has a collision and the   *)
(* sponge has a capacity.                                                   *)
THEOREM ChallengesBind ==
  ASSUME Collisionless, RATE < WIDTH
  PROVE  Spec => []Binding
<1>1. BindInv => Binding
  BY DEF BindInv, Safe
<1> QED
  BY <1>1, BindingInvariant, PTL


-----------------------------------------------------------------------------
(* Freshness: every state that is permuted keeps the capacity which the     *)
(* permutation before it left, so a sponge never permutes a state twice,    *)
(* and every cell of every permuted state is given out at most once.  That  *)
(* needs a permutation that repeats no cell, and that never gives the empty *)
(* sponge's capacity back.                                                  *)

CellsApart ==
  /\ \A s, t : IsState(s) /\ IsState(t) =>
       \A i, j \in 1 .. WIDTH : i # j => Permute(s, i) # Permute(t, j)
  /\ \A s : IsState(s) => Permute(s, WIDTH) # Zero

Ideal == Collisionless /\ CellsApart /\ RATE < WIDTH

(* The states h[1], ..., h[n] that a sponge has permuted.                   *)
Capacity(h, n) == IF n = 0 THEN Zero ELSE Permute(h[n], WIDTH)

Chain(h, n) == \A k \in 1 .. n : IsState(h[k]) /\ h[k][WIDTH] = Capacity(h, k - 1)

(* x was given out, from a cell that is not to be read again.               *)
GivenOut(d, h, n, x) ==
  \E k \in 1 .. n, i \in 1 .. RATE :
    x = Permute(h[k], i) /\ (k = n /\ d.absorb_idx = 0 => i > d.sample_idx)

TrailOf(d, h, n, given) ==
  /\ Chain(h, n)
  /\ d.state[WIDTH] = Capacity(h, n)
  /\ d.absorb_idx = 0 =>
       \A i \in 1 .. d.sample_idx : n # 0 /\ d.state[i] = Permute(h[n], i)
  /\ \A x \in given : GivenOut(d, h, n, x)

Trail(d, given) == IsSponge(d) /\ \E n \in Nat : \E h : TrailOf(d, h, n, given)

LEMMA ChainDistinct ==
  ASSUME Ideal, NEW n \in Nat, NEW h, Chain(h, n), NEW a \in 1 .. n, NEW b \in 1 .. n,
         h[a] = h[b]
  PROVE  a = b
<1> DEFINE T == {k \in 1 .. n : \E l \in 1 .. n : k < l /\ h[k] = h[l]}
<1> SUFFICES ASSUME T # {} PROVE FALSE
  <2>1. T = {}
    OBVIOUS
  <2> QED
    BY <2>1
<1>1. PICK k \in T : \A l \in T : k <= l
  <2>1. T \subseteq Nat
    OBVIOUS
  <2> QED
    BY <2>1, LeastNatural
<1>2. PICK l \in 1 .. n : k < l /\ h[k] = h[l]
  BY <1>1
<1>3. k \in 1 .. n
  BY <1>1
<1>4. Capacity(h, k - 1) = Capacity(h, l - 1)
  BY <1>2, <1>3 DEF Chain
<1>5. l - 1 \in 1 .. n /\ IsState(h[l - 1]) /\ Capacity(h, l - 1) = Permute(h[l - 1], WIDTH)
  BY <1>2, <1>3 DEF Chain, Capacity
<1>6. CASE k = 1
  <2>1. Capacity(h, k - 1) = Zero
    BY <1>6 DEF Capacity
  <2> QED
    BY <1>4, <1>5, <2>1 DEF Ideal, CellsApart
<1>7. CASE k # 1
  <2>1. k - 1 \in 1 .. n /\ IsState(h[k - 1]) /\ Capacity(h, k - 1) = Permute(h[k - 1], WIDTH)
    BY <1>3, <1>7 DEF Chain, Capacity
  <2>2. WIDTH \in 1 .. WIDTH
    BY SpongeAssumption
  <2>3. h[k - 1] = h[l - 1]
    BY <1>4, <1>5, <2>1, <2>2 DEF Ideal, Collisionless
  <2>4. k - 1 \in T
    BY <1>2, <1>3, <1>5, <2>1, <2>3
  <2> QED
    BY <1>1, <1>3, <2>4
<1> QED
  BY <1>6, <1>7

(* One more permutation, of a state that kept the capacity.                 *)
LEMMA TrailPermuted ==
  ASSUME NEW n \in Nat, NEW h, NEW d, NEW given, Chain(h, n),
         \A x \in given : GivenOut(d, h, n, x),
         NEW s, IsState(s), s[WIDTH] = Capacity(h, n)
  PROVE  \E g : TrailOf(SpongeOf(permute_mut(s), 0, RATE), g, n + 1, given)
<1> DEFINE g == [k \in 1 .. n + 1 |-> IF k = n + 1 THEN s ELSE h[k]]
           e == SpongeOf(permute_mut(s), 0, RATE)
<1>1. g[n + 1] = s /\ \A k \in 1 .. n : g[k] = h[k]
  OBVIOUS
<1> HIDE DEF g
<1>2. Capacity(g, n + 1) = Permute(s, WIDTH) /\ \A k \in 0 .. n : Capacity(g, k) = Capacity(h, k)
  BY <1>1 DEF Capacity
<1>3. Chain(g, n + 1)
  <2> SUFFICES ASSUME NEW k \in 1 .. n + 1
               PROVE  IsState(g[k]) /\ g[k][WIDTH] = Capacity(g, k - 1)
    BY DEF Chain
  <2>1. CASE k = n + 1
    BY <1>1, <1>2, <2>1
  <2>2. CASE k \in 1 .. n
    BY <1>1, <1>2, <2>2 DEF Chain
  <2> QED
    BY <2>1, <2>2
<1>4. /\ e.absorb_idx = 0 /\ e.sample_idx = RATE
      /\ \A i \in 1 .. WIDTH : e.state[i] = Permute(s, i)
  BY DEF SpongeOf, permute_mut
<1> HIDE DEF e
<1>5. \A x \in given : GivenOut(e, g, n + 1, x)
  <2> SUFFICES ASSUME NEW x \in given PROVE GivenOut(e, g, n + 1, x)
    OBVIOUS
  <2>1. PICK k \in 1 .. n, i \in 1 .. RATE : x = Permute(h[k], i)
    BY DEF GivenOut
  <2>2. k \in 1 .. n + 1 /\ k # n + 1 /\ x = Permute(g[k], i)
    BY <1>1, <2>1
  <2> QED
    BY <2>2 DEF GivenOut
<1>6. WIDTH \in 1 .. WIDTH /\ 1 .. RATE \subseteq 1 .. WIDTH
  BY SpongeAssumption
<1>7. TrailOf(e, g, n + 1, given)
  BY <1>1, <1>2, <1>3, <1>4, <1>5, <1>6 DEF TrailOf
<1> QED
  BY <1>7 DEF e

LEMMA TrailAbsorb ==
  ASSUME Ideal, NEW d, NEW given, Trail(d, given), NEW v
  PROVE  Trail(absorb(d, v), given)
<1> DEFINE i == d.absorb_idx + 1
           s == [d.state EXCEPT ![i] = v]
           e == SpongeOf(s, i, d.sample_idx)
<1>1. absorb(d, v) = IF i = RATE THEN SpongeOf(permute_mut(s), 0, RATE) ELSE e
  BY AbsorbIs DEF Trail
<1>2. IsSponge(absorb(d, v))
  BY SpongeAbsorbed DEF Trail
<1>3. PICK n \in Nat : \E h : TrailOf(d, h, n, given)
  BY DEF Trail
<1>4. PICK h : TrailOf(d, h, n, given)
  BY <1>3
<1>5. i \in 1 .. RATE /\ i # WIDTH /\ RATE < WIDTH /\ WIDTH \in 1 .. WIDTH
  BY SpongeAssumption DEF Trail, IsSponge, Ideal
<1>6. IsState(s) /\ s[WIDTH] = d.state[WIDTH]
  BY <1>5 DEF Trail, IsSponge, IsState
<1> HIDE DEF i, s
<1>7. CASE i = RATE
  <2>1. \E g : TrailOf(SpongeOf(permute_mut(s), 0, RATE), g, n + 1, given)
    BY <1>4, <1>6, TrailPermuted DEF TrailOf
  <2> QED
    BY <1>1, <1>2, <1>7, <2>1 DEF Trail
<1>8. CASE i # RATE
  <2>1. e.state = s /\ e.absorb_idx # 0
    BY <1>5 DEF SpongeOf
  <2> HIDE DEF e
  <2>2. \A x \in given : GivenOut(e, h, n, x)
    BY <1>4, <2>1 DEF TrailOf, GivenOut
  <2>3. TrailOf(e, h, n, given)
    BY <1>4, <1>6, <2>1, <2>2 DEF TrailOf
  <2> QED
    BY <1>1, <1>2, <1>8, <2>3 DEF Trail
<1> QED
  BY <1>7, <1>8

(* The next cell of a permuted state.                                       *)
LEMMA TrailNextCell ==
  ASSUME Ideal, NEW n \in Nat, NEW h, NEW d, NEW given, IsSponge(d), TrailOf(d, h, n, given),
         d.absorb_idx = 0, d.sample_idx # 0
  PROVE  /\ d.state[d.sample_idx] \notin given
         /\ TrailOf(SpongeOf(d.state, 0, d.sample_idx - 1), h, n,
                    given \cup {d.state[d.sample_idx]})
<1> DEFINE j == d.sample_idx
           y == d.state[j]
           e == SpongeOf(d.state, 0, j - 1)
<1>1. j \in 1 .. RATE /\ j \in 1 .. WIDTH /\ 1 .. RATE \subseteq 1 .. WIDTH
  BY SpongeAssumption DEF IsSponge
<1>2. n \in 1 .. n /\ y = Permute(h[n], j) /\ Chain(h, n)
  BY <1>1 DEF TrailOf
<1>3. y \notin given
  <2> SUFFICES ASSUME y \in given PROVE FALSE
    OBVIOUS
  <2>1. PICK k \in 1 .. n, i \in 1 .. RATE : y = Permute(h[k], i) /\ (k = n => i > j)
    BY DEF TrailOf, GivenOut
  <2>2. IsState(h[k]) /\ IsState(h[n]) /\ i \in 1 .. WIDTH
    BY <1>1, <1>2 DEF Chain
  <2>3. i = j
    BY <1>1, <1>2, <2>1, <2>2 DEF Ideal, CellsApart
  <2>4. h[k] = h[n]
    BY <1>1, <1>2, <2>1, <2>2, <2>3 DEF Ideal, Collisionless
  <2>5. k = n
    BY <1>2, <2>4, ChainDistinct
  <2> QED
    BY <1>1, <2>1, <2>3, <2>5
<1>4. e.state = d.state /\ e.absorb_idx = 0 /\ e.sample_idx = j - 1
  BY DEF SpongeOf
<1> HIDE DEF e
<1>5. \A x \in given \cup {y} : GivenOut(e, h, n, x)
  <2>1. ASSUME NEW x \in given PROVE GivenOut(e, h, n, x)
    <3>1. PICK k \in 1 .. n, i \in 1 .. RATE : x = Permute(h[k], i) /\ (k = n => i > j)
      BY DEF TrailOf, GivenOut
    <3>2. i > j => i > j - 1
      BY <1>1
    <3> QED
      BY <1>4, <3>1, <3>2 DEF GivenOut
  <2>2. GivenOut(e, h, n, y)
    <3>1. j > j - 1
      BY <1>1
    <3> QED
      BY <1>1, <1>2, <1>4, <3>1 DEF GivenOut
  <2> QED
    BY <2>1, <2>2
<1>6. \A i \in 1 .. j - 1 : i \in 1 .. j
  BY <1>1
<1>7. TrailOf(e, h, n, given \cup {y})
  BY <1>4, <1>5, <1>6 DEF TrailOf
<1> QED
  BY <1>3, <1>7 DEF e

LEMMA TrailSqueeze ==
  ASSUME Ideal, NEW d, NEW given, Trail(d, given)
  PROVE  /\ squeeze(d).value \notin given
         /\ Trail(squeeze(d).sponge, given \cup {squeeze(d).value})
<1> DEFINE p == SpongeOf(permute_mut(d.state), 0, RATE)
<1>1. squeeze(d) =
        IF Stale(d) THEN [sponge |-> SpongeOf(permute_mut(d.state), 0, RATE - 1),
                          value  |-> permute_mut(d.state)[RATE]]
        ELSE [sponge |-> SpongeOf(d.state, 0, d.sample_idx - 1),
              value  |-> d.state[d.sample_idx]]
  BY SqueezeIs DEF Trail
<1>2. IsSponge(d) /\ IsSponge(squeeze(d).sponge)
  BY SpongeSqueezed DEF Trail
<1>3. PICK n \in Nat : \E h : TrailOf(d, h, n, given)
  BY DEF Trail
<1>4. PICK h : TrailOf(d, h, n, given)
  BY <1>3
<1>5. CASE Stale(d)
  <2>1. PICK g : TrailOf(p, g, n + 1, given)
    <3>1. IsState(d.state) /\ d.state[WIDTH] = Capacity(h, n) /\ Chain(h, n)
          /\ \A x \in given : GivenOut(d, h, n, x)
      BY <1>2, <1>4 DEF IsSponge, TrailOf
    <3> QED
      BY <3>1, TrailPermuted
  <2>2. p.state = permute_mut(d.state) /\ p.absorb_idx = 0 /\ p.sample_idx = RATE
    BY DEF SpongeOf
  <2>3. IsSponge(p) /\ RATE # 0
    BY <2>2, PermutedState, SpongeAssumption DEF IsSponge, SpongeOf
  <2> HIDE DEF p
  <2>4. /\ p.state[RATE] \notin given
        /\ TrailOf(SpongeOf(p.state, 0, RATE - 1), g, n + 1, given \cup {p.state[RATE]})
    BY <2>1, <2>2, <2>3, TrailNextCell
  <2>5. squeeze(d).value = p.state[RATE] /\ squeeze(d).sponge = SpongeOf(p.state, 0, RATE - 1)
    BY <1>1, <1>5, <2>2
  <2>6. n + 1 \in Nat
    OBVIOUS
  <2> QED
    BY <1>2, <2>4, <2>5, <2>6 DEF Trail
<1>6. CASE ~Stale(d)
  <2>1. d.absorb_idx = 0 /\ d.sample_idx # 0
    BY <1>6 DEF Stale
  <2>2. /\ d.state[d.sample_idx] \notin given
        /\ TrailOf(SpongeOf(d.state, 0, d.sample_idx - 1), h, n,
                   given \cup {d.state[d.sample_idx]})
    BY <1>2, <1>4, <2>1, TrailNextCell
  <2>3. /\ squeeze(d).value = d.state[d.sample_idx]
        /\ squeeze(d).sponge = SpongeOf(d.state, 0, d.sample_idx - 1)
    BY <1>1, <1>6
  <2> QED
    BY <1>2, <2>2, <2>3 DEF Trail
<1> QED
  BY <1>5, <1>6

LEMMA TrailInTurn ==
  ASSUME Ideal, NEW d, NEW given, Trail(d, given), NEW vals, Len(vals) \in Nat
  PROVE  Trail(InTurn(absorb, d, vals), given)
<1> DEFINE n == Len(vals)
<1>1. PICK run : /\ run[0] = d
                 /\ \A i \in 1 .. n : run[i] = absorb(run[i - 1], vals[i])
                 /\ InTurn(absorb, d, vals) = run[n]
  BY AbsorbInTurn, ZenonT(30)
<1>2. n \in Nat
  OBVIOUS
<1> HIDE DEF n
<1> DEFINE S == {i \in 0 .. n : Trail(run[i], given)}
<1>3. 0 \in S
  BY <1>1, <1>2
<1>4. \A i \in 1 .. n : i - 1 \in S => i \in S
  BY <1>1, <1>2, TrailAbsorb
<1>5. \A i \in 0 .. n : i \in S
  <2> HIDE DEF S
  <2> QED
    BY <1>2, <1>3, <1>4, UpTo
<1> QED
  BY <1>1, <1>2, <1>5

(* A digit is named by its place and the squeezed element; the digits still *)
(* in the buffer are the last ones of one element.                          *)
DigitsOf(buf, v) ==
  /\ Len(buf) <= NumSamples
  /\ \A j \in 1 .. Len(buf) : buf[j] = <<"digit", (NumSamples - Len(buf)) + j, v>>

MultiTrailOf(m, given, digits, v0) ==
  /\ Trail(m.sponge, given)
  /\ DigitsOf(m.sample_buf, v0)
  /\ m.sample_buf # <<>> => v0 \in given
  /\ \A x \in digits : \E v \in given, i \in 1 .. NumSamples :
       x = <<"digit", i, v>> /\ (v = v0 => i <= NumSamples - Len(m.sample_buf))

MultiTrail(m, digits) ==
  IsMulti(m) /\ \E given, v0 : MultiTrailOf(m, given, digits, v0)

(* What drops the buffered digits and moves the sponge without a squeeze.   *)
LEMMA MultiTrailMoved ==
  ASSUME NEW m, NEW given, NEW digits, NEW v0, IsMulti(m), MultiTrailOf(m, given, digits, v0),
         NEW sp, Trail(sp, given), NEW obs
  PROVE  MultiTrailOf(MultiOf(sp, obs, <<>>), given, digits, v0)
<1> DEFINE n == MultiOf(sp, obs, <<>>)
<1>1. n.sponge = sp /\ n.sample_buf = <<>>
  BY DEF MultiOf
<1> HIDE DEF n
<1>2. Len(n.sample_buf) = 0
  BY <1>1, ListedEmpty
<1>3. DigitsOf(n.sample_buf, v0)
  BY <1>2, MultiFieldAssumption DEF DigitsOf
<1>4. \A x \in digits : \E v \in given, i \in 1 .. NumSamples :
        x = <<"digit", i, v>> /\ (v = v0 => i <= NumSamples - Len(n.sample_buf))
  <2> SUFFICES ASSUME NEW x \in digits
               PROVE  \E v \in given, i \in 1 .. NumSamples :
                        x = <<"digit", i, v>> /\ (v = v0 => i <= NumSamples - Len(n.sample_buf))
    OBVIOUS
  <2>1. PICK v \in given, i \in 1 .. NumSamples : x = <<"digit", i, v>>
    BY DEF MultiTrailOf
  <2>2. i <= NumSamples - Len(n.sample_buf)
    BY <1>2, MultiFieldAssumption
  <2> QED
    BY <2>1, <2>2
<1>5. MultiTrailOf(n, given, digits, v0)
  BY <1>1, <1>3, <1>4 DEF MultiTrailOf
<1> QED
  BY <1>5 DEF n

LEMMA TrailFlushed ==
  ASSUME Ideal, NEW sp, NEW given, Trail(sp, given), NEW obs
  PROVE  Trail(Flushed(sp, obs), given)
  BY TrailAbsorb DEF Flushed

LEMMA MultiTrailObserve ==
  ASSUME Ideal, NEW m, NEW digits, MultiTrail(m, digits), NEW v
  PROVE  MultiTrail(MultiObserve(m, v), digits)
<1> DEFINE buf == Append(m.observe_buf, v)
           sp == absorb(m.sponge, pack_f_to_sf(buf))
<1>1. MultiObserve(m, v) = IF Len(buf) = NumObs THEN MultiOf(sp, <<>>, <<>>)
                           ELSE MultiOf(m.sponge, buf, <<>>)
  BY MultiObserveIs DEF MultiTrail
<1>2. IsMulti(m) /\ IsMulti(MultiObserve(m, v))
  BY MultiObserved DEF MultiTrail
<1>3. PICK given, v0 : MultiTrailOf(m, given, digits, v0)
  BY DEF MultiTrail
<1>4. Trail(m.sponge, given) /\ Trail(sp, given)
  BY <1>3, TrailAbsorb DEF MultiTrailOf
<1> HIDE DEF buf, sp
<1>5. /\ MultiTrailOf(MultiOf(sp, <<>>, <<>>), given, digits, v0)
      /\ MultiTrailOf(MultiOf(m.sponge, buf, <<>>), given, digits, v0)
  BY <1>2, <1>3, <1>4, MultiTrailMoved
<1> QED
  BY <1>1, <1>2, <1>5 DEF MultiTrail

LEMMA MultiTrailSlice ==
  ASSUME Ideal, NEW m, NEW digits, MultiTrail(m, digits), NEW elems, Len(elems) \in Nat
  PROVE  MultiTrail(absorb_slice(m, elems), digits)
<1> DEFINE sp == InTurn(absorb, Flushed(m.sponge, m.observe_buf), elems)
<1>1. IsMulti(m) /\ IsMulti(absorb_slice(m, elems))
  BY SliceAbsorbed DEF MultiTrail
<1>2. absorb_slice(m, elems) = MultiOf(sp, <<>>, <<>>)
  BY <1>1, AbsorbSliceIs
<1>3. PICK given, v0 : MultiTrailOf(m, given, digits, v0)
  BY DEF MultiTrail
<1>4. Trail(sp, given)
  BY <1>3, TrailFlushed, TrailInTurn DEF MultiTrailOf
<1> HIDE DEF sp
<1>5. MultiTrailOf(MultiOf(sp, <<>>, <<>>), given, digits, v0)
  BY <1>1, <1>3, <1>4, MultiTrailMoved
<1> QED
  BY <1>1, <1>2, <1>5 DEF MultiTrail

(* The next digit in the buffer.                                            *)
LEMMA MultiTrailNextDigit ==
  ASSUME NEW m, NEW digits, NEW given, NEW v0, IsMulti(m), MultiTrailOf(m, given, digits, v0),
         m.sample_buf # <<>>
  PROVE  /\ Head(m.sample_buf) \notin digits
         /\ MultiTrailOf(MultiOf(m.sponge, m.observe_buf, Tail(m.sample_buf)), given,
                         digits \cup {Head(m.sample_buf)}, v0)
<1> DEFINE buf == m.sample_buf
           left == Tail(buf)
           x0 == Head(buf)
           n == MultiOf(m.sponge, m.observe_buf, left)
           l == Len(buf)
           i0 == (NumSamples - l) + 1
<1>1. /\ l \in Nat \ {0} /\ l <= NumSamples /\ x0 = buf[1]
      /\ Len(left) = l - 1 /\ \A j \in 1 .. l - 1 : left[j] = buf[j + 1]
      /\ \A j \in 1 .. l : buf[j] = <<"digit", (NumSamples - l) + j, v0>>
  BY ListedTail, ListedLen DEF IsMulti, MultiTrailOf, DigitsOf
<1>2. n.sponge = m.sponge /\ n.sample_buf = left
  BY DEF MultiOf
<1> HIDE DEF n, left, l, x0, i0
<1>3. i0 \in 1 .. NumSamples /\ i0 > NumSamples - l /\ i0 <= NumSamples - (l - 1)
      /\ x0 = <<"digit", i0, v0>> /\ v0 \in given
  BY <1>1, MultiFieldAssumption DEF i0, MultiTrailOf
<1>4. \A x \in digits : \E v \in given, i \in 1 .. NumSamples :
        x = <<"digit", i, v>> /\ (v = v0 => i <= NumSamples - l)
  BY DEF MultiTrailOf, l
<1>5. x0 \notin digits
  <2> SUFFICES ASSUME x0 \in digits PROVE FALSE
    OBVIOUS
  <2>1. PICK v \in given, i \in 1 .. NumSamples :
          x0 = <<"digit", i, v>> /\ (v = v0 => i <= NumSamples - l)
    BY <1>4
  <2>2. v = v0 /\ i = i0
    BY <1>3, <2>1
  <2> QED
    BY <1>1, <1>3, <2>1, <2>2, MultiFieldAssumption
<1>6. DigitsOf(n.sample_buf, v0)
  <2>1. \A j \in 1 .. l - 1 : left[j] = <<"digit", (NumSamples - (l - 1)) + j, v0>>
    <3> SUFFICES ASSUME NEW j \in 1 .. l - 1
                 PROVE  left[j] = <<"digit", (NumSamples - (l - 1)) + j, v0>>
      OBVIOUS
    <3>1. j + 1 \in 1 .. l /\ (NumSamples - l) + (j + 1) = (NumSamples - (l - 1)) + j
      BY <1>1, MultiFieldAssumption
    <3>2. left[j] = <<"digit", (NumSamples - l) + (j + 1), v0>>
      BY <1>1, <3>1
    <3> QED
      BY <3>1, <3>2
  <2>2. \A j \in 1 .. Len(left) : left[j] = <<"digit", (NumSamples - Len(left)) + j, v0>>
    BY <1>1, <2>1
  <2>3. Len(left) <= NumSamples
    BY <1>1, MultiFieldAssumption
  <2> QED
    BY <1>2, <2>2, <2>3 DEF DigitsOf
<1>7. \A x \in digits \cup {x0} : \E v \in given, i \in 1 .. NumSamples :
        x = <<"digit", i, v>> /\ (v = v0 => i <= NumSamples - (l - 1))
  <2>1. ASSUME NEW x \in digits
        PROVE  \E v \in given, i \in 1 .. NumSamples :
                 x = <<"digit", i, v>> /\ (v = v0 => i <= NumSamples - (l - 1))
    <3>1. PICK v \in given, i \in 1 .. NumSamples :
            x = <<"digit", i, v>> /\ (v = v0 => i <= NumSamples - l)
      BY <1>4
    <3>2. v = v0 => i <= NumSamples - (l - 1)
      BY <1>1, <3>1, MultiFieldAssumption
    <3> QED
      BY <3>1, <3>2
  <2> QED
    BY <1>3, <2>1
<1>8. MultiTrailOf(n, given, digits \cup {x0}, v0)
  BY <1>1, <1>2, <1>3, <1>6, <1>7 DEF MultiTrailOf
<1> QED
  BY <1>5, <1>8 DEF n, x0, left

(* The first digit of a new element.                                        *)
LEMMA MultiTrailNewDigits ==
  ASSUME NEW m, NEW digits, NEW given, NEW v0, MultiTrailOf(m, given, digits, v0),
         NEW sp, NEW y, y \notin given, Trail(sp, given \cup {y})
  PROVE  /\ Head(extract_samples(y)) \notin digits
         /\ MultiTrailOf(MultiOf(sp, <<>>, Tail(extract_samples(y))), given \cup {y},
                         digits \cup {Head(extract_samples(y))}, y)
<1> DEFINE all == extract_samples(y)
           rest == Tail(all)
           x0 == Head(all)
           n == MultiOf(sp, <<>>, rest)
<1>1. /\ Listed(all) /\ Len(all) = NumSamples
      /\ \A i \in 1 .. NumSamples : all[i] = <<"digit", i, y>>
  BY Digits
<1>2. NumSamples \in Nat \ {0}
  BY MultiFieldAssumption
<1>3. n.sponge = sp /\ n.sample_buf = rest
  BY DEF MultiOf
<1> HIDE DEF n, all
<1>4. all # <<>>
  BY <1>1, <1>2, ListedEmpty
<1>5. /\ x0 = all[1] /\ Len(rest) = NumSamples - 1
      /\ \A i \in 1 .. NumSamples - 1 : rest[i] = all[i + 1]
  BY <1>1, <1>4, ListedTail
<1> HIDE DEF rest, x0
<1>6. x0 = <<"digit", 1, y>>
  BY <1>1, <1>2, <1>5
<1>7. x0 \notin digits
  <2> SUFFICES ASSUME x0 \in digits PROVE FALSE
    OBVIOUS
  <2>1. PICK v \in given, i \in 1 .. NumSamples : x0 = <<"digit", i, v>>
    BY DEF MultiTrailOf
  <2> QED
    BY <1>6, <2>1
<1>8. DigitsOf(n.sample_buf, y)
  <2>1. \A j \in 1 .. NumSamples - 1 :
          rest[j] = <<"digit", (NumSamples - (NumSamples - 1)) + j, y>>
    <3> SUFFICES ASSUME NEW j \in 1 .. NumSamples - 1
                 PROVE  rest[j] = <<"digit", (NumSamples - (NumSamples - 1)) + j, y>>
      OBVIOUS
    <3>1. j + 1 \in 1 .. NumSamples /\ (NumSamples - (NumSamples - 1)) + j = j + 1
      BY <1>2
    <3>2. rest[j] = <<"digit", j + 1, y>>
      BY <1>1, <1>5, <3>1
    <3> QED
      BY <3>1, <3>2
  <2> QED
    BY <1>2, <1>3, <1>5, <2>1 DEF DigitsOf
<1>9. \A x \in digits \cup {x0} : \E v \in given \cup {y}, i \in 1 .. NumSamples :
        x = <<"digit", i, v>> /\ (v = y => i <= NumSamples - (NumSamples - 1))
  <2>1. ASSUME NEW x \in digits
        PROVE  \E v \in given \cup {y}, i \in 1 .. NumSamples :
                 x = <<"digit", i, v>> /\ (v = y => i <= NumSamples - (NumSamples - 1))
    <3>1. PICK v \in given, i \in 1 .. NumSamples : x = <<"digit", i, v>>
      BY DEF MultiTrailOf
    <3> QED
      BY <3>1
  <2>2. 1 \in 1 .. NumSamples /\ 1 <= NumSamples - (NumSamples - 1)
    BY <1>2
  <2> QED
    BY <1>6, <2>1, <2>2
<1>10. MultiTrailOf(n, given \cup {y}, digits \cup {x0}, y)
  BY <1>3, <1>5, <1>8, <1>9 DEF MultiTrailOf
<1> QED
  BY <1>7, <1>10 DEF n, x0, rest, all

LEMMA MultiTrailSample ==
  ASSUME Ideal, NEW m, NEW digits, MultiTrail(m, digits)
  PROVE  /\ MultiSample(m).value \notin digits
         /\ MultiTrail(MultiSample(m).multi, digits \cup {MultiSample(m).value})
<1> DEFINE out == squeeze(Flushed(m.sponge, m.observe_buf))
           all == extract_samples(out.value)
<1>1. MultiSample(m) =
        IF m.sample_buf # <<>>
        THEN [multi |-> MultiOf(m.sponge, m.observe_buf, Tail(m.sample_buf)),
              value |-> Head(m.sample_buf)]
        ELSE [multi |-> MultiOf(out.sponge, <<>>, Tail(all)), value |-> Head(all)]
  BY MultiSampleIs DEF MultiTrail
<1>2. IsMulti(m) /\ IsMulti(MultiSample(m).multi)
  BY MultiSampled DEF MultiTrail
<1>3. PICK given, v0 : MultiTrailOf(m, given, digits, v0)
  BY DEF MultiTrail
<1>4. CASE m.sample_buf # <<>>
  <2>1. /\ Head(m.sample_buf) \notin digits
        /\ MultiTrailOf(MultiOf(m.sponge, m.observe_buf, Tail(m.sample_buf)), given,
                        digits \cup {Head(m.sample_buf)}, v0)
    BY <1>2, <1>3, <1>4, MultiTrailNextDigit
  <2>2. /\ MultiSample(m).value = Head(m.sample_buf)
        /\ MultiSample(m).multi = MultiOf(m.sponge, m.observe_buf, Tail(m.sample_buf))
    BY <1>1, <1>4
  <2> QED
    BY <1>2, <2>1, <2>2 DEF MultiTrail
<1>5. CASE m.sample_buf = <<>>
  <2>1. Trail(Flushed(m.sponge, m.observe_buf), given)
    BY <1>3, TrailFlushed DEF MultiTrailOf
  <2>2. out.value \notin given /\ Trail(out.sponge, given \cup {out.value})
    BY <2>1, TrailSqueeze
  <2>3. /\ Head(all) \notin digits
        /\ MultiTrailOf(MultiOf(out.sponge, <<>>, Tail(all)), given \cup {out.value},
                        digits \cup {Head(all)}, out.value)
    BY <1>3, <2>2, MultiTrailNewDigits
  <2>4. /\ MultiSample(m).value = Head(all)
        /\ MultiSample(m).multi = MultiOf(out.sponge, <<>>, Tail(all))
    BY <1>1, <1>5
  <2> QED
    BY <1>2, <2>3, <2>4 DEF MultiTrail
<1> QED
  BY <1>4, <1>5

-----------------------------------------------------------------------------
(* The sponge of world 1 and what was drawn from it.                        *)

FreshInv ==
  Trail(duplex[1], drawn.duplex) /\ MultiTrail(multi[1], drawn.multi)

NewChallenge ==
  last'.op \in {"sample", "grind"} =>
    last'.duplex[1] \notin drawn.duplex /\ last'.multi[1] \notin drawn.multi

LEMMA InitFresh == Init => FreshInv
<1> SUFFICES ASSUME Init PROVE FreshInv
  OBVIOUS
<1>1. duplex[1] = EmptySponge /\ multi[1] = EmptyMulti
      /\ drawn.duplex = {} /\ drawn.multi = {}
  BY DEF Init, World
<1>2. IsSponge(EmptySponge)
  BY TwinsEmpty DEF Twins
<1>3. IsMulti(EmptyMulti)
  BY <1>2, ListedEmpty, MultiFieldAssumption DEF IsMulti, EmptyMulti, MultiOf
<1>4. WIDTH \in 1 .. WIDTH
  BY SpongeAssumption
<1>5. TrailOf(EmptySponge, <<>>, 0, {})
  BY <1>4 DEF TrailOf, EmptySponge, Chain, Capacity
<1>6. Trail(EmptySponge, {})
  BY <1>2, <1>5 DEF Trail
<1>7. EmptyMulti.sponge = EmptySponge /\ EmptyMulti.sample_buf = <<>>
  BY DEF EmptyMulti
<1>8. DigitsOf(<<>>, Zero)
  BY ListedEmpty, MultiFieldAssumption DEF DigitsOf
<1>9. MultiTrailOf(EmptyMulti, {}, {}, Zero)
  BY <1>6, <1>7, <1>8 DEF MultiTrailOf
<1> QED
  BY <1>1, <1>3, <1>6, <1>9 DEF FreshInv, MultiTrail

LEMMA ObserveFresh ==
  ASSUME Ideal, FreshInv, NEW vals, observe(vals)
  PROVE  FreshInv' /\ NewChallenge
<1>1. duplex'[1] = absorb(duplex[1], vals[1]) /\ multi'[1] = MultiObserve(multi[1], vals[1])
      /\ drawn' = drawn /\ last'.op = "observe"
  BY DEF observe, Gives, World
<1>2. Trail(duplex'[1], drawn.duplex) /\ MultiTrail(multi'[1], drawn.multi)
  BY <1>1, TrailAbsorb, MultiTrailObserve DEF FreshInv
<1> QED
  BY <1>1, <1>2 DEF FreshInv, NewChallenge

LEMMA CommitFresh ==
  ASSUME Ideal, FreshInv, NEW digests, observe_commit(digests)
  PROVE  FreshInv' /\ NewChallenge
<1> DEFINE us == limbs(digests[1])
<1>1. /\ duplex'[1] = InTurn(absorb, duplex[1], us)
      /\ multi'[1] = absorb_slice(multi[1], <<digests[1]>>)
      /\ drawn' = drawn /\ last'.op = "observe"
  BY DEF observe_commit, Gives, World
<1>2. Len(us) \in Nat
  <2>1. us = [i \in 1 .. RATE |-> us[i]]
    BY DEF limbs
  <2> HIDE DEF us
  <2> QED
    BY <2>1, ListedFunction, SpongeAssumption
<1>3. Len(<<digests[1]>>) \in Nat
  OBVIOUS
<1> HIDE DEF us
<1>4. Trail(duplex'[1], drawn.duplex)
  BY <1>1, <1>2, TrailInTurn DEF FreshInv
<1>5. MultiTrail(multi'[1], drawn.multi)
  BY <1>1, <1>3, MultiTrailSlice DEF FreshInv
<1> QED
  BY <1>1, <1>4, <1>5 DEF FreshInv, NewChallenge

LEMMA SampleFresh ==
  ASSUME Ideal, FreshInv, sample
  PROVE  FreshInv' /\ NewChallenge
<1> DEFINE d == squeeze(duplex[1])
           m == MultiSample(multi[1])
<1>1. /\ duplex'[1] = d.sponge /\ multi'[1] = m.multi
      /\ drawn'.duplex = drawn.duplex \cup {d.value}
      /\ drawn'.multi = drawn.multi \cup {m.value}
      /\ last'.duplex[1] = d.value /\ last'.multi[1] = m.value
  BY DEF sample, Gives, World
<1>2. d.value \notin drawn.duplex /\ Trail(d.sponge, drawn.duplex \cup {d.value})
  BY TrailSqueeze DEF FreshInv
<1>3. m.value \notin drawn.multi /\ MultiTrail(m.multi, drawn.multi \cup {m.value})
  BY MultiTrailSample DEF FreshInv
<1> HIDE DEF d, m
<1> QED
  BY <1>1, <1>2, <1>3 DEF FreshInv, NewChallenge

LEMMA GrindFresh ==
  ASSUME Ideal, FreshInv, NEW witness, grind(witness)
  PROVE  FreshInv' /\ NewChallenge
<1> DEFINE a == absorb(duplex[1], witness)
           o == MultiObserve(multi[1], witness)
           d == squeeze(a)
           m == MultiSample(o)
<1>1. /\ duplex'[1] = d.sponge /\ multi'[1] = m.multi
      /\ drawn'.duplex = drawn.duplex \cup {d.value}
      /\ drawn'.multi = drawn.multi \cup {m.value}
      /\ last'.duplex[1] = d.value /\ last'.multi[1] = m.value
  BY DEF grind, Gives, World
<1>2. Trail(a, drawn.duplex) /\ MultiTrail(o, drawn.multi)
  BY TrailAbsorb, MultiTrailObserve DEF FreshInv
<1> HIDE DEF a, o
<1>3. d.value \notin drawn.duplex /\ Trail(d.sponge, drawn.duplex \cup {d.value})
  BY <1>2, TrailSqueeze
<1>4. m.value \notin drawn.multi /\ MultiTrail(m.multi, drawn.multi \cup {m.value})
  BY <1>2, MultiTrailSample
<1> HIDE DEF d, m
<1> QED
  BY <1>1, <1>3, <1>4 DEF FreshInv, NewChallenge

(* No challenge is given out twice, however observations, samples and       *)
(* grinds follow each other and wherever permutations fall between them.    *)
THEOREM ChallengesFresh ==
  ASSUME Collisionless, CellsApart, RATE < WIDTH
  PROVE  Spec => Fresh
<1>1. Ideal
  BY DEF Ideal
<1>2. FreshInv /\ [Next]_vars => FreshInv' /\ [NewChallenge]_vars
  <2> SUFFICES ASSUME FreshInv, [Next]_vars
               PROVE  FreshInv' /\ [NewChallenge]_vars
    OBVIOUS
  <2>1. CASE Next
    <3>1. FreshInv' /\ NewChallenge
      BY <1>1, <2>1, ObserveFresh, CommitFresh, SampleFresh, GrindFresh DEF Next
    <3> QED
      BY <3>1
  <2>2. CASE UNCHANGED vars
    BY <2>2 DEF vars, FreshInv
  <2> QED
    BY <2>1, <2>2
<1>3. [NewChallenge]_vars =>
        [ last'.op \in {"sample", "grind"} =>
            /\ last'.duplex[1] \notin drawn.duplex
            /\ last'.multi[1] \notin drawn.multi ]_vars
  BY DEF NewChallenge
<1> QED
  BY <1>2, <1>3, InitFresh, PTL DEF Spec, Fresh

=============================================================================
