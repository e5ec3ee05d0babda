-------------------------- MODULE FractionalGkrProofs --------------------------
(***************************************************************************)
(* No launch of the GKR prover races or leaves its buffers.                *)
(*                                                                         *)
(* The argument goes from the numbers up.  Bit reversal permutes the nodes *)
(* of a level, so two nodes never share a slot, spilled or not (HomeApart).*)
(* Each kernel gives its threads disjoint sets of nodes, hence of slots;   *)
(* that is one lemma for each kernel, of every size and any padding, ending*)
(* in Sound(launch, slots).  The invariant IInv says which level of the    *)
(* tree each phase finds, in which buffer and how large that buffer is, so *)
(* that every launch meets the hypotheses of its lemma.                    *)
(***************************************************************************)
EXTENDS FractionalGkr, TLAPS, WellFoundedInduction

LEMMA LeastNatural ==
  ASSUME NEW T, T \subseteq Nat, T # {}
  PROVE  \E x \in T : \A y \in T : x <= y
<1>1. IsWellFoundedOn(OpToRel(<, Nat), Nat)
  BY NatLessThanWellFounded
<1>2. PICK x \in T : \A y \in T : ~(<<y, x>> \in OpToRel(<, Nat))
  BY <1>1, WFMin, Zenon
<1>3. \A y \in T : ~(y < x)
  BY <1>2 DEF OpToRel
<1> QED
  BY <1>3

(* What holds at 0 and goes from each number below n to the next holds at n. *)
LEMMA UpTo ==
  ASSUME NEW n \in Nat, NEW S, 0 \in S, \A i \in 1 .. n : i - 1 \in S => i \in S
  PROVE  \A i \in 0 .. n : i \in S
<1> DEFINE T == {i \in 0 .. n : i \notin S}
<1> SUFFICES ASSUME T # {} PROVE FALSE
  OBVIOUS
<1>1. PICK x \in T : \A y \in T : x <= y
  <2>1. T \subseteq Nat
    OBVIOUS
  <2> QED
    BY <2>1, LeastNatural
<1>2. x \in 1 .. n /\ x - 1 \in 0 .. n
  BY <1>1
<1>3. x - 1 \in S
  BY <1>1, <1>2
<1> QED
  BY <1>1, <1>2, <1>3

-----------------------------------------------------------------------------
(* Powers of two within 32 bits.                                            *)

LEMMA PowerTable ==
  /\ Pow2(0) = 1 /\ Pow2(1) = 2 /\ Pow2(2) = 4 /\ Pow2(3) = 8
  /\ Pow2(4) = 16 /\ Pow2(5) = 32 /\ Pow2(6) = 64 /\ Pow2(7) = 128
  /\ Pow2(8) = 256 /\ Pow2(9) = 512 /\ Pow2(10) = 1024 /\ Pow2(11) = 2048
  /\ Pow2(12) = 4096 /\ Pow2(13) = 8192 /\ Pow2(14) = 16384 /\ Pow2(15) = 32768
  /\ Pow2(16) = 65536 /\ Pow2(17) = 131072 /\ Pow2(18) = 262144 /\ Pow2(19) = 524288
  /\ Pow2(20) = 1048576 /\ Pow2(21) = 2097152 /\ Pow2(22) = 4194304 /\ Pow2(23) = 8388608
  /\ Pow2(24) = 16777216 /\ Pow2(25) = 33554432 /\ Pow2(26) = 67108864 /\ Pow2(27) = 134217728
  /\ Pow2(28) = 268435456 /\ Pow2(29) = 536870912 /\ Pow2(30) = 1073741824 /\ Pow2(31) = 2 * Pow2(30)
  BY DEF Pow2

LEMMA Doubles ==
  /\ Pow2(0) = 1
  /\ \A k \in 0 .. 30 : Pow2(k + 1) = 2 * Pow2(k)
  BY PowerTable

LEMMA Power ==
  ASSUME NEW k \in 0 .. 31
  PROVE  Pow2(k) \in Nat \ {0}
<1> DEFINE S == {i \in 0 .. 31 : Pow2(i) \in Nat \ {0}}
<1>1. 0 \in S
  BY Doubles
<1>2. ASSUME NEW i \in 1 .. 31, i - 1 \in S
      PROVE  i \in S
  <2>1. i - 1 \in 0 .. 30 /\ (i - 1) + 1 = i
    OBVIOUS
  <2>2. Pow2(i) = 2 * Pow2(i - 1)
    BY <2>1, Doubles
  <2>3. Pow2(i - 1) \in Nat \ {0}
    BY <1>2
  <2> QED
    BY <2>2, <2>3
<1> HIDE DEF S
<1>3. k \in S
  BY <1>1, <1>2, UpTo
<1> QED
  BY <1>3 DEF S

LEMMA Double ==
  ASSUME NEW k \in 0 .. 30
  PROVE  Pow2(k + 1) = 2 * Pow2(k)
  BY Doubles

LEMMA PowerSum ==
  ASSUME NEW a \in 0 .. 31, NEW b \in 0 .. 31, a + b <= 31
  PROVE  Pow2(a + b) = Pow2(a) * Pow2(b)
<1> DEFINE S == {i \in 0 .. b : Pow2(a + i) = Pow2(a) * Pow2(i)}
<1>1. 0 \in S
  <2>1. a + 0 = a /\ Pow2(a) \in Nat /\ Pow2(0) = 1
    BY Doubles, Power
  <2> QED
    BY <2>1
<1>2. ASSUME NEW i \in 1 .. b, i - 1 \in S
      PROVE  i \in S
  <2> DEFINE x == Pow2(a)  y == Pow2(i - 1)
  <2>1. Pow2(i) = 2 * y
    <3>1. i - 1 \in 0 .. 30 /\ (i - 1) + 1 = i
      OBVIOUS
    <3> QED
      BY <3>1, Doubles
  <2>2. Pow2(a + i) = 2 * Pow2(a + (i - 1))
    <3>1. a + (i - 1) \in 0 .. 30 /\ (a + (i - 1)) + 1 = a + i
      OBVIOUS
    <3> QED
      BY <3>1, Doubles
  <2>3. Pow2(a + (i - 1)) = x * y
    BY <1>2
  <2>4. x \in Nat /\ y \in Nat
    BY Power
  <2>5. 2 * (x * y) = x * (2 * y)
    <3> HIDE DEF x, y
    <3> QED
      BY <2>4
  <2>6. Pow2(a + i) = x * Pow2(i)
    BY <2>1, <2>2, <2>3, <2>5
  <2> QED
    BY <2>6
<1> HIDE DEF S
<1>3. b \in S
  BY <1>1, <1>2, UpTo
<1> QED
  BY <1>3 DEF S

LEMMA Scale ==
  ASSUME NEW a \in Int, NEW b \in Int, NEW m \in Nat, a <= b
  PROVE  a * m <= b * m
  OBVIOUS

LEMMA PowerGrows ==
  ASSUME NEW a \in 0 .. 31, NEW b \in 0 .. 31, a <= b
  PROVE  Pow2(a) <= Pow2(b) /\ (a < b => 2 * Pow2(a) <= Pow2(b))
<1>1. CASE a = b
  BY <1>1, Power
<1>2. CASE a < b
  <2> DEFINE c == (b - a) - 1
  <2>1. c \in 0 .. 30 /\ a + (c + 1) = b /\ c + 1 \in 0 .. 31
    BY <1>2
  <2>2. Pow2(b) = Pow2(a) * Pow2(c + 1)
    BY <2>1, PowerSum
  <2>3. Pow2(c + 1) = 2 * Pow2(c)
    BY <2>1, Double
  <2>4. Pow2(a) \in Nat /\ Pow2(c) \in Nat \ {0}
    BY <2>1, Power
  <2>5. Pow2(b) = (2 * Pow2(c)) * Pow2(a)
    BY <2>2, <2>3, <2>4
  <2>6. 2 * Pow2(a) <= (2 * Pow2(c)) * Pow2(a)
    BY <2>4, Scale
  <2> QED
    BY <2>4, <2>5, <2>6
<1> QED
  BY <1>1, <1>2

LEMMA Log2Power ==
  ASSUME NEW k \in 0 .. 31
  PROVE  Log2(Pow2(k)) = k
<1>1. \A j \in 0 .. 31 : Pow2(j) = Pow2(k) => j = k
  <2> SUFFICES ASSUME NEW j \in 0 .. 31, Pow2(j) = Pow2(k)
               PROVE  j = k
    OBVIOUS
  <2>1. Pow2(j) \in Nat \ {0} /\ Pow2(k) \in Nat \ {0}
    BY Power
  <2>2. ~ (j < k)
    BY <2>1, PowerGrows
  <2>3. ~ (k < j)
    BY <2>1, PowerGrows
  <2> QED
    BY <2>2, <2>3
<1> QED
  BY <1>1 DEF Log2

(* Division.                                                                *)
LEMMA Euclid ==
  ASSUME NEW a \in Nat, NEW d \in Nat \ {0}
  PROVE  /\ a \div d \in Nat
         /\ a % d \in 0 .. d - 1
         /\ a = ((a \div d) * d) + (a % d)
  OBVIOUS

(* Digits are unique.                                                       *)
LEMMA SplitUnique ==
  ASSUME NEW m \in Nat \ {0}, NEW a \in Nat, NEW b \in Nat,
         NEW x \in 0 .. m - 1, NEW y \in 0 .. m - 1, (a * m) + x = (b * m) + y
  PROVE  a = b /\ x = y
<1>1. ~ (a < b)
  <2> SUFFICES ASSUME a + 1 <= b
               PROVE  FALSE
    OBVIOUS
  <2>1. (a + 1) * m <= b * m
    BY Scale
  <2>2. (a + 1) * m = (a * m) + m
    OBVIOUS
  <2> QED
    BY <2>1, <2>2
<1>2. ~ (b < a)
  <2> SUFFICES ASSUME b + 1 <= a
               PROVE  FALSE
    OBVIOUS
  <2>1. (b + 1) * m <= a * m
    BY Scale
  <2>2. (b + 1) * m = (b * m) + m
    OBVIOUS
  <2> QED
    BY <2>1, <2>2
<1>3. a = b
  BY <1>1, <1>2
<1> QED
  BY <1>3

LEMMA Digits ==
  ASSUME NEW m \in Nat \ {0}, NEW a \in Nat, NEW x \in 0 .. m - 1
  PROVE  /\ ((a * m) + x) \div m = a
         /\ ((a * m) + x) % m = x
<1> DEFINE n == (a * m) + x
<1>1. n \in Nat
  OBVIOUS
<1> HIDE DEF n
<1>2. n \div m \in Nat /\ n % m \in 0 .. m - 1 /\ n = ((n \div m) * m) + (n % m)
  BY <1>1, Euclid
<1>3. (a * m) + x = ((n \div m) * m) + (n % m)
  BY <1>2 DEF n
<1>4. a = n \div m /\ x = n % m
  BY <1>2, <1>3, SplitUnique
<1> QED
  BY <1>4 DEF n

LEMMA SplitBelow ==
  ASSUME NEW m \in Nat \ {0}, NEW n \in Nat, NEW a \in 0 .. n - 1, NEW x \in 0 .. m - 1
  PROVE  (a * m) + x \in 0 .. (n * m) - 1
<1>1. (a + 1) * m <= n * m
  BY Scale
<1>2. (a + 1) * m = (a * m) + m /\ 0 * m <= a * m
  BY Scale
<1>3. a * m \in Nat /\ n * m \in Nat
  OBVIOUS
<1> QED
  BY <1>1, <1>2, <1>3

(* Conversely the quotient is below.                                        *)
LEMMA QuotientBelow ==
  ASSUME NEW m \in Nat \ {0}, NEW n \in Nat, NEW a \in 0 .. (n * m) - 1
  PROVE  a \div m \in 0 .. n - 1
<1>1. a \in Nat /\ n * m \in Nat
  OBVIOUS
<1>2. a \div m \in Nat /\ a % m \in 0 .. m - 1 /\ a = ((a \div m) * m) + (a % m)
  BY <1>1, Euclid
<1>3. ~ (n <= a \div m)
  <2> SUFFICES ASSUME n <= a \div m PROVE FALSE
    OBVIOUS
  <2>1. n * m <= (a \div m) * m
    BY <1>2, Scale
  <2> QED
    BY <1>1, <1>2, <2>1
<1> QED
  BY <1>2, <1>3

LEMMA PowerQuotient ==
  ASSUME NEW a \in 0 .. 31, NEW b \in 0 .. 31, a <= b
  PROVE  Pow2(b) \div Pow2(a) = Pow2(b - a)
<1>1. Pow2(b) = Pow2(b - a) * Pow2(a)
  <2>1. b - a \in 0 .. 31 /\ (b - a) + a = b
    OBVIOUS
  <2> QED
    BY <2>1, PowerSum
<1>2. Pow2(b - a) \in Nat /\ Pow2(a) \in Nat \ {0}
  BY Power
<1>3. ((Pow2(b - a) * Pow2(a)) + 0) \div Pow2(a) = Pow2(b - a)
  BY <1>2, Digits
<1> QED
  BY <1>1, <1>2, <1>3

-----------------------------------------------------------------------------
(* Bit reversal.                                                            *)

Bit(d, k) == (d \div Pow2(k)) % 2

LEMMA BitRange ==
  ASSUME NEW d \in Nat, NEW k \in 0 .. 31
  PROVE  Bit(d, k) \in 0 .. 1
<1>1. d \div Pow2(k) \in Nat
  BY Power, Euclid
<1> QED
  BY <1>1 DEF Bit

(* Rev takes in one bit at a time.                                          *)
LEMMA RevSteps ==
  ASSUME NEW d \in Nat
  PROVE  /\ Rev(d, Pow2(0)) = 0
         /\ \A n \in 0 .. 30 : Rev(d, Pow2(n + 1)) = 2 * Rev(d, Pow2(n)) + Bit(d, n)
<1> DEFINE Step(f, i) == IF i = 0 THEN 0 ELSE 2 * f[i - 1] + ((d \div Pow2(i - 1)) % 2)
           Runs(f, k) == f = [i \in 0 .. k |-> Step(f, i)]
           Done == {k \in 0 .. 31 : \E f : Runs(f, k)}
<1>1. 0 \in Done
  <2> DEFINE g == [i \in 0 .. 0 |-> 0]
  <2>1. Runs(g, 0)
    OBVIOUS
  <2> HIDE DEF g, Runs
  <2> QED
    BY <2>1
<1>2. ASSUME NEW k \in 1 .. 31, k - 1 \in Done
      PROVE  k \in Done
  <2>1. PICK f : Runs(f, k - 1)
    <3> HIDE DEF Runs
    <3> QED
      BY <1>2
  <2> DEFINE g == [i \in 0 .. k |-> Step(f, i)]
  <2>2. \A i \in 0 .. k - 1 : g[i] = f[i]
    <3> TAKE i \in 0 .. k - 1
    <3> HIDE DEF Step
    <3>1. f[i] = Step(f, i)
      BY <2>1
    <3> QED
      BY <3>1
  <2>3. \A i \in 0 .. k : Step(f, i) = Step(g, i)
    <3> TAKE i \in 0 .. k
    <3>1. CASE i = 0
      BY <3>1
    <3>2. CASE i # 0
      <4>1. i - 1 \in 0 .. k - 1
        BY <3>2
      <4>2. g[i - 1] = f[i - 1]
        BY <2>2, <4>1
      <4> HIDE DEF g
      <4> QED
        BY <4>2, <3>2
    <3> QED
      BY <3>1, <3>2
  <2>4. Runs(g, k)
    <3> HIDE DEF Step
    <3> QED
      BY <2>3
  <2> HIDE DEF g, Runs
  <2> QED
    BY <2>4
<1> DEFINE run(n) == CHOOSE f : Runs(f, n)
<1>3. ASSUME NEW n \in 0 .. 31
      PROVE  Runs(run(n), n)
  <2> HIDE DEF Done
  <2>1. n \in Done
    <3>1. \A i \in 1 .. 31 : i - 1 \in Done => i \in Done
      BY <1>2
    <3> QED
      BY <1>1, <3>1, UpTo
  <2> USE DEF Done
  <2> HIDE DEF Runs
  <2> QED
    BY <2>1
<1>4. ASSUME NEW n \in 0 .. 31
      PROVE  Rev(d, Pow2(n)) = run(n)[n]
  <2>1. Log2(Pow2(n)) = n
    BY Log2Power
  <2> QED
    BY <2>1 DEF Rev
<1>5. ASSUME NEW n \in 0 .. 31
      PROVE  /\ run(n)[0] = 0
             /\ \A i \in 1 .. n : run(n)[i] = 2 * run(n)[i - 1] + Bit(d, i - 1)
  <2> DEFINE f == run(n)
  <2>1. Runs(f, n)
    BY <1>3
  <2> HIDE DEF f
  <2>2. \A i \in 0 .. n : f[i] = Step(f, i)
    <3> HIDE DEF Step
    <3> QED
      BY <2>1
  <2>3. f[0] = 0
    BY <2>2
  <2>4. ASSUME NEW i \in 1 .. n
        PROVE  f[i] = 2 * f[i - 1] + Bit(d, i - 1)
    BY <2>2 DEF Bit
  <2> QED
    BY <2>3, <2>4 DEF f
<1> HIDE DEF run
<1>6. ASSUME NEW n \in 0 .. 31, NEW m \in 0 .. n
      PROVE  run(n)[m] = run(m)[m]
  <2> DEFINE S == {i \in 0 .. m : run(n)[i] = run(m)[i]}
  <2>1. 0 \in S
    BY <1>5
  <2>2. ASSUME NEW i \in 1 .. m, i - 1 \in S
        PROVE  i \in S
    <3>1. run(n)[i] = 2 * run(n)[i - 1] + Bit(d, i - 1)
      BY <1>5
    <3>2. run(m)[i] = 2 * run(m)[i - 1] + Bit(d, i - 1)
      <4>1. m \in 0 .. 31
        OBVIOUS
      <4> QED
        BY <1>5, <4>1
    <3> QED
      BY <2>2, <3>1, <3>2
  <2> HIDE DEF S
  <2>3. m \in S
    BY <2>1, <2>2, UpTo
  <2> QED
    BY <2>3 DEF S
<1>7. Rev(d, Pow2(0)) = 0
  BY <1>4, <1>5
<1>8. ASSUME NEW n \in 0 .. 30
      PROVE  Rev(d, Pow2(n + 1)) = 2 * Rev(d, Pow2(n)) + Bit(d, n)
  <2>1. n + 1 \in 0 .. 31 /\ n \in 0 .. 31 /\ n + 1 \in 1 .. n + 1 /\ (n + 1) - 1 = n
    OBVIOUS
  <2>2. Rev(d, Pow2(n + 1)) = run(n + 1)[n + 1] /\ Rev(d, Pow2(n)) = run(n)[n]
    BY <1>4, <2>1
  <2>3. run(n + 1)[n + 1] = 2 * run(n + 1)[n] + Bit(d, n)
    BY <1>5, <2>1
  <2>4. run(n + 1)[n] = run(n)[n]
    BY <1>6, <2>1
  <2> QED
    BY <2>2, <2>3, <2>4
<1> QED
  BY <1>7, <1>8

LEMMA BitLow ==
  ASSUME NEW n \in 1 .. 31, NEW m \in 0 .. n - 1, NEW c \in Nat,
         NEW e \in 0 .. Pow2(n) - 1
  PROVE  Bit((c * Pow2(n)) + e, m) = Bit(e, m)
<1> DEFINE p == Pow2(m)  q == Pow2((n - m) - 1)
<1>1. p \in Nat \ {0} /\ q \in Nat \ {0} /\ Pow2(n) \in Nat
  BY Power
<1>2. Pow2(n) = (2 * q) * p
  <2>1. (n - m) - 1 \in 0 .. 30 /\ ((n - m) - 1) + 1 = n - m
    OBVIOUS
  <2>2. Pow2(n - m) = 2 * q
    BY <2>1, Double
  <2>3. n - m \in 0 .. 31 /\ m \in 0 .. 31 /\ (n - m) + m = n /\ n <= 31
    OBVIOUS
  <2>4. Pow2((n - m) + m) = Pow2(n - m) * Pow2(m)
    BY <2>3, PowerSum
  <2> QED
    BY <2>2, <2>3, <2>4
<1> HIDE DEF p, q
<1> DEFINE u == e \div p  v == e % p  t == (c * (2 * q)) + u
<1>3. e \in Nat
  BY <1>1
<1>4. u \in Nat /\ v \in 0 .. p - 1 /\ e = (u * p) + v
  BY <1>1, <1>3, Euclid
<1> HIDE DEF u, v
<1>5. t \in Nat /\ (c * Pow2(n)) + e = (t * p) + v
  <2>1. c * ((2 * q) * p) = (c * (2 * q)) * p
    BY <1>1
  <2>2. c * (2 * q) \in Nat
    BY <1>1
  <2>3. t * p = ((c * (2 * q)) * p) + (u * p)
    BY <1>1, <1>4, <2>2
  <2> QED
    BY <1>1, <1>2, <1>4, <2>1, <2>2, <2>3
<1>6. ((t * p) + v) \div p = t
  <2> HIDE DEF t
  <2> QED
    BY <1>1, <1>4, <1>5, Digits
<1>7. t % 2 = u % 2
  <2> DEFINE x == c * q
  <2>1. x \in Nat /\ t = (2 * x) + u
    BY <1>1, <1>4
  <2> HIDE DEF x, t
  <2> QED
    BY <1>4, <2>1
<1> QED
  BY <1>5, <1>6, <1>7 DEF Bit, p, u

LEMMA BitTop ==
  ASSUME NEW n \in 0 .. 31, NEW c \in 0 .. 1, NEW e \in 0 .. Pow2(n) - 1
  PROVE  Bit((c * Pow2(n)) + e, n) = c
<1>1. ((c * Pow2(n)) + e) \div Pow2(n) = c
  <2>1. c \in Nat /\ Pow2(n) \in Nat \ {0}
    BY Power
  <2> QED
    BY <2>1, Digits
<1> QED
  BY <1>1 DEF Bit

LEMMA BitNext ==
  ASSUME NEW n \in 0 .. 30, NEW d \in Nat
  PROVE  Bit(d \div 2, n) = Bit(d, n + 1)
<1> DEFINE p == Pow2(n)  x == d \div 2  z == d % 2  t == x \div p  w == x % p
<1>1. p \in Nat \ {0} /\ Pow2(n + 1) = 2 * p
  BY Power, Double
<1> HIDE DEF p
<1>2. x \in Nat /\ z \in 0 .. 1 /\ d = (x * 2) + z
  OBVIOUS
<1> HIDE DEF x, z
<1>3. t \in Nat /\ w \in 0 .. p - 1 /\ x = (t * p) + w
  BY <1>1, <1>2, Euclid
<1> HIDE DEF t, w
<1> DEFINE pp == 2 * p  y == (2 * w) + z
<1>4. pp \in Nat \ {0} /\ y \in 0 .. pp - 1
  BY <1>1, <1>2, <1>3
<1>5. d = (t * pp) + y
  BY <1>1, <1>2, <1>3
<1> HIDE DEF pp, y
<1>6. d \div pp = t
  BY <1>3, <1>4, <1>5, Digits
<1> QED
  BY <1>1, <1>6 DEF Bit, pp, t, x, p

LEMMA RevRange ==
  ASSUME NEW n \in 0 .. 31, NEW d \in Nat
  PROVE  Rev(d, Pow2(n)) \in 0 .. Pow2(n) - 1
<1> DEFINE S == {i \in 0 .. n : Rev(d, Pow2(i)) \in 0 .. Pow2(i) - 1}
<1>1. 0 \in S
  BY RevSteps, Doubles
<1>2. ASSUME NEW i \in 1 .. n, i - 1 \in S
      PROVE  i \in S
  <2>1. i - 1 \in 0 .. 30 /\ (i - 1) + 1 = i /\ i - 1 \in 0 .. 31
    OBVIOUS
  <2>2. Rev(d, Pow2(i)) = 2 * Rev(d, Pow2(i - 1)) + Bit(d, i - 1)
    BY <2>1, RevSteps
  <2>3. Pow2(i) = 2 * Pow2(i - 1) /\ Pow2(i - 1) \in Nat
    BY <2>1, Double, Power
  <2>4. Bit(d, i - 1) \in 0 .. 1
    BY <2>1, BitRange
  <2>5. Rev(d, Pow2(i - 1)) \in 0 .. Pow2(i - 1) - 1
    BY <1>2
  <2> QED
    BY <2>2, <2>3, <2>4, <2>5
<1> HIDE DEF S
<1>3. n \in S
  BY <1>1, <1>2, UpTo
<1> QED
  BY <1>3 DEF S

(* It ignores the bits above.                                               *)
LEMMA RevLow ==
  ASSUME NEW n \in 0 .. 31, NEW c \in Nat, NEW e \in 0 .. Pow2(n) - 1
  PROVE  Rev((c * Pow2(n)) + e, Pow2(n)) = Rev(e, Pow2(n))
<1> DEFINE d == (c * Pow2(n)) + e
           S == {i \in 0 .. n : Rev(d, Pow2(i)) = Rev(e, Pow2(i))}
<1>1. d \in Nat /\ e \in Nat
  BY Power
<1>2. 0 \in S
  BY <1>1, RevSteps
<1>3. ASSUME NEW i \in 1 .. n, i - 1 \in S
      PROVE  i \in S
  <2>1. i - 1 \in 0 .. 30 /\ (i - 1) + 1 = i /\ i - 1 \in 0 .. n - 1 /\ n \in 1 .. 31
    OBVIOUS
  <2>2. Bit(d, i - 1) = Bit(e, i - 1)
    BY <2>1, BitLow
  <2> HIDE DEF d
  <2>3. Rev(d, Pow2(i)) = 2 * Rev(d, Pow2(i - 1)) + Bit(d, i - 1)
    BY <1>1, <2>1, RevSteps
  <2>4. Rev(e, Pow2(i)) = 2 * Rev(e, Pow2(i - 1)) + Bit(e, i - 1)
    BY <1>1, <2>1, RevSteps
  <2> QED
    BY <1>3, <2>2, <2>3, <2>4
<1> HIDE DEF S
<1>4. n \in S
  BY <1>2, <1>3, UpTo
<1> QED
  BY <1>4 DEF S

(* The lowest bit becomes the highest.                                      *)
LEMMA RevHigh ==
  ASSUME NEW n \in 0 .. 30, NEW d \in Nat
  PROVE  Rev(d, Pow2(n + 1)) = ((d % 2) * Pow2(n)) + Rev(d \div 2, Pow2(n))
<1> DEFINE h == d \div 2
           S == {i \in 0 .. n : Rev(d, Pow2(i + 1)) = ((d % 2) * Pow2(i)) + Rev(h, Pow2(i))}
<1>1. h \in Nat /\ d % 2 \in 0 .. 1
  OBVIOUS
<1> HIDE DEF h
<1>2. 0 \in S
  <2>1. Rev(d, Pow2(1)) = 2 * Rev(d, Pow2(0)) + Bit(d, 0)
    <3>1. 0 \in 0 .. 30 /\ 0 + 1 = 1
      OBVIOUS
    <3> QED
      BY <3>1, RevSteps
  <2>2. Rev(d, Pow2(0)) = 0 /\ Rev(h, Pow2(0)) = 0 /\ Pow2(0) = 1
    BY <1>1, RevSteps, Doubles
  <2>3. Bit(d, 0) = d % 2
    <3>1. d \div 1 = d
      OBVIOUS
    <3> QED
      BY <2>2, <3>1 DEF Bit
  <2>4. Rev(d, Pow2(1)) = d % 2
    BY <1>1, <2>1, <2>2, <2>3
  <2>5. 0 + 1 = 1 /\ 0 \in 0 .. n
    OBVIOUS
  <2> HIDE DEF S
  <2>6. Rev(d, Pow2(0 + 1)) = ((d % 2) * Pow2(0)) + Rev(h, Pow2(0))
    BY <1>1, <2>2, <2>4, <2>5
  <2> QED
    BY <2>5, <2>6 DEF S
<1>3. ASSUME NEW i \in 1 .. n, i - 1 \in S
      PROVE  i \in S
  <2>1. i - 1 \in 0 .. 30 /\ (i - 1) + 1 = i /\ i - 1 \in 0 .. 31 /\ i \in 0 .. 30
    OBVIOUS
  <2> DEFINE p == Pow2(i - 1)  b == d % 2  x == Rev(h, p)  y == Bit(d, i)
  <2>2. Rev(d, Pow2(i + 1)) = 2 * Rev(d, Pow2(i)) + y
    BY <2>1, RevSteps
  <2>3. Rev(d, Pow2(i)) = (b * p) + x
    BY <1>3, <2>1
  <2>4. Rev(h, Pow2(i)) = 2 * x + Bit(h, i - 1)
    BY <1>1, <2>1, RevSteps
  <2>5. Bit(h, i - 1) = y
    BY <2>1, BitNext DEF h
  <2>6. Pow2(i) = 2 * p /\ p \in Nat
    BY <2>1, Double, Power
  <2>7. x \in 0 .. p - 1
    BY <1>1, <2>1, RevRange
  <2>8. y \in 0 .. 1
    <3>1. i \in 0 .. 31
      OBVIOUS
    <3> QED
      BY <3>1, BitRange
  <2> HIDE DEF p, b, x, y, S
  <2>9. b \in 0 .. 1
    BY <1>1 DEF b
  <2>10. 2 * ((b * p) + x) + y = (b * (2 * p)) + (2 * x + y)
    BY <2>6, <2>7, <2>8, <2>9
  <2>11. Rev(d, Pow2(i + 1)) = (b * Pow2(i)) + Rev(h, Pow2(i))
    BY <2>2, <2>3, <2>4, <2>5, <2>6, <2>10
  <2> QED
    BY <2>11 DEF S, b
<1> HIDE DEF S
<1>4. n \in S
  <2>1. \A i \in 1 .. n : i - 1 \in S => i \in S
    BY <1>3
  <2> QED
    BY <1>2, <2>1, UpTo
<1> QED
  BY <1>4 DEF S, h

(* Reversing twice gives the number back.                                   *)
LEMMA RevTwice ==
  ASSUME NEW n \in 0 .. 31, NEW d \in 0 .. Pow2(n) - 1
  PROVE  Rev(Rev(d, Pow2(n)), Pow2(n)) = d
<1> DEFINE Twice(i, e) == Rev(Rev(e, Pow2(i)), Pow2(i)) = e
           S == {i \in 0 .. n : \A e \in 0 .. Pow2(i) - 1 : Twice(i, e)}
<1>1. 0 \in S
  <2>1. Pow2(0) = 1 /\ Rev(0, Pow2(0)) = 0
    BY RevSteps, Doubles
  <2>2. \A e \in 0 .. Pow2(0) - 1 : Twice(0, e)
    BY <2>1
  <2> QED
    BY <2>2
<1>2. ASSUME NEW i \in 1 .. n, i - 1 \in S
      PROVE  i \in S
  <2>1. i - 1 \in 0 .. 30 /\ (i - 1) + 1 = i /\ i - 1 \in 0 .. 31
    OBVIOUS
  <2> DEFINE p == Pow2(i - 1)
  <2>2. p \in Nat \ {0} /\ Pow2(i) = 2 * p
    BY <2>1, Power, Double
  <2>3. ASSUME NEW e \in 0 .. Pow2(i) - 1
        PROVE  Twice(i, e)
    <3> DEFINE h == e \div 2  b == e % 2  x == Rev(h, p)  f == (b * p) + x
    <3>1. e \in Nat /\ h \in Nat /\ b \in 0 .. 1 /\ e = (h * 2) + b
      BY <2>2
    <3>2. h \in 0 .. p - 1
      BY <2>2, <3>1
    <3>3. x \in 0 .. p - 1
      BY <2>1, <3>1, RevRange
    <3>4. Rev(e, Pow2(i)) = f
      BY <2>1, <3>1, RevHigh
    <3>5. Rev(f, Pow2(i)) = 2 * Rev(f, p) + Bit(f, i - 1)
      <4>1. f \in Nat
        <5> HIDE DEF b, x, p
        <5> QED
          BY <2>2, <3>1, <3>3
      <4> QED
        BY <4>1, <2>1, RevSteps
    <3>6. Bit(f, i - 1) = b
      BY <2>1, <3>1, <3>3, BitTop
    <3>7. Rev(f, p) = Rev(x, p)
      <4> HIDE DEF b, x
      <4>1. i - 1 \in 0 .. 31 /\ b \in Nat /\ x \in 0 .. Pow2(i - 1) - 1
        BY <2>1, <3>1, <3>3
      <4> QED
        BY <4>1, RevLow
    <3>8. Rev(x, p) = h
      BY <1>2, <3>2
    <3> HIDE DEF h, b, x, f
    <3>9. Rev(Rev(e, Pow2(i)), Pow2(i)) = 2 * h + b
      BY <3>4, <3>5, <3>6, <3>7, <3>8
    <3> QED
      BY <3>1, <3>9
  <2> HIDE DEF Twice
  <2> QED
    BY <2>3
<1> HIDE DEF S
<1>3. n \in S
  <2>1. \A i \in 1 .. n : i - 1 \in S => i \in S
    BY <1>2
  <2> QED
    BY <1>1, <2>1, UpTo
<1> QED
  BY <1>3 DEF S

(* Zeros above become zeros below.                                          *)
LEMMA RevPrefix ==
  ASSUME NEW n \in 0 .. 31, NEW k \in 0 .. n, NEW d \in 0 .. Pow2(k) - 1
  PROVE  Rev(d, Pow2(n)) = Rev(d, Pow2(k)) * Pow2(n - k)
<1> DEFINE S == {i \in 0 .. n - k : Rev(d, Pow2(k + i)) = Rev(d, Pow2(k)) * Pow2(i)}
<1>0. d \in Nat /\ k \in 0 .. 31
  BY Power
<1>1. Rev(d, Pow2(k)) \in Nat
  <2>1. Rev(d, Pow2(k)) \in 0 .. Pow2(k) - 1
    BY <1>0, RevRange
  <2>2. Pow2(k) \in Nat
    BY <1>0, Power
  <2> QED
    BY <2>1, <2>2
<1>2. 0 \in S
  <2>1. k + 0 = k /\ 0 \in 0 .. n - k
    OBVIOUS
  <2>2. Rev(d, Pow2(k + 0)) = Rev(d, Pow2(k)) * Pow2(0)
    BY <1>1, <2>1, Doubles
  <2> QED
    BY <2>1, <2>2
<1>3. ASSUME NEW i \in 1 .. n - k, i - 1 \in S
      PROVE  i \in S
  <2>1. /\ i - 1 \in 0 .. 30 /\ (i - 1) + 1 = i
        /\ k + (i - 1) \in 0 .. 30 /\ (k + (i - 1)) + 1 = k + i /\ k + (i - 1) \in 0 .. 31
    OBVIOUS
  <2> DEFINE m == k + (i - 1)
  <2>2. Rev(d, Pow2(k + i)) = 2 * Rev(d, Pow2(m)) + Bit(d, m)
    BY <1>0, <2>1, RevSteps
  <2>3. Pow2(i) = 2 * Pow2(i - 1) /\ Pow2(i - 1) \in Nat
    BY <2>1, Double, Power
  <2>4. Bit(d, m) = 0
    <3>1. Pow2(k) <= Pow2(m)
      <4>1. k <= m
        OBVIOUS
      <4> QED
        BY <1>0, <2>1, <4>1, PowerGrows
    <3>2. d \in 0 .. Pow2(m) - 1 /\ Pow2(m) \in Nat
      BY <1>0, <2>1, <3>1, Power
    <3>3. (0 * Pow2(m)) + d = d
      BY <3>2
    <3> QED
      BY <2>1, <3>2, <3>3, BitTop
  <2>5. Rev(d, Pow2(m)) = Rev(d, Pow2(k)) * Pow2(i - 1)
    BY <1>3
  <2> DEFINE x == Rev(d, Pow2(k))  y == Pow2(i - 1)
  <2>6. 2 * (x * y) + 0 = x * (2 * y)
    <3>1. x \in Nat /\ y \in Nat
      BY <1>1, <2>3
    <3> HIDE DEF x, y
    <3> QED
      BY <3>1
  <2> HIDE DEF m
  <2>7. Rev(d, Pow2(k + i)) = Rev(d, Pow2(k)) * Pow2(i)
    BY <2>2, <2>3, <2>4, <2>5, <2>6
  <2> QED
    BY <2>7
<1> HIDE DEF S
<1>4. n - k \in S
  <2>1. \A i \in 1 .. n - k : i - 1 \in S => i \in S
    BY <1>3
  <2>2. n - k \in Nat /\ n - k \in 0 .. n - k
    OBVIOUS
  <2> QED
    BY <1>2, <2>1, <2>2, UpTo
<1>5. k + (n - k) = n
  OBVIOUS
<1> QED
  BY <1>4, <1>5 DEF S

-----------------------------------------------------------------------------
(* Slots of nodes.                                                          *)

Home(d, real, n) ==
  IF Rev(d, Pow2(n)) >= real THEN {} ELSE {IF d < real THEN d ELSE Rev(d, Pow2(n))}
Cells(b, D, real, n) == {<<b, s>> : s \in UNION {Home(d, real, n) : d \in D}}

Cell(b, d, real, n) == {<<b, s>> : s \in Home(d, real, n)}

LEMMA CellOf ==
  ASSUME NEW b, NEW real, NEW n, NEW D, NEW d \in D
  PROVE  Cell(b, d, real, n) \subseteq Cells(b, D, real, n)
  BY DEF Cell, Cells

(* A node has the same slot in every level it belongs to.                   *)
LEMMA SlotsAre ==
  ASSUME NEW n \in 0 .. 31, NEW k \in 0 .. n, NEW real, NEW d \in 0 .. Pow2(k) - 1
  PROVE  Slots(d, Pow2(k), real, Pow2(n)) = Home(d, real, n)
<1>1. Pow2(n) \div Pow2(k) = Pow2(n - k)
  <2>1. k \in 0 .. 31 /\ k <= n
    OBVIOUS
  <2> QED
    BY <2>1, PowerQuotient
<1>2. Start(d, Pow2(k), Pow2(n)) = Rev(d, Pow2(n))
  BY <1>1, RevPrefix DEF Start
<1> QED
  BY <1>2 DEF Slots, Home

LEMMA HomeIn ==
  ASSUME NEW n \in 0 .. 31, NEW real \in Nat, NEW d \in Nat
  PROVE  Home(d, real, n) \subseteq 0 .. real - 1
<1>1. Rev(d, Pow2(n)) \in 0 .. Pow2(n) - 1 /\ Pow2(n) \in Nat
  BY RevRange, Power
<1> QED
  BY <1>1 DEF Home

(* Two nodes never share one: a spilled leaf takes the slot of padding.     *)
LEMMA HomeApart ==
  ASSUME NEW n \in 0 .. 31, NEW real \in Nat,
         NEW d \in 0 .. Pow2(n) - 1, NEW e \in 0 .. Pow2(n) - 1, d # e
  PROVE  Home(d, real, n) \cap Home(e, real, n) = {}
<1>1. Rev(Rev(d, Pow2(n)), Pow2(n)) = d /\ Rev(Rev(e, Pow2(n)), Pow2(n)) = e
  BY RevTwice
<1>2. Rev(d, Pow2(n)) # Rev(e, Pow2(n))
  BY <1>1
<1>3. Pow2(n) \in Nat /\ d \in Nat /\ e \in Nat
  BY Power
<1>4. Rev(d, Pow2(n)) \in Nat /\ Rev(e, Pow2(n)) \in Nat
  <2>1. Rev(d, Pow2(n)) \in 0 .. Pow2(n) - 1 /\ Rev(e, Pow2(n)) \in 0 .. Pow2(n) - 1
    BY <1>3, RevRange
  <2> QED
    BY <1>3, <2>1
<1>5. ASSUME Rev(d, Pow2(n)) = e, Rev(d, Pow2(n)) < real, Rev(e, Pow2(n)) < real
      PROVE  d < real /\ e < real
  BY <1>1, <1>5
<1>6. ASSUME Rev(e, Pow2(n)) = d, Rev(d, Pow2(n)) < real, Rev(e, Pow2(n)) < real
      PROVE  d < real /\ e < real
  BY <1>1, <1>6
<1> DEFINE x == Rev(d, Pow2(n))  y == Rev(e, Pow2(n))
<1> HIDE DEF x, y
<1> QED
  BY <1>2, <1>3, <1>4, <1>5, <1>6 DEF Home, x, y

(* Where every node is real it is kept at its own place.                    *)
LEMMA HomeFull ==
  ASSUME NEW n \in 0 .. 31, NEW d \in 0 .. Pow2(n) - 1
  PROVE  Home(d, Pow2(n), n) = {d}
<1>1. d \in Nat /\ Pow2(n) \in Nat
  BY Power
<1>2. Rev(d, Pow2(n)) \in 0 .. Pow2(n) - 1
  BY <1>1, RevRange
<1> QED
  BY <1>1, <1>2 DEF Home

LEMMA CellsIn ==
  ASSUME NEW n \in 0 .. 31, NEW real \in Nat, NEW D, D \subseteq Nat, NEW b
  PROVE  Cells(b, D, real, n) \subseteq {b} \X (0 .. real - 1)
<1>1. \A d \in D : Home(d, real, n) \subseteq 0 .. real - 1
  BY HomeIn
<1>2. UNION {Home(d, real, n) : d \in D} \subseteq 0 .. real - 1
  BY <1>1, Zenon
<1> DEFINE U == UNION {Home(d, real, n) : d \in D}
<1> HIDE DEF U
<1>3. {<<b, s>> : s \in U} \subseteq {b} \X (0 .. real - 1)
  BY <1>2 DEF U
<1> QED
  BY <1>3 DEF Cells, U

LEMMA CellsApart ==
  ASSUME NEW n \in 0 .. 31, NEW real \in Nat, NEW b,
         NEW D, D \subseteq 0 .. Pow2(n) - 1, NEW E, E \subseteq 0 .. Pow2(n) - 1,
         D \cap E = {}
  PROVE  Cells(b, D, real, n) \cap Cells(b, E, real, n) = {}
<1>1. \A d \in D : \A e \in E : Home(d, real, n) \cap Home(e, real, n) = {}
  BY HomeApart
<1> QED
  BY <1>1 DEF Cells

LEMMA CellsSplit ==
  ASSUME NEW n, NEW real, NEW b, NEW D, NEW E
  PROVE  Cells(b, D \cup E, real, n) = Cells(b, D, real, n) \cup Cells(b, E, real, n)
  BY DEF Cells

LEMMA CellsFull ==
  ASSUME NEW n \in 0 .. 31, NEW b, NEW D, D \subseteq 0 .. Pow2(n) - 1
  PROVE  Cells(b, D, Pow2(n), n) = {<<b, d>> : d \in D}
<1>1. \A d \in D : Home(d, Pow2(n), n) = {d}
  BY HomeFull
<1>2. UNION {Home(d, Pow2(n), n) : d \in D} = D
  <2>1. {Home(d, Pow2(n), n) : d \in D} = {{d} : d \in D}
    BY <1>1, Zenon
  <2>2. UNION {{d} : d \in D} = D
    OBVIOUS
  <2> QED
    BY <2>1, <2>2
<1> QED
  BY <1>2, Zenon DEF Cells

LEMMA ReadsAre ==
  ASSUME NEW n \in 0 .. 31, NEW k \in 0 .. n, NEW real, NEW b,
         NEW D, D \subseteq 0 .. Pow2(k) - 1
  PROVE  Reads(b, D, Pow2(k), real, Pow2(n)) = Cells(b, D, real, n)
<1>1. \A d \in D : Slots(d, Pow2(k), real, Pow2(n)) = Home(d, real, n)
  BY SlotsAre
<1>2. {Slots(d, Pow2(k), real, Pow2(n)) : d \in D} = {Home(d, real, n) : d \in D}
  BY <1>1, Zenon
<1> QED
  BY <1>2, Zenon DEF Reads, Cells

(* The slots of a set of stores.                                            *)
At_(writes) == {w.at : w \in writes}

LEMMA StoreAt ==
  ASSUME NEW n \in 0 .. 31, NEW k \in 0 .. n, NEW real, NEW b,
         NEW d \in 0 .. Pow2(k) - 1, NEW v
  PROVE  At_(virtual_node_store(b, d, Pow2(k), real, Pow2(n), v)) = Cell(b, d, real, n)
<1>1. Slots(d, Pow2(k), real, Pow2(n)) = Home(d, real, n)
  BY SlotsAre
<1> DEFINE H == Home(d, real, n)
<1>2. At_({[at |-> <<b, s>>, v |-> v] : s \in H}) = {<<b, s>> : s \in H}
  <2> HIDE DEF H
  <2>1. \A s \in H : [at |-> <<b, s>>, v |-> v].at = <<b, s>>
    OBVIOUS
  <2>2. {w.at : w \in {[at |-> <<b, s>>, v |-> v] : s \in H}}
          = {[at |-> <<b, s>>, v |-> v].at : s \in H}
    BY Zenon
  <2> QED
    BY <2>1, <2>2, Zenon DEF At_
<1> HIDE DEF H
<1>3. virtual_node_store(b, d, Pow2(k), real, Pow2(n), v)
        = {[at |-> <<b, s>>, v |-> v] : s \in H}
  BY <1>1, Zenon DEF virtual_node_store, H
<1> QED
  BY <1>2, <1>3, Zenon DEF Cell, H

LEMMA StoreUnion ==
  ASSUME NEW A, NEW B
  PROVE  At_(A \cup B) = At_(A) \cup At_(B)
  BY DEF At_

LEMMA StoreAll ==
  ASSUME NEW W
  PROVE  At_(UNION W) = UNION {At_(A) : A \in W}
<1>1. ASSUME NEW x, x \in At_(UNION W)
      PROVE  x \in UNION {At_(A) : A \in W}
  <2>1. PICK A \in W : \E w \in A : x = w.at
    BY <1>1, Zenon DEF At_
  <2>2. x \in At_(A)
    BY <2>1, Zenon DEF At_
  <2> QED
    BY <2>2, Zenon
<1>2. ASSUME NEW x, x \in UNION {At_(A) : A \in W}
      PROVE  x \in At_(UNION W)
  <2>1. PICK A \in W : x \in At_(A)
    BY <1>2, Zenon
  <2>2. PICK w \in A : x = w.at
    BY <2>1, Zenon DEF At_
  <2> QED
    BY <2>2, Zenon DEF At_
<1> QED
  BY <1>1, <1>2, Zenon

-----------------------------------------------------------------------------
(* Kernels.                                                                 *)

(* A launch whose threads keep apart and touch only slots of S.             *)
Sound(k, S) == ~Races(k) /\ Touched(k) \subseteq S

LEMMA KeptApart ==
  ASSUME NEW threads, NEW S,
         \A i \in DOMAIN threads : threads[i].reads \subseteq S /\ At_(threads[i].writes) \subseteq S,
         \A i, j \in DOMAIN threads : i # j =>
           /\ At_(threads[i].writes) \cap At_(threads[j].writes) = {}
           /\ At_(threads[i].writes) \cap threads[j].reads = {}
  PROVE  Sound(Kernel(FALSE, threads), S)
<1> DEFINE k == Kernel(FALSE, threads)
<1>1. k.barrier = FALSE /\ k.threads = threads
  BY DEF Kernel
<1>2. \A i \in DOMAIN threads : Stored(threads[i]) = At_(threads[i].writes)
  BY DEF Stored, At_
<1> HIDE DEF k
<1>3. ~Races(k)
  BY <1>1, <1>2 DEF Races
<1>4. Touched(k) \subseteq S
  <2> SUFFICES ASSUME NEW x, x \in Touched(k)
               PROVE  x \in S
    OBVIOUS
  <2>1. PICK i \in DOMAIN threads : x \in threads[i].reads \cup Stored(threads[i])
    BY <1>1, Zenon DEF Touched
  <2> QED
    BY <1>2, <2>1
<1> QED
  BY <1>3, <1>4 DEF Sound, k

(* With a barrier between loads and stores only the stores can collide.     *)
LEMMA KeptApartByBarrier ==
  ASSUME NEW threads, NEW S,
         \A i \in DOMAIN threads : threads[i].reads \subseteq S /\ At_(threads[i].writes) \subseteq S,
         \A i, j \in DOMAIN threads : i # j => At_(threads[i].writes) \cap At_(threads[j].writes) = {}
  PROVE  Sound(Kernel(TRUE, threads), S)
<1> DEFINE k == Kernel(TRUE, threads)
<1>1. k.barrier = TRUE /\ k.threads = threads
  BY DEF Kernel
<1>2. \A i \in DOMAIN threads : Stored(threads[i]) = At_(threads[i].writes)
  BY DEF Stored, At_
<1> HIDE DEF k
<1>3. ~Races(k)
  BY <1>1, <1>2 DEF Races
<1>4. Touched(k) \subseteq S
  <2> SUFFICES ASSUME NEW x, x \in Touched(k)
               PROVE  x \in S
    OBVIOUS
  <2>1. PICK i \in DOMAIN threads : x \in threads[i].reads \cup Stored(threads[i])
    BY <1>1, Zenon DEF Touched
  <2> QED
    BY <1>2, <2>1
<1> QED
  BY <1>3, <1>4 DEF Sound, k

LEMMA IdleSound ==
  ASSUME NEW S
  PROVE  Sound(Idle, S)
<1>1. DOMAIN <<>> = {}
  OBVIOUS
<1> QED
  BY <1>1, KeptApartByBarrier DEF Idle

(* The slots of a buffer of size entries.                                   *)
InBuffer(b, size) == {b} \X (0 .. size - 1)

(* Thread i reads the nodes RD[i] and stores the nodes WD[i].               *)
OnNodes(t, RD, WD, real, n) ==
  /\ RD \subseteq 0 .. Pow2(n) - 1 /\ WD \subseteq 0 .. Pow2(n) - 1
  /\ t.reads \subseteq Cells("layer", RD, real, n)
  /\ At_(t.writes) \subseteq Cells("layer", WD, real, n)

(* Threads that each store nodes of their own, and read no other's.         *)
LEMMA NodesApart ==
  ASSUME NEW threads, NEW n \in 0 .. 31, NEW real \in Nat,
         NEW RD, NEW WD,
         \A i \in DOMAIN threads : OnNodes(threads[i], RD[i], WD[i], real, n),
         \A i, j \in DOMAIN threads : i # j => WD[i] \cap WD[j] = {} /\ WD[i] \cap RD[j] = {}
  PROVE  Sound(Kernel(FALSE, threads), InBuffer("layer", real))
<1>1. ASSUME NEW i \in DOMAIN threads
      PROVE  /\ threads[i].reads \subseteq InBuffer("layer", real)
             /\ At_(threads[i].writes) \subseteq InBuffer("layer", real)
  <2>1. WD[i] \subseteq Nat /\ RD[i] \subseteq Nat
    BY Power DEF OnNodes
  <2>2. Cells("layer", WD[i], real, n) \subseteq InBuffer("layer", real)
    BY <2>1, CellsIn DEF InBuffer
  <2>3. Cells("layer", RD[i], real, n) \subseteq InBuffer("layer", real)
    BY <2>1, CellsIn DEF InBuffer
  <2>4. /\ At_(threads[i].writes) \subseteq Cells("layer", WD[i], real, n)
        /\ threads[i].reads \subseteq Cells("layer", RD[i], real, n)
    BY DEF OnNodes
  <2> QED
    BY <2>2, <2>3, <2>4, Zenon
<1>2. ASSUME NEW i \in DOMAIN threads, NEW j \in DOMAIN threads, i # j
      PROVE  /\ At_(threads[i].writes) \cap At_(threads[j].writes) = {}
             /\ At_(threads[i].writes) \cap threads[j].reads = {}
  <2>1. WD[i] \cap WD[j] = {} /\ WD[i] \cap RD[j] = {}
    BY <1>2
  <2>2. OnNodes(threads[i], RD[i], WD[i], real, n) /\ OnNodes(threads[j], RD[j], WD[j], real, n)
    OBVIOUS
  <2>3. /\ WD[i] \subseteq 0 .. Pow2(n) - 1 /\ WD[j] \subseteq 0 .. Pow2(n) - 1
        /\ RD[j] \subseteq 0 .. Pow2(n) - 1
        /\ At_(threads[i].writes) \subseteq Cells("layer", WD[i], real, n)
        /\ At_(threads[j].writes) \subseteq Cells("layer", WD[j], real, n)
        /\ threads[j].reads \subseteq Cells("layer", RD[j], real, n)
    BY <2>2 DEF OnNodes
  <2>4. Cells("layer", WD[i], real, n) \cap Cells("layer", WD[j], real, n) = {}
    BY <2>1, <2>3, CellsApart
  <2>5. Cells("layer", WD[i], real, n) \cap Cells("layer", RD[j], real, n) = {}
    BY <2>1, <2>3, CellsApart
  <2> QED
    BY <2>3, <2>4, <2>5, Zenon
<1>3. \A i \in DOMAIN threads : /\ threads[i].reads \subseteq InBuffer("layer", real)
                   /\ At_(threads[i].writes) \subseteq InBuffer("layer", real)
  BY <1>1
<1>4. \A i, j \in DOMAIN threads : i # j =>
        /\ At_(threads[i].writes) \cap At_(threads[j].writes) = {}
        /\ At_(threads[i].writes) \cap threads[j].reads = {}
  BY <1>2
<1> QED
  BY <1>3, <1>4, KeptApart

(* Halves of a level.                                                       *)
LEMMA Halves ==
  ASSUME NEW n \in 0 .. 31, NEW k \in 1 .. n
  PROVE  /\ k - 1 \in 0 .. n /\ k \in 0 .. n
         /\ Pow2(k - 1) \in Nat \ {0} /\ Pow2(k) = 2 * Pow2(k - 1)
         /\ Pow2(k) \div 2 = Pow2(k - 1) /\ Pow2(k) <= Pow2(n) /\ Pow2(n) \in Nat
<1>1. k - 1 \in 0 .. 30 /\ (k - 1) + 1 = k /\ k \in 0 .. 31 /\ k <= n /\ k - 1 \in 0 .. 31 /\ k - 1 \in 0 .. n
  OBVIOUS
<1>2. Pow2(k) = 2 * Pow2(k - 1) /\ Pow2(k - 1) \in Nat \ {0} /\ Pow2(n) \in Nat
  BY <1>1, Power, Double
<1>3. Pow2(k) <= Pow2(n)
  BY <1>1, PowerGrows
<1>4. Pow2(k) \div 2 = Pow2(k - 1)
  BY <1>2
<1> QED
  BY <1>1, <1>2, <1>3, <1>4

(* The nodes of a level of h of them, in a tree of N leaves.                *)
IsLevel(h, real, N, n) ==
  /\ \A d \in 0 .. h - 1 : \A b, v :
       At_(virtual_node_store(b, d, h, real, N, v)) = Cell(b, d, real, n)
  /\ \A D \in SUBSET (0 .. h - 1) : \A b :
       Reads(b, D, h, real, N) = Cells(b, D, real, n)

LEMMA Level ==
  ASSUME NEW n \in 0 .. 31, NEW k \in 0 .. n, NEW real
  PROVE  IsLevel(Pow2(k), real, Pow2(n), n)
<1>1. \A d \in 0 .. Pow2(k) - 1 : \A b, v :
        At_(virtual_node_store(b, d, Pow2(k), real, Pow2(n), v)) = Cell(b, d, real, n)
  BY StoreAt
<1>2. \A D \in SUBSET (0 .. Pow2(k) - 1) : \A b :
        Reads(b, D, Pow2(k), real, Pow2(n)) = Cells(b, D, real, n)
  BY ReadsAre
<1> QED
  BY <1>1, <1>2, Zenon DEF IsLevel

LEMMA TreeLayer ==
  ASSUME NEW n \in 0 .. 31, NEW N, N = Pow2(n), NEW k \in 1 .. n, NEW size, size = Pow2(k),
         NEW real \in Nat, NEW m, NEW apply_alpha
  PROVE  Sound(build_tree_layer(m, size, real, N, apply_alpha), InBuffer("layer", real))
<1> DEFINE K == build_tree_layer(m, size, real, N, apply_alpha)
           h == size \div 2
           T == K.threads
           RD == [i \in 0 .. h - 1 |-> {i, i + h}]
           WD == [i \in 0 .. h - 1 |-> {i}]
<1>1. h \in Nat \ {0} /\ size = 2 * h /\ h = Pow2(k - 1) /\ size <= N /\ N \in Nat
  BY Halves
<1>2. K = Kernel(FALSE, T) /\ DOMAIN T = 0 .. h - 1
  BY DEF build_tree_layer, Kernel
<1>3. ASSUME NEW i \in 0 .. h - 1
      PROVE  /\ T[i].reads = Reads("layer", {i, i + h}, size, real, N)
             /\ \E v : T[i].writes = virtual_node_store("layer", i, h, real, N, v)
  BY DEF build_tree_layer, Kernel
<1> HIDE DEF K, T, h
<1>4. /\ \A d \in 0 .. h - 1 : \A b, v :
           At_(virtual_node_store(b, d, h, real, N, v)) = Cell(b, d, real, n)
      /\ \A D \in SUBSET (0 .. size - 1) : \A b :
           Reads(b, D, size, real, N) = Cells(b, D, real, n)
  <2>1. k - 1 \in 0 .. n /\ k \in 0 .. n
    OBVIOUS
  <2>2. IsLevel(h, real, N, n)
    BY <1>1, <2>1, Level
  <2>3. IsLevel(size, real, N, n)
    BY <2>1, Level
  <2> QED
    BY <2>2, <2>3, Zenon DEF IsLevel
<1>5. ASSUME NEW i \in 0 .. h - 1
      PROVE  OnNodes(T[i], RD[i], WD[i], real, n)
  <2>1. {i, i + h} \subseteq 0 .. size - 1 /\ {i, i + h} \subseteq 0 .. N - 1 /\ i \in 0 .. N - 1
    BY <1>1
  <2>2. RD[i] = {i, i + h} /\ WD[i] = {i}
    BY Zenon
  <2> HIDE DEF RD, WD
  <2>3. T[i].reads = Cells("layer", RD[i], real, n)
    BY <1>3, <1>4, <2>1, <2>2, Zenon
  <2>4. At_(T[i].writes) = Cell("layer", i, real, n)
    BY <1>3, <1>4, Zenon
  <2>5. At_(T[i].writes) \subseteq Cells("layer", WD[i], real, n)
    <3>1. i \in WD[i]
      BY <2>2
    <3> QED
      BY <2>4, <3>1, CellOf, Zenon
  <2>6. RD[i] \subseteq 0 .. Pow2(n) - 1 /\ WD[i] \subseteq 0 .. Pow2(n) - 1
    BY <2>1, <2>2
  <2> QED
    BY <2>3, <2>5, <2>6, Zenon DEF OnNodes
<1>6. ASSUME NEW i \in 0 .. h - 1, NEW j \in 0 .. h - 1, i # j
      PROVE  WD[i] \cap WD[j] = {} /\ WD[i] \cap RD[j] = {}
  BY <1>1, <1>6
<1> HIDE DEF RD, WD
<1>7. \A i \in 0 .. h - 1 : OnNodes(T[i], RD[i], WD[i], real, n)
  BY <1>5
<1>8. \A i, j \in 0 .. h - 1 : i # j => WD[i] \cap WD[j] = {} /\ WD[i] \cap RD[j] = {}
  BY <1>6
<1>9. Sound(Kernel(FALSE, T), InBuffer("layer", real))
  <2>1. \A i \in DOMAIN T : OnNodes(T[i], RD[i], WD[i], real, n)
    BY <1>2, <1>7
  <2>2. \A i, j \in DOMAIN T : i # j => WD[i] \cap WD[j] = {} /\ WD[i] \cap RD[j] = {}
    BY <1>2, <1>8
  <2> QED
    BY <2>1, <2>2, NodesApart, Zenon
<1> QED
  BY <1>2, <1>9 DEF K

LEMMA TwoLayers ==
  ASSUME NEW n \in 0 .. 31, NEW N, N = Pow2(n), NEW k \in 0 .. n - 2, NEW q, q = Pow2(k),
         NEW real \in Nat, NEW m
  PROVE  Sound(build_tree_two_layers(m, q, real, N), InBuffer("layer", real))
<1> DEFINE K == build_tree_two_layers(m, q, real, N)
           T == K.threads
           h == 2 * q
           size == 4 * q
           k1 == k + 1
           k2 == k + 2
           RD == [j \in 0 .. q - 1 |-> {j + c * q : c \in 0 .. 3}]
           WD == [j \in 0 .. q - 1 |-> {j, j + q}]
<1>1. /\ k1 \in 0 .. n /\ k2 \in 0 .. n /\ k \in 0 .. n /\ q \in Nat \ {0}
      /\ h = Pow2(k1) /\ size = Pow2(k2) /\ size <= N /\ N \in Nat
  <2>1. k \in 0 .. 30 /\ k1 \in 0 .. 30 /\ k2 = k1 + 1 /\ k2 \in 0 .. 31 /\ k2 <= n
    OBVIOUS
  <2>2. q \in Nat \ {0} /\ N \in Nat /\ Pow2(k1) = 2 * q /\ Pow2(k2) = 2 * Pow2(k1)
    BY <2>1, Power, Double
  <2>3. Pow2(k2) <= Pow2(n)
    BY <2>1, PowerGrows
  <2> QED
    BY <2>1, <2>2, <2>3
<1>2. K = Kernel(FALSE, T) /\ DOMAIN T = 0 .. q - 1
  BY DEF build_tree_two_layers, Kernel
<1>3. ASSUME NEW j \in 0 .. q - 1
      PROVE  /\ T[j].reads = Reads("layer", {j + c * q : c \in 0 .. 3}, size, real, N)
             /\ \E u, v : T[j].writes = virtual_node_store("layer", j, q, real, N, u)
                            \cup virtual_node_store("layer", j + q, h, real, N, v)
  BY DEF build_tree_two_layers, Kernel
<1> HIDE DEF K, T, k1, k2, h, size
<1>4. /\ \A d \in 0 .. q - 1 : \A b, v :
           At_(virtual_node_store(b, d, q, real, N, v)) = Cell(b, d, real, n)
      /\ \A d \in 0 .. h - 1 : \A b, v :
           At_(virtual_node_store(b, d, h, real, N, v)) = Cell(b, d, real, n)
      /\ \A D \in SUBSET (0 .. size - 1) : \A b :
           Reads(b, D, size, real, N) = Cells(b, D, real, n)
  <2>2. IsLevel(q, real, N, n)
    BY <1>1, Level
  <2>3. IsLevel(h, real, N, n)
    BY <1>1, Level
  <2>4. IsLevel(size, real, N, n)
    BY <1>1, Level
  <2> QED
    BY <2>2, <2>3, <2>4, Zenon DEF IsLevel
<1>5. ASSUME NEW j \in 0 .. q - 1
      PROVE  OnNodes(T[j], RD[j], WD[j], real, n)
  <2>1. /\ {j + c * q : c \in 0 .. 3} \subseteq 0 .. size - 1 /\ 0 .. size - 1 \subseteq 0 .. N - 1
        /\ j + q \in 0 .. h - 1 /\ j \in 0 .. q - 1 /\ {j, j + q} \subseteq 0 .. N - 1
    BY <1>1 DEF h, size
  <2>2. RD[j] = {j + c * q : c \in 0 .. 3} /\ WD[j] = {j, j + q}
    BY Zenon
  <2>3. j \in WD[j] /\ j + q \in WD[j]
    BY <2>2
  <2> HIDE DEF RD, WD
  <2>4. T[j].reads = Cells("layer", RD[j], real, n)
    BY <1>3, <1>4, <2>1, <2>2, Zenon
  <2>5. PICK u, v : T[j].writes = virtual_node_store("layer", j, q, real, N, u)
                            \cup virtual_node_store("layer", j + q, h, real, N, v)
    BY <1>3
  <2>6. /\ At_(virtual_node_store("layer", j, q, real, N, u)) = Cell("layer", j, real, n)
        /\ At_(virtual_node_store("layer", j + q, h, real, N, v)) = Cell("layer", j + q, real, n)
    BY <1>4, <2>1, Zenon
  <2>7. At_(T[j].writes) \subseteq Cell("layer", j, real, n) \cup Cell("layer", j + q, real, n)
    <3> DEFINE X == virtual_node_store("layer", j, q, real, N, u)
               Y == virtual_node_store("layer", j + q, h, real, N, v)
    <3>1. At_(X \cup Y) = At_(X) \cup At_(Y)
      BY StoreUnion, Zenon
    <3>2. T[j].writes = X \cup Y
      BY <2>5
    <3> HIDE DEF X, Y
    <3>3. At_(T[j].writes) = At_(X) \cup At_(Y)
      BY <3>1, <3>2
    <3> QED
      BY <3>3, <2>6, Zenon DEF X, Y
  <2>8. At_(T[j].writes) \subseteq Cells("layer", WD[j], real, n)
    BY <2>3, <2>7, CellOf, Zenon
  <2>9. RD[j] \subseteq 0 .. Pow2(n) - 1 /\ WD[j] \subseteq 0 .. Pow2(n) - 1
    BY <2>1, <2>2, Zenon
  <2> QED
    BY <2>4, <2>8, <2>9, Zenon DEF OnNodes
<1>6. ASSUME NEW i \in 0 .. q - 1, NEW j \in 0 .. q - 1, i # j
      PROVE  WD[i] \cap WD[j] = {} /\ WD[i] \cap RD[j] = {}
  <2> HIDE DEF RD, WD
  <2>0. RD[j] = {j + c * q : c \in 0 .. 3} /\ WD[j] = {j, j + q} /\ WD[i] = {i, i + q}
    BY Zenon DEF RD, WD
  <2>1. {i, i + q} \cap {j, j + q} = {}
    BY <1>1, <1>6
  <2>2. ASSUME NEW c \in 0 .. 3
        PROVE  i # j + c * q /\ i + q # j + c * q
    <3>1. c = 0 \/ c = 1 \/ c = 2 \/ c = 3
      OBVIOUS
    <3> QED
      BY <1>1, <1>6, <3>1
  <2>3. {i, i + q} \cap {j + c * q : c \in 0 .. 3} = {}
    BY <2>2
  <2> QED
    BY <2>0, <2>1, <2>3, Zenon
<1> HIDE DEF RD, WD
<1>7. \A i \in 0 .. q - 1 : OnNodes(T[i], RD[i], WD[i], real, n)
  BY <1>5
<1>8. \A i, j \in 0 .. q - 1 : i # j => WD[i] \cap WD[j] = {} /\ WD[i] \cap RD[j] = {}
  BY <1>6
<1>9. Sound(Kernel(FALSE, T), InBuffer("layer", real))
  <2>1. /\ \A i \in DOMAIN T : OnNodes(T[i], RD[i], WD[i], real, n)
        /\ \A i, j \in DOMAIN T : i # j => WD[i] \cap WD[j] = {} /\ WD[i] \cap RD[j] = {}
    BY <1>2, <1>7, <1>8, Zenon
  <2> QED
    BY <2>1, NodesApart, Zenon
<1> QED
  BY <1>2, <1>9 DEF K

LEMMA StoresIn ==
  ASSUME NEW W, NEW S, \A A \in W : At_(A) \subseteq S
  PROVE  At_(UNION W) \subseteq S
<1>1. At_(UNION W) = UNION {At_(A) : A \in W}
  BY StoreAll, Zenon
<1> QED
  BY <1>1, Zenon

(* A launch of one thread has no race.                                      *)
LEMMA OneThread ==
  ASSUME NEW threads, NEW S, \A i, j \in DOMAIN threads : i = j,
         \A i \in DOMAIN threads : threads[i].reads \subseteq S /\ At_(threads[i].writes) \subseteq S
  PROVE  Sound(Kernel(FALSE, threads), S)
BY KeptApart, Zenon

LEMMA RevertRoot ==
  ASSUME NEW n \in 1 .. 31, NEW N, N = Pow2(n), NEW real \in Nat, NEW m
  PROVE  Sound(revert_tree_layer(m, 2, real, N), InBuffer("layer", real))
<1> DEFINE K == revert_tree_layer(m, 2, real, N)
           T == K.threads
           C == Cells("layer", {0, 1}, real, n)
<1>1. 2 \div 2 = 1 /\ 0 .. 1 - 1 = {0} /\ 0 + 1 = 1 /\ 0 .. 2 - 1 = {0, 1} /\ n \in 0 .. 31
  OBVIOUS
<1>2. K = Kernel(FALSE, T) /\ DOMAIN T = {0}
  BY <1>1 DEF revert_tree_layer, Kernel
<1>3. /\ T[0].reads = Reads("layer", {0}, 1, real, N) \cup Reads("layer", {1}, 2, real, N)
      /\ \E v : T[0].writes = virtual_node_store("layer", 0, 2, real, N, v)
  BY <1>1 DEF revert_tree_layer, Kernel
<1> HIDE DEF K, T
<1>4. \A D \in SUBSET (0 .. 1 - 1) : \A b : Reads(b, D, 1, real, N) = Cells(b, D, real, n)
  <2>1. 0 \in 0 .. n
    OBVIOUS
  <2>2. Pow2(0) = 1
    BY PowerTable
  <2>3. IsLevel(Pow2(0), real, N, n)
    BY <1>1, <2>1, Level
  <2> QED
    BY <2>2, <2>3, Zenon DEF IsLevel
<1>5. /\ \A D \in SUBSET (0 .. 2 - 1) : \A b : Reads(b, D, 2, real, N) = Cells(b, D, real, n)
      /\ \A d \in 0 .. 2 - 1 : \A b, v :
           At_(virtual_node_store(b, d, 2, real, N, v)) = Cell(b, d, real, n)
  <2>1. 1 \in 0 .. n
    OBVIOUS
  <2>2. Pow2(1) = 2
    BY PowerTable
  <2>3. IsLevel(Pow2(1), real, N, n)
    BY <1>1, <2>1, Level
  <2> QED
    BY <2>2, <2>3, Zenon DEF IsLevel
<1>6. T[0].reads \subseteq C
  <2>1. {0} \in SUBSET (0 .. 1 - 1) /\ {1} \in SUBSET (0 .. 2 - 1)
    BY <1>1
  <2>2. T[0].reads = Cells("layer", {0}, real, n) \cup Cells("layer", {1}, real, n)
    BY <1>3, <1>4, <1>5, <2>1, Zenon
  <2>3. {0} \cup {1} = {0, 1}
    OBVIOUS
  <2> QED
    BY <2>2, <2>3, CellsSplit
<1>7. At_(T[0].writes) \subseteq C
  <2>1. 0 \in {0, 1} /\ 0 \in 0 .. 2 - 1
    OBVIOUS
  <2>2. At_(T[0].writes) = Cell("layer", 0, real, n)
    BY <1>3, <1>5, <2>1, Zenon
  <2> QED
    BY <2>1, <2>2, CellOf, Zenon
<1>8. C \subseteq InBuffer("layer", real)
  <2>1. {0, 1} \subseteq Nat
    OBVIOUS
  <2> QED
    BY <1>1, <2>1, CellsIn DEF InBuffer
<1> HIDE DEF C
<1>9. Sound(Kernel(FALSE, T), InBuffer("layer", real))
  <2>1. \A i, j \in DOMAIN T : i = j
    BY <1>2, Zenon
  <2>2. \A i \in DOMAIN T : /\ T[i].reads \subseteq InBuffer("layer", real)
                            /\ At_(T[i].writes) \subseteq InBuffer("layer", real)
    BY <1>2, <1>6, <1>7, <1>8, Zenon
  <2> QED
    BY <2>1, <2>2, OneThread, Zenon
<1> QED
  BY <1>2, <1>9, Zenon DEF K

LEMMA Quarters ==
  ASSUME NEW q \in Nat \ {0}, NEW i \in 0 .. q - 1
  PROVE  /\ i \in 0 .. (2 * q) - 1 /\ i + q \in 0 .. (2 * q) - 1
         /\ i \in 0 .. (4 * q) - 1 /\ i + q \in 0 .. (4 * q) - 1
         /\ i + (2 * q) \in 0 .. (4 * q) - 1 /\ (i + q) + (2 * q) \in 0 .. (4 * q) - 1
  OBVIOUS

Reverts(t, i, q, h, real, N) ==
  /\ t.reads = Reads("layer", {i, i + q}, h, real, N)
                 \cup Reads("layer", {j + h : j \in {i, i + q}}, 2 * h, real, N)
  /\ \E W : /\ t.writes = UNION W
            /\ \A A \in W : \E j \in {i, i + q} : \E v :
                 A = virtual_node_store("layer", j, 2 * h, real, N, v)

(* The first launch of a round: it reverts the layer of h parents.          *)
LEMMA RevertLayer ==
  ASSUME NEW n \in 0 .. 31, NEW N, N = Pow2(n), NEW k \in 1 .. n - 1,
         NEW h, h = Pow2(k), NEW q, q = Pow2(k - 1), NEW real \in Nat,
         NEW T, DOMAIN T = 0 .. q - 1,
         \A i \in 0 .. q - 1 : Reverts(T[i], i, q, h, real, N)
  PROVE  Sound(Kernel(FALSE, T), InBuffer("layer", real))
<1> DEFINE size == 2 * h
           k1 == k + 1
           RD == [i \in 0 .. q - 1 |-> {i, i + q, i + h, i + q + h}]
           WD == [i \in 0 .. q - 1 |-> {i, i + q}]
<1>1. /\ k \in 0 .. n /\ k1 \in 0 .. n /\ q \in Nat \ {0} /\ h = 2 * q
      /\ size = Pow2(k1) /\ size <= N /\ N \in Nat
  <2>1. k - 1 \in 0 .. 30 /\ (k - 1) + 1 = k /\ k \in 0 .. 30 /\ k1 \in 0 .. 31 /\ k1 <= n
    OBVIOUS
  <2>2. N \in Nat /\ Pow2(k1) = 2 * Pow2(k)
    BY <2>1, Power, Double
  <2>5. q \in Nat \ {0}
    <3>1. k - 1 \in 0 .. 31
      BY <2>1
    <3> QED
      BY <3>1, Power
  <2>4. Pow2(k) = 2 * Pow2(k - 1)
    BY <2>1, Double
  <2>3. Pow2(k1) <= Pow2(n)
    BY <2>1, PowerGrows
  <2> QED
    BY <2>1, <2>2, <2>3, <2>4, <2>5
<1> HIDE DEF size, k1
<1>2. \A D \in SUBSET (0 .. h - 1) : \A b : Reads(b, D, h, real, N) = Cells(b, D, real, n)
  <2>1. IsLevel(h, real, N, n)
    BY <1>1, Level
  <2> QED
    BY <2>1, Zenon DEF IsLevel
<1>3. /\ \A D \in SUBSET (0 .. size - 1) : \A b : Reads(b, D, size, real, N) = Cells(b, D, real, n)
      /\ \A d \in 0 .. size - 1 : \A b, v :
           At_(virtual_node_store(b, d, size, real, N, v)) = Cell(b, d, real, n)
  <2>1. IsLevel(size, real, N, n)
    BY <1>1, Level
  <2> QED
    BY <2>1, Zenon DEF IsLevel
<1>4. ASSUME NEW i \in 0 .. q - 1
      PROVE  OnNodes(T[i], RD[i], WD[i], real, n)
  <2> DEFINE U == {i, i + q}  V == {j + h : j \in U}
  <2>0. /\ i \in 0 .. h - 1 /\ i + q \in 0 .. h - 1 /\ i \in 0 .. size - 1 /\ i + q \in 0 .. size - 1
        /\ i + h \in 0 .. size - 1 /\ i + q + h \in 0 .. size - 1
    <3>1. size = 4 * q /\ h = 2 * q
      BY <1>1 DEF size
    <3>2. q \in Nat \ {0}
      BY <1>1
    <3> QED
      BY <3>1, <3>2, Quarters, Zenon
  <2>1. /\ U \in SUBSET (0 .. h - 1) /\ V \in SUBSET (0 .. size - 1) /\ U \in SUBSET (0 .. size - 1)
        /\ U \cup V \subseteq 0 .. N - 1 /\ V = {i + h, i + q + h}
    <3>1. 0 .. size - 1 \subseteq 0 .. N - 1
      <4>1. size \in Nat /\ N \in Nat /\ size <= N
        BY <1>1 DEF size
      <4> HIDE DEF U, V, RD, WD
      <4> QED
        BY <4>1
    <3> QED
      BY <2>0, <3>1
  <2>2. RD[i] = U \cup V /\ WD[i] = U
    BY <2>1
  <2>3. T[i].reads = Reads("layer", U, h, real, N) \cup Reads("layer", V, size, real, N)
    BY DEF size, Reverts
  <2>4. PICK W : /\ T[i].writes = UNION W
                 /\ \A A \in W : \E j \in U : \E v :
                      A = virtual_node_store("layer", j, size, real, N, v)
    BY DEF size, Reverts
  <2> HIDE DEF RD, WD, U, V
  <2>5. T[i].reads = Cells("layer", U, real, n) \cup Cells("layer", V, real, n)
    <3>1. Reads("layer", U, h, real, N) = Cells("layer", U, real, n)
      BY <1>2, <2>1, Zenon
    <3>2. Reads("layer", V, size, real, N) = Cells("layer", V, real, n)
      BY <1>3, <2>1, Zenon
    <3> QED
      BY <2>3, <3>1, <3>2, Zenon
  <2>6. T[i].reads \subseteq Cells("layer", RD[i], real, n)
    BY <2>2, <2>5, CellsSplit
  <2>7. ASSUME NEW A \in W
        PROVE  At_(A) \subseteq Cells("layer", U, real, n)
    <3>5. PICK j \in U : \E v : A = virtual_node_store("layer", j, size, real, N, v)
      BY <2>4, Zenon
    <3>1. PICK v : A = virtual_node_store("layer", j, size, real, N, v)
      BY <3>5, Zenon
    <3>2. j \in 0 .. size - 1
      BY <2>1
    <3>3. At_(A) = Cell("layer", j, real, n)
      BY <1>3, <3>1, <3>2, Zenon
    <3>4. Cell("layer", j, real, n) \subseteq Cells("layer", U, real, n)
      BY CellOf
    <3> QED
      BY <3>3, <3>4, Zenon
  <2>8. At_(T[i].writes) \subseteq Cells("layer", WD[i], real, n)
    <3>1. \A A \in W : At_(A) \subseteq Cells("layer", U, real, n)
      BY <2>7
    <3>2. At_(UNION W) \subseteq Cells("layer", U, real, n)
      BY <3>1, StoresIn, Zenon
    <3> QED
      BY <2>2, <2>4, <3>2, Zenon
  <2>9. RD[i] \subseteq 0 .. Pow2(n) - 1 /\ WD[i] \subseteq 0 .. Pow2(n) - 1
    BY <2>1, <2>2
  <2> QED
    BY <2>6, <2>8, <2>9, Zenon DEF OnNodes
<1>5. ASSUME NEW i \in 0 .. q - 1, NEW j \in 0 .. q - 1, i # j
      PROVE  WD[i] \cap WD[j] = {} /\ WD[i] \cap RD[j] = {}
  <2> HIDE DEF RD, WD
  <2>1. RD[j] = {j, j + q, j + h, j + q + h} /\ WD[j] = {j, j + q} /\ WD[i] = {i, i + q}
    BY Zenon DEF RD, WD
  <2> QED
    BY <1>1, <1>5, <2>1
<1> HIDE DEF RD, WD
<1>6. /\ \A i \in DOMAIN T : OnNodes(T[i], RD[i], WD[i], real, n)
      /\ \A i, j \in DOMAIN T : i # j => WD[i] \cap WD[j] = {} /\ WD[i] \cap RD[j] = {}
  BY <1>4, <1>5
<1> QED
  BY <1>6, NodesApart, Zenon

LEMMA BitReversal ==
  ASSUME NEW n \in 0 .. 31, NEW N, N = Pow2(n), NEW m
  PROVE  Sound(bit_rev_frac_ext(m, N), InBuffer("layer", N))
<1> DEFINE K == bit_rev_frac_ext(m, N)
           T == K.threads
           x == [i \in 0 .. N - 1 |-> Rev(i, N)]
           P == [i \in 0 .. N - 1 |->
                   IF i > x[i] THEN {} ELSE {<<"layer", i>>, <<"layer", x[i]>>}]
<1>1. \A i \in 0 .. N - 1 : x[i] \in 0 .. N - 1 /\ x[x[i]] = i
  <2>1. N \in Nat /\ \A i \in 0 .. N - 1 : i \in Nat
    BY Power
  <2>2. \A i \in 0 .. N - 1 : Rev(i, N) \in 0 .. N - 1
    BY <2>1, RevRange
  <2>3. \A i \in 0 .. N - 1 : Rev(Rev(i, N), N) = i
    BY RevTwice
  <2> QED
    BY <2>2, <2>3, Zenon
<1>2. N \in Nat
  BY Power
<1>3. K = Kernel(FALSE, T) /\ DOMAIN T = 0 .. N - 1
  BY DEF bit_rev_frac_ext, Kernel
<1>4. \A i \in 0 .. N - 1 : T[i].reads = P[i] /\ At_(T[i].writes) = P[i]
  <2> TAKE i \in 0 .. N - 1
  <2>1. T[i] = IF i > Rev(i, N) THEN [reads |-> {}, writes |-> {}]
               ELSE [reads |-> {<<"layer", i>>, <<"layer", Rev(i, N)>>},
                     writes |-> {[at |-> <<"layer", i>>, v |-> Load(m, "layer", Rev(i, N))],
                                 [at |-> <<"layer", Rev(i, N)>>, v |-> Load(m, "layer", i)]}]
    BY DEF bit_rev_frac_ext, Kernel
  <2>2. P[i] = IF i > Rev(i, N) THEN {} ELSE {<<"layer", i>>, <<"layer", Rev(i, N)>>}
    BY Zenon
  <2> HIDE DEF P, T, K, x
  <2>3. CASE i > Rev(i, N)
    BY <2>1, <2>2, <2>3 DEF At_
  <2>4. CASE ~(i > Rev(i, N))
    <3> DEFINE a == <<"layer", i>>  b == <<"layer", Rev(i, N)>>
               u == Load(m, "layer", Rev(i, N))  v == Load(m, "layer", i)
    <3> HIDE DEF a, b, u, v
    <3>1. T[i] = [reads |-> {a, b}, writes |-> {[at |-> a, v |-> u], [at |-> b, v |-> v]}]
      BY <2>1, <2>4, Zenon DEF a, b, u, v
    <3>2. P[i] = {a, b}
      BY <2>2, <2>4, Zenon DEF a, b
    <3> QED
      BY <3>1, <3>2 DEF At_
  <2> QED
    BY <2>3, <2>4
<1> HIDE DEF K, T, x
<1>5. ASSUME NEW i \in 0 .. N - 1
      PROVE  P[i] \subseteq InBuffer("layer", N)
  BY <1>1, <1>2 DEF InBuffer
<1>6. ASSUME NEW i \in 0 .. N - 1, NEW j \in 0 .. N - 1, i # j
      PROVE  P[i] \cap P[j] = {}
  <2>1. CASE i > x[i] \/ j > x[j]
    BY <2>1
  <2>2. CASE ~(i > x[i]) /\ ~(j > x[j])
    <3>1. i <= x[i] /\ j <= x[j] /\ x[i] \in Int /\ x[j] \in Int
      BY <1>1, <1>2, <2>2
    <3>2. x[i] # x[j]
      BY <1>1, <1>6, Zenon
    <3>3. i = x[j] => x[i] = j
      BY <1>1, Zenon
    <3>4. j = x[i] => x[j] = i
      BY <1>1, Zenon
    <3>5. i # x[j] /\ j # x[i]
      BY <1>2, <1>6, <3>1, <3>3, <3>4
    <3>6. P[i] = {<<"layer", i>>, <<"layer", x[i]>>} /\ P[j] = {<<"layer", j>>, <<"layer", x[j]>>}
      BY <2>2
    <3> HIDE DEF P
    <3> QED
      BY <1>6, <3>2, <3>5, <3>6
  <2> QED
    BY <2>1, <2>2
<1> HIDE DEF P
<1>7. \A i \in DOMAIN T : /\ T[i].reads \subseteq InBuffer("layer", N)
                          /\ At_(T[i].writes) \subseteq InBuffer("layer", N)
  BY <1>3, <1>4, <1>5, Zenon
<1>8. \A i, j \in DOMAIN T : i # j => /\ At_(T[i].writes) \cap At_(T[j].writes) = {}
                                      /\ At_(T[i].writes) \cap T[j].reads = {}
  <2> SUFFICES ASSUME NEW i \in DOMAIN T, NEW j \in DOMAIN T, i # j
               PROVE  /\ At_(T[i].writes) \cap At_(T[j].writes) = {}
                      /\ At_(T[i].writes) \cap T[j].reads = {}
    OBVIOUS
  <2>1. i \in 0 .. N - 1 /\ j \in 0 .. N - 1
    BY <1>3
  <2>2. P[i] \cap P[j] = {}
    BY <1>6, <2>1
  <2>3. At_(T[i].writes) = P[i] /\ At_(T[j].writes) = P[j] /\ T[j].reads = P[j]
    BY <1>4, <2>1
  <2> QED
    BY <2>2, <2>3
<1>9. Sound(Kernel(FALSE, T), InBuffer("layer", N))
  BY <1>7, <1>8, KeptApart, Zenon
<1> QED
  BY <1>3, <1>9, Zenon DEF K

LEMMA AlphaAdded ==
  ASSUME NEW n \in 1 .. 31, NEW N, N = Pow2(n), NEW m
  PROVE  Sound(frac_add_alpha(m, N), InBuffer("layer", N))
<1> DEFINE K == frac_add_alpha(m, N)
           T == K.threads
           h == N \div 2
           P == [i \in 0 .. h - 1 |-> {<<"layer", h + i>>}]
<1>1. h \in Nat /\ N = 2 * h
  <2>1. n \in 0 .. 31 /\ n \in 1 .. n
    OBVIOUS
  <2> QED
    BY <2>1, Halves
<1>2. K = Kernel(FALSE, T) /\ DOMAIN T = 0 .. h - 1
  BY DEF frac_add_alpha, Kernel
<1>3. \A i \in 0 .. h - 1 : T[i].reads = P[i] /\ At_(T[i].writes) = P[i]
  <2> TAKE i \in 0 .. h - 1
  <2>1. T[i] = [reads |-> {<<"layer", h + i>>},
                writes |-> {[at |-> <<"layer", h + i>>,
                             v |-> WithAlpha(Load(m, "layer", <<"layer", h + i>>[2]))]}]
    BY Zenon DEF frac_add_alpha, Kernel
  <2>2. P[i] = {<<"layer", h + i>>}
    BY Zenon
  <2> DEFINE a == <<"layer", h + i>>  u == WithAlpha(Load(m, "layer", <<"layer", h + i>>[2]))
  <2> HIDE DEF P, T, K, a, u
  <2>3. T[i] = [reads |-> {a}, writes |-> {[at |-> a, v |-> u]}] /\ P[i] = {a}
    BY <2>1, <2>2, Zenon DEF a, u
  <2> QED
    BY <2>3 DEF At_
<1> HIDE DEF K, T, h
<1>4. \A i \in 0 .. h - 1 : P[i] \subseteq InBuffer("layer", N)
  BY <1>1 DEF InBuffer
<1>5. \A i, j \in 0 .. h - 1 : i # j => P[i] \cap P[j] = {}
  BY <1>1
<1> HIDE DEF P
<1>6. \A i \in DOMAIN T : /\ T[i].reads \subseteq InBuffer("layer", N)
                          /\ At_(T[i].writes) \subseteq InBuffer("layer", N)
  BY <1>2, <1>3, <1>4, Zenon
<1>7. \A i, j \in DOMAIN T : i # j => /\ At_(T[i].writes) \cap At_(T[j].writes) = {}
                                      /\ At_(T[i].writes) \cap T[j].reads = {}
  BY <1>2, <1>3, <1>5, Zenon
<1>8. Sound(Kernel(FALSE, T), InBuffer("layer", N))
  BY <1>6, <1>7, KeptApart, Zenon
<1> QED
  BY <1>2, <1>8, Zenon DEF K

LEMMA VirtualLeaves ==
  ASSUME NEW n \in 1 .. 31, NEW N, N = Pow2(n), NEW real \in Nat, NEW m
  PROVE  Sound(build_virtual_leaves(m, real, N), InBuffer("layer", real))
<1> DEFINE K == build_virtual_leaves(m, real, N)
           T == K.threads
           h == N \div 2
           WD == [i \in 0 .. h - 1 |-> {i, i + h}]
<1>0. n \in 0 .. 31 /\ n \in 0 .. n /\ n - 1 \in 0 .. n /\ n \in 1 .. n
  OBVIOUS
<1>1. h \in Nat \ {0} /\ N = 2 * h /\ h = Pow2(n - 1) /\ N \in Nat
  BY <1>0, Halves
<1>2. K = Kernel(TRUE, T) /\ DOMAIN T = 0 .. h - 1
  BY DEF build_virtual_leaves, Kernel
<1>3. ASSUME NEW i \in 0 .. h - 1
      PROVE  /\ \E D : T[i].reads = {<<"layer", s>> : s \in D \cap 0 .. real - 1}
             /\ \E u, v : \/ T[i].writes = virtual_node_store("layer", i, h, real, N, u)
                               \cup virtual_node_store("layer", i + h, N, real, N, v)
                          \/ T[i].writes = virtual_node_store("layer", i, h, real, N, u) \cup {}
  <2> DEFINE s == 2 * Rev(i, h)
             leaf(z) == IF z < real THEN Load(m, "layer", z) ELSE Raw(real, real)
             u == frac_add(WithAlpha(leaf(s)), WithAlpha(leaf(s + 1)), real)
             v == WithAlpha(leaf(s + 1))
  <2>1. T[i] = [reads |-> {<<"layer", x>> : x \in {s, s + 1} \cap 0 .. real - 1},
                writes |-> virtual_node_store("layer", i, h, real, N, u)
                   \cup IF s + 1 < real THEN virtual_node_store("layer", i + h, N, real, N, v)
                        ELSE {}]
    BY Zenon DEF build_virtual_leaves, Kernel
  <2> DEFINE A == {<<"layer", x>> : x \in {s, s + 1} \cap 0 .. real - 1}
             B == virtual_node_store("layer", i, h, real, N, u)
                    \cup IF s + 1 < real THEN virtual_node_store("layer", i + h, N, real, N, v)
                         ELSE {}
  <2> HIDE DEF T, K, u, v, s, A, B
  <2>2. T[i] = [reads |-> A, writes |-> B]
    BY <2>1, Zenon DEF A, B
  <2>3. T[i].reads = A /\ T[i].writes = B
    BY <2>2
  <2>4. \E D : A = {<<"layer", x>> : x \in D \cap 0 .. real - 1}
    BY Zenon DEF A
  <2>5. \/ B = virtual_node_store("layer", i, h, real, N, u)
             \cup virtual_node_store("layer", i + h, N, real, N, v)
        \/ B = virtual_node_store("layer", i, h, real, N, u) \cup {}
    BY Zenon DEF B
  <2> QED
    BY <2>3, <2>4, <2>5, Zenon
<1> HIDE DEF K, T, h
<1>4. IsLevel(h, real, N, n) /\ IsLevel(N, real, N, n)
  <2>1. IsLevel(h, real, N, n)
    BY <1>0, <1>1, Level
  <2>2. IsLevel(N, real, N, n)
    BY <1>0, Level
  <2> QED
    BY <2>1, <2>2
<1>5. ASSUME NEW i \in 0 .. h - 1
      PROVE  /\ T[i].reads \subseteq InBuffer("layer", real)
             /\ At_(T[i].writes) \subseteq Cells("layer", WD[i], real, n)
  <2>1. T[i].reads \subseteq InBuffer("layer", real)
    BY <1>3 DEF InBuffer
  <2>2. WD[i] = {i, i + h} /\ i \in WD[i] /\ i + h \in WD[i]
    OBVIOUS
  <2>3. i \in 0 .. h - 1 /\ i + h \in 0 .. N - 1
    BY <1>1
  <2> HIDE DEF WD
  <2>4. PICK u, v : \/ T[i].writes = virtual_node_store("layer", i, h, real, N, u)
                          \cup virtual_node_store("layer", i + h, N, real, N, v)
                    \/ T[i].writes = virtual_node_store("layer", i, h, real, N, u) \cup {}
    BY <1>3, Zenon
  <2> DEFINE X == virtual_node_store("layer", i, h, real, N, u)
             Y == virtual_node_store("layer", i + h, N, real, N, v)
  <2>5. At_(X) = Cell("layer", i, real, n) /\ At_(Y) = Cell("layer", i + h, real, n)
    BY <1>4, <2>3, Zenon DEF IsLevel
  <2>6. T[i].writes = X \cup Y \/ T[i].writes = X
    BY <2>4
  <2> HIDE DEF X, Y
  <2>7. At_(T[i].writes) \subseteq At_(X) \cup At_(Y)
    BY <2>6, StoreUnion
  <2>8. At_(X) \subseteq Cells("layer", WD[i], real, n) /\ At_(Y) \subseteq Cells("layer", WD[i], real, n)
    BY <2>2, <2>5, CellOf, Zenon
  <2> QED
    BY <2>1, <2>7, <2>8, Zenon
<1>6. ASSUME NEW i \in 0 .. h - 1, NEW j \in 0 .. h - 1, i # j
      PROVE  WD[i] \cap WD[j] = {}
  BY <1>1, <1>6
<1>7. ASSUME NEW i \in 0 .. h - 1
      PROVE  WD[i] \in SUBSET (0 .. N - 1) /\ WD[i] \in SUBSET Nat
  BY <1>1
<1> HIDE DEF WD
<1>8. \A i \in DOMAIN T : /\ T[i].reads \subseteq InBuffer("layer", real)
                          /\ At_(T[i].writes) \subseteq InBuffer("layer", real)
  <2> SUFFICES ASSUME NEW i \in 0 .. h - 1
               PROVE  /\ T[i].reads \subseteq InBuffer("layer", real)
                      /\ At_(T[i].writes) \subseteq InBuffer("layer", real)
    BY <1>2
  <2>1. Cells("layer", WD[i], real, n) \subseteq InBuffer("layer", real)
    BY <1>0, <1>7, CellsIn DEF InBuffer
  <2> QED
    BY <1>5, <2>1, Zenon
<1>9. \A i, j \in DOMAIN T : i # j => At_(T[i].writes) \cap At_(T[j].writes) = {}
  <2> SUFFICES ASSUME NEW i \in 0 .. h - 1, NEW j \in 0 .. h - 1, i # j
               PROVE  At_(T[i].writes) \cap At_(T[j].writes) = {}
    BY <1>2
  <2>1. Cells("layer", WD[i], real, n) \cap Cells("layer", WD[j], real, n) = {}
    <3>1. WD[i] \cap WD[j] = {}
      BY <1>6
    <3>2. WD[i] \subseteq 0 .. Pow2(n) - 1 /\ WD[j] \subseteq 0 .. Pow2(n) - 1
      BY <1>7
    <3> QED
      BY <1>0, <3>1, <3>2, CellsApart
  <2> QED
    BY <1>5, <2>1, Zenon
<1>10. Sound(Kernel(TRUE, T), InBuffer("layer", real))
  BY <1>8, <1>9, KeptApartByBarrier, Zenon
<1> QED
  BY <1>2, <1>10, Zenon DEF K

-----------------------------------------------------------------------------
(* Tiles.                                                                   *)

(* The lowest a bits become the highest, the rest is reversed below them.   *)
LEMMA RevSplit ==
  ASSUME NEW a \in 0 .. 31, NEW b \in 0 .. 31, a + b <= 31, NEW d \in Nat
  PROVE  Rev(d, Pow2(a + b)) = (Rev(d, Pow2(a)) * Pow2(b)) + Rev(d \div Pow2(a), Pow2(b))
<1> DEFINE u == d \div Pow2(a)  v == d % Pow2(a)
           Holds(i) == Rev(d, Pow2(a + i)) = (Rev(d, Pow2(a)) * Pow2(i)) + Rev(u, Pow2(i))
           S == {i \in 0 .. b : Holds(i)}
<1>1. u \in Nat /\ v \in 0 .. Pow2(a) - 1 /\ d = (u * Pow2(a)) + v
  <2>1. Pow2(a) \in Nat \ {0}
    BY Power
  <2> QED
    BY <2>1, Euclid
<1> HIDE DEF u, v
<1>2. \A i \in 0 .. 31 : Pow2(i) \in Nat \ {0} /\ Rev(d, Pow2(i)) \in Nat /\ Rev(u, Pow2(i)) \in Nat
  <2> SUFFICES ASSUME NEW i \in 0 .. 31
               PROVE  Pow2(i) \in Nat \ {0} /\ Rev(d, Pow2(i)) \in Nat /\ Rev(u, Pow2(i)) \in Nat
    OBVIOUS
  <2>1. Pow2(i) \in Nat \ {0}
    BY Power
  <2>2. Rev(d, Pow2(i)) \in 0 .. Pow2(i) - 1
    BY RevRange
  <2>3. Rev(u, Pow2(i)) \in 0 .. Pow2(i) - 1
    BY <1>1, RevRange
  <2> QED
    BY <2>1, <2>2, <2>3
<1>3. 0 \in S
  <2>1. a + 0 = a /\ Pow2(0) = 1 /\ Rev(u, Pow2(0)) = 0 /\ Rev(d, Pow2(a)) \in Nat
    BY <1>1, <1>2, RevSteps, Doubles
  <2> DEFINE x == Rev(d, Pow2(a))
  <2>2. x = (x * 1) + 0
    <3> HIDE DEF x
    <3>1. x \in Nat
      BY <2>1 DEF x
    <3> QED
      BY <3>1
  <2>3. Holds(0)
    BY <2>1, <2>2, Zenon
  <2>4. 0 \in 0 .. b
    OBVIOUS
  <2> HIDE DEF Holds
  <2> QED
    BY <2>3, <2>4
<1>4. ASSUME NEW i \in 1 .. b, i - 1 \in S
      PROVE  i \in S
  <2> DEFINE j == i - 1  e == a + j
             x == Rev(d, Pow2(a))  p == Pow2(j)  y == Rev(u, p)  z == Bit(d, e)
             q == u \div p  w == u % p
  <2>1. /\ j \in 0 .. 30 /\ j + 1 = i /\ e \in 0 .. 30 /\ e + 1 = a + i /\ j \in 0 .. 31
        /\ e \in 0 .. 31
    OBVIOUS
  <2>2. x \in Nat /\ p \in Nat \ {0} /\ y \in Nat
    BY <1>2, <2>1
  <2>3. Rev(d, Pow2(e)) = (x * p) + y
    BY <1>4
  <2> HIDE DEF j, e, S, Holds
  <2>4. Rev(d, Pow2(a + i)) = 2 * Rev(d, Pow2(e)) + z
    <3>1. Rev(d, Pow2(e + 1)) = 2 * Rev(d, Pow2(e)) + z
      BY <2>1, RevSteps
    <3> QED
      BY <2>1, <3>1, Zenon
  <2>5. Rev(u, Pow2(i)) = 2 * y + Bit(u, j)
    <3>1. Rev(u, Pow2(j + 1)) = 2 * Rev(u, Pow2(j)) + Bit(u, j)
      BY <1>1, <2>1, RevSteps
    <3> QED
      BY <2>1, <3>1, Zenon
  <2>6. Pow2(i) = 2 * p
    <3>1. Pow2(j + 1) = 2 * Pow2(j)
      BY <2>1, Double
    <3> QED
      BY <2>1, <3>1, Zenon
  <2>7. z = Bit(u, j)
    <3> DEFINE c == Pow2(a)  g == Pow2(e)  t == (w * c) + v
    <3>1. g = p * c /\ c \in Nat \ {0} /\ g \in Nat \ {0}
      <4>1. Pow2(a + j) = Pow2(a) * Pow2(j)
        <5>1. a + j <= 31
          BY <2>1 DEF e
        <5> QED
          BY <2>1, <5>1, PowerSum
      <4>2. c \in Nat \ {0} /\ g \in Nat \ {0}
        BY <1>2, <2>1
      <4>3. c * p = p * c
        <5> HIDE DEF c, p
        <5> QED
          BY <2>2, <4>2
      <4> QED
        BY <4>1, <4>2, <4>3 DEF e
    <3>2. q \in Nat /\ w \in 0 .. p - 1 /\ u = (q * p) + w
      BY <1>1, <2>2, Euclid
    <3>3. v \in 0 .. c - 1 /\ d = (u * c) + v
      BY <1>1
    <3> HIDE DEF p, q, w, c, g
    <3>4. t \in 0 .. (p * c) - 1
      BY <2>2, <3>1, <3>2, <3>3, SplitBelow
    <3>5. d = (q * g) + t
      <4>1. ((q * p) + w) * c = (q * (p * c)) + (w * c)
        BY <2>2, <3>1, <3>2
      <4> QED
        BY <3>1, <3>2, <3>3, <4>1
    <3> HIDE DEF t
    <3>6. d \div g = q
      BY <3>1, <3>2, <3>4, <3>5, Digits
    <3> QED
      BY <3>6, Zenon DEF Bit, z, q, p, g, u
  <2>8. z \in 0 .. 1
    BY <2>1, BitRange
  <2> HIDE DEF x, p, y, z
  <2>9. 2 * ((x * p) + y) + z = (x * (2 * p)) + (2 * y + z)
    BY <2>2, <2>8
  <2>10. Rev(d, Pow2(a + i)) = (x * Pow2(i)) + Rev(u, Pow2(i))
    BY <2>3, <2>4, <2>5, <2>6, <2>7, <2>9
  <2>11. Holds(i)
    BY <2>10, Zenon DEF Holds, x
  <2> QED
    BY <2>11 DEF S
<1> HIDE DEF S, Holds
<1>5. b \in S
  <2>1. \A i \in 1 .. b : i - 1 \in S => i \in S
    BY <1>4
  <2>2. b \in Nat /\ b \in 0 .. b
    OBVIOUS
  <2> QED
    BY <1>3, <2>1, <2>2, UpTo
<1>6. Holds(b)
  BY <1>5, Zenon DEF S
<1> QED
  BY <1>6, Zenon DEF Holds, u

(* A slot of tile g, and its reversal.                                      *)
TileSlot(i, g, x, step) == (i * step) + ((g * 8) + x)

TileMoves(i, g, x, step, groups, N) ==
  /\ TileSlot(i, g, x, step) \in 0 .. N - 1
  /\ (TileSlot(i, g, x, step) % step) \div 8 = g
  /\ Rev(g, groups) \in 0 .. groups - 1
  /\ \E i2, x2 \in 0 .. 7 :
       Rev(TileSlot(i, g, x, step), N) = TileSlot(i2, Rev(g, groups), x2, step)

LEMMA RevTile ==
  ASSUME NEW n \in 6 .. 31, NEW N, N = Pow2(n), NEW step, step = Pow2(n - 3),
         NEW groups, groups = Pow2(n - 6),
         NEW i \in 0 .. 7, NEW g \in 0 .. groups - 1, NEW x \in 0 .. 7
  PROVE  TileMoves(i, g, x, step, groups, N)
<1> DEFINE e == n - 6  f == n - 3  c == (i * groups) + g
           p == (i * step) + ((g * 8) + x)
<1>1. /\ e \in 0 .. 31 /\ f \in 0 .. 31 /\ 3 \in 0 .. 31 /\ e + 3 = f /\ 3 + f = n /\ e <= 31
      /\ e + 3 <= 31 /\ 3 + f <= 31 /\ f + 3 = n
  OBVIOUS
<1>2. groups \in Nat \ {0} /\ step \in Nat \ {0} /\ g \in Nat
  <2>1. groups \in Nat \ {0} /\ step \in Nat \ {0}
    BY <1>1, Power
  <2> QED
    BY <2>1
<1>3. step = groups * 8 /\ N = 8 * step
  <2>1. Pow2(3) = 8
    BY PowerTable
  <2>2. Pow2(e + 3) = Pow2(e) * Pow2(3)
    BY <1>1, PowerSum
  <2>3. Pow2(3 + f) = Pow2(3) * Pow2(f)
    BY <1>1, PowerSum
  <2> QED
    BY <1>1, <2>1, <2>2, <2>3, Zenon
<1>4. (g * 8) + x \in 0 .. step - 1
  <2>1. 8 \in Nat \ {0} /\ x \in 0 .. 8 - 1 /\ groups \in Nat
    BY <1>2
  <2>2. (g * 8) + x \in 0 .. (groups * 8) - 1
    BY <2>1, SplitBelow
  <2> QED
    BY <1>3, <2>2, Zenon
<1>5. p \in 0 .. N - 1
  <2> DEFINE y == (g * 8) + x
  <2>1. step \in Nat \ {0} /\ 8 \in Nat /\ i \in 0 .. 8 - 1
    BY <1>2
  <2>2. y \in 0 .. step - 1
    BY <1>4
  <2> HIDE DEF y
  <2>3. (i * step) + y \in 0 .. (8 * step) - 1
    BY <2>1, <2>2, SplitBelow
  <2> QED
    BY <1>3, <2>3, Zenon DEF y
<1>6. p % step = (g * 8) + x
  <2> DEFINE y == (g * 8) + x
  <2>1. step \in Nat \ {0} /\ i \in Nat
    BY <1>2
  <2>2. y \in 0 .. step - 1
    BY <1>4
  <2> HIDE DEF y
  <2>3. ((i * step) + y) % step = y
    BY <2>1, <2>2, Digits
  <2> QED
    BY <2>3, Zenon DEF y
<1>7. ((g * 8) + x) \div 8 = g
  <2>1. 8 \in Nat \ {0} /\ x \in 0 .. 8 - 1
    OBVIOUS
  <2> QED
    BY <1>2, <2>1, Digits
<1>8. Rev(g, groups) \in 0 .. groups - 1
  BY <1>1, <1>2, RevRange
<1>9. Rev(p, N) = (Rev(p, 8) * step) + Rev(p \div 8, step)
  <2>1. p \in Nat
    BY <1>2, <1>3, <1>5
  <2>2. Rev(p, Pow2(3 + f)) = (Rev(p, Pow2(3)) * Pow2(f)) + Rev(p \div Pow2(3), Pow2(f))
    BY <1>1, <2>1, RevSplit
  <2>3. Pow2(3) = 8 /\ Pow2(3 + f) = N /\ Pow2(f) = step
    BY <1>1, PowerTable
  <2> QED
    BY <2>2, <2>3, Zenon
<1>10. p \div 8 = c /\ c \in Nat
  <2>1. c \in Nat
    BY <1>2
  <2>2. (i * (groups * 8)) + ((g * 8) + x) = (c * 8) + x
    BY <1>2
  <2>3. 8 \in Nat \ {0} /\ x \in 0 .. 8 - 1
    OBVIOUS
  <2> HIDE DEF c
  <2>4. ((c * 8) + x) \div 8 = c
    BY <2>1, <2>3, Digits
  <2> QED
    BY <1>3, <2>1, <2>2, <2>4
<1>11. Rev(c, step) = (Rev(g, groups) * 8) + Rev(i, 8)
  <2>1. Rev(c, Pow2(e + 3)) = (Rev(c, Pow2(e)) * Pow2(3)) + Rev(c \div Pow2(e), Pow2(3))
    BY <1>1, <1>10, RevSplit
  <2>2. c \div Pow2(e) = i
    <3>1. i \in Nat /\ g \in 0 .. groups - 1
      OBVIOUS
    <3>2. ((i * groups) + g) \div groups = i
      BY <1>2, <3>1, Digits
    <3> QED
      BY <3>2
  <2>3. Rev(c, Pow2(e)) = Rev(g, groups)
    <3>1. i \in Nat
      OBVIOUS
    <3>2. Rev((i * Pow2(e)) + g, Pow2(e)) = Rev(g, Pow2(e))
      BY <1>1, <3>1, RevLow
    <3> QED
      BY <3>2
  <2>4. Pow2(3) = 8 /\ Pow2(e + 3) = step /\ Pow2(e) = groups
    BY <1>1, PowerTable
  <2> HIDE DEF c, e
  <2> QED
    BY <2>1, <2>2, <2>3, <2>4, Zenon
<1>12. Rev(p, 8) \in 0 .. 7 /\ Rev(i, 8) \in 0 .. 7
  <2>1. p \in Nat /\ i \in Nat
    BY <1>2, <1>3, <1>5
  <2>2. Pow2(3) = 8 /\ 8 - 1 = 7
    BY PowerTable
  <2>3. Rev(p, Pow2(3)) \in 0 .. Pow2(3) - 1 /\ Rev(i, Pow2(3)) \in 0 .. Pow2(3) - 1
    BY <1>1, <2>1, RevRange
  <2> QED
    BY <2>2, <2>3, Zenon
<1> HIDE DEF c, p
<1>13. Rev(p, N) = (Rev(p, 8) * step) + ((Rev(g, groups) * 8) + Rev(i, 8))
  BY <1>9, <1>10, <1>11, Zenon
<1>14. p = TileSlot(i, g, x, step)
  BY DEF TileSlot, p
<1>15. Rev(p, N) = TileSlot(Rev(p, 8), Rev(g, groups), Rev(i, 8), step)
  BY <1>13, Zenon DEF TileSlot
<1> QED
  BY <1>5, <1>6, <1>7, <1>8, <1>12, <1>14, <1>15, Zenon DEF TileMoves

(* The entry t of tile g, and where it goes.                                *)
Tiled(p, step) == (p % step) \div 8
InTile(t, g, n, step, groups) ==
  /\ t[1] \in 0 .. 7 /\ t[2] \in 0 .. Pow2(n) - 1
  /\ t[2] < (t[1] + 1) * step
  /\ Tiled(t[2], step) = g
  /\ Rev(t[2], Pow2(n)) \in 0 .. Pow2(n) - 1
  /\ Tiled(Rev(t[2], Pow2(n)), step) = Rev(g, groups)

LEMMA TileEntries ==
  ASSUME NEW n \in 6 .. 31, NEW N, N = Pow2(n), NEW step, step = Pow2(n - 3),
         NEW groups, groups = Pow2(n - 6), NEW g \in 0 .. groups - 1,
         NEW i \in 0 .. 7, NEW x \in 0 .. 7
  PROVE  InTile(<<i, ((i * step) + (g * 8)) + x>>, g, n, step, groups)
<1> DEFINE p == TileSlot(i, g, x, step)
<1>1. groups \in Nat \ {0} /\ step \in Nat \ {0} /\ step = groups * 8
  <2>1. n - 6 \in 0 .. 31 /\ n - 3 \in 0 .. 31 /\ 3 \in 0 .. 31 /\ (n - 6) + 3 = n - 3 /\ n - 3 <= 31
    OBVIOUS
  <2>2. groups \in Nat \ {0} /\ step \in Nat \ {0}
    BY <2>1, Power
  <2>3. Pow2((n - 6) + 3) = Pow2(n - 6) * Pow2(3) /\ Pow2(3) = 8
    BY <2>1, PowerSum, PowerTable
  <2> QED
    BY <2>1, <2>2, <2>3, Zenon
<1>2. ((i * step) + (g * 8)) + x = p
  <2> DEFINE a == i * step
  <2>1. a \in Int /\ g \in Int
    BY <1>1
  <2> HIDE DEF a
  <2> QED
    BY <2>1 DEF a, TileSlot
<1>3. p < (i + 1) * step
  <2>1. 8 \in Nat \ {0} /\ x \in 0 .. 8 - 1 /\ groups \in Nat
    BY <1>1
  <2>2. (g * 8) + x \in 0 .. (groups * 8) - 1
    BY <2>1, SplitBelow
  <2>3. (g * 8) + x \in 0 .. step - 1
    BY <1>1, <2>2, Zenon
  <2> DEFINE y == (g * 8) + x
  <2>4. y \in 0 .. step - 1
    BY <2>3
  <2> HIDE DEF y
  <2>5. (i + 1) * step = (i * step) + step /\ i * step \in Int /\ step \in Int
    BY <1>1
  <2>6. (i * step) + y < (i * step) + step
    BY <2>4, <2>5
  <2> QED
    BY <2>5, <2>6, Zenon DEF y, TileSlot
<1> HIDE DEF p
<1>4. /\ TileSlot(i, g, x, step) \in 0 .. N - 1
      /\ (TileSlot(i, g, x, step) % step) \div 8 = g
      /\ Rev(g, groups) \in 0 .. groups - 1
      /\ \E i2, x2 \in 0 .. 7 :
           Rev(TileSlot(i, g, x, step), N) = TileSlot(i2, Rev(g, groups), x2, step)
  <2>1. TileMoves(i, g, x, step, groups, N)
    BY RevTile
  <2> QED
    BY <2>1, Zenon DEF TileMoves
<1>5. PICK i2 \in 0 .. 7, x2 \in 0 .. 7 : Rev(p, N) = TileSlot(i2, Rev(g, groups), x2, step)
  BY <1>4, Zenon DEF p
<1>6. Rev(p, N) \in 0 .. N - 1 /\ Tiled(Rev(p, N), step) = Rev(g, groups)
  <2> DEFINE h == Rev(g, groups)
  <2>1. h \in 0 .. groups - 1 /\ Rev(p, N) = TileSlot(i2, h, x2, step)
    BY <1>4, <1>5
  <2> HIDE DEF h
  <2>2. h \in 0 .. groups - 1
    BY <2>1
  <2>3. /\ TileSlot(i2, h, x2, step) \in 0 .. N - 1
        /\ (TileSlot(i2, h, x2, step) % step) \div 8 = h
    <3>1. TileMoves(i2, h, x2, step, groups, N)
      BY <2>2, RevTile
    <3> QED
      BY <3>1, Zenon DEF TileMoves
  <2> QED
    BY <2>1, <2>3, Zenon DEF h, Tiled
<1> DEFINE t == <<i, ((i * step) + (g * 8)) + x>>
<1>7. t[1] = i /\ t[2] = p
  BY <1>2
<1> HIDE DEF t
<1>8. InTile(t, g, n, step, groups)
  BY <1>3, <1>4, <1>6, <1>7, Zenon DEF InTile, Tiled, p
<1> QED
  BY <1>8 DEF t

(* What the threads of group g move.                                        *)
TileOf(g, step) == {<<i, i * step + g * 8 + c>> : i \in 0 .. 7, c \in 0 .. 7}
Moved(g, step, groups) ==
  IF g > Rev(g, groups) THEN {} ELSE TileOf(g, step) \cup TileOf(Rev(g, groups), step)
OwnTiles(g, groups) == IF g > Rev(g, groups) THEN {} ELSE {g, Rev(g, groups)}
OwnSlots(g, real, step, groups) ==
  {<<"layer", p>> : p \in {q \in 0 .. real - 1 : Tiled(q, step) \in OwnTiles(g, groups)}}

LEMMA OwnSlotsAre ==
  ASSUME NEW g, NEW real, NEW step, NEW groups, NEW p
  PROVE  <<"layer", p>> \in OwnSlots(g, real, step, groups)
           <=> p \in 0 .. real - 1 /\ Tiled(p, step) \in OwnTiles(g, groups)
<1> DEFINE Z == {q \in 0 .. real - 1 : Tiled(q, step) \in OwnTiles(g, groups)}
<1>1. p \in Z <=> p \in 0 .. real - 1 /\ Tiled(p, step) \in OwnTiles(g, groups)
  BY Zenon
<1> HIDE DEF Z
<1>2. <<"layer", p>> \in {<<"layer", q>> : q \in Z} <=> p \in Z
  OBVIOUS
<1> QED
  BY <1>1, <1>2, Zenon DEF OwnSlots, Z

LEMMA TilesApart ==
  ASSUME NEW k \in 0 .. 31, NEW groups, groups = Pow2(k), NEW real, NEW step,
         NEW g \in 0 .. groups - 1, NEW h \in 0 .. groups - 1, g # h
  PROVE  OwnSlots(g, real, step, groups) \cap OwnSlots(h, real, step, groups) = {}
<1> DEFINE x == Rev(g, groups)  y == Rev(h, groups)
<1>1. groups \in Nat
  BY Power
<1>2. g \in Nat /\ h \in Nat
  BY <1>1
<1>3. x \in 0 .. groups - 1 /\ y \in 0 .. groups - 1
  BY <1>2, RevRange
<1>4. Rev(x, groups) = g /\ Rev(y, groups) = h
  BY RevTwice
<1>5. x # y /\ (g = y => x = h) /\ (h = x => y = g)
  BY <1>4, Zenon
<1>6. OwnTiles(g, groups) = IF g > x THEN {} ELSE {g, x}
  BY DEF OwnTiles
<1>7. OwnTiles(h, groups) = IF h > y THEN {} ELSE {h, y}
  BY DEF OwnTiles
<1> HIDE DEF x, y
<1>8. OwnTiles(g, groups) \cap OwnTiles(h, groups) = {}
  <2>1. CASE g > x \/ h > y
    BY <1>6, <1>7, <2>1
  <2>2. CASE g <= x /\ h <= y
    <3>1. g # y /\ h # x
      BY <1>1, <1>2, <1>3, <1>5, <2>2
    <3>2. ~(g > x) /\ ~(h > y)
      BY <1>1, <1>2, <1>3, <2>2
    <3>3. OwnTiles(g, groups) = {g, x} /\ OwnTiles(h, groups) = {h, y}
      BY <1>6, <1>7, <3>2, Zenon
    <3> QED
      BY <1>5, <3>1, <3>3, Zenon
  <2>3. g > x \/ h > y \/ (g <= x /\ h <= y)
    BY <1>1, <1>2, <1>3
  <2> QED
    BY <2>1, <2>2, <2>3
<1>9. ASSUME NEW z \in OwnSlots(g, real, step, groups), z \in OwnSlots(h, real, step, groups)
      PROVE  FALSE
  <2>1. PICK p : z = <<"layer", p>>
    BY Zenon DEF OwnSlots
  <2>2. Tiled(p, step) \in OwnTiles(g, groups) /\ Tiled(p, step) \in OwnTiles(h, groups)
    BY <1>9, <2>1, OwnSlotsAre, Zenon
  <2> QED
    BY <1>8, <2>2, Zenon
<1> QED
  BY <1>9, Zenon

LEMMA MovedEntries ==
  ASSUME NEW n \in 6 .. 31, NEW step, step = Pow2(n - 3), NEW groups, groups = Pow2(n - 6),
         NEW g \in 0 .. groups - 1, NEW t \in Moved(g, step, groups)
  PROVE  \E e \in OwnTiles(g, groups) :
           InTile(t, e, n, step, groups) /\ Rev(e, groups) \in OwnTiles(g, groups)
<1> DEFINE x == Rev(g, groups)
<1>1. x \in 0 .. groups - 1 /\ Rev(x, groups) = g
  <2>1. n - 6 \in 0 .. 31 /\ groups \in Nat
    <3>1. n - 6 \in 0 .. 31
      OBVIOUS
    <3> QED
      BY <3>1, Power
  <2>2. g \in Nat
    BY <2>1
  <2>3. x \in 0 .. groups - 1
    BY <2>1, <2>2, RevRange
  <2>4. Rev(x, groups) = g
    BY <2>1, RevTwice
  <2> QED
    BY <2>3, <2>4
<1>2. /\ OwnTiles(g, groups) = {g, x}
      /\ t \in TileOf(g, step) \/ t \in TileOf(x, step)
  <2>1. ~(g > x)
    BY Zenon DEF Moved
  <2> QED
    BY <2>1, Zenon DEF Moved, OwnTiles
<1> HIDE DEF x
<1>3. ASSUME NEW e \in 0 .. groups - 1, t \in TileOf(e, step)
      PROVE  InTile(t, e, n, step, groups)
  <2>1. PICK i \in 0 .. 7, c \in 0 .. 7 : t = <<i, ((i * step) + (e * 8)) + c>>
    BY <1>3 DEF TileOf
  <2>2. InTile(<<i, ((i * step) + (e * 8)) + c>>, e, n, step, groups)
    BY TileEntries
  <2> QED
    BY <2>1, <2>2, Zenon
<1>4. Rev(g, groups) = x
  BY DEF x
<1> QED
  BY <1>1, <1>2, <1>3, <1>4, Zenon

TileLevel(i, N) == IF i < 2 THEN N \div 4 ELSE IF i < 4 THEN N \div 2 ELSE N

(* The thread of group g, whatever values it stores.                        *)
TileReads(g, step, groups, real) ==
  {<<"layer", t[2]>> : t \in {u \in Moved(g, step, groups) : u[2] < real}}
TileStores(A, g, step, groups, real, N) ==
  \E t \in Moved(g, step, groups) : \E v :
    A = virtual_node_store("layer", t[2], TileLevel(t[1], N), real, N, v)
MovesTiles(th, g, step, groups, real, N) ==
  /\ th.reads = TileReads(g, step, groups, real)
  /\ \E W : /\ th.writes = UNION W
            /\ \A A \in W : TileStores(A, g, step, groups, real, N)

LEMMA TileSizes ==
  ASSUME NEW n \in 6 .. 31, NEW N, N = Pow2(n), NEW step, step = Pow2(n - 3)
  PROVE  /\ N \div 8 = step /\ N \div 64 = Pow2(n - 6)
         /\ N \div 4 = Pow2(n - 2) /\ N \div 2 = Pow2(n - 1)
         /\ N = 8 * step /\ N \div 4 = 2 * step /\ N \div 2 = 4 * step
         /\ N \in Nat /\ step \in Nat \ {0}
<1>1. /\ n \in 0 .. 31 /\ n - 3 \in 0 .. 31 /\ n - 6 \in 0 .. 31 /\ n - 2 \in 0 .. 31 /\ n - 1 \in 0 .. 31
      /\ 1 \in 0 .. 31 /\ 2 \in 0 .. 31 /\ 3 \in 0 .. 31 /\ 6 \in 0 .. 31
      /\ 1 <= n /\ 2 <= n /\ 3 <= n /\ 6 <= n
      /\ (n - 3) + 1 = n - 2 /\ (n - 3) + 2 = n - 1 /\ (n - 3) + 3 = n /\ n - 2 <= 31 /\ n - 1 <= 31 /\ n <= 31
  OBVIOUS
<1>2. Pow2(1) = 2 /\ Pow2(2) = 4 /\ Pow2(3) = 8 /\ Pow2(6) = 64
  BY PowerTable
<1>3. N \div Pow2(3) = Pow2(n - 3) /\ N \div Pow2(6) = Pow2(n - 6)
  BY <1>1, PowerQuotient
<1>4. N \div Pow2(2) = Pow2(n - 2) /\ N \div Pow2(1) = Pow2(n - 1)
  BY <1>1, PowerQuotient
<1>5. Pow2(n - 3) \in Nat \ {0} /\ Pow2(n) \in Nat
  BY <1>1, Power
<1>6. /\ Pow2((n - 3) + 1) = Pow2(n - 3) * Pow2(1)
      /\ Pow2((n - 3) + 2) = Pow2(n - 3) * Pow2(2)
      /\ Pow2((n - 3) + 3) = Pow2(n - 3) * Pow2(3)
  BY <1>1, PowerSum
<1>7. Pow2(n - 2) = Pow2(n - 3) * 2 /\ Pow2(n - 1) = Pow2(n - 3) * 4 /\ Pow2(n) = Pow2(n - 3) * 8
  BY <1>1, <1>2, <1>6, Zenon
<1>8. N \div 8 = Pow2(n - 3) /\ N \div 64 = Pow2(n - 6) /\ N \div 4 = Pow2(n - 2) /\ N \div 2 = Pow2(n - 1)
  BY <1>2, <1>3, <1>4, Zenon
<1> DEFINE s == Pow2(n - 3)
<1>9. s * 2 = 2 * s /\ s * 4 = 4 * s /\ s * 8 = 8 * s
  <2>1. s \in Nat
    BY <1>5
  <2> HIDE DEF s
  <2> QED
    BY <2>1
<1> QED
  BY <1>5, <1>7, <1>8, <1>9, Zenon

(* Its stores fall into its own slots.                                      *)
LEMMA TileStore ==
  ASSUME NEW n \in 6 .. 31, NEW N, N = Pow2(n), NEW step, step = Pow2(n - 3),
         NEW groups, groups = Pow2(n - 6), NEW real \in Nat, NEW v,
         NEW g \in 0 .. groups - 1, NEW t \in Moved(g, step, groups)
  PROVE  At_(virtual_node_store("layer", t[2], TileLevel(t[1], N), real, N, v))
           \subseteq OwnSlots(g, real, step, groups)
<1> DEFINE p == t[2]  i == t[1]  q == Rev(p, N)  h == TileLevel(i, N)
<1>1. PICK e \in OwnTiles(g, groups) :
        InTile(t, e, n, step, groups) /\ Rev(e, groups) \in OwnTiles(g, groups)
  BY MovedEntries
<1>2. /\ i \in 0 .. 7 /\ p \in 0 .. N - 1 /\ p < (i + 1) * step /\ Tiled(p, step) = e
      /\ q \in 0 .. N - 1 /\ Tiled(q, step) = Rev(e, groups)
  BY <1>1, Zenon DEF InTile
<1>3. /\ N \div 4 = Pow2(n - 2) /\ N \div 2 = Pow2(n - 1)
      /\ N = 8 * step /\ N \div 4 = 2 * step /\ N \div 2 = 4 * step
      /\ N \in Nat /\ step \in Nat \ {0}
  BY TileSizes
<1> HIDE DEF p, i, q
<1>4. IsLevel(h, real, N, n)
  <2>1. n - 1 \in 0 .. n /\ n - 2 \in 0 .. n /\ n \in 0 .. n /\ n \in 0 .. 31
    OBVIOUS
  <2>2. IsLevel(Pow2(n - 1), real, Pow2(n), n)
    BY <2>1, Level
  <2>3. IsLevel(Pow2(n - 2), real, Pow2(n), n)
    BY <2>1, Level
  <2>4. IsLevel(Pow2(n), real, Pow2(n), n)
    BY <2>1, Level
  <2>5. h = Pow2(n - 1) \/ h = Pow2(n - 2) \/ h = Pow2(n)
    BY <1>3, Zenon DEF TileLevel
  <2> QED
    BY <2>2, <2>3, <2>4, <2>5, Zenon
<1>5. (i + 1) * step <= h /\ h \in Nat
  <2>1. step \in Nat
    BY <1>3
  <2>2. i < 2 => (i + 1) * step <= 2 * step
    BY <1>2, <2>1, Scale
  <2>3. i < 4 => (i + 1) * step <= 4 * step
    BY <1>2, <2>1, Scale
  <2>4. (i + 1) * step <= 8 * step
    BY <1>2, <2>1, Scale
  <2>5. 2 * step \in Nat /\ 4 * step \in Nat /\ 8 * step \in Nat
    BY <2>1
  <2> QED
    BY <1>3, <2>2, <2>3, <2>4, <2>5, Zenon DEF TileLevel
<1> HIDE DEF h
<1>6. p \in 0 .. h - 1 /\ p \in Nat
  <2> DEFINE a == (i + 1) * step
  <2>1. a \in Int
    BY <1>2, <1>3
  <2>2. p < a /\ a <= h /\ p \in Nat
    BY <1>2, <1>3, <1>5
  <2> HIDE DEF a
  <2> QED
    BY <1>5, <2>1, <2>2
<1>7. At_(virtual_node_store("layer", p, h, real, N, v)) = Cell("layer", p, real, n)
  BY <1>4, <1>6, Zenon DEF IsLevel
<1>8. Home(p, real, n) \subseteq {p, q} \cap 0 .. real - 1
  <2>1. p \in Nat /\ q \in Nat
    BY <1>2, <1>3
  <2>2. Home(p, real, n) = IF q >= real THEN {} ELSE {IF p < real THEN p ELSE q}
    BY Zenon DEF Home, q
  <2> QED
    BY <2>1, <2>2
<1>9. \A z \in {p, q} \cap 0 .. real - 1 : <<"layer", z>> \in OwnSlots(g, real, step, groups)
  BY <1>1, <1>2, OwnSlotsAre, Zenon
<1>10. Cell("layer", p, real, n) \subseteq OwnSlots(g, real, step, groups)
  BY <1>8, <1>9, Zenon DEF Cell
<1> QED
  BY <1>7, <1>10, Zenon DEF p, h, i

LEMMA TileThread ==
  ASSUME NEW n \in 6 .. 31, NEW N, N = Pow2(n), NEW step, step = Pow2(n - 3),
         NEW groups, groups = Pow2(n - 6), NEW real \in Nat,
         NEW g \in 0 .. groups - 1, NEW th, MovesTiles(th, g, step, groups, real, N)
  PROVE  /\ th.reads \subseteq OwnSlots(g, real, step, groups)
         /\ At_(th.writes) \subseteq OwnSlots(g, real, step, groups)
<1>1. ASSUME NEW t \in Moved(g, step, groups), t[2] < real
      PROVE  <<"layer", t[2]>> \in OwnSlots(g, real, step, groups)
  <2>1. PICK e \in OwnTiles(g, groups) : InTile(t, e, n, step, groups)
    BY MovedEntries
  <2>2. t[2] \in 0 .. N - 1 /\ Tiled(t[2], step) = e
    BY <2>1, Zenon DEF InTile
  <2> DEFINE p == t[2]
  <2>3. p \in 0 .. real - 1
    <3>1. p \in 0 .. N - 1 /\ p < real
      BY <1>1, <2>2
    <3> HIDE DEF p
    <3> QED
      BY <3>1, Power
  <2> QED
    BY <2>2, <2>3, OwnSlotsAre, Zenon
<1>2. th.reads \subseteq OwnSlots(g, real, step, groups)
  BY <1>1, Zenon DEF MovesTiles, TileReads
<1>3. PICK W : /\ th.writes = UNION W
               /\ \A A \in W : TileStores(A, g, step, groups, real, N)
  BY Zenon DEF MovesTiles
<1>4. \A A \in W : At_(A) \subseteq OwnSlots(g, real, step, groups)
  <2> TAKE A \in W
  <2>3. PICK u \in Moved(g, step, groups) :
          \E v : A = virtual_node_store("layer", u[2], TileLevel(u[1], N), real, N, v)
    BY <1>3, Zenon DEF TileStores
  <2>1. PICK v : A = virtual_node_store("layer", u[2], TileLevel(u[1], N), real, N, v)
    BY <2>3, Zenon
  <2>2. At_(virtual_node_store("layer", u[2], TileLevel(u[1], N), real, N, v))
          \subseteq OwnSlots(g, real, step, groups)
    BY TileStore
  <2> QED
    BY <2>1, <2>2, Zenon
<1>5. At_(UNION W) \subseteq OwnSlots(g, real, step, groups)
  BY <1>4, StoresIn, Zenon
<1> QED
  BY <1>2, <1>3, <1>5, Zenon

LEMMA Tiles ==
  ASSUME NEW n \in 6 .. 31, NEW N, N = Pow2(n), NEW real \in Nat, NEW m
  PROVE  Sound(build_k2(m, real, N), InBuffer("layer", real))
<1> DEFINE K == build_k2(m, real, N)
           T == K.threads
           step == N \div 8
           groups == N \div 64
           B(g) == OwnSlots(g, real, step, groups)
<1>1. step = Pow2(n - 3) /\ groups = Pow2(n - 6)
  BY TileSizes
<1>2. K = Kernel(FALSE, T) /\ DOMAIN T = 0 .. groups - 1
  BY DEF build_k2, Kernel
<1>3. ASSUME NEW g \in 0 .. groups - 1
      PROVE  MovesTiles(T[g], g, step, groups, real, N)
  <2> DEFINE leaf(s) == WithAlpha(IF s < real THEN Load(m, "layer", s) ELSE Raw(real, real))
             row(d, i) == leaf(Rev(d % 8, 8) * step
                                 + Rev((d % step) \div 8, groups) * 8 + Rev(i, 8))
             one(d, i) == frac_add(row(d, i), row(d, i + 4), real)
             out(d, i) == IF i < 2 THEN frac_add(one(d, i), one(d, i + 2), real)
                          ELSE IF i < 4 THEN one(d, i) ELSE row(d, i)
             S == {virtual_node_store("layer", t[2], TileLevel(t[1], N), real, N,
                                      out(t[2], t[1])) : t \in Moved(g, step, groups)}
  <2>0. PICK W : W = S
    OBVIOUS
  <2>1. T[g] = [reads |-> TileReads(g, step, groups, real), writes |-> UNION W]
    <3> DEFINE F == [g2 \in 0 .. groups - 1 |->
                 [reads |-> TileReads(g2, step, groups, real),
                  writes |-> UNION {virtual_node_store("layer", t[2], TileLevel(t[1], N), real, N,
                                      out(t[2], t[1])) : t \in Moved(g2, step, groups)}]]
    <3>1. T = F
      BY DEF build_k2, Kernel, Moved, TileOf, TileLevel, TileReads
    <3> HIDE DEF T, out
    <3>2. F[g] = [reads |-> TileReads(g, step, groups, real), writes |-> UNION S]
      BY Zenon
    <3> HIDE DEF F
    <3> QED
      BY <2>0, <3>1, <3>2, Zenon
  <2> HIDE DEF out, T, K
  <2>2. \A A \in W : TileStores(A, g, step, groups, real, N)
    BY <2>0, Zenon DEF TileStores
  <2> HIDE DEF S, groups, step
  <2>3. T[g].reads = TileReads(g, step, groups, real) /\ T[g].writes = UNION W
    BY <2>1
  <2> QED
    BY <2>2, <2>3, Zenon DEF MovesTiles
<1> HIDE DEF K, T, step, groups
<1>4. \A g \in 0 .. groups - 1 : T[g].reads \subseteq B(g) /\ At_(T[g].writes) \subseteq B(g)
  BY <1>1, <1>3, TileThread
<1>5. \A g, h \in 0 .. groups - 1 : g # h => B(g) \cap B(h) = {}
  <2>1. n - 6 \in 0 .. 31
    OBVIOUS
  <2> QED
    BY <1>1, <2>1, TilesApart
<1>6. \A g \in 0 .. groups - 1 : B(g) \subseteq InBuffer("layer", real)
  BY DEF InBuffer, OwnSlots
<1> HIDE DEF B
<1>7. \A g \in DOMAIN T : /\ T[g].reads \subseteq InBuffer("layer", real)
                          /\ At_(T[g].writes) \subseteq InBuffer("layer", real)
  BY <1>2, <1>4, <1>6, Zenon
<1>8. \A g, h \in DOMAIN T : g # h => /\ At_(T[g].writes) \cap At_(T[h].writes) = {}
                                      /\ At_(T[g].writes) \cap T[h].reads = {}
  BY <1>2, <1>4, <1>5, Zenon
<1>9. Sound(Kernel(FALSE, T), InBuffer("layer", real))
  BY <1>7, <1>8, KeptApart, Zenon
<1> QED
  BY <1>2, <1>9, Zenon DEF K

-----------------------------------------------------------------------------
(* Folds.                                                                   *)

(* The lane of thread i: slots i, i + q, i + 2q and so on.                  *)
Lane(i, q) == {i + c * q : c \in 0 .. 7}
Outs(i, q) == {i + k * q : k \in 0 .. 3}
Ins(i, q, size) == UNION {{Pair(j, size)[1], Pair(j, size)[2]} : j \in Outs(i, q)}

LEMMA LaneBelow ==
  ASSUME NEW q \in Nat \ {0}, NEW i \in 0 .. q - 1
  PROVE  Lane(i, q) \subseteq 0 .. (8 * q) - 1 /\ Outs(i, q) \subseteq 0 .. (4 * q) - 1
<1>1. ASSUME NEW c \in 0 .. 7
      PROVE  i + c * q \in 0 .. (8 * q) - 1
  <2>1. c = 0 \/ c = 1 \/ c = 2 \/ c = 3 \/ c = 4 \/ c = 5 \/ c = 6 \/ c = 7
    OBVIOUS
  <2> QED
    BY <2>1
<1>2. ASSUME NEW c \in 0 .. 3
      PROVE  i + c * q \in 0 .. (4 * q) - 1
  <2>1. c = 0 \/ c = 1 \/ c = 2 \/ c = 3
    OBVIOUS
  <2> QED
    BY <2>1
<1> QED
  BY <1>1, <1>2, Zenon DEF Lane, Outs

LEMMA OutsInLane ==
  ASSUME NEW q, NEW i
  PROVE  Outs(i, q) \subseteq Lane(i, q)
<1>1. \A k \in 0 .. 3 : k \in 0 .. 7
  OBVIOUS
<1> QED
  BY <1>1, Zenon DEF Outs, Lane

LEMMA InsInLane ==
  ASSUME NEW q \in Nat \ {0}, NEW i \in 0 .. q - 1
  PROVE  Ins(i, q, 8 * q) \subseteq Lane(i, q)
<1>1. (8 * q) \div 4 = 2 * q /\ (8 * q) \div 2 = 4 * q
  OBVIOUS
<1>2. ASSUME NEW c \in 0 .. 3
      PROVE  /\ Pair(i + c * q, 8 * q)[1] \in Lane(i, q)
             /\ Pair(i + c * q, 8 * q)[2] \in Lane(i, q)
  <2>1. c = 0 \/ c = 1 \/ c = 2 \/ c = 3
    OBVIOUS
  <2>2. /\ c \in {0, 1} => i + c * q < 2 * q /\ (i + c * q) + 2 * q = i + (c + 2) * q
        /\ c \in {2, 3} => /\ ~(i + c * q < 2 * q) /\ (i + c * q) + 2 * q = i + (c + 2) * q
                           /\ (i + c * q) + 4 * q = i + (c + 4) * q
    BY <2>1
  <2>3. c \in {0, 1} => Pair(i + c * q, 8 * q) = <<i + c * q, i + (c + 2) * q>>
    BY <1>1, <2>2, Zenon DEF Pair
  <2>4. c \in {2, 3} => Pair(i + c * q, 8 * q) = <<i + (c + 2) * q, i + (c + 4) * q>>
    BY <1>1, <2>2, Zenon DEF Pair
  <2>5. \A e \in 0 .. 7 : i + e * q \in Lane(i, q)
    BY Zenon DEF Lane
  <2>6. c \in 0 .. 7 /\ c + 2 \in 0 .. 7 /\ c + 4 \in 0 .. 7
    OBVIOUS
  <2>7. i + c * q \in Lane(i, q) /\ i + (c + 2) * q \in Lane(i, q) /\ i + (c + 4) * q \in Lane(i, q)
    BY <2>5, <2>6, Zenon
  <2>8. c \in {0, 1} \/ c \in {2, 3}
    BY <2>1
  <2> DEFINE a == i + c * q  b == i + (c + 2) * q  d == i + (c + 4) * q  p == Pair(i + c * q, 8 * q)
  <2>9. p = <<a, b>> \/ p = <<b, d>>
    BY <2>3, <2>4, <2>8, Zenon
  <2>10. a \in Lane(i, q) /\ b \in Lane(i, q) /\ d \in Lane(i, q)
    BY <2>7
  <2> HIDE DEF a, b, d, p
  <2>11. p[1] \in Lane(i, q) /\ p[2] \in Lane(i, q)
    BY <2>9, <2>10
  <2> QED
    BY <2>11 DEF p
<1>3. ASSUME NEW j \in Outs(i, q)
      PROVE  {Pair(j, 8 * q)[1], Pair(j, 8 * q)[2]} \subseteq Lane(i, q)
  <2>1. PICK c \in 0 .. 3 : j = i + c * q
    BY Zenon DEF Outs
  <2> QED
    BY <1>2, <2>1, Zenon
<1> QED
  BY <1>3, Zenon DEF Ins

LEMMA LanesApart ==
  ASSUME NEW q \in Nat \ {0}, NEW i \in 0 .. q - 1, NEW j \in 0 .. q - 1, i # j
  PROVE  Lane(i, q) \cap Lane(j, q) = {}
<1>1. ASSUME NEW c \in 0 .. 7, NEW e \in 0 .. 7, i + c * q = j + e * q
      PROVE  FALSE
  <2>1. c \in Nat /\ e \in Nat
    OBVIOUS
  <2>2. (c * q) + i = (e * q) + j
    <3> DEFINE a == c * q  b == e * q
    <3>1. a \in Int /\ b \in Int /\ i + a = j + b
      BY <1>1
    <3> HIDE DEF a, b
    <3> QED
      BY <3>1 DEF a, b
  <2>3. i = j
    BY <2>1, <2>2, SplitUnique
  <2> QED
    BY <2>3
<1> QED
  BY <1>1, Zenon DEF Lane

(* Thread i of the fused fold, whatever values it stores.                   *)
FoldStore(A, dst, D, h, dst_real, dst_logical) ==
  \E j \in D : \E v : A = virtual_node_store(dst, j, h, dst_real, dst_logical, v)
FoldsLane(th, i, src, dst, q, size, real, logical, h, dst_real, dst_logical) ==
  /\ th.reads = Reads(src, Ins(i, q, size), size, real, logical)
  /\ \E W : /\ th.writes = UNION W
            /\ \A A \in W : FoldStore(A, dst, Outs(i, q), h, dst_real, dst_logical)

FusedKernel(K, src, dst, q, size, real, logical, h, dst_real, dst_logical) ==
  /\ K = Kernel(FALSE, K.threads)
  /\ DOMAIN K.threads = 0 .. q - 1
  /\ \A i \in 0 .. q - 1 :
       FoldsLane(K.threads[i], i, src, dst, q, size, real, logical, h, dst_real, dst_logical)

LEMMA FusedShape ==
  ASSUME NEW m, NEW src, NEW dst, NEW size, NEW real, NEW logical, NEW dst_real, NEW dst_logical
  PROVE  FusedKernel(fused_fold(m, src, dst, size, real, logical, dst_real, dst_logical),
                     src, dst, size \div 8, size, real, logical, size \div 2, dst_real, dst_logical)
<1> DEFINE K == fused_fold(m, src, dst, size, real, logical, dst_real, dst_logical)
           T == K.threads
           q == size \div 8
           val(j) == folded(m, src, size, real, logical, j)
           F == [i \in 0 .. q - 1 |->
                  [reads |-> Reads(src, Ins(i, q, size), size, real, logical),
                   writes |-> UNION {virtual_node_store(dst, j, size \div 2, dst_real, dst_logical,
                                       val(j)) : j \in Outs(i, q)}]]
<1>1. K = Kernel(FALSE, T) /\ T = F
  BY DEF fused_fold, Kernel, Ins, Outs
<1> HIDE DEF T, val
<1>2. ASSUME NEW i \in 0 .. q - 1
      PROVE  FoldsLane(T[i], i, src, dst, q, size, real, logical, size \div 2, dst_real, dst_logical)
  <2> DEFINE S == {virtual_node_store(dst, j, size \div 2, dst_real, dst_logical,
                                      val(j)) : j \in Outs(i, q)}
  <2>0. PICK W : W = S
    OBVIOUS
  <2>1. F[i] = [reads |-> Reads(src, Ins(i, q, size), size, real, logical), writes |-> UNION S]
    BY Zenon
  <2> HIDE DEF F
  <2>2. T[i] = [reads |-> Reads(src, Ins(i, q, size), size, real, logical), writes |-> UNION W]
    BY <1>1, <2>0, <2>1, Zenon
  <2>3. \A A \in W : FoldStore(A, dst, Outs(i, q), size \div 2, dst_real, dst_logical)
    BY <2>0, Zenon DEF FoldStore
  <2> HIDE DEF S, q
  <2>4. /\ T[i].reads = Reads(src, Ins(i, q, size), size, real, logical)
        /\ T[i].writes = UNION W
    BY <2>2
  <2> QED
    BY <2>3, <2>4, Zenon DEF FoldsLane
<1>3. DOMAIN T = 0 .. q - 1
  BY <1>1
<1> HIDE DEF K, F
<1> QED
  BY <1>1, <1>2, <1>3, Zenon DEF FusedKernel, T, K

LEMMA Eighth ==
  ASSUME NEW k \in 3 .. 31, NEW size, size = Pow2(k)
  PROVE  /\ size \div 8 \in Nat \ {0} /\ size = 8 * (size \div 8)
         /\ size \div 2 = 4 * (size \div 8) /\ size \div 2 = Pow2(k - 1)
         /\ size \div 4 = 2 * (size \div 8) /\ size \in Nat
<1>1. k \in 0 .. 31 /\ 3 \in 0 .. 31 /\ 3 <= k /\ k - 3 \in 0 .. 31 /\ (k - 3) + 3 = k /\ k <= 31
      /\ k \in 1 .. k
  OBVIOUS
<1>2. size \div 8 = Pow2(k - 3)
  <2>1. Pow2(k) \div Pow2(3) = Pow2(k - 3)
    BY <1>1, PowerQuotient
  <2> QED
    BY <2>1, PowerTable
<1>3. size = Pow2(k - 3) * 8
  <2>1. Pow2((k - 3) + 3) = Pow2(k - 3) * Pow2(3)
    BY <1>1, PowerSum
  <2>2. Pow2(3) = 8
    BY PowerTable
  <2> QED
    BY <1>1, <2>1, <2>2, Zenon
<1>4. size \div 2 = Pow2(k - 1)
  BY <1>1, Halves
<1>5. Pow2(k - 3) \in Nat \ {0}
  BY <1>1, Power
<1> DEFINE q == Pow2(k - 3)
<1>6. size = 8 * q /\ size \div 2 = 4 * q /\ size \div 4 = 2 * q /\ size \in Nat
  <2>1. q \in Nat /\ size = q * 8
    BY <1>3, <1>5
  <2> HIDE DEF q
  <2> QED
    BY <2>1
<1> QED
  BY <1>2, <1>4, <1>5, <1>6, Zenon

(* Between two buffers: the lanes keep the stores apart.                    *)
LEMMA FusedFold ==
  ASSUME NEW n \in 0 .. 31, NEW N, N = Pow2(n), NEW k \in 3 .. n, NEW size, size = Pow2(k),
         NEW real \in Nat, NEW dst_real \in Nat, NEW half, half = Pow2(k - 1),
         NEW m, NEW src, NEW dst, src # dst
  PROVE  Sound(fused_fold(m, src, dst, size, real, N, dst_real, half),
               InBuffer(src, real) \cup InBuffer(dst, dst_real))
<1> DEFINE K == fused_fold(m, src, dst, size, real, N, dst_real, half)
           T == K.threads
           q == size \div 8
           k1 == k - 1
           In(i) == Cells(src, Ins(i, q, size), real, n)
           Out(i) == Cells(dst, Outs(i, q), dst_real, k1)
           S == InBuffer(src, real) \cup InBuffer(dst, dst_real)
<1>0. k \in 3 .. 31 /\ k \in 0 .. n /\ k \in 0 .. 31 /\ k <= n /\ k1 \in 0 .. 31 /\ k1 \in 0 .. k1
  OBVIOUS
<1>1. q \in Nat \ {0} /\ size = 8 * q /\ size \div 2 = 4 * q /\ size \div 2 = half /\ size \in Nat
  BY <1>0, Eighth
<1>2. /\ K = Kernel(FALSE, T) /\ DOMAIN T = 0 .. q - 1
      /\ \A i \in 0 .. q - 1 : FoldsLane(T[i], i, src, dst, q, size, real, N, half, dst_real, half)
  <2>1. FusedKernel(K, src, dst, q, size, real, N, size \div 2, dst_real, half)
    BY FusedShape
  <2> HIDE DEF K, q
  <2> QED
    BY <1>1, <2>1, Zenon DEF FusedKernel
<1> HIDE DEF K, T, q, k1
<1>3. IsLevel(size, real, N, n)
  BY <1>0, Level
<1>4. IsLevel(half, dst_real, half, k1)
  <2>1. IsLevel(Pow2(k1), dst_real, Pow2(k1), k1)
    BY <1>0, Level
  <2> QED
    BY <2>1, Zenon DEF k1
<1>5. size <= N /\ N \in Nat
  BY <1>0, PowerGrows, Power
<1>6. ASSUME NEW i \in 0 .. q - 1
      PROVE  /\ Ins(i, q, size) \in SUBSET (0 .. size - 1) /\ Outs(i, q) \in SUBSET (0 .. half - 1)
             /\ Outs(i, q) \subseteq Lane(i, q)
  <2>1. Lane(i, q) \subseteq 0 .. (8 * q) - 1 /\ Outs(i, q) \subseteq 0 .. (4 * q) - 1
    BY <1>1, LaneBelow
  <2>2. Ins(i, q, 8 * q) \subseteq Lane(i, q)
    BY <1>1, InsInLane
  <2>3. Outs(i, q) \subseteq Lane(i, q)
    BY OutsInLane
  <2> QED
    BY <1>1, <2>1, <2>2, <2>3, Zenon
<1>7. ASSUME NEW i \in 0 .. q - 1
      PROVE  T[i].reads = In(i) /\ At_(T[i].writes) \subseteq Out(i)
  <2>1. FoldsLane(T[i], i, src, dst, q, size, real, N, half, dst_real, half)
    BY <1>2
  <2>2. T[i].reads = In(i)
    BY <1>3, <1>6, <2>1, Zenon DEF FoldsLane, IsLevel
  <2>3. PICK W : /\ T[i].writes = UNION W
                 /\ \A A \in W : FoldStore(A, dst, Outs(i, q), half, dst_real, half)
    BY <2>1, Zenon DEF FoldsLane
  <2>4. \A A \in W : At_(A) \subseteq Out(i)
    <3> TAKE A \in W
    <3>1. FoldStore(A, dst, Outs(i, q), half, dst_real, half)
      BY <2>3
    <3>2. PICK j \in Outs(i, q) : \E v : A = virtual_node_store(dst, j, half, dst_real, half, v)
      BY <3>1, Zenon DEF FoldStore
    <3>3. PICK v : A = virtual_node_store(dst, j, half, dst_real, half, v)
      BY <3>2
    <3>4. j \in 0 .. half - 1
      BY <1>6
    <3>5. At_(A) = Cell(dst, j, dst_real, k1)
      BY <1>4, <3>3, <3>4, Zenon DEF IsLevel
    <3>6. Cell(dst, j, dst_real, k1) \subseteq Cells(dst, Outs(i, q), dst_real, k1)
      BY CellOf
    <3> QED
      BY <3>5, <3>6, Zenon
  <2>5. At_(UNION W) \subseteq Out(i)
    BY <2>4, StoresIn, Zenon
  <2> QED
    BY <2>2, <2>3, <2>5, Zenon
<1>8. ASSUME NEW i \in 0 .. q - 1
      PROVE  /\ In(i) \subseteq {src} \X (0 .. real - 1)
             /\ Out(i) \subseteq {dst} \X (0 .. dst_real - 1)
  <2>1. half \in Nat
    BY <1>1
  <2>2. Ins(i, q, size) \subseteq Nat /\ Outs(i, q) \subseteq Nat
    BY <1>1, <1>6, <2>1
  <2> QED
    BY <1>0, <2>2, CellsIn
<1>9. ASSUME NEW i \in 0 .. q - 1, NEW j \in 0 .. q - 1, i # j
      PROVE  Out(i) \cap Out(j) = {} /\ Out(i) \cap In(j) = {}
  <2>1. Outs(i, q) \cap Outs(j, q) = {}
    <3>1. Lane(i, q) \cap Lane(j, q) = {}
      BY <1>1, <1>9, LanesApart
    <3> QED
      BY <1>6, <3>1, Zenon
  <2>2. Outs(i, q) \subseteq 0 .. Pow2(k1) - 1 /\ Outs(j, q) \subseteq 0 .. Pow2(k1) - 1
    BY <1>6 DEF k1
  <2>3. Out(i) \cap Out(j) = {}
    BY <1>0, <2>1, <2>2, CellsApart
  <2>4. Out(i) \cap In(j) = {}
    <3> HIDE DEF In, Out
    <3> QED
      BY <1>8
  <2> QED
    BY <2>3, <2>4
<1> HIDE DEF In, Out
<1>10. \A i \in DOMAIN T : T[i].reads \subseteq S /\ At_(T[i].writes) \subseteq S
  <2> SUFFICES ASSUME NEW i \in 0 .. q - 1
               PROVE  T[i].reads \subseteq S /\ At_(T[i].writes) \subseteq S
    BY <1>2, Zenon
  <2>1. In(i) \subseteq S /\ Out(i) \subseteq S
    BY <1>8, Zenon DEF InBuffer
  <2> HIDE DEF S
  <2> QED
    BY <1>7, <2>1, Zenon
<1>11. \A i, j \in DOMAIN T : i # j => /\ At_(T[i].writes) \cap At_(T[j].writes) = {}
                                       /\ At_(T[i].writes) \cap T[j].reads = {}
  <2> SUFFICES ASSUME NEW i \in 0 .. q - 1, NEW j \in 0 .. q - 1, i # j
               PROVE  /\ At_(T[i].writes) \cap At_(T[j].writes) = {}
                      /\ At_(T[i].writes) \cap T[j].reads = {}
    BY <1>2, Zenon
  <2>1. Out(i) \cap Out(j) = {} /\ Out(i) \cap In(j) = {}
    BY <1>9
  <2>2. /\ At_(T[i].writes) \subseteq Out(i) /\ At_(T[j].writes) \subseteq Out(j)
        /\ T[j].reads = In(j)
    BY <1>7
  <2> QED
    BY <2>1, <2>2, Zenon
<1> HIDE DEF S
<1>12. Sound(Kernel(FALSE, T), S)
  BY <1>10, <1>11, KeptApart, Zenon
<1> QED
  BY <1>2, <1>12, Zenon DEF K, S

(* In place, where every node is real: a lane is read and written by one    *)
(* thread alone.                                                            *)
LEMMA FusedInPlace ==
  ASSUME NEW k \in 3 .. 31, NEW size, size = Pow2(k), NEW half, half = Pow2(k - 1),
         NEW m, NEW b
  PROVE  Sound(fused_fold(m, b, b, size, size, size, half, half), InBuffer(b, size))
<1> DEFINE K == fused_fold(m, b, b, size, size, size, half, half)
           T == K.threads
           q == size \div 8
           k1 == k - 1
           Own(i) == {<<b, d>> : d \in Lane(i, q)}
<1>0. k \in 3 .. 31 /\ k \in 0 .. k /\ k \in 0 .. 31 /\ k1 \in 0 .. 31 /\ k1 \in 0 .. k1
  OBVIOUS
<1>1. q \in Nat \ {0} /\ size = 8 * q /\ size \div 2 = 4 * q /\ size \div 2 = half /\ size \in Nat
  BY <1>0, Eighth
<1>2. /\ K = Kernel(FALSE, T) /\ DOMAIN T = 0 .. q - 1
      /\ \A i \in 0 .. q - 1 : FoldsLane(T[i], i, b, b, q, size, size, size, half, half, half)
  <2>1. FusedKernel(K, b, b, q, size, size, size, size \div 2, half, half)
    BY FusedShape
  <2> HIDE DEF K, q
  <2> QED
    BY <1>1, <2>1, Zenon DEF FusedKernel
<1> HIDE DEF K, T, q, k1
<1>3. IsLevel(size, size, size, k)
  <2>1. IsLevel(Pow2(k), size, Pow2(k), k)
    BY <1>0, Level
  <2> QED
    BY <2>1
<1>4. IsLevel(half, half, half, k1)
  <2>1. IsLevel(Pow2(k1), half, Pow2(k1), k1)
    BY <1>0, Level
  <2> QED
    BY <2>1, Zenon DEF k1
<1>5. ASSUME NEW i \in 0 .. q - 1
      PROVE  /\ Ins(i, q, size) \in SUBSET (0 .. size - 1) /\ Outs(i, q) \in SUBSET (0 .. half - 1)
             /\ Outs(i, q) \subseteq Lane(i, q) /\ Ins(i, q, size) \subseteq Lane(i, q)
             /\ Lane(i, q) \subseteq 0 .. size - 1
  <2>1. Lane(i, q) \subseteq 0 .. (8 * q) - 1 /\ Outs(i, q) \subseteq 0 .. (4 * q) - 1
    BY <1>1, LaneBelow
  <2>2. Ins(i, q, 8 * q) \subseteq Lane(i, q)
    BY <1>1, InsInLane
  <2>3. Outs(i, q) \subseteq Lane(i, q)
    BY OutsInLane
  <2> QED
    BY <1>1, <2>1, <2>2, <2>3, Zenon
<1>6. ASSUME NEW i \in 0 .. q - 1
      PROVE  T[i].reads \subseteq Own(i) /\ At_(T[i].writes) \subseteq Own(i)
  <2>1. FoldsLane(T[i], i, b, b, q, size, size, size, half, half, half)
    BY <1>2
  <2>2. T[i].reads = Cells(b, Ins(i, q, size), size, k)
    BY <1>3, <1>5, <2>1, Zenon DEF FoldsLane, IsLevel
  <2>3. Cells(b, Ins(i, q, size), Pow2(k), k) = {<<b, d>> : d \in Ins(i, q, size)}
    <3>1. Ins(i, q, size) \subseteq 0 .. Pow2(k) - 1
      BY <1>5
    <3> QED
      BY <1>0, <3>1, CellsFull
  <2>4. T[i].reads \subseteq Own(i)
    BY <1>5, <2>2, <2>3, Zenon
  <2>5. PICK W : /\ T[i].writes = UNION W
                 /\ \A A \in W : FoldStore(A, b, Outs(i, q), half, half, half)
    BY <2>1, Zenon DEF FoldsLane
  <2>6. \A A \in W : At_(A) \subseteq Own(i)
    <3> TAKE A \in W
    <3>1. FoldStore(A, b, Outs(i, q), half, half, half)
      BY <2>5
    <3>2. PICK j \in Outs(i, q) : \E v : A = virtual_node_store(b, j, half, half, half, v)
      BY <3>1, Zenon DEF FoldStore
    <3>3. PICK v : A = virtual_node_store(b, j, half, half, half, v)
      BY <3>2
    <3>4. j \in 0 .. half - 1 /\ j \in Lane(i, q)
      BY <1>5
    <3>5. At_(A) = Cell(b, j, half, k1)
      BY <1>4, <3>3, <3>4, Zenon DEF IsLevel
    <3>6. Home(j, half, k1) = {j}
      <4>1. Home(j, Pow2(k1), k1) = {j}
        <5>1. j \in 0 .. Pow2(k1) - 1
          BY <3>4 DEF k1
        <5> QED
          BY <1>0, <5>1, HomeFull
      <4> QED
        BY <4>1, Zenon DEF k1
    <3>7. <<b, j>> \in Own(i)
      BY <3>4, Zenon
    <3> HIDE DEF Own
    <3> QED
      BY <3>5, <3>6, <3>7, Zenon DEF Cell
  <2>7. At_(UNION W) \subseteq Own(i)
    <3> HIDE DEF Own
    <3> QED
      BY <2>6, StoresIn, Zenon
  <2> HIDE DEF Own
  <2> QED
    BY <2>4, <2>5, <2>7, Zenon
<1>7. ASSUME NEW i \in 0 .. q - 1
      PROVE  Own(i) \subseteq InBuffer(b, size)
  BY <1>5 DEF InBuffer
<1>8. ASSUME NEW i \in 0 .. q - 1, NEW j \in 0 .. q - 1, i # j
      PROVE  Own(i) \cap Own(j) = {}
  <2>1. Lane(i, q) \cap Lane(j, q) = {}
    BY <1>1, <1>8, LanesApart
  <2> QED
    BY <2>1
<1> HIDE DEF Own
<1>9. \A i \in DOMAIN T : T[i].reads \subseteq InBuffer(b, size) /\ At_(T[i].writes) \subseteq InBuffer(b, size)
  BY <1>2, <1>6, <1>7, Zenon
<1>10. \A i, j \in DOMAIN T : i # j => /\ At_(T[i].writes) \cap At_(T[j].writes) = {}
                                       /\ At_(T[i].writes) \cap T[j].reads = {}
  BY <1>2, <1>6, <1>8, Zenon
<1>11. Sound(Kernel(FALSE, T), InBuffer(b, size))
  BY <1>9, <1>10, KeptApart, Zenon
<1> QED
  BY <1>2, <1>11, Zenon DEF K

(* The last fold of a round has four values and one thread.                 *)
LEMMA LastFold ==
  ASSUME NEW n \in 2 .. 31, NEW N, N = Pow2(n), NEW real \in Nat, NEW m, NEW src, NEW dst
  PROVE  Sound(fold_ef_columns(m, src, dst, 4, real, N), InBuffer(src, real) \cup InBuffer(dst, 2))
<1> DEFINE K == fold_ef_columns(m, src, dst, 4, real, N)
           T == K.threads
           S == InBuffer(src, real) \cup InBuffer(dst, 2)
           val(j) == folded(m, src, 4, real, N, j)
           D == UNION {{Pair(j, 4)[1], Pair(j, 4)[2]} : j \in {0, 1}}
           V == {[at |-> <<dst, j>>, v |-> val(j)] : j \in {0, 1}}
<1>1. 4 \div 4 = 1 /\ 0 .. 1 - 1 = {0} /\ 0 + 1 = 1 /\ 4 \div 2 = 2
  OBVIOUS
<1>2. T = [i \in {0} |-> [reads |-> Reads(src, UNION {{Pair(j, 4)[1], Pair(j, 4)[2]} : j \in {i, i + 1}},
                                          4, real, N),
                          writes |-> {[at |-> <<dst, j>>, v |-> val(j)] : j \in {i, i + 1}}]]
      /\ K = Kernel(FALSE, T)
  <2>1. /\ T = [i \in 0 .. (4 \div 4) - 1 |->
                 [reads |-> Reads(src, UNION {{Pair(j, 4)[1], Pair(j, 4)[2]} : j \in {i, i + 4 \div 4}},
                                  4, real, N),
                  writes |-> {[at |-> <<dst, j>>, v |-> val(j)] : j \in {i, i + 4 \div 4}}]]
        /\ K = Kernel(FALSE, T)
    BY DEF fold_ef_columns, Kernel
  <2> HIDE DEF K, T, val
  <2> QED
    BY <1>1, <2>1, Zenon
<1> HIDE DEF K, T, val
<1>3. T[0] = [reads |-> Reads(src, D, 4, real, N), writes |-> V] /\ DOMAIN T = {0}
  BY <1>1, <1>2, Zenon
<1>4. D \in SUBSET (0 .. 4 - 1)
  <2>1. Pair(0, 4) = <<0, 1>> /\ Pair(1, 4) = <<2, 3>>
    BY DEF Pair
  <2>2. D = {0, 1} \cup {2, 3}
    BY <2>1
  <2> QED
    BY <2>2
<1>5. At_(V) = {<<dst, j>> : j \in {0, 1}}
  <2>1. \A j \in {0, 1} : [at |-> <<dst, j>>, v |-> val(j)].at = <<dst, j>>
    OBVIOUS
  <2>2. {w.at : w \in V} = {[at |-> <<dst, j>>, v |-> val(j)].at : j \in {0, 1}}
    BY Zenon
  <2> QED
    BY <2>1, <2>2, Zenon DEF At_
<1> HIDE DEF D, V
<1>6. T[0].reads = Reads(src, D, 4, real, N) /\ T[0].writes = V
  BY <1>3
<1>7. T[0].reads \subseteq InBuffer(src, real)
  <2>1. 2 \in 0 .. n /\ n \in 0 .. 31
    OBVIOUS
  <2>2. IsLevel(Pow2(2), real, N, n)
    BY <2>1, Level
  <2>3. IsLevel(4, real, N, n)
    BY <2>2, PowerTable
  <2>4. T[0].reads = Cells(src, D, real, n)
    BY <1>4, <1>6, <2>3, Zenon DEF IsLevel
  <2>5. D \subseteq Nat
    BY <1>4
  <2>6. Cells(src, D, real, n) \subseteq {src} \X (0 .. real - 1)
    BY <2>1, <2>5, CellsIn
  <2> QED
    BY <2>4, <2>6, Zenon DEF InBuffer
<1>8. At_(T[0].writes) \subseteq InBuffer(dst, 2)
  BY <1>5, <1>6 DEF InBuffer
<1> HIDE DEF S
<1>9. \A i \in DOMAIN T : T[i].reads \subseteq S /\ At_(T[i].writes) \subseteq S
  BY <1>3, <1>7, <1>8, Zenon DEF S
<1>10. \A i, j \in DOMAIN T : i = j
  BY <1>3, Zenon
<1>11. Sound(Kernel(FALSE, T), S)
  BY <1>9, <1>10, OneThread, Zenon
<1> QED
  BY <1>2, <1>11, Zenon DEF K, S

(* A window fold: thread o takes the nodes with remainder o.                *)
Strided(o, size, tail) == {x \in 0 .. size - 1 : x % tail = o}
Gathers(th, o, src, dst, size, tail, real, logical) ==
  /\ \E D \in SUBSET Strided(o, size, tail) : th.reads = Reads(src, D, size, real, logical)
  /\ At_(th.writes) = {<<dst, o>>, <<dst, tail + o>>}

LEMMA Remainders ==
  ASSUME NEW tail \in Nat \ {0}, NEW o \in 0 .. tail - 1, NEW P \in Nat \ {0},
         NEW p \in {0, 1}, NEW b \in 0 .. P - 1
  PROVE  p * (P * tail) + b * tail + o \in Strided(o, 2 * (P * tail), tail)
<1> DEFINE c == (p * P) + b
<1>1. c \in 0 .. (2 * P) - 1 /\ c \in Nat
  <2>1. p = 0 \/ p = 1
    OBVIOUS
  <2> QED
    BY <2>1
<1>2. p * (P * tail) + b * tail + o = (c * tail) + o
  <2>1. CASE p = 0
    BY <2>1
  <2>2. CASE p = 1
    <3>1. (P + b) * tail = (P * tail) + (b * tail)
      OBVIOUS
    <3>2. c = P + b /\ p * (P * tail) = P * tail
      BY <2>2
    <3> QED
      BY <3>1, <3>2
  <2> QED
    BY <2>1, <2>2
<1>3. 2 * (P * tail) = (2 * P) * tail /\ 2 * P \in Nat
  OBVIOUS
<1> HIDE DEF c
<1>4. (c * tail) + o \in 0 .. ((2 * P) * tail) - 1
  BY <1>1, <1>3, SplitBelow
<1>5. ((c * tail) + o) % tail = o
  BY <1>1, Digits
<1> QED
  BY <1>2, <1>3, <1>4, <1>5, Zenon DEF Strided

MultiKernel(K, src, dst, size, tail, real, logical) ==
  /\ K = Kernel(FALSE, K.threads) /\ DOMAIN K.threads = 0 .. tail - 1
  /\ \A o \in 0 .. tail - 1 : Gathers(K.threads[o], o, src, dst, size, tail, real, logical)

LEMMA MultifoldShape ==
  ASSUME NEW k \in 0 .. 31, NEW w \in 0 .. k, NEW m, NEW src, NEW dst, NEW real, NEW logical,
         NEW tail, tail = Pow2(k - w), NEW size, size = 2 * Pow2(k)
  PROVE  MultiKernel(multifold(m, src, dst, k, w, real, logical), src, dst, size, tail, real, logical)
<1> DEFINE K == multifold(m, src, dst, k, w, real, logical)
           T == K.threads
           P == Pow2(w)
           ins(o, poly) == [b \in 0 .. P - 1 |-> poly * Pow2(k) + b * tail + o]
           D(o) == UNION {{ins(o, p)[b] : b \in 0 .. P - 1} : p \in {0, 1}}
           val(o, p) == Fold([b \in 0 .. P - 1 |->
                               virtual_node_value(m, src, ins(o, p)[b], 2 * Pow2(k), real, logical)], w)
           V(o) == {[at |-> <<dst, p * tail + o>>, v |-> val(o, p)] : p \in {0, 1}}
           F == [o \in 0 .. tail - 1 |-> [reads |-> Reads(src, D(o), size, real, logical), writes |-> V(o)]]
<1>1. K = Kernel(FALSE, T) /\ T = F
  BY DEF multifold, Kernel
<1>2. Pow2(k) = P * tail /\ P \in Nat \ {0} /\ tail \in Nat \ {0}
  <2>1. w \in 0 .. 31 /\ k - w \in 0 .. 31 /\ w + (k - w) = k /\ w + (k - w) <= 31
    OBVIOUS
  <2>2. Pow2(w + (k - w)) = Pow2(w) * Pow2(k - w)
    BY <2>1, PowerSum
  <2>3. P \in Nat \ {0} /\ tail \in Nat \ {0}
    BY <2>1, Power
  <2> QED
    BY <2>1, <2>2, <2>3, Zenon
<1> HIDE DEF T, val, P
<1>3. ASSUME NEW o \in 0 .. tail - 1
      PROVE  Gathers(T[o], o, src, dst, size, tail, real, logical)
  <2>1. T[o] = [reads |-> Reads(src, D(o), size, real, logical), writes |-> V(o)]
    BY <1>1, Zenon
  <2>2. ASSUME NEW p \in {0, 1}, NEW b \in 0 .. P - 1
        PROVE  ins(o, p)[b] \in Strided(o, size, tail)
    <3>1. p * (P * tail) + b * tail + o \in Strided(o, 2 * (P * tail), tail)
      BY <1>2, Remainders
    <3>2. ins(o, p)[b] = p * Pow2(k) + b * tail + o
      BY Zenon
    <3> HIDE DEF ins
    <3> QED
      BY <1>2, <3>1, <3>2, Zenon
  <2>3. D(o) \in SUBSET Strided(o, size, tail)
    <3> HIDE DEF ins
    <3>1. SUFFICES ASSUME NEW x \in D(o) PROVE x \in Strided(o, size, tail)
      OBVIOUS
    <3>2. PICK Z \in {{ins(o, p)[b] : b \in 0 .. P - 1} : p \in {0, 1}} : x \in Z
      BY <3>1, Zenon
    <3>3. PICK p \in {0, 1} : Z = {ins(o, p)[b] : b \in 0 .. P - 1}
      BY <3>2, Zenon
    <3>4. PICK b \in 0 .. P - 1 : x = ins(o, p)[b]
      BY <3>2, <3>3, Zenon
    <3> QED
      BY <2>2, <3>4, Zenon
  <2>4. At_(V(o)) = {<<dst, o>>, <<dst, tail + o>>}
    <3>1. \A p \in {0, 1} : [at |-> <<dst, p * tail + o>>, v |-> val(o, p)].at = <<dst, p * tail + o>>
      OBVIOUS
    <3>2. {y.at : y \in V(o)} = {[at |-> <<dst, p * tail + o>>, v |-> val(o, p)].at : p \in {0, 1}}
      BY Zenon
    <3>3. At_(V(o)) = {<<dst, p * tail + o>> : p \in {0, 1}}
      BY <3>1, <3>2, Zenon DEF At_
    <3>4. 0 * tail + o = o /\ 1 * tail + o = tail + o
      BY <1>2
    <3> HIDE DEF V
    <3> QED
      BY <3>3, <3>4
  <2> HIDE DEF D, V, F
  <2>5. T[o].reads = Reads(src, D(o), size, real, logical) /\ T[o].writes = V(o)
    BY <2>1
  <2> QED
    BY <2>3, <2>4, <2>5, Zenon DEF Gathers
<1>4. DOMAIN T = 0 .. tail - 1
  BY <1>1, Zenon
<1> HIDE DEF F, K
<1>5. MultiKernel(K, src, dst, size, tail, real, logical)
  BY <1>1, <1>3, <1>4, Zenon DEF T, MultiKernel
<1> QED
  BY <1>5, Zenon DEF K

(* Folded into another buffer: the slots o and tail + o are written by the  *)
(* thread o alone.                                                          *)
LEMMA MultifoldApart ==
  ASSUME NEW n \in 1 .. 31, NEW N, N = Pow2(n), NEW k \in 0 .. n - 1, NEW w \in 0 .. k,
         NEW real \in Nat, NEW m, NEW src, NEW dst, src # dst, NEW tail, tail = Pow2(k - w)
  PROVE  Sound(multifold(m, src, dst, k, w, real, N),
               InBuffer(src, real) \cup InBuffer(dst, 2 * tail))
<1> DEFINE K == multifold(m, src, dst, k, w, real, N)
           T == K.threads
           size == 2 * Pow2(k)
           k1 == k + 1
           S == InBuffer(src, real) \cup InBuffer(dst, 2 * tail)
           Out(o) == {<<dst, o>>, <<dst, tail + o>>}
<1>0. /\ k \in 0 .. 31 /\ k \in 0 .. 30 /\ k1 \in 0 .. n /\ n \in 0 .. 31 /\ k - w \in 0 .. 31
  OBVIOUS
<1>1. /\ K = Kernel(FALSE, T) /\ DOMAIN T = 0 .. tail - 1
      /\ \A o \in 0 .. tail - 1 : Gathers(T[o], o, src, dst, size, tail, real, N)
  <2>1. MultiKernel(K, src, dst, size, tail, real, N)
    BY <1>0, MultifoldShape
  <2> HIDE DEF K
  <2> QED
    BY <2>1, Zenon DEF MultiKernel
<1>2. size = Pow2(k1) /\ size \in Nat
  BY <1>0, Double, Power
<1>3. tail \in Nat
  BY <1>0, Power
<1> HIDE DEF K, T, k1
<1>4. IsLevel(size, real, N, n)
  <2>1. IsLevel(Pow2(k1), real, Pow2(n), n)
    BY <1>0, Level
  <2> HIDE DEF size
  <2> QED
    BY <1>2, <2>1
<1> HIDE DEF size
<1>5. ASSUME NEW o \in 0 .. tail - 1
      PROVE  T[o].reads \subseteq {src} \X (0 .. real - 1) /\ At_(T[o].writes) = Out(o)
  <2>1. Gathers(T[o], o, src, dst, size, tail, real, N)
    BY <1>1
  <2>2. PICK D \in SUBSET Strided(o, size, tail) : T[o].reads = Reads(src, D, size, real, N)
    BY <2>1, Zenon DEF Gathers
  <2>3. D \in SUBSET (0 .. size - 1)
    BY <2>2 DEF Strided
  <2>4. T[o].reads = Cells(src, D, real, n)
    BY <1>4, <2>2, <2>3, Zenon DEF IsLevel
  <2>5. D \subseteq Nat
    BY <1>2, <2>3
  <2>6. Cells(src, D, real, n) \subseteq {src} \X (0 .. real - 1)
    BY <1>0, <2>5, CellsIn
  <2>7. At_(T[o].writes) = Out(o)
    BY <2>1, Zenon DEF Gathers
  <2> QED
    BY <2>4, <2>6, <2>7, Zenon
<1>6. ASSUME NEW o \in 0 .. tail - 1
      PROVE  Out(o) \subseteq InBuffer(dst, 2 * tail)
  <2>1. o \in 0 .. (2 * tail) - 1 /\ tail + o \in 0 .. (2 * tail) - 1
    BY <1>3
  <2> QED
    BY <2>1 DEF InBuffer
<1>7. ASSUME NEW o \in 0 .. tail - 1, NEW c \in 0 .. tail - 1, o # c
      PROVE  Out(o) \cap Out(c) = {} /\ Out(o) \cap T[c].reads = {}
  <2>1. Out(o) \cap Out(c) = {}
    <3>1. o # tail + c /\ tail + o # c /\ tail + o # tail + c
      BY <1>3, <1>7
    <3> QED
      BY <1>7, <3>1
  <2>2. T[c].reads \subseteq {src} \X (0 .. real - 1)
    BY <1>5
  <2> QED
    BY <2>1, <2>2
<1> HIDE DEF Out
<1>8. \A o \in DOMAIN T : T[o].reads \subseteq S /\ At_(T[o].writes) \subseteq S
  <2> SUFFICES ASSUME NEW o \in 0 .. tail - 1
               PROVE  T[o].reads \subseteq S /\ At_(T[o].writes) \subseteq S
    BY <1>1, Zenon
  <2>1. T[o].reads \subseteq InBuffer(src, real) /\ At_(T[o].writes) \subseteq InBuffer(dst, 2 * tail)
    BY <1>5, <1>6, Zenon DEF InBuffer
  <2> QED
    BY <2>1, Zenon
<1>9. \A i, j \in DOMAIN T : i # j => /\ At_(T[i].writes) \cap At_(T[j].writes) = {}
                                      /\ At_(T[i].writes) \cap T[j].reads = {}
  <2> SUFFICES ASSUME NEW i \in 0 .. tail - 1, NEW j \in 0 .. tail - 1, i # j
               PROVE  /\ At_(T[i].writes) \cap At_(T[j].writes) = {}
                      /\ At_(T[i].writes) \cap T[j].reads = {}
    BY <1>1, Zenon
  <2>1. Out(i) \cap Out(j) = {} /\ Out(i) \cap T[j].reads = {}
    BY <1>7
  <2>2. At_(T[i].writes) = Out(i) /\ At_(T[j].writes) = Out(j)
    BY <1>5
  <2> QED
    BY <2>1, <2>2, Zenon
<1> HIDE DEF S
<1>10. Sound(Kernel(FALSE, T), S)
  BY <1>8, <1>9, KeptApart, Zenon
<1> QED
  BY <1>1, <1>10, Zenon DEF K, S

(* In place, where every node is real: remainders keep the threads apart.   *)
LEMMA MultifoldInPlace ==
  ASSUME NEW k \in 0 .. 30, NEW w \in 0 .. k, NEW m, NEW b, NEW size, size = Pow2(k + 1)
  PROVE  Sound(multifold(m, b, b, k, w, size, size), InBuffer(b, size))
<1> DEFINE K == multifold(m, b, b, k, w, size, size)
           T == K.threads
           tail == Pow2(k - w)
           k1 == k + 1
           Own(o) == {<<b, x>> : x \in Strided(o, size, tail)}
<1>0. k \in 0 .. 31 /\ k1 \in 0 .. 31 /\ k1 \in 0 .. k1 /\ k - w \in 0 .. 31 /\ k - w <= k
  OBVIOUS
<1>1. size = 2 * Pow2(k) /\ Pow2(k) \in Nat \ {0} /\ tail \in Nat \ {0} /\ tail <= Pow2(k)
  <2>1. size = 2 * Pow2(k)
    BY Double
  <2>2. tail <= Pow2(k)
    BY <1>0, PowerGrows
  <2> QED
    BY <1>0, <2>1, <2>2, Power
<1>2. /\ K = Kernel(FALSE, T) /\ DOMAIN T = 0 .. tail - 1
      /\ \A o \in 0 .. tail - 1 : Gathers(T[o], o, b, b, size, tail, size, size)
  <2>1. MultiKernel(K, b, b, size, tail, size, size)
    BY <1>0, <1>1, MultifoldShape
  <2> HIDE DEF K
  <2> QED
    BY <2>1, Zenon DEF MultiKernel
<1> HIDE DEF K, T, tail
<1>3. IsLevel(size, size, size, k1)
  <2>1. IsLevel(Pow2(k1), size, Pow2(k1), k1)
    BY <1>0, Level
  <2> QED
    BY <2>1
<1>4. ASSUME NEW o \in 0 .. tail - 1
      PROVE  T[o].reads \subseteq Own(o) /\ At_(T[o].writes) \subseteq Own(o)
  <2>1. Gathers(T[o], o, b, b, size, tail, size, size)
    BY <1>2
  <2>2. PICK D \in SUBSET Strided(o, size, tail) : T[o].reads = Reads(b, D, size, size, size)
    BY <2>1, Zenon DEF Gathers
  <2>3. D \in SUBSET (0 .. size - 1)
    BY <2>2 DEF Strided
  <2>4. T[o].reads = Cells(b, D, size, k1)
    BY <1>3, <2>2, <2>3, Zenon DEF IsLevel
  <2>5. Cells(b, D, size, k1) = {<<b, d>> : d \in D}
    <3>1. D \subseteq 0 .. Pow2(k1) - 1
      BY <2>3
    <3>2. Cells(b, D, Pow2(k1), k1) = {<<b, d>> : d \in D}
      BY <1>0, <3>1, CellsFull
    <3> QED
      BY <3>2
  <2>6. T[o].reads \subseteq Own(o)
    BY <2>2, <2>4, <2>5, Zenon
  <2>7. o \in Strided(o, size, tail) /\ tail + o \in Strided(o, size, tail)
    <3>1. o \in 0 .. size - 1 /\ tail + o \in 0 .. size - 1
      BY <1>1
    <3>2. ((0 * tail) + o) % tail = o /\ ((1 * tail) + o) % tail = o
      BY <1>1, Digits
    <3>3. (0 * tail) + o = o /\ (1 * tail) + o = tail + o
      BY <1>1
    <3> QED
      BY <3>1, <3>2, <3>3 DEF Strided
  <2>8. At_(T[o].writes) = {<<b, o>>, <<b, tail + o>>}
    BY <2>1, Zenon DEF Gathers
  <2>9. {<<b, o>>, <<b, tail + o>>} \subseteq Own(o)
    BY <2>7, Zenon
  <2> QED
    BY <2>6, <2>8, <2>9, Zenon
<1>5. ASSUME NEW o \in 0 .. tail - 1
      PROVE  Own(o) \subseteq InBuffer(b, size)
  BY DEF InBuffer, Strided
<1>6. ASSUME NEW o \in 0 .. tail - 1, NEW c \in 0 .. tail - 1, o # c
      PROVE  Own(o) \cap Own(c) = {}
  BY <1>6 DEF Strided
<1> HIDE DEF Own
<1>7. \A i \in DOMAIN T : T[i].reads \subseteq InBuffer(b, size) /\ At_(T[i].writes) \subseteq InBuffer(b, size)
  BY <1>2, <1>4, <1>5, Zenon
<1>8. \A i, j \in DOMAIN T : i # j => /\ At_(T[i].writes) \cap At_(T[j].writes) = {}
                                      /\ At_(T[i].writes) \cap T[j].reads = {}
  BY <1>2, <1>4, <1>6, Zenon
<1>9. Sound(Kernel(FALSE, T), InBuffer(b, size))
  BY <1>7, <1>8, KeptApart, Zenon
<1> QED
  BY <1>2, <1>9, Zenon DEF K

-----------------------------------------------------------------------------
(* The invariant.                                                           *)

(* The work buffer can hold the half of a folded layer, or the layer is all *)
(* real and folds in place.                                                 *)
Roomy(k) == Pow2(k) <= max_work_size \/ (k = total_rounds - 1 /\ (k = 1 \/ R = L))
(* The scratch of block sums can hold the table of a window.                *)
Tabled(k) == Pow2(sys.window + 1) <= round_temp_size(Pow2(k))

(* What an input, its build and the environment have to satisfy.            *)
Fits ==
  /\ L \in {Pow2(k) : k \in 1 .. 31}
  /\ R \in Nat /\ R <= L /\ L <= 2 * R
  /\ sys.window \in 1 .. 28 /\ sys.default_min_n \in 0 .. 31 /\ sys.precompute \in BOOLEAN
  /\ \A k \in 1 .. total_rounds - 1 : IF PrecomputeM(k) THEN Tabled(k) ELSE Roomy(k)

TreeFields == {"i", "round"}
RoundFields == {"round", "pq_size", "polys", "base", "eq_n", "in_work", "src_real",
                "src_logical", "pending", "upload", "active"}

InRounds == r.round \in 1 .. total_rounds - 1
Treeing ==
  pc \in {"start", "leaves", "alpha", "tree"} =>
    /\ DOMAIN r = TreeFields /\ r.i \in Nat
    /\ pc \in {"leaves", "alpha"} => R = L
Between ==
  /\ pc = "round" => InRounds /\ "round" \in DOMAIN r
  /\ pc = "claims" => InRounds /\ DOMAIN r = RoundFields

(* A fold reads the layer of the tree in its first round, and then what the *)
(* previous fold left.                                                      *)
Source ==
  IF r.in_work
  THEN r.src_real = r.pq_size /\ r.src_logical = r.pq_size /\ r.pq_size <= max_work_size
  ELSE \/ r.base = 1 /\ r.src_real = R /\ r.src_logical = L
       \/ /\ r.base > 1 /\ last_outer_round /\ r.src_real = r.pq_size
          /\ r.src_logical = r.pq_size /\ r.pq_size <= R
Folding ==
  pc = "fold" =>
    /\ DOMAIN r = RoundFields /\ InRounds /\ Roomy(r.round)
    /\ r.base \in 1 .. r.round /\ r.pq_size = Pow2(r.round + 2 - r.base)
    /\ r.in_work \in BOOLEAN /\ Source

Windowed ==
  /\ DOMAIN r = RoundFields /\ InRounds /\ Tabled(r.round) /\ sys.precompute
  /\ r.active = active_pq /\ r.pending \in BOOLEAN
Windowing ==
  pc = "window" =>
    /\ Windowed
    /\ IF r.pending
       THEN /\ r.base = 1 /\ r.pq_size = Pow2(r.round + 1) /\ r.upload = 0 /\ MoreWindows
       ELSE /\ r.base \in sys.window + 1 .. stop(r.round)
            /\ r.pq_size = Pow2(r.round + 1 - r.base)
            /\ r.upload \in {Pow2(sys.window), Pow2(sys.window + 1)}
Multifolding ==
  pc = "multifold" =>
    /\ Windowed
    /\ IF r.pending
       THEN /\ r.base = sys.window + 1 /\ r.base <= stop(r.round)
            /\ r.pq_size = Pow2(r.round + 1)
       ELSE /\ r.base \in 2 * sys.window + 1 .. stop(r.round)
            /\ r.pq_size = Pow2(r.round + 1 - r.base + sys.window)
Tailing ==
  pc = "tail" =>
    /\ Windowed /\ ~r.pending
    /\ r.base \in sys.window + 2 .. r.round /\ r.pq_size = Pow2(r.round + 2 - r.base)

Memory ==
  /\ DOMAIN mem = {"layer", "work", "final"} /\ DOMAIN mem["layer"] = 0 .. R - 1
  /\ pc \in {"round", "fold", "window", "multifold", "tail", "claims"} =>
       DOMAIN mem["work"] = 0 .. max_work_size - 1

Phases == Treeing /\ Between /\ Folding /\ Windowing /\ Multifolding /\ Tailing
IInv == Fits /\ Memory /\ Phases /\ LaunchesSafe

-----------------------------------------------------------------------------
(* What a launch leaves.                                                    *)

LEMMA SameInput ==
  ASSUME sys' = sys
  PROVE  /\ R' = R /\ L' = L /\ total_rounds' = total_rounds
         /\ max_work_size' = max_work_size /\ Fits' = Fits
<1>1. R' = R /\ L' = L /\ total_rounds' = total_rounds
  BY DEF R, L, total_rounds
<1>2. max_work_size' = max_work_size
  BY <1>1 DEF max_work_size
<1>3. Fits' = Fits
  BY <1>1, <1>2 DEF Fits, Roomy, Tabled, PrecomputeM, window_w, build_tail_tile, stop
<1> QED
  BY <1>1, <1>2, <1>3

LEMMA RunKeeps ==
  ASSUME NEW m, NEW k
  PROVE  /\ DOMAIN Run(m, k) = DOMAIN m
         /\ \A b \in DOMAIN m : DOMAIN (Run(m, k)[b]) = DOMAIN m[b]
  BY DEF Run

(* The first s entries of a buffer with room for them.                      *)
LEMMA Enough ==
  ASSUME NEW b, NEW s \in Nat, NEW size \in Nat, s <= size, NEW m, DOMAIN m[b] = 0 .. size - 1
  PROVE  \A a \in InBuffer(b, s) : a[2] \in DOMAIN m[a[1]]
<1> SUFFICES ASSUME NEW a \in InBuffer(b, s)
             PROVE  a[2] \in DOMAIN m[a[1]]
  OBVIOUS
<1>1. a[1] = b /\ a[2] \in 0 .. s - 1
  BY DEF InBuffer
<1>2. a[2] \in 0 .. size - 1
  BY <1>1
<1> QED
  BY <1>1, <1>2, Zenon

(* The larger of two numbers, and of finitely many.                         *)
LEMMA LargestOfTwo ==
  ASSUME NEW a \in Nat, NEW b \in Nat
  PROVE  Largest({a, b}) \in {a, b} /\ a <= Largest({a, b}) /\ b <= Largest({a, b})
<1>1. \E x \in {a, b} : \A y \in {a, b} : y <= x
  OBVIOUS
<1> QED
  BY <1>1 DEF Largest

LEMMA LargestInSegment ==
  ASSUME NEW n \in Nat, NEW f, \A k \in 1 .. n : f[k] \in Nat, NEW K, K \subseteq 1 .. n, K # {}
  PROVE  /\ Largest({f[j] : j \in K}) \in {f[j] : j \in K}
         /\ \A k \in K : f[k] <= Largest({f[j] : j \in K})
<1> DEFINE Best(i) == \E x \in K : \A y \in K : y <= i => f[y] <= f[x]
           Below(i) == \A y \in K : ~(y <= i)
           S == {i \in 0 .. n : Below(i) \/ Best(i)}
<1>1. 0 \in S
  BY DEF Below
<1>2. ASSUME NEW i \in 1 .. n, i - 1 \in S
      PROVE  i \in S
  <2>1. \A y \in K : y <= i => y <= i - 1 \/ y = i
    OBVIOUS
  <2>2. CASE i \notin K
    <3>1. \A y \in K : y <= i => y <= i - 1
      BY <2>1, <2>2
    <3>2. Below(i - 1) => Below(i)
      BY <3>1
    <3>3. Best(i - 1) => Best(i)
      BY <3>1
    <3> HIDE DEF Below, Best
    <3> QED
      BY <1>2, <3>2, <3>3
  <2>3. CASE i \in K /\ Below(i - 1)
    <3>1. \A y \in K : y <= i => f[y] <= f[i]
      <4> SUFFICES ASSUME NEW y \in K, y <= i
                   PROVE  f[y] <= f[i]
        OBVIOUS
      <4>1. y = i
        BY <2>1, <2>3
      <4>2. f[i] \in Nat
        OBVIOUS
      <4> QED
        BY <4>1, <4>2
    <3>2. Best(i)
      BY <2>3, <3>1
    <3> QED
      BY <3>2
  <2>4. CASE i \in K /\ Best(i - 1)
    <3>1. PICK x \in K : \A y \in K : y <= i - 1 => f[y] <= f[x]
      BY <2>4
    <3>2. f[x] \in Nat /\ f[i] \in Nat /\ \A y \in K : f[y] \in Nat
      OBVIOUS
    <3>3. CASE f[x] <= f[i]
      <4>1. \A y \in K : y <= i => f[y] <= f[i]
        BY <2>1, <3>1, <3>2, <3>3
      <4>2. Best(i)
        BY <2>4, <4>1
      <4> QED
        BY <4>2
    <3>4. CASE ~(f[x] <= f[i])
      <4>1. \A y \in K : y <= i => f[y] <= f[x]
        BY <2>1, <3>1, <3>2, <3>4
      <4>2. Best(i)
        BY <4>1
      <4> QED
        BY <4>2
    <3> QED
      BY <3>3, <3>4
  <2> HIDE DEF Best, Below
  <2> QED
    BY <1>2, <2>2, <2>3, <2>4
<1> HIDE DEF S
<1>3. n \in S
  <2>1. \A i \in 1 .. n : i - 1 \in S => i \in S
    BY <1>2
  <2> QED
    BY <1>1, <2>1, UpTo
<1>4. Best(n)
  <2>1. \A y \in K : y <= n
    OBVIOUS
  <2> QED
    BY <1>3, <2>1 DEF S
<1>5. PICK x \in K : \A y \in K : f[y] <= f[x]
  <2>1. \A y \in K : y <= n
    OBVIOUS
  <2> QED
    BY <1>4, <2>1
<1>6. \E z \in {f[j] : j \in K} : \A y \in {f[j] : j \in K} : y <= z
  BY <1>5, Zenon
<1> DEFINE V == {f[j] : j \in K}
<1>7. Largest(V) \in V /\ \A y \in V : y <= Largest(V)
  <2> HIDE DEF V
  <2> QED
    BY <1>6 DEF Largest, V
<1> QED
  BY <1>7, Zenon

LEMMA RoundedUp ==
  ASSUME NEW a \in Nat, NEW d \in Nat \ {0}
  PROVE  /\ DivCeil(a, d) \in Nat /\ a <= DivCeil(a, d) * d
         /\ \A c \in Nat : c * d <= a => c <= DivCeil(a, d)
         /\ \A c \in Nat : a <= c * d => DivCeil(a, d) <= c
<1> DEFINE x == a + d - 1  y == x \div d  z == x % d
<1>1. x \in Nat
  OBVIOUS
<1> HIDE DEF x
<1>2. y \in Nat /\ z \in 0 .. d - 1 /\ x = (y * d) + z
  BY <1>1, Euclid
<1> HIDE DEF y, z
<1>3. y * d \in Nat
  BY <1>2
<1>4. a <= y * d
  BY <1>2, <1>3 DEF x
<1>5. ASSUME NEW c \in Nat, c * d <= a
      PROVE  c <= y
  <2> SUFFICES ASSUME y + 1 <= c PROVE FALSE
    BY <1>2
  <2>1. (y + 1) * d <= c * d
    BY <1>2, Scale
  <2>2. (y + 1) * d = (y * d) + d
    BY <1>2
  <2>3. c * d \in Nat
    OBVIOUS
  <2> QED
    BY <1>2, <1>3, <1>5, <2>1, <2>2, <2>3 DEF x
<1>6. ASSUME NEW c \in Nat, a <= c * d
      PROVE  y <= c
  <2> SUFFICES ASSUME c + 1 <= y PROVE FALSE
    BY <1>2
  <2>1. (c + 1) * d <= y * d
    BY <1>2, Scale
  <2>2. (c + 1) * d = (c * d) + d /\ c * d \in Nat
    OBVIOUS
  <2> QED
    BY <1>2, <1>3, <1>6, <2>1, <2>2 DEF x
<1>7. DivCeil(a, d) = y
  BY DEF DivCeil, x, y
<1> QED
  BY <1>2, <1>4, <1>5, <1>6, <1>7

LEMMA AtLeast ==
  ASSUME NEW a \in Nat, NEW d \in Nat \ {0}, NEW c \in Nat, c * d <= a
  PROVE  DivCeil(a, d) \in Nat /\ a <= DivCeil(a, d) * d /\ c <= DivCeil(a, d)
  BY RoundedUp

LEMMA AtMost ==
  ASSUME NEW a \in Nat, NEW d \in Nat \ {0}, NEW c \in Nat, a <= c * d
  PROVE  DivCeil(a, d) \in Nat /\ DivCeil(a, d) <= c
  BY RoundedUp

(* The scratch of a round is a number of elements.                          *)
LEMMA Scratch ==
  ASSUME NEW k \in 0 .. 31
  PROVE  round_temp_size(Pow2(k)) \in Nat
<1> DEFINE e == Pow2(k) \div 2
           blocks == DivCeil(e, BlockSize)
           warps == DivCeil(DivCeil(e, GridTarget), WarpSize)
           size == Largest({MinBlockSize, warps * WarpSize})
<1>0. BlockSize \in Nat \ {0} /\ MinBlockSize \in Nat \ {0} /\ WarpSize \in Nat \ {0} /\ GridTarget \in Nat \ {0}
  BY LaunchAssumption
<1>1. e \in Nat
  BY Power
<1> HIDE DEF e
<1>2. blocks \in Nat /\ DivCeil(e, GridTarget) \in Nat
  BY <1>0, <1>1, RoundedUp
<1>3. warps \in Nat
  BY <1>0, <1>2, RoundedUp
<1> HIDE DEF warps
<1>4. warps * WarpSize \in Nat
  BY <1>0, <1>3
<1>5. size \in Nat \ {0}
  BY <1>0, <1>4, LargestOfTwo
<1> HIDE DEF size, blocks
<1>6. DivCeil(e, size) \in Nat
  BY <1>1, <1>5, RoundedUp
<1>7. round_temp_size(Pow2(k)) = 2 * IF blocks < GridTarget /\ e >= MinBlockSize THEN DivCeil(e, size) ELSE blocks
  BY DEF round_temp_size, e, size, blocks, warps
<1> QED
  BY <1>2, <1>6, <1>7

(* The scratch is at least that of every round so far.                      *)
LEMMA BlockSums ==
  ASSUME total_rounds \in 1 .. 31, r.round \in 1 .. total_rounds - 1
  PROVE  round_temp_size(Pow2(r.round)) <= tmp_block_sums /\ tmp_block_sums \in Nat
<1> DEFINE n == total_rounds - 1
           K == {n} \cup 1 .. r.round
           f == [k \in 1 .. 31 |-> round_temp_size(Pow2(k))]
<1>1. n \in Nat /\ n <= 31 /\ K \subseteq 1 .. n /\ K # {} /\ r.round \in K
  OBVIOUS
<1>2. \A k \in 1 .. 31 : f[k] \in Nat /\ f[k] = round_temp_size(Pow2(k))
  <2> TAKE k \in 1 .. 31
  <2>1. k \in 0 .. 31
    OBVIOUS
  <2> QED
    BY <2>1, Scratch
<1> HIDE DEF f, K
<1>3. f[r.round] <= Largest({f[j] : j \in K}) /\ Largest({f[j] : j \in K}) \in {f[j] : j \in K}
  <2>1. \A k \in 1 .. n : f[k] \in Nat
    BY <1>1, <1>2
  <2> HIDE DEF n
  <2> QED
    BY <1>1, <2>1, LargestInSegment
<1>4. {f[j] : j \in K} = {round_temp_size(Pow2(j)) : j \in K}
  <2>1. \A j \in K : f[j] = round_temp_size(Pow2(j))
    BY <1>1, <1>2
  <2> QED
    BY <2>1, Zenon
<1>5. f[r.round] = round_temp_size(Pow2(r.round))
  BY <1>1, <1>2
<1>6. tmp_block_sums = Largest({f[j] : j \in K})
  BY <1>4, Zenon DEF tmp_block_sums, K, n
<1>7. tmp_block_sums \in Nat
  <2>1. PICK j \in K : tmp_block_sums = f[j]
    BY <1>3, <1>6, Zenon
  <2> QED
    BY <1>1, <1>2, <2>1
<1> QED
  BY <1>3, <1>5, <1>6, <1>7

LEMMA Sizes ==
  ASSUME Fits
  PROVE  /\ total_rounds \in 1 .. 31 /\ L = Pow2(total_rounds) /\ L \in Nat
         /\ R \in Nat /\ R <= L /\ Pow2(total_rounds - 1) <= R
         /\ max_work_size \in Nat
         /\ sys.precompute /\ 2 < total_rounds /\ sys.window + 1 <= total_rounds =>
              Pow2(total_rounds - (sys.window + 1)) <= max_work_size
<1>1. PICK k \in 1 .. 31 : L = Pow2(k)
  BY DEF Fits
<1>2. k \in 0 .. 31 /\ k - 1 \in 0 .. 30 /\ (k - 1) + 1 = k
  OBVIOUS
<1>3. total_rounds = k
  BY <1>1, <1>2, Log2Power DEF total_rounds
<1>4. L \in Nat /\ R \in Nat /\ R <= L /\ L <= 2 * R
  BY <1>1, <1>2, Power DEF Fits
<1>5. Pow2(k - 1) <= R
  <2>1. L = 2 * Pow2(k - 1) /\ Pow2(k - 1) \in Nat
    BY <1>1, <1>2, Double, Power
  <2> QED
    BY <1>4, <2>1
<1> DEFINE w1 == 1 + sys.window
           a == L \div Pow2(w1)
           b == Pow2(sys.default_min_n)
<1>6. w1 \in 1 .. 29 /\ sys.precompute \in BOOLEAN
  BY DEF Fits
<1>7. a \in Nat /\ b \in Nat
  <2>1. w1 \in 0 .. 31 /\ sys.default_min_n \in 0 .. 31
    BY <1>6 DEF Fits
  <2>2. Pow2(w1) \in Nat \ {0} /\ b \in Nat
    BY <2>1, Power
  <2> HIDE DEF w1
  <2> QED
    BY <1>4, <2>2, Euclid
<1> HIDE DEF a, b
<1>8. Largest({a, b}) \in Nat /\ a <= Largest({a, b})
  BY <1>7, LargestOfTwo
<1>9. max_work_size = IF k <= 2 THEN 0 ELSE IF sys.precompute THEN Largest({a, b}) ELSE L \div 4
  BY <1>3 DEF max_work_size, a, b
<1>10. max_work_size \in Nat
  BY <1>4, <1>8, <1>9
<1>11. ASSUME sys.precompute, 2 < k, sys.window + 1 <= k
       PROVE  Pow2(k - (sys.window + 1)) <= max_work_size
  <2>1. max_work_size = Largest({a, b})
    BY <1>9, <1>11
  <2>2. w1 \in 0 .. 31 /\ w1 <= k /\ w1 = sys.window + 1
    BY <1>6, <1>11 DEF Fits
  <2>3. a = Pow2(k - w1)
    <3> HIDE DEF w1
    <3>1. Pow2(k) \div Pow2(w1) = Pow2(k - w1)
      BY <1>2, <2>2, PowerQuotient
    <3> QED
      BY <1>1, <3>1 DEF a
  <2> HIDE DEF w1
  <2> QED
    BY <1>8, <2>1, <2>2, <2>3
<1> QED
  BY <1>1, <1>3, <1>4, <1>5, <1>10, <1>11

Tree == {"start", "leaves", "alpha", "tree"}
Late == {"round", "fold", "window", "multifold", "tail", "claims"}

LEMMA SafeAfter ==
  ASSUME NEW S, Sound(kernel', S), \A a \in S : a[2] \in DOMAIN (mem'[a[1]]),
         pc' = "window" /\ r'.upload > 0 => r'.upload <= tmp_block_sums'
  PROVE  LaunchesSafe'
<1>1. ~Races(kernel')
  BY DEF Sound
<1>2. \A a \in Touched(kernel') : a[2] \in DOMAIN (mem'[a[1]])
  BY DEF Sound
<1> QED
  BY <1>1, <1>2 DEF LaunchesSafe, NoRace, InBounds

(* A launch leaves the buffers as large as they were.                       *)
LEMMA Launched ==
  ASSUME Fits, Memory, sys' = sys, NEW k, Launch(k), pc' \in Late => pc \in Late
  PROVE  /\ Memory' /\ kernel' = k
         /\ \A b \in {"layer", "work", "final"} : DOMAIN (mem'[b]) = DOMAIN (mem[b])
<1>1. kernel' = k /\ mem' = Run(mem, k)
  BY DEF Launch
<1>2. DOMAIN mem = {"layer", "work", "final"} /\ DOMAIN (mem["layer"]) = 0 .. R - 1
  BY DEF Memory
<1>3. DOMAIN mem' = DOMAIN mem /\ \A b \in DOMAIN mem : DOMAIN (mem'[b]) = DOMAIN (mem[b])
  BY <1>1, RunKeeps
<1>4. R' = R /\ max_work_size' = max_work_size
  BY SameInput
<1>5. pc' \in Late => DOMAIN (mem["work"]) = 0 .. max_work_size - 1
  BY DEF Memory, Late
<1>6. Memory'
  BY <1>2, <1>3, <1>4, <1>5 DEF Memory, Late
<1> QED
  BY <1>1, <1>2, <1>3, <1>6

LEMMA LayerLaunched ==
  ASSUME Fits, Memory, sys' = sys, NEW k, Launch(k), pc' \in Late => pc \in Late,
         Sound(k, InBuffer("layer", R)), pc' = "window" => r'.upload = 0
  PROVE  Memory' /\ LaunchesSafe'
<1>1. Memory' /\ kernel' = k /\ DOMAIN (mem'["layer"]) = DOMAIN (mem["layer"])
  BY Launched
<1>2. DOMAIN (mem'["layer"]) = 0 .. R - 1 /\ R \in Nat /\ R <= R
  BY <1>1, Sizes DEF Memory
<1>3. \A a \in InBuffer("layer", R) : a[2] \in DOMAIN (mem'[a[1]])
  BY <1>2, Enough
<1>4. pc' = "window" /\ r'.upload > 0 => FALSE
  OBVIOUS
<1>5. LaunchesSafe'
  BY <1>1, <1>3, <1>4, SafeAfter
<1> QED
  BY <1>1, <1>5

-----------------------------------------------------------------------------
(* The steps that build the tree.                                           *)

LEMMA TreePhases ==
  ASSUME pc' \in Tree, DOMAIN r' = TreeFields, r'.i \in Nat, pc' \in {"leaves", "alpha"} => R' = L'
  PROVE  Phases'
<1>1. pc' \notin Late
  BY DEF Tree, Late
<1>2. Treeing'
  BY DEF Treeing
<1>3. Between' /\ Folding' /\ Windowing' /\ Multifolding' /\ Tailing'
  BY <1>1 DEF Between, Folding, Windowing, Multifolding, Tailing, Late
<1> QED
  BY <1>2, <1>3 DEF Phases

LEMMA TreeLaunch ==
  ASSUME IInv, sys' = sys, NEW k, Launch(k), Sound(k, InBuffer("layer", R)),
         pc' \in Tree, DOMAIN r' = TreeFields, r'.i \in Nat, pc' \in {"leaves", "alpha"} => R = L
  PROVE  IInv'
<1>1. Fits /\ Memory /\ R' = R /\ L' = L /\ Fits' = Fits
  BY SameInput DEF IInv
<1>2. (pc' \in Late => pc \in Late) /\ (pc' = "window" => r'.upload = 0)
  BY DEF Tree, Late
<1>3. Memory' /\ LaunchesSafe'
  BY <1>1, <1>2, LayerLaunched
<1>4. Phases'
  BY <1>1, TreePhases
<1> QED
  BY <1>1, <1>3, <1>4 DEF IInv

LEMMA InTree ==
  ASSUME IInv, pc \in Tree
  PROVE  DOMAIN r = TreeFields /\ r.i \in Nat /\ (pc \in {"leaves", "alpha"} => R = L)
BY DEF IInv, Phases, Treeing, Tree

LEMMA BuildK2Keeps ==
  ASSUME IInv, BuildK2
  PROVE  IInv'
<1>1. /\ pc = "start" /\ L > SmallTree /\ Launch(build_k2(mem, R, L)) /\ pc' = "tree"
      /\ r' = [r EXCEPT !.i = 2] /\ sys' = sys
  BY DEF BuildK2
<1>2. pc \in Tree /\ pc' \in Tree /\ (pc' \in {"leaves", "alpha"} => R = L)
  BY <1>1 DEF Tree
<1>3. DOMAIN r' = TreeFields /\ r'.i \in Nat
  BY <1>1, <1>2, InTree DEF TreeFields
<1>4. total_rounds \in 1 .. 31 /\ L = Pow2(total_rounds) /\ L \in Nat /\ R \in Nat
  BY Sizes DEF IInv
<1>5. total_rounds \in 6 .. 31
  <2>1. SmallTree \in Nat /\ SmallTree >= 32
    BY TreeAssumption
  <2>2. total_rounds <= 5 => Pow2(total_rounds) <= Pow2(5)
    BY <1>4, PowerGrows
  <2>3. Pow2(5) = 32
    BY PowerTable
  <2> QED
    BY <1>1, <1>4, <2>1, <2>2, <2>3
<1>6. Sound(build_k2(mem, R, L), InBuffer("layer", R))
  BY <1>4, <1>5, Tiles
<1> QED
  BY <1>1, <1>2, <1>3, <1>6, TreeLaunch

LEMMA BitReverseKeeps ==
  ASSUME IInv, BitReverse
  PROVE  IInv'
<1>1. /\ pc = "start" /\ ~virtual_input /\ Launch(bit_rev_frac_ext(mem, L)) /\ pc' = "leaves"
      /\ r' = r /\ sys' = sys
  BY DEF BitReverse
<1>2. pc \in Tree /\ pc' \in Tree
  BY <1>1 DEF Tree
<1>3. DOMAIN r' = TreeFields /\ r'.i \in Nat
  BY <1>1, <1>2, InTree
<1>4. total_rounds \in 1 .. 31 /\ L = Pow2(total_rounds) /\ L \in Nat /\ R \in Nat /\ R <= L
  BY Sizes DEF IInv
<1>5. R = L
  BY <1>1, <1>4 DEF virtual_input
<1>6. Sound(bit_rev_frac_ext(mem, L), InBuffer("layer", R))
  <2>1. total_rounds \in 0 .. 31
    BY <1>4
  <2>2. Sound(bit_rev_frac_ext(mem, L), InBuffer("layer", L))
    BY <1>4, <2>1, BitReversal
  <2> QED
    BY <1>5, <2>2
<1> QED
  BY <1>1, <1>2, <1>3, <1>5, <1>6, TreeLaunch

LEMMA BuildLeavesKeeps ==
  ASSUME IInv, BuildLeaves
  PROVE  IInv'
<1> DEFINE k == IF virtual_input THEN build_virtual_leaves(mem, R, L)
                ELSE build_tree_layer(mem, L, R, L, TRUE)
<1>1. /\ pc \in {"start", "leaves"} /\ Launch(k) /\ r' = [r EXCEPT !.i = 1] /\ sys' = sys
      /\ IF virtual_input THEN pc' = "tree" ELSE pc = "leaves" /\ pc' = "alpha"
  BY DEF BuildLeaves
<1>2. pc \in Tree /\ pc' \in Tree
  BY <1>1 DEF Tree
<1>3. DOMAIN r' = TreeFields /\ r'.i \in Nat /\ (pc' \in {"leaves", "alpha"} => R = L)
  BY <1>1, <1>2, InTree DEF TreeFields
<1>4. total_rounds \in 1 .. 31 /\ L = Pow2(total_rounds) /\ R \in Nat
  BY Sizes DEF IInv
<1>5. Sound(build_virtual_leaves(mem, R, L), InBuffer("layer", R))
  BY <1>4, VirtualLeaves
<1>6. Sound(build_tree_layer(mem, L, R, L, TRUE), InBuffer("layer", R))
  <2>1. total_rounds \in 0 .. 31 /\ total_rounds \in 1 .. total_rounds
    BY <1>4
  <2> QED
    BY <1>4, <2>1, TreeLayer
<1>7. Sound(k, InBuffer("layer", R))
  BY <1>5, <1>6
<1> HIDE DEF k
<1> QED
  BY <1>1, <1>2, <1>3, <1>7, TreeLaunch

LEMMA AddAlphaKeeps ==
  ASSUME IInv, AddAlpha
  PROVE  IInv'
<1>1. pc = "alpha" /\ Launch(frac_add_alpha(mem, L)) /\ pc' = "tree" /\ r' = r /\ sys' = sys
  BY DEF AddAlpha
<1>2. pc \in Tree /\ pc' \in Tree /\ (pc' \in {"leaves", "alpha"} => R = L)
  BY <1>1 DEF Tree
<1>3. DOMAIN r' = TreeFields /\ r'.i \in Nat /\ R = L
  BY <1>1, <1>2, InTree
<1>4. total_rounds \in 1 .. 31 /\ L = Pow2(total_rounds)
  BY Sizes DEF IInv
<1>5. Sound(frac_add_alpha(mem, L), InBuffer("layer", R))
  <2>1. Sound(frac_add_alpha(mem, L), InBuffer("layer", L))
    BY <1>4, AlphaAdded
  <2> QED
    BY <1>3, <2>1
<1> QED
  BY <1>1, <1>2, <1>3, <1>5, TreeLaunch

LEMMA BuildTwoLayersKeeps ==
  ASSUME IInv, BuildTwoLayers
  PROVE  IInv'
<1> DEFINE q == L \div Pow2(r.i + 2)
           k == (total_rounds - r.i) - 2
<1>1. /\ pc = "tree" /\ r.i + 1 < total_rounds /\ Launch(build_tree_two_layers(mem, q, R, L))
      /\ r' = [r EXCEPT !.i = @ + 2] /\ sys' = sys /\ pc' = pc
  BY DEF BuildTwoLayers
<1>2. pc \in Tree /\ pc' \in Tree /\ (pc' \in {"leaves", "alpha"} => R = L)
  BY <1>1 DEF Tree
<1>3. DOMAIN r = TreeFields /\ r.i \in Nat
  BY <1>2, InTree
<1>4. DOMAIN r' = TreeFields /\ r'.i \in Nat
  BY <1>1, <1>3 DEF TreeFields
<1>5. total_rounds \in 1 .. 31 /\ L = Pow2(total_rounds) /\ R \in Nat
  BY Sizes DEF IInv
<1>6. Sound(build_tree_two_layers(mem, q, R, L), InBuffer("layer", R))
  <2>1. total_rounds \in 0 .. 31 /\ r.i + 2 \in 0 .. 31 /\ r.i + 2 <= total_rounds
    BY <1>1, <1>3, <1>5
  <2>2. k = total_rounds - (r.i + 2) /\ k \in 0 .. total_rounds - 2
    BY <1>3, <1>5, <2>1
  <2>3. q = Pow2(k)
    <3>1. Pow2(total_rounds) \div Pow2(r.i + 2) = Pow2(total_rounds - (r.i + 2))
      BY <2>1, PowerQuotient
    <3> HIDE DEF k
    <3> QED
      BY <1>5, <2>2, <3>1
  <2> HIDE DEF q, k
  <2> QED
    BY <1>5, <2>1, <2>2, <2>3, TwoLayers
<1> HIDE DEF q
<1> QED
  BY <1>1, <1>2, <1>4, <1>6, TreeLaunch

LEMMA BuildLastLayerKeeps ==
  ASSUME IInv, BuildLastLayer
  PROVE  IInv'
<1> DEFINE size == L \div Pow2(r.i)
<1>1. /\ pc = "tree" /\ r.i + 1 = total_rounds
      /\ Launch(build_tree_layer(mem, size, R, L, FALSE))
      /\ r' = [r EXCEPT !.i = @ + 1] /\ sys' = sys /\ pc' = pc
  BY DEF BuildLastLayer
<1>2. pc \in Tree /\ pc' \in Tree /\ (pc' \in {"leaves", "alpha"} => R = L)
  BY <1>1 DEF Tree
<1>3. DOMAIN r = TreeFields /\ r.i \in Nat
  BY <1>2, InTree
<1>4. DOMAIN r' = TreeFields /\ r'.i \in Nat
  BY <1>1, <1>3 DEF TreeFields
<1>5. total_rounds \in 1 .. 31 /\ L = Pow2(total_rounds) /\ R \in Nat
  BY Sizes DEF IInv
<1>6. Sound(build_tree_layer(mem, size, R, L, FALSE), InBuffer("layer", R))
  <2>1. /\ total_rounds \in 0 .. 31 /\ r.i \in 0 .. 31 /\ r.i <= total_rounds
        /\ total_rounds - r.i = 1 /\ 1 \in 1 .. total_rounds
    BY <1>1, <1>3, <1>5
  <2>2. size = Pow2(1)
    <3>1. Pow2(total_rounds) \div Pow2(r.i) = Pow2(total_rounds - r.i)
      BY <2>1, PowerQuotient
    <3> QED
      BY <1>5, <2>1, <3>1
  <2> HIDE DEF size
  <2> QED
    BY <1>5, <2>1, <2>2, TreeLayer
<1> HIDE DEF size
<1> QED
  BY <1>1, <1>2, <1>4, <1>6, TreeLaunch

-----------------------------------------------------------------------------
(* The steps between rounds.                                                *)

LEMMA RootKeeps ==
  ASSUME IInv, Root
  PROVE  IInv'
<1> DEFINE k == revert_tree_layer(mem, 2, R, L)
           m == Run(mem, k)
           W == [s \in 0 .. max_work_size - 1 |-> Garbage]
<1>1. /\ pc = "tree" /\ kernel' = k /\ mem' = [m EXCEPT !.work = W]
      /\ pc' = IF 1 < total_rounds THEN "round" ELSE "done"
      /\ r' = [r EXCEPT !.round = 1] /\ sys' = sys
  BY DEF Root, NextRound
<1>2. Fits /\ Memory /\ R' = R /\ total_rounds' = total_rounds /\ max_work_size' = max_work_size /\ Fits' = Fits
  BY <1>1, SameInput DEF IInv
<1>3. total_rounds \in 1 .. 31 /\ L = Pow2(total_rounds) /\ R \in Nat /\ max_work_size \in Nat
  BY <1>2, Sizes
<1>4. DOMAIN r = TreeFields
  <2>1. pc \in Tree
    BY <1>1 DEF Tree
  <2> QED
    BY <2>1, InTree
<1>5. r'.round = 1 /\ "round" \in DOMAIN r'
  BY <1>1, <1>4 DEF TreeFields
<1>6. Sound(k, InBuffer("layer", R))
  BY <1>3, RevertRoot
<1>7. /\ DOMAIN m = {"layer", "work", "final"} /\ DOMAIN (m["layer"]) = 0 .. R - 1
  <2>1. DOMAIN m = DOMAIN mem /\ \A b \in DOMAIN mem : DOMAIN (m[b]) = DOMAIN (mem[b])
    BY RunKeeps
  <2> HIDE DEF m
  <2> QED
    BY <1>2, <2>1 DEF Memory
<1> HIDE DEF k, m
<1>8. DOMAIN W = 0 .. max_work_size - 1
  OBVIOUS
<1> HIDE DEF W
<1>9. /\ DOMAIN mem' = {"layer", "work", "final"} /\ DOMAIN (mem'["layer"]) = 0 .. R - 1
      /\ DOMAIN (mem'["work"]) = 0 .. max_work_size - 1
  BY <1>1, <1>7, <1>8
<1>10. Memory'
  BY <1>2, <1>9 DEF Memory
<1>11. LaunchesSafe'
  <2>1. \A a \in InBuffer("layer", R) : a[2] \in DOMAIN (mem'[a[1]])
    BY <1>3, <1>9, Enough
  <2>2. pc' # "window" /\ Sound(kernel', InBuffer("layer", R))
    BY <1>1, <1>6
  <2> QED
    BY <2>1, <2>2, SafeAfter
<1>12. Phases'
  <2>1. pc' \in {"round", "done"} /\ (pc' = "round" => 1 < total_rounds)
    BY <1>1
  <2>2. Between'
    BY <1>2, <1>3, <1>5, <2>1 DEF Between, InRounds
  <2>3. Treeing' /\ Folding' /\ Windowing' /\ Multifolding' /\ Tailing'
    BY <2>1 DEF Treeing, Folding, Windowing, Multifolding, Tailing
  <2> QED
    BY <2>2, <2>3 DEF Phases
<1> QED
  BY <1>2, <1>10, <1>11, <1>12 DEF IInv

LEMMA ClaimKeeps ==
  ASSUME IInv, Claim
  PROVE  IInv'
<1>1. /\ pc = "claims" /\ r' = [r EXCEPT !.round = @ + 1]
      /\ pc' = IF r.round + 1 < total_rounds THEN "round" ELSE "done"
      /\ kernel' = Idle /\ sys' = sys /\ mem' = mem
  BY DEF Claim, NextRound
<1>2. /\ Fits /\ Memory /\ R' = R /\ total_rounds' = total_rounds
      /\ max_work_size' = max_work_size /\ Fits' = Fits
  BY <1>1, SameInput DEF IInv
<1>3. total_rounds \in 1 .. 31
  BY <1>2, Sizes
<1>4. InRounds /\ DOMAIN r = RoundFields
  BY <1>1 DEF IInv, Phases, Between
<1>5. r'.round = r.round + 1 /\ "round" \in DOMAIN r'
  BY <1>1, <1>4 DEF RoundFields
<1>6. Memory'
  BY <1>1, <1>2 DEF Memory
<1>7. LaunchesSafe'
  <2>1. Sound(kernel', {})
    BY <1>1, IdleSound
  <2>2. pc' # "window"
    BY <1>1
  <2>3. \A a \in {} : a[2] \in DOMAIN (mem'[a[1]])
    OBVIOUS
  <2> QED
    BY <2>1, <2>2, <2>3, SafeAfter
<1>8. Phases'
  <2>1. pc' \in {"round", "done"} /\ (pc' = "round" => r.round + 1 < total_rounds)
    BY <1>1
  <2>2. Between'
    BY <1>2, <1>3, <1>4, <1>5, <2>1 DEF Between, InRounds
  <2>3. Treeing' /\ Folding' /\ Windowing' /\ Multifolding' /\ Tailing'
    BY <2>1 DEF Treeing, Folding, Windowing, Multifolding, Tailing
  <2> QED
    BY <2>2, <2>3 DEF Phases
<1> QED
  BY <1>2, <1>6, <1>7, <1>8 DEF IInv

LEMMA StartRoundShape ==
  ASSUME StartRound, NEW h, h = Pow2(r.round), NEW q, q = h \div 2
  PROVE  /\ kernel' = Kernel(FALSE, kernel'.threads) /\ DOMAIN (kernel'.threads) = 0 .. q - 1
         /\ \A i \in 0 .. q - 1 : Reverts(kernel'.threads[i], i, q, h, R, L)
<1> DEFINE left(j) == frac_unadd(virtual_node_value(mem, "layer", j, h, R, L),
                                 virtual_node_value(mem, "layer", j + h, 2 * h, R, L), R)
           own(i) == {i, i + q}
           W(i) == {virtual_node_store("layer", j, 2 * h, R, L, left(j)) : j \in own(i)}
           RD(i) == Reads("layer", own(i), h, R, L)
                      \cup Reads("layer", {j + h : j \in own(i)}, 2 * h, R, L)
           T == [i \in 0 .. q - 1 |-> [reads |-> RD(i), writes |-> UNION W(i)]]
<1>1. kernel' = Kernel(FALSE, T)
  BY DEF StartRound, Launch
<1>2. kernel'.threads = T
  BY <1>1 DEF Kernel
<1>3. ASSUME NEW i \in 0 .. q - 1
      PROVE  Reverts(T[i], i, q, h, R, L)
  <2>1. T[i] = [reads |-> RD(i), writes |-> UNION W(i)]
    BY Zenon
  <2>2. \A A \in W(i) : \E j \in {i, i + q} : \E v : A = virtual_node_store("layer", j, 2 * h, R, L, v)
    <3> HIDE DEF left
    <3> QED
      BY Zenon
  <2>3. RD(i) = Reads("layer", {i, i + q}, h, R, L)
                  \cup Reads("layer", {j + h : j \in {i, i + q}}, 2 * h, R, L)
    BY Zenon
  <2>4. PICK V : V = W(i)
    BY Zenon
  <2> HIDE DEF RD, W, T
  <2>5. T[i].reads = RD(i) /\ T[i].writes = UNION V
    BY <2>1, <2>4
  <2> QED
    BY <2>2, <2>3, <2>4, <2>5, Zenon DEF Reverts
<1>4. DOMAIN T = 0 .. q - 1
  OBVIOUS
<1> HIDE DEF T
<1> QED
  BY <1>1, <1>2, <1>3, <1>4, Zenon

LEMMA StartRoundKeeps ==
  ASSUME IInv, StartRound
  PROVE  IInv'
<1> DEFINE k == kernel'
           h == Pow2(r.round)
           q == h \div 2
<1>1. /\ pc = "round" /\ Launch(k) /\ sys' = sys
      /\ r' = [round |-> r.round, pq_size |-> 2 * Pow2(r.round), polys |-> 1, base |-> 1,
               eq_n |-> Largest({0, r.round - 2}), in_work |-> FALSE,
               src_real |-> R, src_logical |-> L, pending |-> TRUE, upload |-> 0,
               active |-> active_pq]
      /\ pc' = IF PrecomputeM(r.round) THEN "window" ELSE "fold"
  BY DEF StartRound, Launch
<1>2. /\ Fits /\ Memory /\ R' = R /\ L' = L /\ total_rounds' = total_rounds
      /\ max_work_size' = max_work_size /\ Fits' = Fits
  BY <1>1, SameInput DEF IInv
<1>3. total_rounds \in 1 .. 31 /\ L = Pow2(total_rounds) /\ R \in Nat
  BY <1>2, Sizes
<1>4. r.round \in 1 .. total_rounds - 1 /\ r.round \in 0 .. 30 /\ r.round \in 0 .. 31
  BY <1>1, <1>3 DEF IInv, Phases, Between, InRounds
<1>5. 2 * Pow2(r.round) = Pow2(r.round + 1)
  BY <1>4, Double
<1>6. q = Pow2(r.round - 1)
  <2>1. total_rounds \in 0 .. 31 /\ r.round \in 1 .. total_rounds
    BY <1>3, <1>4
  <2> QED
    BY <2>1, Halves
<1>7. Sound(k, InBuffer("layer", R))
  <2>1. /\ k = Kernel(FALSE, k.threads) /\ DOMAIN (k.threads) = 0 .. q - 1
        /\ \A i \in 0 .. q - 1 : Reverts(k.threads[i], i, q, h, R, L)
    BY StartRoundShape
  <2>2. total_rounds \in 0 .. 31
    BY <1>3
  <2> HIDE DEF k, h, q
  <2>3. Sound(Kernel(FALSE, k.threads), InBuffer("layer", R))
    BY <1>3, <1>4, <1>6, <2>1, <2>2, RevertLayer, Zenon DEF h
  <2> QED
    BY <2>1, <2>3, Zenon
<1>8. /\ r'.round = r.round /\ r'.pq_size = 2 * Pow2(r.round) /\ r'.base = 1
      /\ r'.in_work = FALSE /\ r'.src_real = R /\ r'.src_logical = L /\ r'.pending = TRUE
      /\ r'.upload = 0 /\ r'.active = active_pq /\ DOMAIN r' = RoundFields
  BY <1>1 DEF RoundFields
<1>9. Memory' /\ LaunchesSafe'
  <2>1. (pc' \in Late => pc \in Late) /\ (pc' = "window" => r'.upload = 0)
    BY <1>1, <1>8 DEF Late
  <2> HIDE DEF k
  <2> QED
    BY <1>1, <1>2, <1>7, <2>1, LayerLaunched
<1>10. IF PrecomputeM(r.round) THEN Tabled(r.round) ELSE Roomy(r.round)
  BY <1>2, <1>4 DEF Fits
<1>11. InRounds'
  BY <1>2, <1>4, <1>8 DEF InRounds
<1>12. Folding'
  <2> SUFFICES ASSUME pc' = "fold" PROVE Folding'
    BY DEF Folding
  <2>1. Roomy(r.round)
    BY <1>1, <1>10
  <2>2. Roomy(r.round)'
    BY <1>2, <1>8, <2>1 DEF Roomy
  <2>3. Source'
    BY <1>2, <1>8 DEF Source
  <2>4. r'.base \in 1 .. r'.round /\ r'.round + 2 - r'.base = r.round + 1
    BY <1>4, <1>8
  <2> QED
    BY <1>5, <1>8, <1>11, <2>2, <2>3, <2>4 DEF Folding
<1>13. Windowing'
  <2> SUFFICES ASSUME pc' = "window" PROVE Windowing'
    BY DEF Windowing
  <2>1. PrecomputeM(r.round) /\ Tabled(r.round)
    BY <1>1, <1>10
  <2>2. Tabled(r.round)'
    BY <1>1, <1>8, <2>1 DEF Tabled
  <2>3. active_pq' = active_pq
    BY <1>2, <1>8 DEF active_pq, last_outer_round, virtual_input
  <2>4. sys'.precompute
    BY <1>1, <2>1 DEF PrecomputeM
  <2>5. Windowed'
    BY <1>8, <1>11, <2>2, <2>3, <2>4 DEF Windowed
  <2>6. MoreWindows'
    <3>1. window_w(r.round - 1, stop(r.round) - 1)
      BY <2>1 DEF PrecomputeM
    <3>2. window_w(r.round - 1, stop(r.round) - 1)'
      BY <1>1, <1>8, <3>1 DEF window_w, build_tail_tile, stop
    <3>3. 1 < stop(r.round)
      <4>1. stop(r.round) - 1 >= sys.window
        BY <3>1 DEF window_w
      <4>2. sys.window \in 1 .. 28
        BY <1>2 DEF Fits
      <4>3. stop(r.round) \in Nat
        BY <1>4 DEF stop, DivCeil
      <4> QED
        BY <4>1, <4>2, <4>3
    <3>4. 1 < stop(r.round)'
      BY <1>8, <3>3 DEF stop
    <3> QED
      BY <1>8, <3>2, <3>4 DEF MoreWindows
  <2> QED
    BY <1>5, <1>8, <2>5, <2>6 DEF Windowing
<1>14. Treeing' /\ Between' /\ Multifolding' /\ Tailing'
  BY <1>1 DEF Treeing, Between, Multifolding, Tailing
<1> QED
  BY <1>2, <1>9, <1>12, <1>13, <1>14 DEF IInv, Phases

-----------------------------------------------------------------------------
(* The steps of a round that folds after every challenge.                   *)

Room(b) == IF b = "layer" THEN R ELSE max_work_size

LEMMA RoundLaunched ==
  ASSUME Fits, Memory, sys' = sys, pc \in Late, NEW k, Launch(k),
         NEW src \in {"layer", "work"}, NEW dst \in {"layer", "work"}, NEW a \in Nat, NEW b \in Nat,
         a <= Room(src), b <= Room(dst), Sound(k, InBuffer(src, a) \cup InBuffer(dst, b)),
         pc' = "window" /\ r'.upload > 0 => r'.upload <= tmp_block_sums'
  PROVE  Memory' /\ LaunchesSafe'
<1>1. /\ Memory' /\ kernel' = k
      /\ \A c \in {"layer", "work", "final"} : DOMAIN (mem'[c]) = DOMAIN (mem[c])
  BY Launched
<1>2. R \in Nat /\ max_work_size \in Nat
  BY Sizes
<1>3. \A c \in {"layer", "work"} : DOMAIN (mem'[c]) = 0 .. Room(c) - 1 /\ Room(c) \in Nat
  BY <1>1, <1>2 DEF Memory, Room, Late
<1>4. \A x \in InBuffer(src, a) : x[2] \in DOMAIN (mem'[x[1]])
  BY <1>3, Enough
<1>5. \A x \in InBuffer(dst, b) : x[2] \in DOMAIN (mem'[x[1]])
  BY <1>3, Enough
<1> DEFINE S == InBuffer(src, a) \cup InBuffer(dst, b)
<1>6. \A x \in S : x[2] \in DOMAIN (mem'[x[1]])
  BY <1>4, <1>5, Zenon
<1>7. Sound(kernel', S)
  BY <1>1
<1> HIDE DEF S
<1>8. LaunchesSafe'
  BY <1>6, <1>7, SafeAfter
<1> QED
  BY <1>1, <1>8

LEMMA InFold ==
  ASSUME IInv, pc = "fold"
  PROVE  /\ DOMAIN r = RoundFields /\ r.round \in 1 .. total_rounds - 1 /\ Roomy(r.round)
         /\ r.base \in 1 .. r.round /\ r.pq_size = Pow2(r.round + 2 - r.base)
         /\ r.in_work \in BOOLEAN /\ Source
         /\ Fits /\ Memory /\ total_rounds \in 1 .. 31 /\ L = Pow2(total_rounds) /\ R \in Nat
         /\ R <= L /\ Pow2(total_rounds - 1) <= R /\ max_work_size \in Nat
         /\ r.pq_size \in Nat \ {0} /\ L \in Nat
<1>1. /\ DOMAIN r = RoundFields /\ r.round \in 1 .. total_rounds - 1 /\ Roomy(r.round)
      /\ r.base \in 1 .. r.round /\ r.pq_size = Pow2(r.round + 2 - r.base)
      /\ r.in_work \in BOOLEAN /\ Source
  BY DEF IInv, Phases, Folding, InRounds
<1>2. Fits /\ Memory
  BY DEF IInv
<1>3. /\ total_rounds \in 1 .. 31 /\ L = Pow2(total_rounds) /\ R \in Nat
      /\ R <= L /\ Pow2(total_rounds - 1) <= R /\ max_work_size \in Nat /\ L \in Nat
  BY <1>2, Sizes
<1>4. r.round + 2 - r.base \in 0 .. 31
  BY <1>1, <1>3
<1>5. r.pq_size \in Nat \ {0}
  BY <1>1, <1>4, Power
<1> QED
  BY <1>1, <1>2, <1>3, <1>5

(* Where a fused round reads and writes.                                    *)
LEMMA FusedTarget ==
  ASSUME IInv, pc = "fold", r.base < r.round,
         NEW k, k = r.round + 2 - r.base, NEW post, post = Pow2(k - 1), NEW t, t = next_target(post)
  PROVE  /\ t[1] \in {"layer", "work"} /\ t[2] \in {"layer", "work"} /\ t = <<t[1], t[2]>>
         /\ r.src_real \in Nat /\ r.src_real <= Room(t[1]) /\ post <= Room(t[2])
         /\ t[1] = t[2] => r.src_real = r.pq_size /\ r.src_logical = r.pq_size
         /\ t = <<"layer", "layer">> => R = L
         /\ t[2] = "layer" => last_outer_round
         /\ \E n \in 0 .. 31 : r.src_logical = Pow2(n) /\ k <= n
<1>1. /\ r.round \in 1 .. total_rounds - 1 /\ Roomy(r.round)
      /\ r.base \in 1 .. r.round /\ r.pq_size = Pow2(k) /\ r.in_work \in BOOLEAN /\ Source
      /\ total_rounds \in 1 .. 31 /\ L = Pow2(total_rounds) /\ R \in Nat
      /\ R <= L /\ Pow2(total_rounds - 1) <= R /\ max_work_size \in Nat
      /\ r.pq_size \in Nat \ {0} /\ L \in Nat
  BY InFold
<1>2. /\ k \in 3 .. r.round + 1 /\ k \in 3 .. 31 /\ k - 1 \in 0 .. 30 /\ (k - 1) + 1 = k
      /\ k - 1 <= r.round /\ r.round \in 0 .. 31 /\ k - 1 \in 0 .. 31 /\ r.round # 1
      /\ (r.base = 1 => k = r.round + 1) /\ total_rounds - 1 \in 0 .. 31
      /\ r.round <= total_rounds - 1 /\ k <= total_rounds
  BY <1>1
<1>3. r.pq_size = 2 * post /\ post \in Nat
  BY <1>1, <1>2, Double, Power
<1>4. post <= Pow2(r.round) /\ Pow2(r.round) \in Nat
  BY <1>2, PowerGrows, Power
<1>5. post <= R
  <2>1. Pow2(r.round) <= Pow2(total_rounds - 1) /\ Pow2(total_rounds - 1) \in Nat
    BY <1>2, PowerGrows, Power
  <2> QED
    BY <1>1, <1>3, <1>4, <2>1
<1>6. Pow2(r.round) <= max_work_size \/ (r.round = total_rounds - 1 /\ R = L)
  BY <1>1, <1>2 DEF Roomy
<1>7. r.src_real \in Nat /\ r.src_real <= Room(IF r.in_work THEN "work" ELSE "layer")
  BY <1>1 DEF Source, Room
<1>8. /\ r.in_work => r.src_real = r.pq_size /\ r.src_logical = r.pq_size /\ r.pq_size <= max_work_size
      /\ ~r.in_work => \/ r.base = 1 /\ r.src_real = R /\ r.src_logical = L
                       \/ last_outer_round /\ r.src_real = r.pq_size /\ r.src_logical = r.pq_size
  BY <1>1 DEF Source
<1>9. \E n \in 0 .. 31 : r.src_logical = Pow2(n) /\ k <= n
  <2>1. CASE r.src_logical = L
    <3>1. total_rounds \in 0 .. 31 /\ k <= total_rounds
      BY <1>1, <1>2
    <3> QED
      BY <1>1, <2>1, <3>1
  <2>2. CASE r.src_logical = r.pq_size
    <3>1. k \in 0 .. 31 /\ k <= k
      BY <1>2
    <3> QED
      BY <1>1, <2>2, <3>1
  <2> QED
    BY <1>1, <1>8, <2>1, <2>2
<1>10. last_outer_round = (r.round = total_rounds - 1)
  BY DEF last_outer_round
<1> DEFINE here == IF r.in_work THEN "work" ELSE "layer"
           there == IF r.in_work THEN "layer" ELSE "work"
<1>11. t = IF last_outer_round
           THEN IF post <= max_work_size THEN <<here, there>> ELSE <<"layer", "layer">>
           ELSE <<here, "work">>
  BY DEF next_target
<1>12. CASE last_outer_round /\ post <= max_work_size
  <2>1. t[1] = here /\ t[2] = there /\ t = <<here, there>>
    BY <1>11, <1>12
  <2>2. t[1] # t[2] /\ t[1] \in {"layer", "work"} /\ t[2] \in {"layer", "work"}
    BY <1>1, <2>1
  <2>3. post <= Room(t[2]) /\ r.src_real <= Room(t[1])
    BY <1>5, <1>7, <1>12, <2>1 DEF Room
  <2>4. t # <<"layer", "layer">>
    BY <2>1
  <2> QED
    BY <1>7, <1>9, <1>12, <2>1, <2>2, <2>3, <2>4
<1>13. CASE last_outer_round /\ ~(post <= max_work_size)
  <2>1. t[1] = "layer" /\ t[2] = "layer" /\ t = <<"layer", "layer">>
    BY <1>11, <1>13
  <2>2. R = L /\ r.round = total_rounds - 1
    BY <1>1, <1>3, <1>4, <1>6, <1>13
  <2>3. ~r.in_work
    BY <1>1, <1>3, <1>8, <1>13
  <2>4. r.src_real = r.pq_size /\ r.src_logical = r.pq_size
    <3>1. CASE r.base = 1
      <4>1. k = total_rounds
        BY <1>1, <1>2, <2>2, <3>1
      <4> QED
        BY <1>1, <1>8, <2>2, <2>3, <4>1
    <3>2. CASE r.base # 1
      BY <1>8, <2>3, <3>2
    <3> QED
      BY <3>1, <3>2
  <2>5. post <= Room(t[2]) /\ r.src_real <= Room(t[1])
    BY <1>5, <1>7, <2>1, <2>3 DEF Room
  <2> QED
    BY <1>7, <1>9, <1>13, <2>1, <2>2, <2>4, <2>5
<1>14. CASE ~last_outer_round
  <2>1. t[1] = here /\ t[2] = "work" /\ t = <<here, "work">>
    BY <1>11, <1>14
  <2>2. t[1] \in {"layer", "work"} /\ t # <<"layer", "layer">>
    BY <2>1
  <2>3. post <= max_work_size
    <3>1. Pow2(r.round) <= max_work_size
      BY <1>6, <1>10, <1>14
    <3>2. max_work_size \in Nat
      BY <1>1
    <3> QED
      BY <1>3, <1>4, <3>1, <3>2
  <2>4. post <= Room(t[2]) /\ r.src_real <= Room(t[1])
    BY <1>7, <2>1, <2>3 DEF Room
  <2>5. t[1] = t[2] => r.in_work
    BY <2>1
  <2> QED
    BY <1>7, <1>8, <1>9, <2>1, <2>2, <2>4, <2>5
<1> QED
  BY <1>12, <1>13, <1>14

(* Fields of the locals of a round after a sumcheck polynomial.             *)
LEMMA PolysFields ==
  ASSUME DOMAIN r = RoundFields, r.base \in Nat, NEW p, p = Polys(1)
  PROVE  /\ DOMAIN p = RoundFields /\ p.base = r.base + 1
         /\ \A x \in {"round", "pq_size", "in_work", "src_real", "src_logical", "pending",
                      "upload", "active"} : p[x] = r[x]
BY DEF Polys, RoundFields

LEMMA FusedRoundKeeps ==
  ASSUME IInv, FusedRound
  PROVE  IInv'
<1> DEFINE k == r.round + 2 - r.base
           post == Pow2(k - 1)
           t == next_target(post)
           virtual_source == r.src_logical = L /\ virtual_input
           support == IF virtual_source THEN DivCeil(R, L \div r.pq_size) ELSE r.src_real
           dst_real == IF t = <<"layer", "layer">> /\ virtual_source
                       THEN folded_virtual_support_len(support) ELSE post
           K == fused_fold(mem, t[1], t[2], r.pq_size, r.src_real, r.src_logical, dst_real, post)
<1>1. pc = "fold" /\ r.base < r.round /\ sys' = sys /\ pc' = pc
  BY DEF FusedRound
<1>2. /\ DOMAIN r = RoundFields /\ r.round \in 1 .. total_rounds - 1 /\ Roomy(r.round)
      /\ r.base \in 1 .. r.round /\ r.pq_size = Pow2(k)
      /\ Fits /\ Memory /\ total_rounds \in 1 .. 31 /\ R \in Nat /\ r.pq_size \in Nat \ {0}
      /\ max_work_size \in Nat
  BY <1>1, InFold
<1>3. k \in 3 .. 31 /\ k - 1 \in 0 .. 30 /\ (k - 1) + 1 = k /\ k - 1 \in 0 .. 31
  BY <1>1, <1>2
<1>4. r.pq_size \div 2 = post /\ post \in Nat
  <2>1. Pow2(k) = 2 * post /\ post \in Nat
    BY <1>3, Double, Power
  <2> HIDE DEF post
  <2> QED
    BY <1>2, <2>1
<1>5. /\ Launch(K)
      /\ r' = [Polys(1) EXCEPT !.pq_size = post, !.in_work = t[2] = "work",
                 !.src_real = dst_real, !.src_logical = post]
  BY <1>4 DEF FusedRound
<1>6. /\ t[1] \in {"layer", "work"} /\ t[2] \in {"layer", "work"}
      /\ r.src_real \in Nat /\ r.src_real <= Room(t[1]) /\ post <= Room(t[2])
      /\ t[1] = t[2] => r.src_real = r.pq_size /\ r.src_logical = r.pq_size
      /\ t = <<"layer", "layer">> => R = L
      /\ t[2] = "layer" => last_outer_round
      /\ \E n \in 0 .. 31 : r.src_logical = Pow2(n) /\ k <= n
  BY <1>1, FusedTarget
<1>7. dst_real = post
  <2>1. t = <<"layer", "layer">> => ~virtual_source
    BY <1>2, <1>6 DEF virtual_input
  <2> QED
    BY <2>1
<1> HIDE DEF t, dst_real
<1>8. Sound(K, InBuffer(t[1], r.src_real) \cup InBuffer(t[2], post))
  <2>1. CASE t[1] = t[2]
    <3>1. Sound(fused_fold(mem, t[1], t[1], r.pq_size, r.pq_size, r.pq_size, post, post), InBuffer(t[1], r.pq_size))
      <4> HIDE DEF k
      <4> QED
        BY <1>2, <1>3, FusedInPlace
    <3>2. Sound(K, InBuffer(t[1], r.src_real))
      BY <1>6, <1>7, <2>1, <3>1
    <3> HIDE DEF K
    <3> QED
      BY <3>2 DEF Sound
  <2>2. CASE t[1] # t[2]
    <3>1. PICK n \in 0 .. 31 : r.src_logical = Pow2(n) /\ k <= n
      BY <1>6
    <3>2. k \in 3 .. n
      BY <1>3, <3>1
    <3>3. dst_real \in Nat
      BY <1>4, <1>7
    <3>4. Sound(fused_fold(mem, t[1], t[2], r.pq_size, r.src_real, r.src_logical, dst_real, post),
                InBuffer(t[1], r.src_real) \cup InBuffer(t[2], dst_real))
      <4> HIDE DEF k
      <4> QED
        <5>1. Sound(fused_fold(mem, t[1], t[2], Pow2(k), r.src_real, Pow2(n), dst_real, post),
                    InBuffer(t[1], r.src_real) \cup InBuffer(t[2], dst_real))
          BY <1>6, <2>2, <3>2, <3>3, FusedFold
        <5> QED
          BY <1>2, <3>1, <5>1
    <3> QED
      BY <1>7, <3>4
  <2> QED
    BY <2>1, <2>2
<1> HIDE DEF K
<1>9. Memory' /\ LaunchesSafe'
  <2>1. pc \in Late /\ pc' # "window"
    BY <1>1 DEF Late
  <2> HIDE DEF post, k
  <2> QED
    BY <1>1, <1>2, <1>4, <1>5, <1>6, <1>8, <2>1, RoundLaunched
<1>10. R' = R /\ L' = L /\ total_rounds' = total_rounds /\ max_work_size' = max_work_size /\ Fits' = Fits
  BY <1>1, SameInput
<1> DEFINE p == Polys(1)
<1>11. /\ DOMAIN p = RoundFields /\ p.base = r.base + 1 /\ p.round = r.round
  <2>1. r.base \in Nat
    BY <1>2
  <2> QED
    BY <1>2, <2>1, PolysFields
<1> HIDE DEF p, post
<1>12. /\ DOMAIN r' = RoundFields /\ r'.base = r.base + 1 /\ r'.round = r.round /\ r'.pq_size = post
       /\ r'.in_work = (t[2] = "work") /\ r'.src_real = dst_real /\ r'.src_logical = post
  <2>1. r' = [p EXCEPT !.pq_size = post, !.in_work = t[2] = "work",
                 !.src_real = dst_real, !.src_logical = post]
    BY <1>5 DEF p
  <2> HIDE DEF k
  <2> QED
    BY <1>11, <2>1 DEF RoundFields
<1>13. Source'
  <2>1. CASE t[2] = "work"
    <3>1. r'.in_work = TRUE /\ post <= max_work_size
      BY <1>6, <1>12, <2>1 DEF Room
    <3> QED
      BY <1>7, <1>10, <1>12, <3>1 DEF Source
  <2>2. CASE t[2] = "layer"
    <3>1. r'.in_work = FALSE /\ post <= R
      BY <1>6, <1>12, <2>2 DEF Room
    <3>2. r'.base > 1
      BY <1>2, <1>12
    <3>3. last_outer_round'
      <4>1. last_outer_round
        BY <1>6, <2>2
      <4> HIDE DEF k, post
      <4> QED
        BY <1>10, <1>12, <4>1 DEF last_outer_round
    <3> QED
      BY <1>7, <1>10, <1>12, <3>1, <3>2, <3>3 DEF Source
  <2> QED
    BY <1>6, <2>1, <2>2
<1>14. Folding'
  <2>1. Roomy(r.round)'
    BY <1>2, <1>10, <1>12 DEF Roomy
  <2>2. InRounds'
    BY <1>2, <1>10, <1>12 DEF InRounds
  <2>3. r'.base \in 1 .. r'.round /\ r'.round + 2 - r'.base = k - 1
    BY <1>1, <1>2, <1>12
  <2>4. r'.in_work \in BOOLEAN
    BY <1>12
  <2> QED
    BY <1>12, <1>13, <2>1, <2>2, <2>3, <2>4 DEF Folding, post
<1>15. Treeing' /\ Between' /\ Windowing' /\ Multifolding' /\ Tailing'
  BY <1>1 DEF Treeing, Between, Windowing, Multifolding, Tailing
<1> QED
  BY <1>9, <1>10, <1>14, <1>15, <1>2 DEF IInv, Phases

LEMMA FinalFoldKeeps ==
  ASSUME IInv, FinalFold
  PROVE  IInv'
<1> DEFINE src == IF r.in_work THEN "work" ELSE "layer"
           compact == r.src_real < r.src_logical
           dst == IF r.in_work THEN IF compact THEN "final" ELSE "work"
                  ELSE IF ~last_outer_round THEN "work"
                  ELSE IF compact THEN "final" ELSE "layer"
           F == [s \in 0 .. r.pq_size \div 2 - 1 |-> Garbage]
           m == IF dst = "final" THEN [mem EXCEPT !.final = F] ELSE mem
           K == fold_ef_columns(m, src, dst, r.pq_size, r.src_real, r.src_logical)
<1>1. /\ pc = "fold" /\ r.base = r.round /\ sys' = sys /\ pc' = "claims"
      /\ kernel' = K /\ mem' = Run(m, K)
      /\ r' = [r EXCEPT !.pq_size = @ \div 2, !.active = dst]
  BY DEF FinalFold
<1>2. /\ DOMAIN r = RoundFields /\ r.round \in 1 .. total_rounds - 1 /\ Roomy(r.round)
      /\ r.pq_size = Pow2(r.round + 2 - r.base) /\ r.in_work \in BOOLEAN /\ Source
      /\ Fits /\ Memory /\ total_rounds \in 1 .. 31 /\ L = Pow2(total_rounds) /\ R \in Nat
      /\ Pow2(total_rounds - 1) <= R /\ max_work_size \in Nat
  BY <1>1, InFold
<1>3. r.pq_size = 4
  <2>1. r.round + 2 - r.base = 2
    BY <1>1, <1>2
  <2>2. Pow2(2) = 4
    BY PowerTable
  <2> QED
    BY <1>2, <2>1, <2>2
<1>4. r.src_real \in Nat /\ r.src_real <= Room(src)
  BY <1>2, <1>3 DEF Source, Room
<1>5. \E n \in 2 .. 31 : r.src_logical = Pow2(n)
  <2>1. r.src_logical = L \/ r.src_logical = Pow2(2)
    <3>1. Pow2(2) = 4
      BY PowerTable
    <3> QED
      BY <1>2, <1>3, <3>1 DEF Source
  <2>2. total_rounds \in 2 .. 31 /\ 2 \in 2 .. 31
    BY <1>2
  <2> QED
    BY <1>2, <2>1, <2>2
<1>6. Sound(K, InBuffer(src, r.src_real) \cup InBuffer(dst, 2))
  <2>1. PICK n \in 2 .. 31 : r.src_logical = Pow2(n)
    BY <1>5
  <2> HIDE DEF src, dst, m
  <2>2. Sound(fold_ef_columns(m, src, dst, 4, r.src_real, r.src_logical),
              InBuffer(src, r.src_real) \cup InBuffer(dst, 2))
    BY <1>4, <2>1, LastFold
  <2> QED
    BY <1>3, <2>2
<1>7. 2 <= R
  <2>1. 1 \in 0 .. 31 /\ total_rounds - 1 \in 0 .. 31 /\ 1 <= total_rounds - 1
    BY <1>2
  <2>2. Pow2(1) <= Pow2(total_rounds - 1)
    BY <2>1, PowerGrows
  <2>3. Pow2(1) = 2 /\ Pow2(total_rounds - 1) \in Nat
    BY <2>1, PowerTable, Power
  <2> QED
    BY <1>2, <2>2, <2>3
<1>8. dst = "work" => 2 <= max_work_size
  <2>1. r.in_work => 4 <= max_work_size
    BY <1>2, <1>3 DEF Source
  <2>2. ~r.in_work /\ ~last_outer_round => 2 <= max_work_size
    <3>1. 1 \in 0 .. 31 /\ r.round \in 0 .. 31 /\ 1 <= r.round
      BY <1>2
    <3>2. Pow2(1) <= Pow2(r.round)
      BY <3>1, PowerGrows
    <3>3. Pow2(1) = 2 /\ Pow2(r.round) \in Nat
      BY <3>1, PowerTable, Power
    <3>4. ~last_outer_round => Pow2(r.round) <= max_work_size
      BY <1>2 DEF Roomy, last_outer_round
    <3> QED
      BY <1>2, <3>2, <3>3, <3>4
  <2> QED
    BY <1>2, <2>1, <2>2
<1>9. /\ dst \in {"layer", "work", "final"} /\ src \in {"layer", "work"}
      /\ dst = "layer" => 2 <= R
  BY <1>7
<1>10. R' = R /\ total_rounds' = total_rounds /\ max_work_size' = max_work_size /\ Fits' = Fits
  BY <1>1, SameInput
<1>11. /\ DOMAIN mem = {"layer", "work", "final"} /\ DOMAIN (mem["layer"]) = 0 .. R - 1
       /\ DOMAIN (mem["work"]) = 0 .. max_work_size - 1
  BY <1>1, <1>2 DEF Memory
<1>12. DOMAIN F = 0 .. 2 - 1
  <2>1. 4 \div 2 - 1 = 2 - 1
    OBVIOUS
  <2> QED
    BY <1>3, <2>1
<1> HIDE DEF F, K, src, dst
<1>13. /\ DOMAIN m = {"layer", "work", "final"} /\ DOMAIN (m["layer"]) = 0 .. R - 1
       /\ DOMAIN (m["work"]) = 0 .. max_work_size - 1
       /\ dst = "final" => DOMAIN (m["final"]) = 0 .. 2 - 1
  BY <1>11, <1>12
<1> HIDE DEF m
<1>14. /\ DOMAIN mem' = {"layer", "work", "final"} /\ DOMAIN (mem'["layer"]) = 0 .. R - 1
       /\ DOMAIN (mem'["work"]) = 0 .. max_work_size - 1
       /\ dst = "final" => DOMAIN (mem'["final"]) = 0 .. 2 - 1
  <2>1. DOMAIN (Run(m, K)) = DOMAIN m /\ \A b \in DOMAIN m : DOMAIN (Run(m, K)[b]) = DOMAIN (m[b])
    BY RunKeeps
  <2> QED
    BY <1>1, <1>13, <2>1
<1>15. Memory'
  BY <1>10, <1>14 DEF Memory
<1>16. LaunchesSafe'
  <2>1. \A x \in InBuffer(src, r.src_real) : x[2] \in DOMAIN (mem'[x[1]])
    <3>1. DOMAIN (mem'[src]) = 0 .. Room(src) - 1 /\ Room(src) \in Nat
      BY <1>2, <1>9, <1>14 DEF Room
    <3> QED
      BY <1>4, <3>1, Enough
  <2>2. \A x \in InBuffer(dst, 2) : x[2] \in DOMAIN (mem'[x[1]])
    <3>1. PICK size \in Nat : DOMAIN (mem'[dst]) = 0 .. size - 1 /\ 2 <= size
      <4>1. CASE dst = "layer"
        BY <1>2, <1>9, <1>14, <4>1
      <4>2. CASE dst = "work"
        BY <1>2, <1>8, <1>14, <4>2
      <4>3. CASE dst = "final"
        <5>1. DOMAIN (mem'[dst]) = 0 .. 2 - 1
          BY <1>14, <4>3
        <5>2. 2 \in Nat /\ 2 <= 2
          OBVIOUS
        <5> QED
          BY <5>1, <5>2, Zenon
      <4> QED
        BY <1>9, <4>1, <4>2, <4>3
    <3> QED
      BY <3>1, Enough
  <2> DEFINE S == InBuffer(src, r.src_real) \cup InBuffer(dst, 2)
  <2>3. \A x \in S : x[2] \in DOMAIN (mem'[x[1]])
    BY <2>1, <2>2, Zenon
  <2>4. Sound(kernel', S) /\ pc' # "window"
    BY <1>1, <1>6
  <2> HIDE DEF S
  <2> QED
    BY <2>3, <2>4, SafeAfter
<1>17. Phases'
  <2>1. r'.round = r.round /\ DOMAIN r' = RoundFields
    BY <1>1, <1>2 DEF RoundFields
  <2>2. Between'
    BY <1>1, <1>2, <1>10, <2>1 DEF Between, InRounds
  <2>3. Treeing' /\ Folding' /\ Windowing' /\ Multifolding' /\ Tailing'
    BY <1>1 DEF Treeing, Folding, Windowing, Multifolding, Tailing
  <2> QED
    BY <2>2, <2>3 DEF Phases
<1> QED
  BY <1>10, <1>2, <1>15, <1>16, <1>17 DEF IInv

-----------------------------------------------------------------------------
(* The steps of a round that folds a window at a time.                      *)

LEMMA InWindow ==
  ASSUME IInv, Windowed
  PROVE  /\ DOMAIN r = RoundFields /\ r.round \in 1 .. total_rounds - 1
         /\ r.active \in {"layer", "work"} /\ r.pending \in BOOLEAN /\ sys.window \in 1 .. 28
         /\ Fits /\ Memory /\ total_rounds \in 1 .. 31 /\ L = Pow2(total_rounds) /\ R \in Nat
         /\ max_work_size \in Nat /\ L \in Nat
         /\ r.active = "layer" => r.round = total_rounds - 1 /\ R = L
         /\ \A e \in 0 .. 31 : 2 <= r.round /\ e + sys.window <= r.round => Pow2(e) <= Room(r.active)
<1>1. /\ DOMAIN r = RoundFields /\ r.round \in 1 .. total_rounds - 1 /\ sys.precompute
      /\ r.active = active_pq /\ r.pending \in BOOLEAN
  BY DEF Windowed, InRounds
<1>2. Fits /\ Memory /\ sys.window \in 1 .. 28
  BY DEF IInv, Fits
<1>3. /\ total_rounds \in 1 .. 31 /\ L = Pow2(total_rounds) /\ R \in Nat
      /\ R <= L /\ Pow2(total_rounds - 1) <= R /\ max_work_size \in Nat /\ L \in Nat
  BY <1>2, Sizes
<1>4. /\ r.active \in {"layer", "work"}
      /\ r.active = "layer" => r.round = total_rounds - 1 /\ R = L
  BY <1>1, <1>3 DEF active_pq, last_outer_round, virtual_input
<1>5. ASSUME NEW e \in 0 .. 31, 2 <= r.round, e + sys.window <= r.round
      PROVE  Pow2(e) <= Room(r.active)
  <2> DEFINE f == total_rounds - (sys.window + 1)
             g == total_rounds - 1
  <2>1. /\ 2 < total_rounds /\ sys.window + 1 <= total_rounds /\ f \in 0 .. 31 /\ e <= f
        /\ g \in 0 .. 31 /\ e <= g
    BY <1>1, <1>2, <1>3, <1>5
  <2>2. Pow2(f) <= max_work_size
    BY <1>1, <1>2, <2>1, Sizes
  <2>3. Pow2(g) <= R
    BY <1>3
  <2> HIDE DEF f, g
  <2>4. Pow2(e) <= Pow2(f) /\ Pow2(e) <= Pow2(g)
    BY <2>1, PowerGrows
  <2>5. Pow2(e) \in Nat /\ Pow2(f) \in Nat /\ Pow2(g) \in Nat
    BY <2>1, Power
  <2> QED
    BY <1>3, <2>2, <2>3, <2>4, <2>5 DEF Room
<1> QED
  BY <1>1, <1>2, <1>3, <1>4, <1>5

LEMMA WindowedStill ==
  ASSUME Windowed, sys' = sys, DOMAIN r' = RoundFields, r'.round = r.round,
         r'.active = r.active, r'.pending \in BOOLEAN
  PROVE  Windowed'
<1>1. R' = R /\ L' = L /\ total_rounds' = total_rounds
  BY SameInput
<1>2. InRounds'
  BY <1>1 DEF Windowed, InRounds
<1>3. Tabled(r.round)'
  BY DEF Windowed, Tabled
<1>4. active_pq' = active_pq
  BY <1>1 DEF active_pq, last_outer_round, virtual_input
<1> QED
  BY <1>2, <1>3, <1>4 DEF Windowed

LEMMA HalfRounds ==
  ASSUME NEW k \in Nat
  PROVE  stop(k) \in Nat /\ 2 * stop(k) <= k + 1 /\ k <= 2 * stop(k)
BY DEF stop, DivCeil

LEMMA OnlyReads ==
  ASSUME NEW A, NEW S, A \subseteq S
  PROVE  Sound(Kernel(FALSE, <<[reads |-> A, writes |-> {}]>>), S)
<1> DEFINE T == <<[reads |-> A, writes |-> {}]>>
<1>1. DOMAIN T = {1} /\ T[1].reads = A /\ T[1].writes = {}
  OBVIOUS
<1> HIDE DEF T
<1>2. At_({}) = {}
  BY DEF At_
<1>3. \A i \in DOMAIN T : T[i].reads \subseteq S /\ At_(T[i].writes) \subseteq S
  BY <1>1, <1>2
<1>4. \A i, j \in DOMAIN T : i = j
  BY <1>1
<1>5. Sound(Kernel(FALSE, T), S)
  BY <1>3, <1>4, OneThread, Zenon
<1> QED
  BY <1>5 DEF T

LEMMA LevelRead ==
  ASSUME NEW n \in 0 .. 31, NEW N, N = Pow2(n), NEW k \in 0 .. n, NEW size, size = Pow2(k),
         NEW real \in Nat, NEW b
  PROVE  Reads(b, 0 .. size - 1, size, real, N) \subseteq InBuffer(b, real)
<1>1. Pow2(k) \in Nat
  BY Power
<1>2. Reads(b, 0 .. size - 1, size, real, N) = Cells(b, 0 .. size - 1, real, n)
  <2> DEFINE nodes == 0 .. Pow2(k) - 1
  <2>1. nodes \subseteq 0 .. Pow2(k) - 1
    OBVIOUS
  <2> HIDE DEF nodes
  <2>2. Reads(b, nodes, Pow2(k), real, Pow2(n)) = Cells(b, nodes, real, n)
    BY <2>1, ReadsAre
  <2> QED
    BY <2>2 DEF nodes
<1>3. 0 .. size - 1 \subseteq Nat
  BY <1>1
<1> DEFINE D == 0 .. size - 1
<1> HIDE DEF D
<1>4. D \subseteq Nat
  BY <1>3 DEF D
<1>5. Cells(b, D, real, n) \subseteq {b} \X (0 .. real - 1)
  BY <1>4, CellsIn
<1> QED
  BY <1>2, <1>5, Zenon DEF InBuffer, D

(* What a launch on the buffer of the windows keeps.                        *)
LEMMA ActiveLaunched ==
  ASSUME IInv, Windowed, pc \in Late, sys' = sys, NEW k, Launch(k), NEW a \in Nat,
         a <= Room(r.active), Sound(k, InBuffer(r.active, a)),
         pc' = "window" /\ r'.upload > 0 => r'.upload <= tmp_block_sums'
  PROVE  Memory' /\ LaunchesSafe'
<1>1. Fits /\ Memory /\ r.active \in {"layer", "work"}
  BY InWindow
<1>2. Sound(k, InBuffer(r.active, a) \cup InBuffer(r.active, a))
  BY DEF Sound
<1> QED
  BY <1>1, <1>2, RoundLaunched

LEMMA LevelSize ==
  ASSUME Fits, Memory, sys' = sys
  PROVE  R' = R /\ L' = L /\ total_rounds' = total_rounds /\ max_work_size' = max_work_size /\ Fits'
BY SameInput

LEMMA WindowKeeps ==
  ASSUME IInv, Window
  PROVE  IInv'
<1> DEFINE K == Kernel(FALSE, <<[reads |-> Reads(WindowSource, 0 .. r.pq_size - 1, r.pq_size,
                                                 WindowReal, WindowLogical),
                                 writes |-> {}]>>)
<1>1. /\ pc = "window" /\ MoreWindows /\ Launch(K) /\ sys' = sys /\ pc' = "multifold"
      /\ r' = [r EXCEPT !.polys = @ + sys.window, !.eq_n = Largest({0, @ - sys.window}),
                 !.base = @ + sys.window]
  BY DEF Window, Polys
<1>2. /\ Windowed
      /\ IF r.pending
         THEN r.base = 1 /\ r.pq_size = Pow2(r.round + 1)
         ELSE /\ r.base \in sys.window + 1 .. stop(r.round)
              /\ r.pq_size = Pow2(r.round + 1 - r.base)
  BY <1>1 DEF IInv, Phases, Windowing
<1>3. /\ DOMAIN r = RoundFields /\ r.round \in 1 .. total_rounds - 1
      /\ r.active \in {"layer", "work"} /\ r.pending \in BOOLEAN /\ sys.window \in 1 .. 28
      /\ Fits /\ Memory /\ total_rounds \in 1 .. 31 /\ L = Pow2(total_rounds) /\ R \in Nat
      /\ \A e \in 0 .. 31 : 2 <= r.round /\ e + sys.window <= r.round => Pow2(e) <= Room(r.active)
  BY <1>2, InWindow
<1>4. stop(r.round) \in Nat /\ 2 * stop(r.round) <= r.round + 1
  <2>1. r.round \in Nat
    BY <1>3
  <2> QED
    BY <2>1, HalfRounds
<1>5. r.base + sys.window <= stop(r.round)
  <2>1. stop(r.round) - r.base >= sys.window
    BY <1>1 DEF MoreWindows, window_w
  <2>2. r.base \in Int
    BY <1>2, <1>3, <1>4
  <2> QED
    BY <1>3, <1>4, <2>1, <2>2
<1> HIDE DEF K
<1>6. Memory' /\ LaunchesSafe'
  <2>1. pc \in Late /\ pc' # "window"
    BY <1>1 DEF Late
  <2>2. CASE r.pending
    <3>1. r.round + 1 \in 0 .. total_rounds /\ total_rounds \in 0 .. 31
      BY <1>3
    <3>2. Reads("layer", 0 .. r.pq_size - 1, r.pq_size, R, L) \subseteq InBuffer("layer", R)
      <4>1. r.pq_size = Pow2(r.round + 1)
        BY <1>2, <2>2
      <4> QED
        BY <1>3, <3>1, <4>1, LevelRead
    <3>3. Sound(K, InBuffer("layer", R))
      BY <2>2, <3>2, OnlyReads DEF K, WindowSource, WindowReal, WindowLogical
    <3>4. (pc' \in Late => pc \in Late) /\ (pc' = "window" => r'.upload = 0)
      BY <2>1
    <3> QED
      BY <1>1, <1>3, <3>3, <3>4, LayerLaunched
  <2>3. CASE ~r.pending
    <3> DEFINE e == r.round + 1 - r.base
    <3>1. /\ e \in 0 .. 31 /\ e \in 0 .. e /\ 2 <= r.round /\ e + sys.window <= r.round
          /\ r.pq_size = Pow2(e)
      BY <1>2, <1>3, <1>4, <2>3
    <3> HIDE DEF e
    <3>2. r.pq_size \in Nat /\ r.pq_size <= Room(r.active)
      <4>1. Pow2(e) \in Nat
        BY <3>1, Power
      <4> QED
        BY <1>3, <3>1, <4>1
    <3>3. Reads(r.active, 0 .. r.pq_size - 1, r.pq_size, r.pq_size, r.pq_size)
            \subseteq InBuffer(r.active, r.pq_size)
      BY <3>1, <3>2, LevelRead
    <3>4. Sound(K, InBuffer(r.active, r.pq_size))
      BY <2>3, <3>3, OnlyReads DEF K, WindowSource, WindowReal, WindowLogical
    <3> QED
      BY <1>1, <1>2, <2>1, <3>2, <3>4, ActiveLaunched
  <2> QED
    BY <1>3, <2>2, <2>3
<1>7. /\ DOMAIN r' = RoundFields /\ r'.round = r.round /\ r'.active = r.active
      /\ r'.pending = r.pending /\ r'.pq_size = r.pq_size /\ r'.base = r.base + sys.window
  BY <1>1, <1>3 DEF RoundFields
<1>8. Windowed'
  BY <1>1, <1>2, <1>3, <1>7, WindowedStill
<1>9. Multifolding'
  <2>1. sys'.window = sys.window /\ stop(r.round)' = stop(r.round)
    BY <1>1, <1>7 DEF stop
  <2>2. CASE r.pending
    <3>1. r.base = 1
      BY <1>2, <2>2
    <3>2. r'.base = sys.window + 1 /\ r'.base <= stop(r.round)
      BY <1>3, <1>5, <1>7, <3>1
    <3> QED
      BY <1>2, <1>7, <1>8, <2>1, <2>2, <3>2 DEF Multifolding
  <2>3. CASE ~r.pending
    <3>1. r.base \in sys.window + 1 .. stop(r.round) /\ r.pq_size = Pow2(r.round + 1 - r.base)
      BY <1>2, <2>3
    <3>2. /\ r'.base \in 2 * sys.window + 1 .. stop(r.round)
          /\ r.round + 1 - r'.base + sys.window = r.round + 1 - r.base
      BY <1>3, <1>4, <1>5, <1>7, <3>1
    <3> QED
      BY <1>7, <1>8, <2>1, <2>3, <3>1, <3>2 DEF Multifolding
  <2> QED
    BY <2>2, <2>3
<1>10. Treeing' /\ Between' /\ Folding' /\ Windowing' /\ Tailing'
  BY <1>1 DEF Treeing, Between, Folding, Windowing, Tailing
<1>11. Fits'
  BY <1>1, <1>3, LevelSize
<1> QED
  BY <1>6, <1>9, <1>10, <1>11 DEF IInv, Phases

LEMMA ScratchStill ==
  ASSUME Fits, Windowed, sys' = sys, r'.round = r.round
  PROVE  \A u \in {0, Pow2(sys.window), Pow2(sys.window + 1)} : u <= tmp_block_sums'
<1>1. total_rounds \in 1 .. 31 /\ sys.window \in 1 .. 28
  BY Sizes DEF Fits
<1>2. r.round \in 1 .. total_rounds - 1 /\ r.round \in 0 .. 31
  BY <1>1 DEF Windowed, InRounds
<1>3. round_temp_size(Pow2(r.round)) <= tmp_block_sums /\ tmp_block_sums \in Nat
  BY <1>1, <1>2, BlockSums
<1>4. tmp_block_sums' = tmp_block_sums
  <2>1. total_rounds' = total_rounds
    BY SameInput
  <2> QED
    BY <2>1 DEF tmp_block_sums
<1>5. Pow2(sys.window + 1) <= round_temp_size(Pow2(r.round))
  BY DEF Windowed, Tabled
<1>6. /\ Pow2(sys.window) \in Nat /\ Pow2(sys.window + 1) \in Nat
      /\ Pow2(sys.window) <= Pow2(sys.window + 1)
  <2>1. sys.window \in 0 .. 31 /\ sys.window + 1 \in 0 .. 31 /\ sys.window <= sys.window + 1
    BY <1>1
  <2> QED
    BY <2>1, Power, PowerGrows
<1>7. round_temp_size(Pow2(r.round)) \in Nat
  BY <1>2, Scratch
<1> QED
  BY <1>3, <1>4, <1>5, <1>6, <1>7

LEMMA MultiFoldKeeps ==
  ASSUME IInv, MultiFold
  PROVE  IInv'
<1> DEFINE w == sys.window + IF r.pending THEN 1 ELSE 0
           e == IF r.pending THEN r.round + 1 ELSE r.round + 1 - r.base + sys.window
           c == r.round + 1 - (IF r.pending THEN sys.window + 1 ELSE r.base)
           K == multifold(mem, WindowSource, r.active, Log2(r.pq_size) - 1, w, WindowReal, WindowLogical)
<1>1. /\ pc = "multifold" /\ Launch(K) /\ sys' = sys /\ pc' = "window"
      /\ r' = [r EXCEPT !.pq_size = @ \div Pow2(w), !.pending = FALSE, !.upload = Pow2(w)]
  BY DEF MultiFold
<1>2. /\ Windowed /\ r.pq_size = Pow2(e)
      /\ IF r.pending
         THEN r.base = sys.window + 1 /\ r.base <= stop(r.round)
         ELSE r.base \in 2 * sys.window + 1 .. stop(r.round)
  BY <1>1 DEF IInv, Phases, Multifolding
<1>3. /\ DOMAIN r = RoundFields /\ r.round \in 1 .. total_rounds - 1
      /\ r.active \in {"layer", "work"} /\ r.pending \in BOOLEAN /\ sys.window \in 1 .. 28
      /\ Fits /\ Memory /\ total_rounds \in 1 .. 31 /\ L = Pow2(total_rounds) /\ R \in Nat
      /\ max_work_size \in Nat /\ L \in Nat
      /\ r.active = "layer" => r.round = total_rounds - 1 /\ R = L
      /\ \A x \in 0 .. 31 : 2 <= r.round /\ x + sys.window <= r.round => Pow2(x) <= Room(r.active)
  BY <1>2, InWindow
<1>4. stop(r.round) \in Nat /\ 2 * stop(r.round) <= r.round + 1
  <2>1. r.round \in Nat
    BY <1>3
  <2> QED
    BY <2>1, HalfRounds
<1>5. /\ w \in {sys.window, sys.window + 1} /\ w \in 0 .. 31
      /\ e \in 1 .. 31 /\ e - 1 \in 0 .. 30 /\ (e - 1) + 1 = e /\ e \in 0 .. 31
      /\ w \in 0 .. e - 1 /\ e - w = c /\ 2 <= r.round
      /\ c \in 0 .. 31 /\ c + sys.window <= r.round
  <2>1. CASE r.pending
    BY <1>2, <1>3, <1>4, <2>1
  <2>2. CASE ~r.pending
    <3>1. w = sys.window /\ e = r.round + 1 - r.base + sys.window /\ c = r.round + 1 - r.base
      BY <1>3, <2>2
    <3>2. r.base \in 2 * sys.window + 1 .. stop(r.round)
      BY <1>2, <2>2
    <3> HIDE DEF w, e, c
    <3> QED
      BY <1>3, <1>4, <3>1, <3>2
  <2> QED
    BY <1>3, <2>1, <2>2
<1>6. Log2(r.pq_size) - 1 = e - 1
  <2>1. Log2(Pow2(e)) = e
    <3> HIDE DEF e
    <3> QED
      BY <1>5, Log2Power
  <2> HIDE DEF e
  <2> QED
    BY <1>2, <2>1
<1>7. r.pq_size \div Pow2(w) = Pow2(c) /\ Pow2(c) \in Nat /\ Pow2(e) \in Nat
  <2> HIDE DEF e, w, c
  <2>1. w <= e
    BY <1>5
  <2>2. Pow2(e) \div Pow2(w) = Pow2(e - w)
    BY <1>5, <2>1, PowerQuotient
  <2>3. Pow2(c) \in Nat /\ Pow2(e) \in Nat
    BY <1>5, Power
  <2> QED
    BY <1>2, <1>5, <2>2, <2>3
<1>8. Pow2(c) <= Room(r.active)
  <2> HIDE DEF c
  <2> QED
    BY <1>3, <1>5
<1>9. K = multifold(mem, WindowSource, r.active, e - 1, w, WindowReal, WindowLogical)
  BY <1>6
<1> HIDE DEF K
<1>10. /\ DOMAIN r' = RoundFields /\ r'.round = r.round /\ r'.active = r.active
       /\ r'.pending = FALSE /\ r'.pq_size = Pow2(c) /\ r'.base = r.base /\ r'.upload = Pow2(w)
  <2> HIDE DEF w, c
  <2> QED
    BY <1>1, <1>3, <1>7 DEF RoundFields
<1>11. r'.upload <= tmp_block_sums'
  <2>1. r'.upload \in {0, Pow2(sys.window), Pow2(sys.window + 1)}
    <3> HIDE DEF w
    <3> QED
      BY <1>5, <1>10
  <2>2. \A u \in {0, Pow2(sys.window), Pow2(sys.window + 1)} : u <= tmp_block_sums'
    BY <1>1, <1>2, <1>3, <1>10, ScratchStill
  <2> QED
    BY <2>1, <2>2
<1>12. Memory' /\ LaunchesSafe'
  <2>1. pc \in Late
    BY <1>1 DEF Late
  <2>2. CASE r.pending /\ r.active = "work"
    <3> DEFINE tail == Pow2(e - 1 - w)
    <3>1. 2 * tail = Pow2(c) /\ tail \in Nat
      <4>1. e - 1 - w \in 0 .. 30 /\ (e - 1 - w) + 1 = c /\ e - 1 - w \in 0 .. 31
        <5>1. w = sys.window + 1 /\ e = r.round + 1 /\ c = r.round + 1 - (sys.window + 1)
          BY <1>3, <2>2
        <5>2. sys.window + 1 <= stop(r.round)
          BY <1>2, <2>2
        <5> HIDE DEF w, e, c
        <5> QED
          BY <1>3, <1>4, <5>1, <5>2
      <4> HIDE DEF e, w, c
      <4> QED
        BY <4>1, Double, Power
    <3>2. K = multifold(mem, "layer", "work", e - 1, w, R, L)
      BY <1>9, <2>2 DEF WindowSource, WindowReal, WindowLogical
    <3>3. e - 1 \in 0 .. total_rounds - 1
      BY <1>3, <2>2
    <3>4. Sound(multifold(mem, "layer", "work", e - 1, w, R, L),
                InBuffer("layer", R) \cup InBuffer("work", 2 * tail))
      <4> HIDE DEF e, w
      <4> QED
        <5>1. w \in 0 .. e - 1 /\ total_rounds \in 1 .. 31 /\ L = Pow2(total_rounds) /\ R \in Nat
          BY <1>3, <1>5
        <5> QED
          BY <3>3, <5>1, MultifoldApart
    <3> HIDE DEF tail, e, w, c
    <3>5. Sound(K, InBuffer("layer", R) \cup InBuffer("work", Pow2(c)))
      BY <3>1, <3>2, <3>4
    <3>6. R <= Room("layer") /\ Pow2(c) <= Room("work")
      BY <1>3, <1>8, <2>2 DEF Room
    <3> QED
      BY <1>1, <1>3, <1>7, <1>11, <2>1, <3>5, <3>6, RoundLaunched
  <2>3. CASE ~(r.pending /\ r.active = "work")
    <3>1. /\ WindowSource = r.active /\ WindowReal = Pow2(e) /\ WindowLogical = Pow2(e)
          /\ Pow2(e) <= Room(r.active)
      <4>1. CASE r.pending
        <5>1. r.active = "layer" /\ r.round = total_rounds - 1 /\ R = L
          BY <1>3, <2>3, <4>1
        <5>2. e = total_rounds
          BY <1>3, <4>1, <5>1
        <5> HIDE DEF e
        <5> QED
          BY <1>3, <4>1, <5>1, <5>2 DEF WindowSource, WindowReal, WindowLogical, Room
      <4>2. CASE ~r.pending
        <5>1. e + sys.window <= r.round
          BY <1>2, <1>3, <1>4, <4>2
        <5> HIDE DEF e
        <5> QED
          BY <1>2, <1>3, <1>5, <4>2, <5>1 DEF WindowSource, WindowReal, WindowLogical
      <4> QED
        BY <4>1, <4>2
    <3>2. Sound(multifold(mem, r.active, r.active, e - 1, w, Pow2(e), Pow2(e)), InBuffer(r.active, Pow2(e)))
      <4> HIDE DEF e, w
      <4> QED
        BY <1>5, MultifoldInPlace
    <3>3. Sound(K, InBuffer(r.active, Pow2(e)))
      <4> HIDE DEF e, w
      <4> QED
        BY <1>9, <3>1, <3>2
    <3> HIDE DEF e, w, c
    <3> QED
      BY <1>1, <1>2, <1>7, <1>11, <2>1, <3>1, <3>3, ActiveLaunched
  <2> QED
    BY <2>2, <2>3
<1>13. Windowed'
  BY <1>1, <1>2, <1>10, WindowedStill
<1>14. Windowing'
  <2>1. sys'.window = sys.window /\ stop(r.round)' = stop(r.round)
    BY <1>1, <1>10 DEF stop
  <2>2. r.base \in sys.window + 1 .. stop(r.round) /\ c = r.round + 1 - r.base
    BY <1>2, <1>3, <1>4
  <2>3. r'.upload \in {Pow2(sys.window), Pow2(sys.window + 1)}
    <3> HIDE DEF w
    <3> QED
      BY <1>5, <1>10
  <2> HIDE DEF c, w
  <2> QED
    BY <1>10, <1>13, <2>1, <2>2, <2>3 DEF Windowing
<1>15. Treeing' /\ Between' /\ Folding' /\ Multifolding' /\ Tailing'
  BY <1>1 DEF Treeing, Between, Folding, Multifolding, Tailing
<1>16. Fits'
  BY <1>1, <1>3, LevelSize
<1> QED
  BY <1>12, <1>14, <1>15, <1>16 DEF IInv, Phases

LEMMA TailRoundKeeps ==
  ASSUME IInv, TailRound
  PROVE  IInv'
<1> DEFINE K == Kernel(FALSE, <<[reads |-> {<<r.active, s>> : s \in 0 .. r.pq_size - 1}, writes |-> {}]>>)
           e == r.round + 1 - r.base
<1>1. /\ pc = "window" /\ ~MoreWindows /\ Launch(K) /\ sys' = sys /\ pc' = "tail"
      /\ r' = [r EXCEPT !.polys = @ + 1, !.eq_n = Largest({0, @ - 1}), !.base = @ + 1]
  BY DEF TailRound, Polys
<1>2. /\ Windowed /\ ~r.pending /\ r.base \in sys.window + 1 .. stop(r.round)
      /\ r.pq_size = Pow2(e)
  BY <1>1 DEF IInv, Phases, Windowing
<1>3. /\ DOMAIN r = RoundFields /\ r.round \in 1 .. total_rounds - 1
      /\ sys.window \in 1 .. 28 /\ Fits /\ total_rounds \in 1 .. 31 /\ Memory /\ r.pending \in BOOLEAN
      /\ \A x \in 0 .. 31 : 2 <= r.round /\ x + sys.window <= r.round => Pow2(x) <= Room(r.active)
  BY <1>2, InWindow
<1>4. stop(r.round) \in Nat /\ 2 * stop(r.round) <= r.round + 1
  <2>1. r.round \in Nat
    BY <1>3
  <2> QED
    BY <2>1, HalfRounds
<1>5. e \in 0 .. 31 /\ 3 <= r.round /\ e + sys.window <= r.round /\ r.base + 1 <= r.round
  BY <1>2, <1>3, <1>4
<1>6. r.pq_size \in Nat /\ r.pq_size <= Room(r.active)
  <2> HIDE DEF e
  <2>1. Pow2(e) \in Nat
    BY <1>5, Power
  <2>2. 2 <= r.round
    BY <1>3, <1>5
  <2> QED
    BY <1>2, <1>3, <1>5, <2>1, <2>2
<1> HIDE DEF K
<1>7. Memory' /\ LaunchesSafe'
  <2>1. {<<r.active, s>> : s \in 0 .. r.pq_size - 1} \subseteq InBuffer(r.active, r.pq_size)
    BY DEF InBuffer
  <2>2. Sound(K, InBuffer(r.active, r.pq_size))
    BY <2>1, OnlyReads DEF K
  <2>3. pc \in Late /\ pc' # "window"
    BY <1>1 DEF Late
  <2> QED
    BY <1>1, <1>2, <1>6, <2>2, <2>3, ActiveLaunched
<1>8. /\ DOMAIN r' = RoundFields /\ r'.round = r.round /\ r'.active = r.active
      /\ r'.pending = r.pending /\ r'.pq_size = r.pq_size /\ r'.base = r.base + 1
  BY <1>1, <1>3 DEF RoundFields
<1>9. Windowed'
  BY <1>1, <1>2, <1>3, <1>8, WindowedStill
<1>10. Tailing'
  <2>1. sys'.window = sys.window /\ r'.round + 2 - r'.base = e
    BY <1>1, <1>2, <1>3, <1>4, <1>8
  <2>2. r'.base \in sys.window + 2 .. r'.round
    BY <1>2, <1>3, <1>4, <1>5, <1>8
  <2> HIDE DEF e
  <2> QED
    BY <1>2, <1>8, <1>9, <2>1, <2>2 DEF Tailing
<1>11. Treeing' /\ Between' /\ Folding' /\ Windowing' /\ Multifolding'
  BY <1>1 DEF Treeing, Between, Folding, Windowing, Multifolding
<1>12. Fits'
  BY <1>1, <1>3, LevelSize
<1> QED
  BY <1>7, <1>10, <1>11, <1>12 DEF IInv, Phases

LEMMA InTail ==
  ASSUME IInv, pc = "tail"
  PROVE  /\ Windowed /\ ~r.pending /\ r.pending \in BOOLEAN
         /\ DOMAIN r = RoundFields /\ Fits /\ Memory
         /\ r.round \in 1 .. total_rounds - 1 /\ total_rounds \in 1 .. 31 /\ sys.window \in 1 .. 28
         /\ r.base \in sys.window + 2 .. r.round /\ r.pq_size = Pow2(r.round + 2 - r.base)
         /\ r.round + 2 - r.base \in 2 .. 31 /\ r.pq_size \in Nat /\ r.pq_size <= Room(r.active)
<1>1. /\ Windowed /\ ~r.pending
      /\ r.base \in sys.window + 2 .. r.round /\ r.pq_size = Pow2(r.round + 2 - r.base)
  BY DEF IInv, Phases, Tailing
<1>2. /\ DOMAIN r = RoundFields /\ r.round \in 1 .. total_rounds - 1
      /\ sys.window \in 1 .. 28 /\ Fits /\ total_rounds \in 1 .. 31 /\ Memory /\ r.pending \in BOOLEAN
      /\ \A x \in 0 .. 31 : 2 <= r.round /\ x + sys.window <= r.round => Pow2(x) <= Room(r.active)
  BY <1>1, InWindow
<1> DEFINE e == r.round + 2 - r.base
<1>3. e \in 2 .. 31 /\ e \in 0 .. 31 /\ 2 <= r.round /\ e + sys.window <= r.round
  BY <1>1, <1>2
<1> HIDE DEF e
<1>4. Pow2(e) \in Nat
  BY <1>3, Power
<1> QED
  BY <1>1, <1>2, <1>3, <1>4 DEF e

LEMMA TailFoldKeeps ==
  ASSUME IInv, TailFold
  PROVE  IInv'
<1> DEFINE k == r.round + 2 - r.base
           post == Pow2(k - 1)
           K == fused_fold(mem, r.active, r.active, r.pq_size, r.pq_size, r.pq_size, post, post)
<1>1. pc = "tail" /\ r.base < r.round /\ sys' = sys /\ pc' = pc
  BY DEF TailFold
<1>2. /\ Windowed /\ ~r.pending /\ r.pending \in BOOLEAN
      /\ DOMAIN r = RoundFields /\ Fits /\ Memory
      /\ r.round \in 1 .. total_rounds - 1 /\ total_rounds \in 1 .. 31 /\ sys.window \in 1 .. 28
      /\ r.base \in sys.window + 2 .. r.round /\ r.pq_size = Pow2(k)
      /\ r.pq_size \in Nat /\ r.pq_size <= Room(r.active)
  BY <1>1, InTail
<1>3. k \in 3 .. 31 /\ k - 1 \in 0 .. 30 /\ (k - 1) + 1 = k /\ k - 1 \in 0 .. 31
  BY <1>1, <1>2
<1>4. r.pq_size \div 2 = post
  <2>1. Pow2(k) = 2 * post /\ post \in Nat
    BY <1>3, Double, Power
  <2> HIDE DEF post
  <2> QED
    BY <1>2, <2>1
<1>5. Launch(K) /\ r' = [Polys(1) EXCEPT !.pq_size = post]
  BY <1>4 DEF TailFold
<1>6. Sound(K, InBuffer(r.active, r.pq_size))
  <2> HIDE DEF k
  <2> QED
    BY <1>2, <1>3, FusedInPlace
<1> HIDE DEF K
<1>7. Memory' /\ LaunchesSafe'
  <2>1. pc \in Late /\ pc' # "window"
    BY <1>1 DEF Late
  <2> HIDE DEF post, k
  <2> QED
    BY <1>1, <1>2, <1>5, <1>6, <2>1, ActiveLaunched
<1> DEFINE p == Polys(1)
<1>8. /\ DOMAIN p = RoundFields /\ p.base = r.base + 1 /\ p.round = r.round
      /\ p.active = r.active /\ p.pending = r.pending
  <2>1. r.base \in Nat
    BY <1>2
  <2> QED
    BY <1>2, <2>1, PolysFields
<1> HIDE DEF p, post
<1>9. /\ DOMAIN r' = RoundFields /\ r'.base = r.base + 1 /\ r'.round = r.round
      /\ r'.active = r.active /\ r'.pending = r.pending /\ r'.pq_size = post
  <2>1. r' = [p EXCEPT !.pq_size = post]
    BY <1>5 DEF p
  <2> QED
    BY <1>8, <2>1 DEF RoundFields
<1>10. Windowed'
  BY <1>1, <1>2, <1>9, WindowedStill
<1>11. Tailing'
  <2>1. r'.base \in sys.window + 2 .. r'.round /\ r'.round + 2 - r'.base = k - 1
    BY <1>1, <1>2, <1>9
  <2> QED
    BY <1>1, <1>2, <1>9, <1>10, <2>1 DEF Tailing, post
<1>12. Treeing' /\ Between' /\ Folding' /\ Windowing' /\ Multifolding'
  BY <1>1 DEF Treeing, Between, Folding, Windowing, Multifolding
<1>13. Fits'
  BY <1>1, <1>2, LevelSize
<1> QED
  BY <1>7, <1>11, <1>12, <1>13 DEF IInv, Phases

LEMMA TailFinalFoldKeeps ==
  ASSUME IInv, TailFinalFold
  PROVE  IInv'
<1> DEFINE K == fold_ef_columns(mem, r.active, r.active, r.pq_size, r.pq_size, r.pq_size)
<1>1. /\ pc = "tail" /\ r.base = r.round /\ Launch(K) /\ sys' = sys /\ pc' = "claims"
      /\ r' = [r EXCEPT !.pq_size = @ \div 2]
  BY DEF TailFinalFold
<1>2. /\ Windowed /\ ~r.pending /\ DOMAIN r = RoundFields /\ Fits /\ Memory
      /\ r.round \in 1 .. total_rounds - 1 /\ total_rounds \in 1 .. 31
      /\ r.pq_size = Pow2(r.round + 2 - r.base) /\ r.pq_size <= Room(r.active)
  BY <1>1, InTail
<1>3. r.pq_size = 4 /\ Pow2(2) = 4
  <2>1. r.round + 2 - r.base = 2
    BY <1>1, <1>2
  <2> QED
    BY <1>2, <2>1, PowerTable
<1>4. Sound(K, InBuffer(r.active, 4) \cup InBuffer(r.active, 2))
  <2>1. 2 \in 2 .. 31 /\ 4 \in Nat
    OBVIOUS
  <2>2. Sound(fold_ef_columns(mem, r.active, r.active, 4, 4, 4), InBuffer(r.active, 4) \cup InBuffer(r.active, 2))
    BY <1>3, <2>1, LastFold
  <2> QED
    BY <1>3, <2>2
<1>5. Sound(K, InBuffer(r.active, 4))
  <2>1. InBuffer(r.active, 2) \subseteq InBuffer(r.active, 4)
    BY DEF InBuffer
  <2> HIDE DEF K
  <2> QED
    BY <1>4, <2>1 DEF Sound
<1> HIDE DEF K
<1>6. Memory' /\ LaunchesSafe'
  <2>1. pc \in Late /\ pc' # "window" /\ 4 \in Nat /\ 4 <= Room(r.active)
    BY <1>1, <1>2, <1>3 DEF Late
  <2> QED
    BY <1>1, <1>2, <1>5, <2>1, ActiveLaunched
<1>7. DOMAIN r' = RoundFields /\ r'.round = r.round
  BY <1>1, <1>2 DEF RoundFields
<1>8. total_rounds' = total_rounds /\ Fits'
  BY <1>1, <1>2, LevelSize
<1>9. Between'
  BY <1>1, <1>2, <1>7, <1>8 DEF Between, InRounds
<1>10. Treeing' /\ Folding' /\ Windowing' /\ Multifolding' /\ Tailing'
  BY <1>1 DEF Treeing, Folding, Windowing, Multifolding, Tailing
<1> QED
  BY <1>6, <1>8, <1>9, <1>10 DEF IInv, Phases

-----------------------------------------------------------------------------
(* The prover.                                                              *)

LEMMA InitHolds ==
  ASSUME Init, Fits
  PROVE  IInv
<1>1. /\ pc = "start" /\ r = [i |-> 0, round |-> 0] /\ kernel = Idle
      /\ mem = [layer |-> [s \in 0 .. sys.real - 1 |-> Raw(s, sys.real)],
                work |-> [s \in {} |-> s], final |-> [s \in {} |-> s]]
  BY DEF Init
<1>2. Memory
  <2>1. DOMAIN mem = {"layer", "work", "final"}
    BY <1>1
  <2>2. mem["layer"] = [s \in 0 .. sys.real - 1 |-> Raw(s, sys.real)]
    BY <1>1
  <2> QED
    BY <1>1, <2>1, <2>2 DEF Memory, R
<1>3. Phases
  BY <1>1 DEF Phases, Treeing, Between, Folding, Windowing, Multifolding, Tailing, TreeFields
<1>4. LaunchesSafe
  <2>1. Sound(kernel, {})
    BY <1>1, IdleSound
  <2>2. ~Races(kernel) /\ Touched(kernel) = {}
    BY <2>1 DEF Sound
  <2> QED
    BY <1>1, <2>2 DEF LaunchesSafe, NoRace, InBounds
<1> QED
  BY <1>2, <1>3, <1>4 DEF IInv

LEMMA StutterKeeps ==
  ASSUME IInv, UNCHANGED vars
  PROVE  IInv'
<1>1. sys' = sys /\ mem' = mem /\ pc' = pc /\ r' = r /\ kernel' = kernel
  BY DEF vars
<1>2. /\ R' = R /\ L' = L /\ total_rounds' = total_rounds
      /\ max_work_size' = max_work_size /\ Fits' = Fits
  BY <1>1, SameInput
<1>3. Memory' = Memory
  BY <1>1, <1>2 DEF Memory
<1>4. last_outer_round' = last_outer_round /\ InRounds' = InRounds /\ virtual_input' = virtual_input
  BY <1>1, <1>2 DEF last_outer_round, InRounds, virtual_input
<1>5. Treeing' = Treeing /\ Between' = Between
  BY <1>1, <1>2, <1>4 DEF Treeing, Between
<1>6. Folding' = Folding
  <2>1. Roomy(r.round)' = Roomy(r.round)
    BY <1>1, <1>2 DEF Roomy
  <2>2. Source' = Source
    BY <1>1, <1>2, <1>4 DEF Source
  <2> QED
    BY <1>1, <1>4, <2>1, <2>2 DEF Folding
<1>7. Windowed' = Windowed /\ MoreWindows' = MoreWindows /\ stop(r.round)' = stop(r.round)
  <2>1. Tabled(r.round)' = Tabled(r.round)
    BY <1>1 DEF Tabled
  <2>2. active_pq' = active_pq
    BY <1>4 DEF active_pq
  <2>3. MoreWindows' = MoreWindows
    BY <1>1 DEF MoreWindows, window_w, build_tail_tile, stop
  <2>4. stop(r.round)' = stop(r.round)
    BY <1>1 DEF stop
  <2> QED
    BY <1>1, <1>4, <2>1, <2>2, <2>3, <2>4 DEF Windowed
<1>8. Windowing' = Windowing /\ Multifolding' = Multifolding /\ Tailing' = Tailing
  BY <1>1, <1>7 DEF Windowing, Multifolding, Tailing
<1>9. LaunchesSafe' = LaunchesSafe
  <2>1. tmp_block_sums' = tmp_block_sums
    BY <1>1, <1>2 DEF tmp_block_sums
  <2> QED
    BY <1>1, <2>1 DEF LaunchesSafe, NoRace, InBounds
<1> QED
  BY <1>2, <1>3, <1>5, <1>6, <1>8, <1>9 DEF IInv, Phases

(* The invariant holds of every input that fits: the buffers keep their     *)
(* sizes, and each phase of the prover finds its level of the tree, or the  *)
(* folds of it, in the buffer it reads.                                     *)
THEOREM Invariant == Spec /\ Fits => []IInv
<1>1. Init /\ Fits => IInv
  BY InitHolds
<1>2. IInv /\ [Next]_vars => IInv'
  <2> SUFFICES ASSUME IInv, [Next]_vars
               PROVE  IInv'
    OBVIOUS
  <2>1. CASE BuildK2
    BY <2>1, BuildK2Keeps
  <2>2. CASE BitReverse
    BY <2>2, BitReverseKeeps
  <2>3. CASE BuildLeaves
    BY <2>3, BuildLeavesKeeps
  <2>4. CASE AddAlpha
    BY <2>4, AddAlphaKeeps
  <2>5. CASE BuildTwoLayers
    BY <2>5, BuildTwoLayersKeeps
  <2>6. CASE BuildLastLayer
    BY <2>6, BuildLastLayerKeeps
  <2>7. CASE Root
    BY <2>7, RootKeeps
  <2>8. CASE StartRound
    BY <2>8, StartRoundKeeps
  <2>9. CASE FusedRound
    BY <2>9, FusedRoundKeeps
  <2>10. CASE FinalFold
    BY <2>10, FinalFoldKeeps
  <2>11. CASE Window
    BY <2>11, WindowKeeps
  <2>12. CASE MultiFold
    BY <2>12, MultiFoldKeeps
  <2>13. CASE TailRound
    BY <2>13, TailRoundKeeps
  <2>14. CASE TailFold
    BY <2>14, TailFoldKeeps
  <2>15. CASE TailFinalFold
    BY <2>15, TailFinalFoldKeeps
  <2>16. CASE Claim
    BY <2>16, ClaimKeeps
  <2>17. CASE UNCHANGED vars
    BY <2>17, StutterKeeps
  <2> QED
    BY <2>1, <2>2, <2>3, <2>4, <2>5, <2>6, <2>7, <2>8, <2>9, <2>10, <2>11, <2>12,
       <2>13, <2>14, <2>15, <2>16, <2>17 DEF Next
<1> QED
  BY <1>1, <1>2, PTL DEF Spec

(* No launch of the prover races or leaves its buffers: whatever the size   *)
(* of the tree, its padding, the window and the launch parameters, as long  *)
(* as the input fits.                                                       *)
THEOREM LaunchesAreSafe == Spec /\ Fits => []LaunchesSafe
<1>1. IInv => LaunchesSafe
  BY DEF IInv
<1> QED
  BY <1>1, Invariant, PTL

-----------------------------------------------------------------------------
(* The build as it ships, on any device.                                    *)

(* fractional.rs:36-37, 131-134 and gkr.cu:1312-1321.                       *)
Defaults ==
  /\ TargetBlocks = 1024 /\ MinTile = 256 /\ MaxTile = 4096
  /\ BlockSize = 256 /\ MinBlockSize = 64 /\ WarpSize = 32

(* An input the prover's assertions admit, under the default settings.      *)
(* Without the windows it has no padding.                                   *)
DefaultInput(in) ==
  /\ in.leaves \in {Pow2(k) : k \in 1 .. 31}
  /\ in.real \in Nat /\ in.real <= in.leaves /\ in.leaves <= 2 * in.real
  /\ in.window = 3 /\ in.default_min_n = 22 /\ in.min_n = 22 /\ in.min_blocks = 64
  /\ in.precompute \in BOOLEAN /\ (in.precompute \/ in.real = in.leaves)

LEMMA ManyLeaves ==
  ASSUME NEW k \in 14 .. 31
  PROVE  Pow2(k) \in Nat /\ Pow2(k) >= 16384
<1>1. 14 \in 0 .. 31 /\ k \in 0 .. 31 /\ 14 <= k
  OBVIOUS
<1>2. Pow2(14) <= Pow2(k) /\ Pow2(k) \in Nat
  BY <1>1, PowerGrows, Power
<1>3. Pow2(14) = 16384
  BY PowerTable
<1> QED
  BY <1>2, <1>3

(* The table of a window is never larger than the scratch of its round.     *)
LEMMA DefaultTable ==
  ASSUME Defaults, NEW k \in 23 .. 30, sys.window = 3
  PROVE  Tabled(k)
<1> DEFINE e == Pow2(k) \div 2
           blocks == DivCeil(e, BlockSize)
           x == DivCeil(e, GridTarget)
           warps == DivCeil(x, WarpSize)
           size == Largest({MinBlockSize, warps * WarpSize})
<1>0. GridTarget \in Nat \ {0} /\ BlockSize = 256 /\ MinBlockSize = 64 /\ WarpSize = 32
  BY LaunchAssumption DEF Defaults
<1>1. e \in Nat /\ e >= 8192
  <2>1. k \in 14 .. 31
    OBVIOUS
  <2> QED
    BY <2>1, ManyLeaves
<1>2. round_temp_size(Pow2(k)) = 2 * IF blocks < GridTarget /\ e >= MinBlockSize THEN DivCeil(e, size) ELSE blocks
  BY DEF round_temp_size
<1> HIDE DEF e
<1>3. blocks \in Nat /\ 8 <= blocks /\ e <= blocks * 256
  <2>1. 256 \in Nat \ {0} /\ 8 \in Nat /\ 8 * 256 <= e
    BY <1>1
  <2>2. DivCeil(e, 256) \in Nat /\ e <= DivCeil(e, 256) * 256 /\ 8 <= DivCeil(e, 256)
    BY <1>1, <2>1, AtLeast
  <2> QED
    BY <1>0, <2>2
<1> HIDE DEF blocks
<1>4. ASSUME blocks < GridTarget
      PROVE  DivCeil(e, size) \in Nat /\ 8 <= DivCeil(e, size)
  <2>1. x \in Nat /\ x <= 256
    <3>1. e <= 256 * GridTarget /\ 256 \in Nat
      BY <1>0, <1>1, <1>3, <1>4
    <3> QED
      BY <1>0, <1>1, <3>1, AtMost
  <2> HIDE DEF x
  <2>2. warps \in Nat /\ warps <= 8
    <3>1. 32 \in Nat \ {0} /\ 8 \in Nat /\ x <= 8 * 32
      BY <2>1
    <3>2. DivCeil(x, 32) \in Nat /\ DivCeil(x, 32) <= 8
      BY <2>1, <3>1, AtMost
    <3> QED
      BY <1>0, <3>2
  <2> HIDE DEF warps
  <2>3. size \in Nat \ {0} /\ size <= 256
    <3>1. 64 \in Nat /\ warps * 32 \in Nat /\ warps * 32 <= 256
      BY <2>2
    <3>2. Largest({64, warps * 32}) \in {64, warps * 32} /\ 64 <= Largest({64, warps * 32})
      BY <3>1, LargestOfTwo
    <3>3. size = Largest({64, warps * 32})
      BY <1>0
    <3> HIDE DEF size
    <3> QED
      BY <3>1, <3>2, <3>3
  <2> HIDE DEF size
  <2>4. 8 \in Nat /\ 8 * size <= e
    BY <1>1, <2>3
  <2> QED
    BY <1>1, <2>3, <2>4, AtLeast
<1> HIDE DEF size
<1>5. round_temp_size(Pow2(k)) \in Nat /\ 16 <= round_temp_size(Pow2(k))
  BY <1>2, <1>3, <1>4
<1>6. sys.window + 1 = 4 /\ Pow2(4) = 16
  BY PowerTable
<1> QED
  BY <1>5, <1>6 DEF Tabled

(* From 23 challenges on a round always folds by windows.                   *)
LEMMA DefaultWindows ==
  ASSUME Defaults, DefaultInput(sys), sys.precompute, NEW k \in 23 .. 30
  PROVE  PrecomputeM(k)
<1> DEFINE a == Pow2((k - 1) - 3)
           want == DivCeil(a, Largest({TargetBlocks, sys.min_blocks}))
           tile == IF want < MinTile THEN MinTile ELSE IF want > MaxTile THEN MaxTile ELSE want
<1>0. /\ TargetBlocks = 1024 /\ MinTile = 256 /\ MaxTile = 4096
      /\ sys.window = 3 /\ sys.min_n = 22 /\ sys.min_blocks = 64
  BY DEF Defaults, DefaultInput
<1>1. a \in Nat /\ a >= 16384
  <2>1. (k - 1) - 3 \in 14 .. 31
    OBVIOUS
  <2> QED
    BY <2>1, ManyLeaves
<1>2. build_tail_tile(k - 1) = tile
  BY <1>0 DEF build_tail_tile
<1> HIDE DEF a
<1>3. Largest({TargetBlocks, sys.min_blocks}) = 1024
  <2>1. 1024 \in Nat /\ 64 \in Nat
    OBVIOUS
  <2>2. Largest({1024, 64}) \in {1024, 64} /\ 1024 <= Largest({1024, 64})
    BY <2>1, LargestOfTwo
  <2> QED
    BY <1>0, <2>2
<1>4. want \in Nat /\ 64 * want <= a
  <2>1. want = (a + 1024 - 1) \div 1024
    BY <1>3 DEF DivCeil
  <2> HIDE DEF want
  <2> QED
    BY <1>1, <2>1
<1> HIDE DEF want
<1>5. tile \in Nat \ {0} /\ 64 * tile <= a
  BY <1>0, <1>1, <1>4
<1> HIDE DEF tile
<1>6. 64 <= DivCeil(a, tile)
  <2>1. 64 \in Nat
    OBVIOUS
  <2> QED
    BY <1>1, <1>5, <2>1, RoundedUp
<1>7. stop(k) \in Nat /\ k <= 2 * stop(k)
  <2>1. k \in Nat
    OBVIOUS
  <2> QED
    BY <2>1, HalfRounds
<1>8. /\ k - 1 >= sys.min_n /\ stop(k) - 1 >= sys.window
      /\ DivCeil(Pow2((k - 1) - sys.window), build_tail_tile(k - 1)) >= sys.min_blocks
  BY <1>0, <1>2, <1>6, <1>7 DEF a
<1> QED
  BY <1>8 DEF PrecomputeM, window_w

LEMMA DefaultRoom ==
  ASSUME DefaultInput(sys), L = Pow2(total_rounds), total_rounds \in 1 .. 31,
         NEW k \in 1 .. total_rounds - 1, sys.precompute => k <= 22
  PROVE  Roomy(k)
<1>1. CASE total_rounds <= 2
  BY <1>1 DEF Roomy
<1>2. CASE 2 < total_rounds /\ sys.precompute
  <2> DEFINE a == L \div Pow2(1 + sys.window)
             b == Pow2(sys.default_min_n)
  <2>1. max_work_size = Largest({a, b})
    BY <1>2 DEF max_work_size
  <2>2. a \in Nat /\ b \in Nat
    <3>1. 1 + sys.window \in 0 .. 31 /\ sys.default_min_n \in 0 .. 31 /\ total_rounds \in 0 .. 31
      BY DEF DefaultInput
    <3>2. Pow2(1 + sys.window) \in Nat \ {0} /\ b \in Nat /\ Pow2(total_rounds) \in Nat
      BY <3>1, Power
    <3> QED
      BY <3>2, Euclid
  <2>3. Pow2(k) <= b /\ Pow2(k) \in Nat
    <3>1. k \in 0 .. 31 /\ 22 \in 0 .. 31 /\ k <= 22
      BY <1>2
    <3>2. Pow2(k) <= Pow2(22) /\ Pow2(k) \in Nat
      BY <3>1, PowerGrows, Power
    <3> QED
      BY <3>2 DEF DefaultInput
  <2> HIDE DEF a, b
  <2>4. Largest({a, b}) \in {a, b} /\ b <= Largest({a, b})
    BY <2>2, LargestOfTwo
  <2> QED
    BY <2>1, <2>2, <2>3, <2>4 DEF Roomy
<1>3. CASE 2 < total_rounds /\ ~sys.precompute
  <2>1. R = L
    BY <1>3 DEF DefaultInput, R, L
  <2>2. CASE k = total_rounds - 1
    BY <2>1, <2>2 DEF Roomy
  <2>3. CASE k # total_rounds - 1
    <3> DEFINE f == total_rounds - 2
    <3>1. f \in 0 .. 31 /\ k \in 0 .. 31 /\ k <= f /\ 2 \in 0 .. 31 /\ 2 <= total_rounds /\ total_rounds \in 0 .. 31
      BY <1>3, <2>3
    <3>2. Pow2(total_rounds) \div Pow2(2) = Pow2(f)
      BY <3>1, PowerQuotient
    <3>3. Pow2(k) <= Pow2(f)
      <4> HIDE DEF f
      <4> QED
        BY <3>1, PowerGrows
    <3> HIDE DEF f
    <3>4. Pow2(2) = 4
      BY PowerTable
    <3>5. max_work_size = L \div 4
      BY <1>3 DEF max_work_size
    <3> QED
      BY <3>2, <3>3, <3>4, <3>5 DEF Roomy
  <2> QED
    BY <2>2, <2>3
<1> QED
  BY <1>1, <1>2, <1>3

LEMMA DefaultFits ==
  ASSUME Defaults, DefaultInput(sys)
  PROVE  Fits
<1>1. PICK n \in 1 .. 31 : L = Pow2(n)
  BY DEF DefaultInput, L
<1>2. total_rounds = n
  <2>1. n \in 0 .. 31
    OBVIOUS
  <2> QED
    BY <1>1, <2>1, Log2Power DEF total_rounds
<1>3. ASSUME NEW k \in 1 .. total_rounds - 1
      PROVE  IF PrecomputeM(k) THEN Tabled(k) ELSE Roomy(k)
  <2>1. CASE PrecomputeM(k)
    <3>1. k - 1 >= 22 /\ sys.window = 3
      BY <2>1 DEF PrecomputeM, window_w, DefaultInput
    <3>2. k \in 23 .. 30
      BY <1>2, <3>1
    <3> QED
      BY <2>1, <3>1, <3>2, DefaultTable
  <2>2. CASE ~PrecomputeM(k)
    <3>1. sys.precompute => k <= 22
      <4> SUFFICES ASSUME sys.precompute, ~(k <= 22) PROVE FALSE
        OBVIOUS
      <4>1. k \in 23 .. 30
        BY <1>2
      <4> QED
        BY <2>2, <4>1, DefaultWindows
    <3> QED
      BY <1>1, <1>2, <2>2, <3>1, DefaultRoom
  <2> QED
    BY <2>1, <2>2
<1>4. /\ R \in Nat /\ R <= L /\ L <= 2 * R /\ sys.window \in 1 .. 28
      /\ sys.default_min_n \in 0 .. 31 /\ sys.precompute \in BOOLEAN
  BY DEF DefaultInput, R, L
<1> QED
  BY <1>1, <1>3, <1>4 DEF Fits

(* As it ships, no launch of the prover races or leaves its buffers, on a   *)
(* device of any size and for every input the prover's assertions admit:    *)
(* without windows only where there is no padding.                          *)
THEOREM DefaultsAreSafe ==
  ASSUME Defaults, \A in \in Inputs : DefaultInput(in)
  PROVE  Spec => []LaunchesSafe
<1>1. Init => Fits
  BY DefaultFits DEF Init
<1> QED
  BY <1>1, LaunchesAreSafe, PTL DEF Spec
====
