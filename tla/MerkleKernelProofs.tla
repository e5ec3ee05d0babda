------------------------- MODULE MerkleKernelProofs --------------------------
(***************************************************************************)
(* The threads of a block of the row-hashing kernels never race on shared  *)
(* memory and stay inside it, for any matrix, any number of threads and of *)
(* limbs, and any number of rows per query that the launcher accepts.      *)
(*                                                                         *)
(* The words a thread touches follow from its phase.  While it hashes they *)
(* are its own lane of the sponge buffers; in a layer of the reduction the *)
(* writers have offsets of their own, and readers come a barrier later.    *)
(***************************************************************************)
EXTENDS MerkleKernel, FiniteSetTheorems, TLAPS

-----------------------------------------------------------------------------
(* Arithmetic.                                                              *)

LEMMA Scale ==
  ASSUME NEW a \in Int, NEW b \in Int, NEW m \in Nat, a <= b
  PROVE  a * m <= b * m
  OBVIOUS

(* Digits are unique.                                                       *)
LEMMA SplitUnique ==
  ASSUME NEW m \in Nat \ {0}, NEW a \in Nat, NEW b \in Nat,
         NEW x \in 0 .. m - 1, NEW y \in 0 .. m - 1, (a * m) + x = (b * m) + y
  PROVE  a = b /\ x = y
<1>1. ~ (a < b)
  <2> SUFFICES ASSUME a + 1 <= b
               PROVE  FALSE
    OBVIOUS
  <2>1. (a + 1) * m <= b * m
    BY Scale
  <2>2. (a + 1) * m = (a * m) + m
    OBVIOUS
  <2> QED
    BY <2>1, <2>2
<1>2. ~ (b < a)
  <2> SUFFICES ASSUME b + 1 <= a
               PROVE  FALSE
    OBVIOUS
  <2>1. (b + 1) * m <= a * m
    BY Scale
  <2>2. (b + 1) * m = (b * m) + m
    OBVIOUS
  <2> QED
    BY <2>1, <2>2
<1>3. a = b
  BY <1>1, <1>2
<1> QED
  BY <1>3

LEMMA Euclid ==
  ASSUME NEW a \in Nat, NEW d \in Nat \ {0}
  PROVE  /\ a \div d \in Nat
         /\ a % d \in 0 .. d - 1
         /\ a = ((a \div d) * d) + (a % d)
  OBVIOUS

LEMMA SplitBelow ==
  ASSUME NEW m \in Nat \ {0}, NEW n \in Nat, NEW a \in 0 .. n - 1, NEW x \in 0 .. m - 1
  PROVE  (a * m) + x \in 0 .. (n * m) - 1
<1>1. (a + 1) * m <= n * m
  BY Scale
<1>2. (a + 1) * m = (a * m) + m /\ 0 * m <= a * m
  BY Scale
<1>3. a * m \in Nat /\ n * m \in Nat
  OBVIOUS
<1> QED
  BY <1>1, <1>2, <1>3

(* The powers that occur, up to the rows of the largest launch.             *)
LEMMA TwoPower ==
  ASSUME NEW k \in 0 .. 9
  PROVE  2 ^ k \in Nat \ {0} /\ 2 ^ (k + 1) = 2 * 2 ^ k
<1>1. k \in {0, 1, 2, 3, 4, 5, 6, 7, 8, 9}
  OBVIOUS
<1>2. CASE k = 0
  BY <1>2
<1>3. CASE k = 1
  BY <1>3
<1>4. CASE k = 2
  BY <1>4
<1>5. CASE k = 3
  BY <1>5
<1>6. CASE k = 4
  BY <1>6
<1>7. CASE k = 5
  BY <1>7
<1>8. CASE k = 6
  BY <1>8
<1>9. CASE k = 7
  BY <1>9
<1>10. CASE k = 8
  BY <1>10
<1>11. CASE k = 9
  BY <1>11
<1> QED
  BY <1>1, <1>2, <1>3, <1>4, <1>5, <1>6, <1>7, <1>8, <1>9, <1>10, <1>11

LEMMA Concatenated ==
  ASSUME NEW S, NEW s \in Seq(S), NEW n \in Nat, NEW f, f = [i \in 1 .. n |-> f[i]]
  PROVE  /\ \E T : s \o f \in Seq(T)
         /\ Len(s \o f) = Len(s) + n
<1> DEFINE T == S \cup {f[i] : i \in 1 .. n}
<1>1. s \in Seq(T) /\ f \in Seq(T)
  OBVIOUS
<1>2. Len(f) = n
  OBVIOUS
<1> QED
  BY <1>1, <1>2, SMTT(30)

-----------------------------------------------------------------------------
(* A launch.                                                                *)

(* What the launchers accept, with what they are launched for.              *)
Launchable ==
  /\ kernel.scheme \in {"poseidon", "bn254"}
  /\ kernel.matrix.height \in Nat
  /\ kernel.log_rows \in 0 .. 9
  /\ Rows <= NThreads

LaunchState ==
  /\ kernel = [scheme |-> kernel.scheme, matrix |-> kernel.matrix,
               log_rows |-> kernel.log_rows, block |-> kernel.block,
               phase |-> kernel.phase, col |-> kernel.col, cells |-> kernel.cells,
               shared |-> kernel.shared, touched |-> kernel.touched, out |-> kernel.out]
  /\ kernel.phase \in [Threads -> 0 .. LastPhase + 1]
  /\ kernel.col \in [Threads -> Nat]
  /\ kernel.cells = [t \in Threads |-> kernel.cells[t]]

(* A thread that hashes has packed all but the last elements of its row,    *)
(* which are in its buffer.                                                 *)
Buffered ==
  \A t \in Threads : kernel.phase[t] = 0 =>
    /\ \E S : kernel.cells[t] \in Seq(S)
    /\ kernel.col[t] - Len(kernel.cells[t]) \in 0 .. Rate

(* The ways to touch a word: as part of the own buffer, or in a layer.      *)
Scratch(a) ==
  /\ kernel.scheme = "bn254" /\ a[2] = 0
  /\ \E i \in 0 .. Rate - 1 : a[3] = scratch_word(a[1], i)

Handed(a, layer) ==
  /\ a[2] = Interval(1 + (2 * layer)) /\ a[4] = "write"
  /\ InGroup(a[1], layer) = 2 ^ layer
  /\ a[3] \in LimbsAt(shared_offset(a[1], layer))

Fetched(a, layer) ==
  /\ a[2] = Interval(2 + (2 * layer)) /\ a[4] = "read"
  /\ a[3] \in LimbsAt(shared_offset(a[1], layer))

Layers == 0 .. kernel.log_rows - 1

Access(a) ==
  /\ a[1] \in Threads
  /\ Scratch(a) \/ \E layer \in Layers : Handed(a, layer) \/ Fetched(a, layer)

HashInv ==
  /\ Launchable
  /\ LaunchState
  /\ Buffered
  /\ \A a \in kernel.touched : Access(a)

-----------------------------------------------------------------------------
(* The dimensions of a block.                                               *)

LEMMA BlockShape ==
  ASSUME Launchable
  PROVE  /\ Rows \in Nat \ {0}
         /\ block_dim_x \in Nat
         /\ block_dim_x * Rows <= NThreads
<1>1. Rows \in Nat \ {0}
  BY TwoPower DEF Launchable, Rows
<1>2. NThreads \in Nat \ {0}
  BY KernelAssumption
<1>3. /\ kernel_stride \in Nat
      /\ NThreads \div Rows \in Nat
      /\ NThreads = ((NThreads \div Rows) * Rows) + (NThreads % Rows)
      /\ NThreads % Rows \in 0 .. Rows - 1
  BY <1>1, <1>2, Euclid DEF Launchable, kernel_stride
<1>4. NThreads \div Rows >= 1
  <2> SUFFICES ASSUME NThreads \div Rows = 0
               PROVE  FALSE
    BY <1>3
  <2>1. NThreads = NThreads % Rows
    BY <1>1, <1>3
  <2> QED
    BY <1>1, <1>2, <1>3, <2>1 DEF Launchable
<1>5. block_dim_x \in Nat /\ block_dim_x <= NThreads \div Rows
  BY <1>3, <1>4 DEF block_dim_x, AtMost, AtLeast
<1>6. block_dim_x * Rows <= (NThreads \div Rows) * Rows
  BY <1>1, <1>3, <1>5, Scale
<1>7. block_dim_x * Rows \in Nat /\ (NThreads \div Rows) * Rows \in Nat
  BY <1>1, <1>3, <1>5
<1> QED
  BY <1>1, <1>3, <1>5, <1>6, <1>7

LEMMA ThreadParts ==
  ASSUME NEW t \in Threads
  PROVE  /\ t[1] \in 0 .. block_dim_x - 1
         /\ t[2] \in 0 .. Rows - 1
         /\ t = <<t[1], t[2]>>
  BY DEF Threads

(* The number of a thread in its block.                                     *)
LEMMA ThreadNumber ==
  ASSUME Launchable, NEW t \in Threads
  PROVE  /\ block_dim_x \in Nat \ {0}
         /\ t[1] \in 0 .. block_dim_x - 1
         /\ t[2] \in 0 .. Rows - 1
         /\ (t[2] * block_dim_x) + t[1] \in 0 .. NThreads - 1
<1>1. /\ Rows \in Nat \ {0} /\ block_dim_x \in Nat /\ block_dim_x * Rows <= NThreads
      /\ NThreads \in Nat
  BY BlockShape, KernelAssumption
<1>2. t[1] \in 0 .. block_dim_x - 1 /\ t[2] \in 0 .. Rows - 1
  BY ThreadParts
<1>3. block_dim_x \in Nat \ {0}
  BY <1>1, <1>2
<1>4. (t[2] * block_dim_x) + t[1] \in 0 .. (Rows * block_dim_x) - 1
  BY <1>1, <1>2, <1>3, SplitBelow
<1>5. Rows * block_dim_x = block_dim_x * Rows /\ Rows * block_dim_x \in Nat
  BY <1>1
<1> QED
  BY <1>1, <1>2, <1>3, <1>4, <1>5

LEMMA ThreadUnique ==
  ASSUME Launchable, NEW t \in Threads, NEW o \in Threads,
         (t[2] * block_dim_x) + t[1] = (o[2] * block_dim_x) + o[1]
  PROVE  t = o
<1>1. /\ block_dim_x \in Nat \ {0} /\ Rows \in Nat
      /\ t[1] \in 0 .. block_dim_x - 1 /\ t[2] \in 0 .. Rows - 1
      /\ o[1] \in 0 .. block_dim_x - 1 /\ o[2] \in 0 .. Rows - 1
  BY ThreadNumber, BlockShape
<1> DEFINE m == block_dim_x  a == t[2]  b == o[2]  x == t[1]  y == o[1]
<1>2. /\ a \in Nat /\ b \in Nat /\ x \in 0 .. m - 1 /\ y \in 0 .. m - 1
      /\ m \in Nat \ {0} /\ (a * m) + x = (b * m) + y
  BY <1>1
<1>3. a = b /\ x = y
  <2> HIDE DEF m, a, b, x, y
  <2> QED
    BY <1>2, SplitUnique
<1> QED
  BY <1>3, ThreadParts

-----------------------------------------------------------------------------
(* Barriers and words.                                                      *)

LEMMA IntervalCount ==
  ASSUME Launchable, NEW p \in 0 .. LastPhase
  PROVE  Interval(p) = IF kernel.scheme = "bn254" THEN p ELSE IF p = 0 THEN 0 ELSE p - 1
<1>1. LastPhase \in Nat
  BY DEF LastPhase, Launchable
<1>2. CASE kernel.scheme = "bn254"
  <2>1. Barriers \cap (0 .. p) = 1 .. p
    BY <1>1, <1>2 DEF Barriers
  <2>2. Cardinality(1 .. p) = p
    BY <1>1, FS_Interval
  <2> QED
    BY <1>2, <2>1, <2>2 DEF Interval
<1>3. CASE kernel.scheme # "bn254"
  <2>1. Barriers \cap (0 .. p) = 2 .. p
    BY <1>1, <1>3 DEF Barriers
  <2>2. Cardinality(2 .. p) = IF p = 0 THEN 0 ELSE p - 1
    <3>1. p \in Nat
      BY <1>1
    <3>2. Cardinality(2 .. p) = IF 2 > p THEN 0 ELSE p - 2 + 1
      BY <3>1, FS_Interval
    <3> QED
      BY <3>1, <3>2
  <2> QED
    BY <1>3, <2>1, <2>2 DEF Interval
<1> QED
  BY <1>2, <1>3

(* A number with its group and its place in it, in a layer.                 *)
LEMMA Grouped ==
  ASSUME Launchable, NEW t \in Threads, NEW layer \in Layers
  PROVE  /\ 2 ^ layer \in Nat \ {0}
         /\ 2 ^ (layer + 1) = 2 * 2 ^ layer
         /\ t[2] \div 2 ^ (layer + 1) \in Nat
         /\ InGroup(t, layer) \in Nat
         /\ t[2] = ((t[2] \div 2 ^ (layer + 1)) * 2 ^ (layer + 1)) + InGroup(t, layer)
<1>1. layer \in 0 .. 9
  BY DEF Launchable, Layers
<1>2. 2 ^ layer \in Nat \ {0} /\ 2 ^ (layer + 1) = 2 * 2 ^ layer
  BY <1>1, TwoPower
<1>3. 2 ^ (layer + 1) \in Nat \ {0}
  BY <1>2
<1>4. Rows \in Nat /\ t[2] \in 0 .. Rows - 1
  BY ThreadParts, BlockShape
<1> DEFINE a == t[2]  d == 2 ^ (layer + 1)
<1>5. a \in Nat /\ d \in Nat \ {0}
  BY <1>3, <1>4
<1>6. a \div d \in Nat /\ a % d \in 0 .. d - 1 /\ a = ((a \div d) * d) + (a % d)
  <2> HIDE DEF a, d
  <2> QED
    BY <1>5, Euclid
<1>7. InGroup(t, layer) = a % d
  BY DEF InGroup
<1>8. a % d \in Nat
  <2> HIDE DEF a, d
  <2> QED
    BY <1>5, <1>6
<1> QED
  BY <1>2, <1>6, <1>7, <1>8

(* The exchange uses one word, or one digest, per two rows.                 *)
LEMMA OffsetBelow ==
  ASSUME Launchable, NEW t \in Threads, NEW layer \in Layers
  PROVE  /\ (Rows + 1) \div 2 \in Nat /\ (Rows + 1) \div 2 <= Rows
         /\ shared_offset(t, layer) \in 0 .. (((Rows + 1) \div 2) * block_dim_x) - 1
<1> DEFINE e == 2 ^ layer  g == t[2] \div 2 ^ (layer + 1)  n == (Rows + 1) \div 2
<1>1. /\ e \in Nat \ {0} /\ g \in Nat /\ InGroup(t, layer) \in Nat
      /\ t[2] = (g * (2 * e)) + InGroup(t, layer)
  BY Grouped
<1>2. /\ block_dim_x \in Nat \ {0} /\ Rows \in Nat \ {0}
      /\ t[1] \in 0 .. block_dim_x - 1 /\ t[2] \in 0 .. Rows - 1
  BY ThreadNumber, BlockShape
<1>3. n \in Nat /\ n <= Rows /\ 2 * n >= Rows
  BY <1>2
<1>4. shared_offset(t, layer) = ((g * e) * block_dim_x) + t[1]
  BY DEF shared_offset
<1>5. g * e \in 0 .. n - 1
  <2>1. g * e \in Nat /\ g * (2 * e) = 2 * (g * e)
    BY <1>1
  <2>2. 2 * (g * e) <= Rows - 1
    BY <1>1, <1>2, <2>1
  <2> HIDE DEF g, e, n
  <2> QED
    BY <1>2, <1>3, <2>1, <2>2
<1> HIDE DEF g, e, n
<1>6. ((g * e) * block_dim_x) + t[1] \in 0 .. (n * block_dim_x) - 1
  BY <1>2, <1>3, <1>5, SplitBelow
<1> QED
  BY <1>3, <1>4, <1>6 DEF n

(* Threads that hand a digest over in a layer use words of their own.       *)
LEMMA OffsetUnique ==
  ASSUME Launchable, NEW t \in Threads, NEW o \in Threads, NEW layer \in Layers,
         InGroup(t, layer) = InGroup(o, layer),
         shared_offset(t, layer) = shared_offset(o, layer)
  PROVE  t = o
<1> DEFINE e == 2 ^ layer
           g == t[2] \div 2 ^ (layer + 1)
           h == o[2] \div 2 ^ (layer + 1)
           m == block_dim_x  x == t[1]  y == o[1]  a == g * e  b == h * e
<1>1. /\ e \in Nat \ {0} /\ g \in Nat /\ h \in Nat
      /\ t[2] = (g * 2 ^ (layer + 1)) + InGroup(t, layer)
      /\ o[2] = (h * 2 ^ (layer + 1)) + InGroup(o, layer)
  BY Grouped
<1>2. m \in Nat \ {0} /\ x \in 0 .. m - 1 /\ y \in 0 .. m - 1
  BY ThreadNumber
<1>3. (a * m) + x = (b * m) + y
  BY DEF shared_offset
<1>4. a \in Nat /\ b \in Nat
  BY <1>1
<1>5. a = b /\ x = y
  <2> HIDE DEF a, b, x, y, m
  <2> QED
    BY <1>2, <1>3, <1>4, SplitUnique
<1>6. g = h
  <2> HIDE DEF g, h, e
  <2>1. (g * e) + 0 = (h * e) + 0 /\ 0 \in 0 .. e - 1
    BY <1>1, <1>4, <1>5
  <2> QED
    BY <1>1, <2>1, SplitUnique
<1>7. t[2] = o[2]
  BY <1>1, <1>6
<1> QED
  BY <1>5, <1>7, ThreadParts

LEMMA AccessInside ==
  ASSUME Launchable, NEW a, Access(a)
  PROVE  a[3] \in 0 .. shared_size - 1
<1>1. /\ a[1] \in Threads /\ NThreads \in Nat \ {0} /\ Limbs \in Nat \ {0}
  BY KernelAssumption DEF Access
<1>2. CASE Scratch(a)
  <2>1. PICK i \in 0 .. Rate - 1 : a[3] = scratch_word(a[1], i)
    BY <1>2 DEF Scratch
  <2> DEFINE x == (a[1][2] * block_dim_x) + a[1][1]
  <2>2. x \in 0 .. NThreads - 1 /\ Rate \in Nat
    BY <1>1, ThreadNumber DEF Rate
  <2>3. a[3] = (i * NThreads) + x
    <3>1. /\ a[1][2] * block_dim_x \in Int /\ a[1][1] \in Int /\ i * NThreads \in Int
      BY <1>1, <2>1, <2>2, ThreadNumber, BlockShape
    <3> QED
      BY <2>1, <3>1 DEF scratch_word
  <2>4. shared_size = Rate * NThreads
    BY <1>1, <1>2, <2>2 DEF shared_size, Scratch
  <2> HIDE DEF x
  <2>5. (i * NThreads) + x \in 0 .. (Rate * NThreads) - 1
    BY <1>1, <2>1, <2>2, SplitBelow
  <2> QED
    BY <2>3, <2>4, <2>5
<1>3. CASE ~Scratch(a)
  <2>1. PICK layer \in Layers : a[3] \in LimbsAt(shared_offset(a[1], layer))
    BY <1>3 DEF Access, Handed, Fetched
  <2> DEFINE offset == shared_offset(a[1], layer)  n == (Rows + 1) \div 2
  <2>2. /\ n \in Nat /\ n <= Rows /\ offset \in 0 .. (n * block_dim_x) - 1
    BY <1>1, OffsetBelow
  <2>3. /\ block_dim_x \in Nat /\ Rows \in Nat /\ block_dim_x * Rows <= NThreads
    BY BlockShape
  <2>4. PICK l \in 0 .. DigestLimbs - 1 : a[3] = (offset * DigestLimbs) + l
    BY <2>1 DEF LimbsAt
  <2>5. CASE kernel.scheme = "bn254"
    <3>1. DigestLimbs = Limbs /\ shared_size = NThreads * Rate
      BY <2>5 DEF DigestLimbs, shared_size
    <3>2. n * block_dim_x <= Rows * block_dim_x
      BY <2>2, <2>3, Scale
    <3>3. /\ Rows * block_dim_x = block_dim_x * Rows
          /\ Rows * block_dim_x \in Nat /\ n * block_dim_x \in Nat
      BY <2>2, <2>3
    <3>4. offset \in 0 .. NThreads - 1
      <4> HIDE DEF n, offset
      <4> QED
        BY <1>1, <2>2, <2>3, <3>2, <3>3
    <3> HIDE DEF n, offset
    <3>5. (offset * Limbs) + l \in 0 .. (NThreads * Limbs) - 1
      BY <1>1, <2>4, <3>1, <3>4, SplitBelow
    <3>6. NThreads * Limbs \in Nat /\ NThreads * Rate = 2 * (NThreads * Limbs)
      BY <1>1 DEF Rate
    <3> QED
      BY <2>4, <3>1, <3>5, <3>6
  <2>6. CASE kernel.scheme # "bn254"
    <3>1. DigestLimbs = 1 /\ shared_size = block_dim_x * n
      BY <2>6 DEF DigestLimbs, shared_size
    <3> HIDE DEF n, offset
    <3>2. n * block_dim_x = block_dim_x * n /\ n * block_dim_x \in Nat
      BY <2>2, <2>3
    <3>3. a[3] = offset
      BY <2>2, <2>4, <3>1, <3>2
    <3> QED
      BY <2>2, <3>1, <3>2, <3>3
  <2> QED
    BY <2>5, <2>6
<1> QED
  BY <1>2, <1>3

LEMMA IntervalOfLayer ==
  ASSUME Launchable, NEW layer \in Layers
  PROVE  /\ layer \in Nat
         /\ Interval(1 + (2 * layer)) = IF kernel.scheme = "bn254" THEN 1 + (2 * layer) ELSE 2 * layer
         /\ Interval(2 + (2 * layer)) = IF kernel.scheme = "bn254" THEN 2 + (2 * layer) ELSE 1 + (2 * layer)
<1>1. layer \in Nat /\ 2 + (2 * layer) \in 0 .. LastPhase /\ 1 + (2 * layer) \in 0 .. LastPhase
  BY DEF Launchable, Layers, LastPhase
<1> QED
  BY <1>1, IntervalCount

(* Two touches of a word between the same barriers, one of them a write,    *)
(* are of one thread.                                                       *)
LEMMA AccessUnique ==
  ASSUME Launchable, NEW a, NEW b, Access(a), Access(b),
         a[4] = "write", a[2] = b[2], a[3] = b[3]
  PROVE  a[1] = b[1]
<1>1. /\ a[1] \in Threads /\ b[1] \in Threads
      /\ NThreads \in Nat \ {0} /\ Limbs \in Nat \ {0}
  BY KernelAssumption DEF Access
<1>2. CASE Scratch(a) /\ Scratch(b)
  <2>1. PICK i \in 0 .. Rate - 1, j \in 0 .. Rate - 1 :
          scratch_word(a[1], i) = scratch_word(b[1], j)
    BY <1>2 DEF Scratch
  <2> DEFINE x == (a[1][2] * block_dim_x) + a[1][1]
             y == (b[1][2] * block_dim_x) + b[1][1]
  <2>2. x \in 0 .. NThreads - 1 /\ y \in 0 .. NThreads - 1 /\ i \in Nat /\ j \in Nat
    BY <1>1, ThreadNumber DEF Rate
  <2>3. (i * NThreads) + x = (j * NThreads) + y
    <3>1. /\ a[1][2] * block_dim_x \in Int /\ a[1][1] \in Int /\ i * NThreads \in Int
          /\ b[1][2] * block_dim_x \in Int /\ b[1][1] \in Int /\ j * NThreads \in Int
      BY <1>1, <2>2, ThreadNumber, BlockShape
    <3> QED
      BY <2>1, <3>1 DEF scratch_word
  <2>4. x = y
    <3> HIDE DEF x, y
    <3> QED
      BY <1>1, <2>2, <2>3, SplitUnique
  <2> QED
    BY <1>1, <2>4, ThreadUnique
<1>3. CASE ~ Scratch(a)
  <2>1. PICK layer \in Layers : Handed(a, layer)
    BY <1>3 DEF Access, Fetched
  <2>2. ~ Scratch(b)
    BY <2>1, IntervalOfLayer DEF Handed, Scratch
  <2>3. PICK other \in Layers : Handed(b, other) \/ Fetched(b, other)
    BY <2>2 DEF Access
  <2>4. layer = other /\ Handed(b, layer)
    BY <2>1, <2>3, IntervalOfLayer DEF Handed, Fetched
  <2> DEFINE p == shared_offset(a[1], layer)  q == shared_offset(b[1], layer)
  <2>5. PICK i \in 0 .. DigestLimbs - 1, j \in 0 .. DigestLimbs - 1 :
          (p * DigestLimbs) + i = (q * DigestLimbs) + j
    BY <2>1, <2>4 DEF Handed, LimbsAt
  <2>6. p \in Nat /\ q \in Nat /\ DigestLimbs \in Nat \ {0}
    <3>1. /\ p \in 0 .. (((Rows + 1) \div 2) * block_dim_x) - 1
          /\ q \in 0 .. (((Rows + 1) \div 2) * block_dim_x) - 1
      BY <1>1, OffsetBelow
    <3> HIDE DEF p, q
    <3> QED
      BY <1>1, <3>1 DEF DigestLimbs
  <2>7. p = q
    <3> HIDE DEF p, q
    <3> QED
      BY <2>5, <2>6, SplitUnique
  <2> QED
    BY <1>1, <2>1, <2>4, <2>7, OffsetUnique DEF Handed
<1>4. CASE Scratch(a) /\ ~ Scratch(b)
  <2>1. PICK layer \in Layers : Handed(b, layer) \/ Fetched(b, layer)
    BY <1>4 DEF Access
  <2> QED
    BY <1>4, <2>1, IntervalOfLayer DEF Handed, Fetched, Scratch
<1> QED
  BY <1>2, <1>3, <1>4

-----------------------------------------------------------------------------
(* Steps.                                                                   *)

(* What a step of a thread leaves alone.                                    *)
SameLaunch ==
  /\ kernel'.scheme = kernel.scheme
  /\ kernel'.matrix = kernel.matrix
  /\ kernel'.log_rows = kernel.log_rows

LEMMA LaunchKept ==
  ASSUME SameLaunch
  PROVE  /\ Launchable => Launchable'
         /\ Threads' = Threads /\ LastPhase' = LastPhase /\ Layers' = Layers
         /\ \A p : Interval(p)' = Interval(p)
         /\ \A a : Access(a) => Access(a)'
<1>1. Rows' = Rows /\ kernel_stride' = kernel_stride
  BY DEF SameLaunch, Rows, kernel_stride
<1>2. block_dim_x' = block_dim_x
  BY <1>1 DEF block_dim_x
<1>3. /\ Threads' = Threads /\ LastPhase' = LastPhase /\ Layers' = Layers
      /\ Barriers' = Barriers /\ DigestLimbs' = DigestLimbs
  BY <1>1, <1>2 DEF SameLaunch, Threads, LastPhase, Layers, Barriers, DigestLimbs
<1>4. \A p : Interval(p)' = Interval(p)
  BY <1>3 DEF Interval
<1>5. Launchable => Launchable'
  BY <1>1 DEF Launchable, SameLaunch
<1>6. ASSUME NEW a, Access(a)
      PROVE  Access(a)'
  <2>1. CASE Scratch(a)
    BY <1>2, <1>3, <1>6, <2>1 DEF Access, Scratch, scratch_word, SameLaunch
  <2>2. CASE ~ Scratch(a)
    <3>1. PICK layer \in Layers : Handed(a, layer) \/ Fetched(a, layer)
      BY <1>6, <2>2 DEF Access
    <3>2. LimbsAt(shared_offset(a[1], layer))' = LimbsAt(shared_offset(a[1], layer))
      BY <1>2, <1>3 DEF LimbsAt, shared_offset
    <3>3. InGroup(a[1], layer)' = InGroup(a[1], layer)
      BY DEF InGroup
    <3>4. (Handed(a, layer) \/ Fetched(a, layer))'
      BY <1>4, <3>1, <3>2, <3>3 DEF Handed, Fetched
    <3> QED
      BY <1>3, <1>6, <3>4 DEF Access
  <2> QED
    BY <2>1, <2>2
<1> QED
  BY <1>3, <1>4, <1>5, <1>6

(* The state after a step of thread t.                                      *)
Stepped(t, phase, col, cells, shared, touched, out) ==
  [scheme |-> kernel.scheme, matrix |-> kernel.matrix, log_rows |-> kernel.log_rows,
   block |-> kernel.block, phase |-> [kernel.phase EXCEPT ![t] = phase],
   col |-> [kernel.col EXCEPT ![t] = col], cells |-> [kernel.cells EXCEPT ![t] = cells],
   shared |-> shared, touched |-> touched, out |-> out]

LEMMA StepKeeps ==
  ASSUME HashInv, NEW t \in Threads, NEW phase \in 0 .. LastPhase + 1, NEW col \in Nat,
         NEW cells, NEW shared, NEW words, NEW mode, NEW out,
         kernel' = Stepped(t, phase, col, cells, shared, Touch(t, words, mode), out),
         phase = 0 => /\ \E S : cells \in Seq(S)
                      /\ col - Len(cells) \in 0 .. Rate,
         \A w \in words : Access(<<t, Interval(kernel.phase[t]), w, mode>>)
  PROVE  HashInv'
<1>1. /\ kernel'.scheme = kernel.scheme /\ kernel'.matrix = kernel.matrix
      /\ kernel'.log_rows = kernel.log_rows /\ kernel'.block = kernel.block
      /\ kernel'.phase = [kernel.phase EXCEPT ![t] = phase]
      /\ kernel'.col = [kernel.col EXCEPT ![t] = col]
      /\ kernel'.cells = [kernel.cells EXCEPT ![t] = cells]
      /\ kernel'.shared = shared /\ kernel'.touched = Touch(t, words, mode)
      /\ kernel'.out = out
  BY DEF Stepped
<1>2. SameLaunch
  BY <1>1 DEF SameLaunch
<1>3. /\ Launchable' /\ Threads' = Threads /\ LastPhase' = LastPhase
      /\ \A a : Access(a) => Access(a)'
  BY <1>2, LaunchKept DEF HashInv
<1>4. LaunchState'
  <2>1. kernel' = [scheme |-> kernel'.scheme, matrix |-> kernel'.matrix,
                   log_rows |-> kernel'.log_rows, block |-> kernel'.block,
                   phase |-> kernel'.phase, col |-> kernel'.col, cells |-> kernel'.cells,
                   shared |-> kernel'.shared, touched |-> kernel'.touched, out |-> kernel'.out]
    BY <1>1 DEF Stepped
  <2>2. kernel'.phase \in [Threads -> 0 .. LastPhase + 1] /\ kernel'.col \in [Threads -> Nat]
    BY <1>1 DEF HashInv, LaunchState
  <2>3. kernel'.cells = [o \in Threads |-> kernel'.cells[o]]
    BY <1>1 DEF HashInv, LaunchState
  <2> QED
    BY <1>3, <2>1, <2>2, <2>3 DEF LaunchState
<1>5. Buffered'
  <2> SUFFICES ASSUME NEW o \in Threads, kernel'.phase[o] = 0
               PROVE  /\ \E S : kernel'.cells[o] \in Seq(S)
                      /\ kernel'.col[o] - Len(kernel'.cells[o]) \in 0 .. Rate
    BY <1>3 DEF Buffered, Rate
  <2>1. DOMAIN kernel.phase = Threads /\ DOMAIN kernel.col = Threads /\ DOMAIN kernel.cells = Threads
    BY DEF HashInv, LaunchState
  <2>2. CASE o = t
    BY <1>1, <2>1, <2>2
  <2>3. CASE o # t
    <3>1. /\ kernel'.phase[o] = kernel.phase[o] /\ kernel'.col[o] = kernel.col[o]
          /\ kernel'.cells[o] = kernel.cells[o]
      BY <1>1, <2>1, <2>3
    <3> QED
      BY <3>1 DEF HashInv, Buffered
  <2> QED
    BY <2>2, <2>3
<1>6. \A a \in kernel'.touched : Access(a)'
  BY <1>1, <1>3 DEF HashInv, Touch
<1> QED
  BY <1>3, <1>4, <1>5, <1>6 DEF HashInv

(* A thread whose step touches nothing shared.                              *)
LEMMA PrivateStep ==
  ASSUME HashInv, NEW t \in Threads, NEW phase \in 1 .. LastPhase + 1, NEW cells, NEW out,
         kernel' = Stepped(t, phase, kernel.col[t], cells, kernel.shared, kernel.touched, out)
  PROVE  HashInv'
<1>1. kernel.touched = Touch(t, {}, "read")
  BY DEF Touch
<1>2. kernel.col[t] \in Nat /\ LastPhase \in Nat
  BY DEF HashInv, LaunchState, Launchable, LastPhase
<1>3. phase \in 0 .. LastPhase + 1 /\ phase # 0
  BY <1>2
<1> QED
  BY <1>1, <1>2, <1>3, StepKeeps

LEMMA HashInRegisters ==
  ASSUME HashInv, NEW t \in Threads, row_hash_in_registers(t)
  PROVE  HashInv'
<1> DEFINE cells == IF InStride(t)
                    THEN hash_slice([c \in 1 .. kernel.matrix.width |-> RowElem(t, c - 1)])
                    ELSE NoDigest
<1>1. kernel' = Stepped(t, 1, kernel.col[t], cells, kernel.shared, kernel.touched, kernel.out)
  <2>1. kernel' = [kernel EXCEPT !.phase[t] = 1, !.cells[t] = cells]
    BY DEF row_hash_in_registers
  <2> HIDE DEF cells
  <2> QED
    BY <2>1 DEF HashInv, LaunchState, Stepped
<1>2. 1 \in 1 .. LastPhase + 1
  BY DEF HashInv, Launchable, LastPhase
<1> HIDE DEF cells
<1> QED
  BY <1>1, <1>2, PrivateStep

LEMMA BufferSet ==
  ASSUME HashInv, NEW t \in Threads, buf_set(t)
  PROVE  HashInv'
<1> DEFINE n == kernel.col[t] - Len(kernel.cells[t])
           w == scratch_word(t, n)
           shared == (w :> ElemWord(RowElem(t, kernel.col[t]))) @@ kernel.shared
<1>1. /\ kernel.scheme = "bn254" /\ kernel.phase[t] = 0
      /\ n < Rate /\ n \in 0 .. Rate /\ Rate \in Nat
      /\ kernel.col[t] \in Nat /\ \E S : kernel.cells[t] \in Seq(S)
  BY KernelAssumption DEF buf_set, HashInv, Buffered, LaunchState, Rate
<1>2. kernel' = Stepped(t, 0, kernel.col[t] + 1, kernel.cells[t], shared,
                        Touch(t, {w}, "write"), kernel.out)
  <2>1. kernel' = [kernel EXCEPT !.col[t] = kernel.col[t] + 1,
                     !.touched = Touch(t, {w}, "write"), !.shared = shared]
    BY DEF buf_set
  <2> HIDE DEF shared, w
  <2> QED
    BY <1>1, <2>1 DEF HashInv, LaunchState, Stepped
<1>3. Len(kernel.cells[t]) \in Nat
  BY <1>1
<1>4. (kernel.col[t] + 1) - Len(kernel.cells[t]) \in 0 .. Rate
  BY <1>1, <1>3, SMTT(30)
<1>5. Access(<<t, Interval(kernel.phase[t]), w, "write">>)
  <2>1. Interval(kernel.phase[t]) = 0
    BY <1>1, IntervalCount DEF HashInv, Launchable, LastPhase
  <2>2. n \in 0 .. Rate - 1
    BY <1>1, <1>3
  <2> QED
    BY <1>1, <2>1, <2>2 DEF Access, Scratch
<1>6. 0 \in 0 .. LastPhase + 1 /\ kernel.col[t] + 1 \in Nat
  BY <1>1, SMTT(30) DEF HashInv, Launchable, LastPhase
<1> HIDE DEF shared, w
<1>7. \A x \in {w} : Access(<<t, Interval(kernel.phase[t]), x, "write">>)
  BY <1>5
<1> QED
  BY <1>1, <1>2, <1>4, <1>6, <1>7, StepKeeps

LEMMA BufferPacked ==
  ASSUME HashInv, NEW t \in Threads, pack_strided(t)
  PROVE  HashInv'
<1> DEFINE n == kernel.col[t] - Len(kernel.cells[t])
           packed == [i \in 1 .. n |-> Word(scratch_word(t, i - 1))[1]]
           words == {scratch_word(t, i) : i \in 0 .. n - 1}
<1>1. /\ kernel.scheme = "bn254" /\ kernel.phase[t] = 0
      /\ n \in 0 .. Rate /\ Rate \in Nat
      /\ kernel.col[t] \in Nat /\ \E S : kernel.cells[t] \in Seq(S)
  BY KernelAssumption DEF pack_strided, HashInv, Buffered, LaunchState, Rate
<1>2. kernel' = Stepped(t, 0, kernel.col[t], kernel.cells[t] \o packed, kernel.shared,
                        Touch(t, words, "read"), kernel.out)
  <2>1. kernel' = [kernel EXCEPT !.cells[t] = kernel.cells[t] \o packed,
                     !.touched = Touch(t, words, "read")]
    BY DEF pack_strided
  <2> HIDE DEF packed, words
  <2> QED
    BY <1>1, <2>1 DEF HashInv, LaunchState, Stepped
<1>3. /\ \E S : kernel.cells[t] \o packed \in Seq(S)
      /\ kernel.col[t] - Len(kernel.cells[t] \o packed) \in 0 .. Rate
  <2>1. PICK S : kernel.cells[t] \in Seq(S)
    BY <1>1
  <2>2. Len(kernel.cells[t]) \in Nat /\ n \in Nat
    BY <1>1, <2>1
  <2>3. packed = [i \in 1 .. n |-> packed[i]]
    OBVIOUS
  <2>4. /\ \E T : kernel.cells[t] \o packed \in Seq(T)
        /\ Len(kernel.cells[t] \o packed) = Len(kernel.cells[t]) + n
    <3> HIDE DEF packed, n
    <3> QED
      BY <2>1, <2>2, <2>3, Concatenated
  <2>5. kernel.col[t] - Len(kernel.cells[t] \o packed) \in 0 .. Rate
    <3> DEFINE before == Len(kernel.cells[t])  after == Len(kernel.cells[t] \o packed)
    <3>1. before \in Nat /\ after = before + (kernel.col[t] - before)
      BY <2>2, <2>4
    <3>2. kernel.col[t] - after \in 0 .. Rate
      <4> HIDE DEF before, after
      <4> QED
        BY <1>1, <3>1
    <3> QED
      BY <3>2
  <2> HIDE DEF packed
  <2> QED
    BY <2>4, <2>5
<1>4. \A w \in words : Access(<<t, Interval(kernel.phase[t]), w, "read">>)
  <2>1. Interval(kernel.phase[t]) = 0
    BY <1>1, IntervalCount DEF HashInv, Launchable, LastPhase
  <2>2. 0 .. n - 1 \subseteq 0 .. Rate - 1
    BY <1>1
  <2> QED
    BY <1>1, <2>1, <2>2 DEF Access, Scratch
<1>5. 0 \in 0 .. LastPhase + 1
  BY DEF HashInv, Launchable, LastPhase
<1> HIDE DEF packed, words
<1> QED
  BY <1>1, <1>2, <1>3, <1>4, <1>5, StepKeeps

LEMMA RowHashed ==
  ASSUME HashInv, NEW t \in Threads, row_hash_done(t)
  PROVE  HashInv'
<1> DEFINE cells == IF InStride(t) THEN hash_slice(kernel.cells[t]) ELSE NoDigest
<1>1. kernel' = Stepped(t, 1, kernel.col[t], cells, kernel.shared, kernel.touched, kernel.out)
  <2>1. kernel' = [kernel EXCEPT !.phase[t] = 1, !.cells[t] = cells]
    BY DEF row_hash_done
  <2> HIDE DEF cells
  <2> QED
    BY <2>1 DEF HashInv, LaunchState, Stepped
<1>2. 1 \in 1 .. LastPhase + 1
  BY DEF HashInv, Launchable, LastPhase
<1> HIDE DEF cells
<1> QED
  BY <1>1, <1>2, PrivateStep

(* A thread that enters the next phase.                                     *)
LEMMA PhaseDone ==
  ASSUME HashInv, NEW t \in Threads, kernel' = [kernel EXCEPT !.phase[t] = @ + 1],
         kernel.phase[t] <= LastPhase
  PROVE  HashInv'
<1>1. kernel' = Stepped(t, kernel.phase[t] + 1, kernel.col[t], kernel.cells[t],
                        kernel.shared, kernel.touched, kernel.out)
  BY DEF HashInv, LaunchState, Stepped
<1>2. kernel.phase[t] + 1 \in 1 .. LastPhase + 1
  BY DEF HashInv, Launchable, LaunchState, LastPhase
<1> QED
  BY <1>1, <1>2, PrivateStep

LEMMA DigestHanded ==
  ASSUME HashInv, NEW t \in Threads, ExchangeWrite(t)
  PROVE  HashInv'
<1> DEFINE layer == (kernel.phase[t] - 1) \div 2
           offset == shared_offset(t, layer)
           shared == [w \in LimbsAt(offset) |->
                        LimbWord(w - (offset * DigestLimbs), kernel.cells[t])] @@ kernel.shared
           words == LimbsAt(offset)
<1>1. /\ kernel.phase[t] \in 0 .. LastPhase + 1 /\ LastPhase = 1 + (2 * kernel.log_rows)
      /\ kernel.phase[t] % 2 = 1 /\ kernel.phase[t] < LastPhase
      /\ kernel.log_rows \in Nat /\ kernel.col[t] \in Nat
  BY DEF ExchangeWrite, HashInv, LaunchState, Launchable, LastPhase
<1>2. layer \in Layers /\ kernel.phase[t] = 1 + (2 * layer)
  BY <1>1 DEF Layers
<1>3. CASE InGroup(t, layer) = 2 ^ layer
  <2>1. kernel' = [kernel EXCEPT !.phase[t] = @ + 1, !.touched = Touch(t, words, "write"),
                     !.shared = shared]
    BY <1>3 DEF ExchangeWrite
  <2>2. kernel' = Stepped(t, kernel.phase[t] + 1, kernel.col[t], kernel.cells[t], shared,
                          Touch(t, words, "write"), kernel.out)
    <3> HIDE DEF shared, words, layer
    <3> QED
      BY <2>1 DEF HashInv, LaunchState, Stepped
  <2>3. \A w \in words : Access(<<t, Interval(kernel.phase[t]), w, "write">>)
    <3> SUFFICES ASSUME NEW w \in words
                 PROVE  Handed(<<t, Interval(kernel.phase[t]), w, "write">>, layer)
      BY <1>2 DEF Access
    <3> QED
      BY <1>2, <1>3 DEF Handed
  <2>4. kernel.phase[t] + 1 \in 0 .. LastPhase + 1 /\ kernel.phase[t] + 1 # 0
    BY <1>1
  <2> HIDE DEF shared, words, layer
  <2> QED
    BY <1>1, <2>2, <2>3, <2>4, StepKeeps
<1>4. CASE InGroup(t, layer) # 2 ^ layer
  <2>1. kernel' = [kernel EXCEPT !.phase[t] = @ + 1]
    BY <1>4 DEF ExchangeWrite
  <2> QED
    BY <1>1, <2>1, PhaseDone
<1> QED
  BY <1>3, <1>4

LEMMA DigestFetched ==
  ASSUME HashInv, NEW t \in Threads, ExchangeRead(t)
  PROVE  HashInv'
<1> DEFINE layer == (kernel.phase[t] \div 2) - 1
           words == LimbsAt(shared_offset(t, layer))
           cells == compress(kernel.cells[t], DigestAt(shared_offset(t, layer)))
<1>1. /\ kernel.phase[t] \in 2 .. LastPhase /\ LastPhase = 1 + (2 * kernel.log_rows)
      /\ kernel.phase[t] % 2 = 0 /\ kernel.log_rows \in Nat /\ kernel.col[t] \in Nat
  BY DEF ExchangeRead, HashInv, LaunchState, Launchable, LastPhase
<1>2. layer \in Layers /\ kernel.phase[t] = 2 + (2 * layer)
  BY <1>1 DEF Layers
<1>3. CASE InGroup(t, layer) = 0
  <2>1. kernel' = [kernel EXCEPT !.phase[t] = @ + 1, !.touched = Touch(t, words, "read"),
                     !.cells[t] = cells]
    BY <1>3 DEF ExchangeRead
  <2>2. kernel' = Stepped(t, kernel.phase[t] + 1, kernel.col[t], cells, kernel.shared,
                          Touch(t, words, "read"), kernel.out)
    <3> HIDE DEF cells, words, layer
    <3> QED
      BY <2>1 DEF HashInv, LaunchState, Stepped
  <2>3. \A w \in words : Access(<<t, Interval(kernel.phase[t]), w, "read">>)
    <3> SUFFICES ASSUME NEW w \in words
                 PROVE  Fetched(<<t, Interval(kernel.phase[t]), w, "read">>, layer)
      BY <1>2 DEF Access
    <3> QED
      BY <1>2 DEF Fetched
  <2>4. kernel.phase[t] + 1 \in 0 .. LastPhase + 1 /\ kernel.phase[t] + 1 # 0
    BY <1>1
  <2> HIDE DEF cells, words, layer
  <2> QED
    BY <1>1, <2>2, <2>3, <2>4, StepKeeps
<1>4. CASE InGroup(t, layer) # 0
  <2>1. kernel' = [kernel EXCEPT !.phase[t] = @ + 1]
    BY <1>4 DEF ExchangeRead
  <2> QED
    BY <1>1, <2>1, PhaseDone
<1> QED
  BY <1>3, <1>4

LEMMA LeafStored ==
  ASSUME HashInv, NEW t \in Threads, StoreLeaf(t)
  PROVE  HashInv'
<1> DEFINE out == IF t[2] = 0 /\ InStride(t)
                  THEN (stride_idx(t) :> kernel.cells[t]) @@ kernel.out ELSE kernel.out
<1>1. kernel.phase[t] = LastPhase /\ kernel' = [kernel EXCEPT !.phase[t] = @ + 1, !.out = out]
  BY DEF StoreLeaf
<1>2. kernel' = Stepped(t, kernel.phase[t] + 1, kernel.col[t], kernel.cells[t],
                        kernel.shared, kernel.touched, out)
  <2> HIDE DEF out
  <2> QED
    BY <1>1 DEF HashInv, LaunchState, Stepped
<1>3. kernel.phase[t] + 1 \in 1 .. LastPhase + 1
  BY <1>1 DEF HashInv, Launchable, LastPhase
<1> HIDE DEF out
<1> QED
  BY <1>2, <1>3, PrivateStep

(* A fresh launch has touched nothing.                                      *)
LEMMA BlockFields ==
  ASSUME NEW scheme, NEW matrix, NEW log_rows, NEW first, NEW phase, NEW col, NEW cells,
         NEW block, NEW out, NEW launch, NEW next,
         launch = [scheme |-> scheme, matrix |-> matrix, log_rows |-> log_rows, block |-> first,
                   phase |-> phase, col |-> col, cells |-> cells,
                   shared |-> <<>>, touched |-> {}, out |-> <<>>],
         next = [launch EXCEPT !.block = block, !.out = out]
  PROVE  next = [scheme |-> scheme, matrix |-> matrix, log_rows |-> log_rows, block |-> block,
                 phase |-> phase, col |-> col, cells |-> cells,
                 shared |-> <<>>, touched |-> {}, out |-> out]
  OBVIOUS

LEMMA EmptyBuffer ==
  (\E S : <<>> \in Seq(S)) /\ 0 - Len(<<>>) \in 0 .. Rate
<1>1. Rate \in Nat
  BY KernelAssumption DEF Rate
<1>2. <<>> \in Seq({}) /\ Len(<<>>) = 0
  OBVIOUS
<1> QED
  BY <1>1, <1>2

LEMMA Launched ==
  ASSUME NEW scheme \in {"poseidon", "bn254"}, NEW matrix, matrix.height \in Nat,
         NEW log_rows \in 0 .. 9, 2 ^ log_rows <= NThreads,
         kernel = Launch(scheme, matrix, log_rows)
  PROVE  HashInv
<1> DEFINE bx == AtMost(matrix.height \div 2 ^ log_rows, AtLeast(1, NThreads \div 2 ^ log_rows))
           ts == {<<x, leaf>> : x \in 0 .. bx - 1, leaf \in 0 .. 2 ^ log_rows - 1}
<1>1. kernel = [scheme |-> scheme, matrix |-> matrix, log_rows |-> log_rows, block |-> 0,
                phase |-> [t \in ts |-> 0], col |-> [t \in ts |-> 0], cells |-> [t \in ts |-> <<>>],
                shared |-> <<>>, touched |-> {}, out |-> <<>>]
  BY DEF Launch
<1>2. Threads = ts
  <2>1. kernel.log_rows = log_rows /\ kernel.matrix = matrix
    BY <1>1
  <2>2. block_dim_x = bx
    BY <2>1 DEF block_dim_x, kernel_stride, Rows
  <2> HIDE DEF bx
  <2> QED
    BY <2>1, <2>2 DEF Threads, Rows
<1> HIDE DEF ts
<1>3. /\ kernel.scheme = scheme /\ kernel.matrix = matrix /\ kernel.log_rows = log_rows
      /\ kernel.phase = [t \in ts |-> 0] /\ kernel.col = [t \in ts |-> 0]
      /\ kernel.cells = [t \in ts |-> <<>>] /\ kernel.touched = {}
  BY <1>1
<1>4. Launchable
  BY <1>3 DEF Launchable, Rows
<1>5. 0 \in 0 .. LastPhase + 1
  BY <1>4 DEF Launchable, LastPhase
<1>6. LaunchState
  <2>1. kernel = [scheme |-> kernel.scheme, matrix |-> kernel.matrix,
               log_rows |-> kernel.log_rows, block |-> kernel.block,
               phase |-> kernel.phase, col |-> kernel.col, cells |-> kernel.cells,
               shared |-> kernel.shared, touched |-> kernel.touched, out |-> kernel.out]
    BY <1>1
  <2> QED
    BY <1>2, <1>3, <1>5, <2>1 DEF LaunchState
<1>7. Buffered
  BY <1>2, <1>3, EmptyBuffer DEF Buffered
<1> QED
  BY <1>3, <1>4, <1>6, <1>7 DEF HashInv

LEMMA BlockStarted ==
  ASSUME HashInv, NextBlock
  PROVE  HashInv'
<1> DEFINE ts == Threads
<1>1. kernel' = [scheme |-> kernel.scheme, matrix |-> kernel.matrix, log_rows |-> kernel.log_rows,
                 block |-> kernel.block + 1,
                 phase |-> [t \in ts |-> 0], col |-> [t \in ts |-> 0], cells |-> [t \in ts |-> <<>>],
                 shared |-> <<>>, touched |-> {}, out |-> kernel.out]
  <2> DEFINE launch == Launch(kernel.scheme, kernel.matrix, kernel.log_rows)
             zeros == [t \in ts |-> 0]
             empty == [t \in ts |-> <<>>]
  <2>1. kernel' = [launch EXCEPT !.block = kernel.block + 1, !.out = kernel.out]
    BY DEF NextBlock
  <2>2. launch = [scheme |-> kernel.scheme, matrix |-> kernel.matrix,
                  log_rows |-> kernel.log_rows, block |-> 0, phase |-> zeros, col |-> zeros,
                  cells |-> empty, shared |-> <<>>, touched |-> {}, out |-> <<>>]
    BY DEF Launch, Threads, Rows, block_dim_x, kernel_stride
  <2> HIDE DEF launch, zeros, empty
  <2>3. kernel' = [scheme |-> kernel.scheme, matrix |-> kernel.matrix,
                   log_rows |-> kernel.log_rows, block |-> kernel.block + 1, phase |-> zeros,
                   col |-> zeros, cells |-> empty, shared |-> <<>>, touched |-> {},
                   out |-> kernel.out]
    BY <2>1, <2>2, BlockFields
  <2> QED
    BY <2>3 DEF zeros, empty
<1> HIDE DEF ts
<1>2. /\ kernel'.scheme = kernel.scheme /\ kernel'.matrix = kernel.matrix
      /\ kernel'.log_rows = kernel.log_rows
      /\ kernel'.phase = [t \in ts |-> 0] /\ kernel'.col = [t \in ts |-> 0]
      /\ kernel'.cells = [t \in ts |-> <<>>] /\ kernel'.touched = {}
  BY <1>1
<1>3. SameLaunch
  BY <1>2 DEF SameLaunch
<1>4. /\ Launchable' /\ Threads' = ts /\ LastPhase' = LastPhase
  BY <1>3, LaunchKept DEF HashInv, ts
<1>5. 0 \in 0 .. LastPhase + 1
  BY DEF HashInv, Launchable, LastPhase
<1>6. LaunchState'
  <2>1. kernel' = [scheme |-> kernel'.scheme, matrix |-> kernel'.matrix,
                   log_rows |-> kernel'.log_rows, block |-> kernel'.block,
                   phase |-> kernel'.phase, col |-> kernel'.col, cells |-> kernel'.cells,
                   shared |-> kernel'.shared, touched |-> kernel'.touched, out |-> kernel'.out]
    BY <1>1
  <2> QED
    BY <1>2, <1>4, <1>5, <2>1 DEF LaunchState
<1>7. Buffered'
  BY <1>2, <1>4, EmptyBuffer DEF Buffered, Rate
<1> QED
  BY <1>2, <1>4, <1>6, <1>7 DEF HashInv

LEMMA StepHashInv ==
  ASSUME HashInv, KernelStep
  PROVE  HashInv'
  BY BlockStarted, HashInRegisters, BufferSet, BufferPacked, RowHashed, DigestHanded,
     DigestFetched, LeafStored DEF KernelStep

LEMMA HashSafe ==
  ASSUME HashInv
  PROVE  SharedMemorySafe
<1>1. /\ Launchable
      /\ \A a \in kernel.touched : Access(a)
  BY DEF HashInv
<1>2. \A a \in kernel.touched : a[3] \in 0 .. shared_size - 1
  BY <1>1, AccessInside
<1>3. \A a \in kernel.touched, b \in kernel.touched :
        a[4] = "write" /\ a[2] = b[2] /\ a[3] = b[3] => a[1] = b[1]
  BY <1>1, AccessUnique
<1> QED
  BY <1>2, <1>3 DEF SharedMemorySafe

(* The launchers refuse more rows per query than a block has threads; the   *)
(* largest block has 512.  Whatever else they are given, the touches of the *)
(* threads keep the shape of their phases, in every interleaving.           *)
THEOREM HashInvariant ==
  ASSUME NEW scheme \in {"poseidon", "bn254"}, NEW matrix, matrix.height \in Nat,
         NEW log_rows \in 0 .. 9, 2 ^ log_rows <= NThreads
  PROVE  kernel = Launch(scheme, matrix, log_rows) /\ [][KernelStep]_kernel => []HashInv
<1>1. kernel = Launch(scheme, matrix, log_rows) => HashInv
  BY Launched
<1>2. HashInv /\ [KernelStep]_kernel => HashInv'
  <2> SUFFICES ASSUME HashInv, [KernelStep]_kernel
               PROVE  HashInv'
    OBVIOUS
  <2>1. CASE KernelStep
    BY <2>1, StepHashInv
  <2>2. CASE UNCHANGED kernel
    <3>1. SameLaunch
      BY <2>2 DEF SameLaunch
    <3>2. /\ Launchable' /\ Threads' = Threads /\ LastPhase' = LastPhase
          /\ \A a : Access(a) => Access(a)'
      BY <3>1, LaunchKept DEF HashInv
    <3>3. LaunchState' /\ Buffered'
      BY <2>2, <3>2 DEF HashInv, LaunchState, Buffered, Rate
    <3> QED
      BY <2>2, <3>2, <3>3 DEF HashInv
  <2> QED
    BY <2>1, <2>2
<1> QED
  BY <1>1, <1>2, PTL

(* While the rows of a codeword are hashed and joined into leaves, two      *)
(* threads that touch a word of shared memory between the same barriers     *)
(* only read it, and no thread leaves the shared memory of its block.       *)
THEOREM HashingNeverRaces ==
  ASSUME NEW scheme \in {"poseidon", "bn254"}, NEW matrix, matrix.height \in Nat,
         NEW log_rows \in 0 .. 9, 2 ^ log_rows <= NThreads
  PROVE  kernel = Launch(scheme, matrix, log_rows) /\ [][KernelStep]_kernel
           => []SharedMemorySafe
<1>1. HashInv => SharedMemorySafe
  BY HashSafe
<1>2. kernel = Launch(scheme, matrix, log_rows) /\ [][KernelStep]_kernel => []HashInv
  BY HashInvariant
<1> QED
  BY <1>1, <1>2, PTL

=============================================================================
