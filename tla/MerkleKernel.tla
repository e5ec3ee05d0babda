---------------------------- MODULE MerkleKernel -----------------------------
(***************************************************************************)
(* The kernel that hashes the rows of a codeword and joins, inside a block,*)
(* the rows of a query into one leaf: Poseidon2 over the small field, and  *)
(* the Bn254 version, whose threads keep the buffer of their sponge in the *)
(* shared memory that the reduction exchanges digests through.             *)
(***************************************************************************)
EXTENDS MerkleTrees

CONSTANTS NThreads,   \* of a block (512)
          Limbs       \* words of a Bn254 element (8); a field element is a word

ASSUME KernelAssumption == NThreads \in Nat \ {0} /\ Limbs \in Nat \ {0}

VARIABLE kernel

Rate == 2 * Limbs

AtMost(a, b) == IF a <= b THEN a ELSE b
AtLeast(a, b) == IF a >= b THEN a ELSE b

(* Launch parameters: x runs along the query stride, y along the rows of a  *)
(* query.                                                                   *)
Rows == 2 ^ kernel.log_rows
kernel_stride == kernel.matrix.height \div Rows
block_dim_x == AtMost(kernel_stride, AtLeast(1, NThreads \div Rows))
Threads == {<<x, leaf>> : x \in 0 .. block_dim_x - 1, leaf \in 0 .. Rows - 1}
stride_idx(t) == (block_dim_x * kernel.block) + t[1]
InStride(t) == stride_idx(t) < kernel_stride

Launch(scheme, matrix, log_rows) ==
  LET bx == AtMost(matrix.height \div 2 ^ log_rows, AtLeast(1, NThreads \div 2 ^ log_rows))
      ts == {<<x, leaf>> : x \in 0 .. bx - 1, leaf \in 0 .. 2 ^ log_rows - 1}
  IN  [scheme |-> scheme, matrix |-> matrix, log_rows |-> log_rows, block |-> 0,
       phase |-> [t \in ts |-> 0], col |-> [t \in ts |-> 0], cells |-> [t \in ts |-> <<>>],
       shared |-> <<>>, touched |-> {}, out |-> <<>>]

(* Phases of a thread: 0 hashes the row, 1 + 2 * layer writes the digest    *)
(* for the exchange of a layer, 2 + 2 * layer reads it; the last one        *)
(* stores the leaf.  Bn254 synchronises before the first exchange too.      *)
LastPhase == 1 + (2 * kernel.log_rows)
(* A mutant of Barriers: the exchange starts while other threads still pack *)
(* the buffers of their sponges.                                            *)
Barriers_Exchange == 2 .. LastPhase

Barriers == IF kernel.scheme = "bn254" THEN 1 .. LastPhase ELSE 2 .. LastPhase
Passed(t) == kernel.phase[t] \notin Barriers
             \/ \A o \in Threads : kernel.phase[o] >= kernel.phase[t]
Interval(p) == Cardinality(Barriers \cap 0 .. p)

(* Words of shared memory: the buffers of the sponges, strided by thread,   *)
(* or the limbs of the digest at an offset of the exchange.                 *)
scratch_word(t, i) == (i * NThreads) + (t[2] * block_dim_x) + t[1]
shared_offset(t, layer) ==
  (((t[2] \div 2 ^ (layer + 1)) * 2 ^ layer) * block_dim_x) + t[1]
DigestLimbs == IF kernel.scheme = "bn254" THEN Limbs ELSE 1
LimbsAt(offset) == {(offset * DigestLimbs) + l : l \in 0 .. DigestLimbs - 1}
shared_size ==
  IF kernel.scheme = "bn254" THEN NThreads * Rate ELSE block_dim_x * ((Rows + 1) \div 2)

(* A word holds an element, or one limb of a digest.                        *)
NoDigest == <<"none">>
Word(w) == IF w \in DOMAIN kernel.shared THEN kernel.shared[w] ELSE <<-1, NoDigest>>
ElemWord(v) == <<v, NoDigest>>
LimbWord(l, digest) == <<-1 - l, digest>>

DigestAt(offset) ==
  LET digest == Word(offset * DigestLimbs)[2]
  IN  IF \A l \in 0 .. DigestLimbs - 1 : Word((offset * DigestLimbs) + l) = LimbWord(l, digest)
      THEN digest ELSE NoDigest

Touch(t, words, mode) ==
  kernel.touched \cup {<<t, Interval(kernel.phase[t]), w, mode>> : w \in words}

RowElem(t, col) ==
  kernel.matrix.values[(col * kernel.matrix.height) + (t[2] * kernel_stride) + stride_idx(t)]

-----------------------------------------------------------------------------
(* Hash phase.  Poseidon2 absorbs in registers; Bn254 puts an element into  *)
(* the buffer and packs the buffer when it is full and at the end.          *)

row_hash_in_registers(t) ==
  /\ kernel.scheme = "poseidon" /\ kernel.phase[t] = 0
  /\ kernel' = [kernel EXCEPT
       !.phase[t] = 1,
       !.cells[t] = IF InStride(t)
                    THEN hash_slice([c \in 1 .. kernel.matrix.width |-> RowElem(t, c - 1)])
                    ELSE NoDigest]

buf_set(t) ==
  LET col == kernel.col[t]
      w == scratch_word(t, col - Len(kernel.cells[t]))
  IN  /\ kernel.scheme = "bn254" /\ kernel.phase[t] = 0 /\ InStride(t)
      /\ col < kernel.matrix.width /\ col - Len(kernel.cells[t]) < Rate
      /\ kernel' = [kernel EXCEPT !.col[t] = col + 1, !.touched = Touch(t, {w}, "write"),
                                  !.shared = (w :> ElemWord(RowElem(t, col))) @@ @]

pack_strided(t) ==
  LET cnt == kernel.col[t] - Len(kernel.cells[t])
  IN  /\ kernel.scheme = "bn254" /\ kernel.phase[t] = 0 /\ InStride(t)
      /\ cnt > 0 /\ (cnt = Rate \/ kernel.col[t] = kernel.matrix.width)
      /\ kernel' = [kernel EXCEPT
           !.cells[t] = @ \o [i \in 1 .. cnt |-> Word(scratch_word(t, i - 1))[1]],
           !.touched = Touch(t, {scratch_word(t, i) : i \in 0 .. cnt - 1}, "read")]

row_hash_done(t) ==
  /\ kernel.scheme = "bn254" /\ kernel.phase[t] = 0
  /\ InStride(t) => Len(kernel.cells[t]) = kernel.matrix.width
  /\ kernel' = [kernel EXCEPT !.phase[t] = 1,
                              !.cells[t] = IF InStride(t) THEN hash_slice(@) ELSE NoDigest]

-----------------------------------------------------------------------------
(* Reduction: of each group of 2^(layer + 1) rows the middle one hands its  *)
(* digest to the first.                                                     *)

InGroup(t, layer) == t[2] % 2 ^ (layer + 1)

ExchangeWrite(t) ==
  LET layer == (kernel.phase[t] - 1) \div 2
      offset == shared_offset(t, layer)
  IN  /\ kernel.phase[t] % 2 = 1 /\ kernel.phase[t] < LastPhase /\ Passed(t)
      /\ kernel' =
           IF InGroup(t, layer) = 2 ^ layer
           THEN [kernel EXCEPT !.phase[t] = @ + 1, !.touched = Touch(t, LimbsAt(offset), "write"),
                   !.shared = [w \in LimbsAt(offset) |->
                                 LimbWord(w - (offset * DigestLimbs), kernel.cells[t])] @@ @]
           ELSE [kernel EXCEPT !.phase[t] = @ + 1]

ExchangeRead(t) ==
  LET layer == (kernel.phase[t] \div 2) - 1
      offset == shared_offset(t, layer)
  IN  /\ kernel.phase[t] % 2 = 0 /\ kernel.phase[t] \in 2 .. LastPhase /\ Passed(t)
      /\ kernel' =
           IF InGroup(t, layer) = 0
           THEN [kernel EXCEPT !.phase[t] = @ + 1, !.touched = Touch(t, LimbsAt(offset), "read"),
                               !.cells[t] = compress(@, DigestAt(offset))]
           ELSE [kernel EXCEPT !.phase[t] = @ + 1]

StoreLeaf(t) ==
  /\ kernel.phase[t] = LastPhase /\ Passed(t)
  /\ kernel' = [kernel EXCEPT
       !.phase[t] = @ + 1,
       !.out = IF t[2] = 0 /\ InStride(t) THEN (stride_idx(t) :> kernel.cells[t]) @@ @ ELSE @]

BlockDone == \A t \in Threads : kernel.phase[t] = LastPhase + 1
KernelDone == BlockDone /\ (kernel.block + 1) * block_dim_x >= kernel_stride

(* Blocks share nothing; they run one after the other here.                 *)
NextBlock ==
  /\ BlockDone /\ ~KernelDone
  /\ kernel' = [Launch(kernel.scheme, kernel.matrix, kernel.log_rows)
                  EXCEPT !.block = kernel.block + 1, !.out = kernel.out]

KernelStep ==
  \/ NextBlock
  \/ \E t \in Threads : \/ row_hash_in_registers(t) \/ buf_set(t) \/ pack_strided(t)
                         \/ row_hash_done(t) \/ ExchangeWrite(t) \/ ExchangeRead(t) \/ StoreLeaf(t)

(* Two threads of a block that touch a word between the same barriers only  *)
(* read it, and no word lies outside the shared memory of the launch.       *)
SharedMemorySafe ==
  \A a \in kernel.touched :
    /\ a[3] \in 0 .. shared_size - 1
    /\ a[4] = "write" => \A b \in kernel.touched : a[2] = b[2] /\ a[3] = b[3] => a[1] = b[1]

=============================================================================
