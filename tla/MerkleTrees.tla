----------------------------- MODULE MerkleTrees -----------------------------
(***************************************************************************)
(* Merkle trees over the rows of a codeword matrix: the reference, the CPU *)
(* and the GPU backend keep the matrix column by column, row by row, and   *)
(* in one flat column-major buffer.  Hashes are symbolic: a digest is what *)
(* was hashed.  A leaf of the tree joins rows_per_query rows that lie      *)
(* query_stride apart.                                                     *)
(***************************************************************************)
EXTENDS Polynomials, SequencesExt

CONSTANT PackWidth  \* lanes of a packed field element of the CPU

hash_slice(row) == <<"row">> \o row
compress(l, r) == <<"node", l, r>>
ZeroDigest == <<"zero">>

(* Adjacent pairs, until one digest is left.                                *)
tree_compress(hashes) ==
  LET Pairs(v) == [i \in 1 .. Len(v) \div 2 |-> compress(v[2 * i - 1], v[2 * i])]
      up[k \in Nat] == IF k = 0 THEN hashes ELSE Pairs(up[k - 1])
  IN  up[Log2(Len(hashes))][1]

(* Rows query_stride apart, then layers of adjacent pairs up to the root.   *)
query_layer(row_hashes, rows_per_query) ==
  LET qs == Size(row_hashes) \div rows_per_query
  IN  Iterate(Log2(rows_per_query), row_hashes, LAMBDA k, prev :
        Array(Size(prev) \div 2, LAMBDA i :
          LET x == i \div qs  y == i % qs
          IN  compress(prev[2 * x * qs + y], prev[(2 * x + 1) * qs + y])))

digest_layers(bottom) ==
  LET Up(k, layers) == Append(layers, LET prev == Last(layers)
                         IN Array(Size(prev) \div 2, LAMBDA i : compress(prev[2 * i], prev[2 * i + 1])))
  IN  Iterate(Log2(Size(bottom)), <<bottom>>, Up)

root(tree) == Last(tree.digest_layers)[0]
query_stride(tree) == Size(tree.digest_layers[1])
proof_depth(tree) == Len(tree.digest_layers) - 1

query_merkle_proof(tree, query_idx) ==
  [l \in 1 .. proof_depth(tree) |-> tree.digest_layers[l][Flip(query_idx \div 2 ^ (l - 1))]]

merkle_verify(commit, idx, leaf_hash, proof) ==
  LET cur[k \in 0 .. Len(proof)] ==
        IF k = 0 THEN leaf_hash
        ELSE IF Bit(idx, k - 1) = 0 THEN compress(cur[k - 1], proof[k])
             ELSE compress(proof[k], cur[k - 1])
  IN  cur[Len(proof)] = commit

-----------------------------------------------------------------------------
(* The reference.                                                           *)

ColMajor(values, width) == [values |-> values, width |-> width, height |-> Size(values) \div width]

RowOf(matrix, r) ==
  [c \in 1 .. matrix.width |-> IF r < matrix.height THEN matrix.values[(c - 1) * matrix.height + r] ELSE 0]

MerkleTree(matrix, rows_per_query) ==
  LET hashes == Array(matrix.height, LAMBDA r : hash_slice(RowOf(matrix, r)))
  IN  [matrix |-> matrix, rows_per_query |-> rows_per_query,
       digest_layers |-> digest_layers(query_layer(hashes, rows_per_query))]

get_opened_rows(tree, index) ==
  [t \in 1 .. tree.rows_per_query |-> RowOf(tree.matrix, (t - 1) * query_stride(tree) + index)]

-----------------------------------------------------------------------------
(* The CPU backend: matrix is [values, width], row by row, and PackWidth    *)
(* rows or digests are hashed at once, lane by lane of a chunk.             *)

InChunks(n, Value(_)) ==
  Array(n, LAMBDA out : LET chunk_idx == out \div PackWidth
                            lane == out % PackWidth
                        IN  Value(chunk_idx * PackWidth + lane))

cpu_row(matrix, r) == [c \in 1 .. matrix.width |-> matrix.values[r * matrix.width + c - 1]]

(* A full chunk of lanes hashes zeros past the end; a partial chunk leaves  *)
(* the digests there as they were allocated.                                *)
hash_rows_packed(matrix, num_leaves) ==
  LET height == Size(matrix.values) \div matrix.width
      Full(r) == (r \div PackWidth + 1) * PackWidth <= num_leaves
  IN  InChunks(num_leaves, LAMBDA r :
        IF r < height THEN hash_slice(cpu_row(matrix, r))
        ELSE IF Full(r) THEN hash_slice([c \in 1 .. matrix.width |-> 0])
        ELSE ZeroDigest)

build_digest_layers_packed(row_hashes, rows_per_query) ==
  LET qs == Size(row_hashes) \div rows_per_query
      Strided(k, prev) == InChunks(Size(prev) \div 2, LAMBDA i :
        LET x == i \div qs  y == i % qs
        IN  compress(prev[2 * x * qs + y], prev[(2 * x + 1) * qs + y]))
      Up(k, layers) == LET prev == Last(layers)
                       IN  Append(layers, InChunks(Size(prev) \div 2,
                             LAMBDA i : compress(prev[2 * i], prev[2 * i + 1])))
  IN  Iterate(Log2(qs), <<Iterate(Log2(rows_per_query), row_hashes, Strided)>>, Up)

CpuMerkleTree(matrix, rows_per_query) ==
  LET hashes == hash_rows_packed(matrix, Size(matrix.values) \div matrix.width)
  IN  [matrix |-> matrix, rows_per_query |-> rows_per_query,
       digest_layers |-> build_digest_layers_packed(hashes, rows_per_query)]

cpu_get_opened_rows(tree, index) ==
  [t \in 1 .. tree.rows_per_query |->
     LET r == (t - 1) * query_stride(tree) + index
     IN  IF r < Size(tree.matrix.values) \div tree.matrix.width
         THEN cpu_row(tree.matrix, r) ELSE <<>>]

(* A tree of the reference, for the CPU.                                    *)
stacked_pcs_data_to_cpu(tree) ==
  LET cm == tree.matrix
  IN  [tree EXCEPT !.matrix =
        [values |-> Array(cm.height * cm.width, LAMBDA at :
                      cm.values[((at % cm.width) * cm.height) + (at \div cm.width)]),
         width |-> cm.width]]

-----------------------------------------------------------------------------
(* The GPU backend: matrix is column-major and kept only on demand; the     *)
(* bottom layer comes out of a kernel (MerkleKernel).                       *)

compress_layer(prev) == Array(Size(prev) \div 2, LAMBDA i : compress(prev[2 * i], prev[2 * i + 1]))

MerkleTreeGpu(matrix, rows_per_query, bottom, cache_backing_matrix) ==
  [backing |-> IF cache_backing_matrix THEN {matrix} ELSE {}, rows_per_query |-> rows_per_query,
   digest_layers |-> Iterate(Log2(Size(bottom)), <<bottom>>,
                       LAMBDA k, layers : Append(layers, compress_layer(Last(layers))))]

transport_merkle_tree_h2d(tree, cache_backing_matrix) ==
  [backing |-> IF cache_backing_matrix THEN {tree.matrix} ELSE {},
   rows_per_query |-> tree.rows_per_query, digest_layers |-> tree.digest_layers]

matrix_get_rows(matrix, row_idxs) ==
  Array(Len(row_idxs) * matrix.width, LAMBDA out :
    matrix.values[((out % matrix.width) * matrix.height) + row_idxs[(out \div matrix.width) + 1]])

(* Per matrix and query: rows_per_query rows, one after the other.          *)
batch_open_rows(matrices, query_indices, stride, rows_per_query) ==
  LET row_idxs == [i \in 1 .. Len(query_indices) * rows_per_query |->
                     (((i - 1) % rows_per_query) * stride) + query_indices[((i - 1) \div rows_per_query) + 1]]
  IN  [m \in DOMAIN matrices |->
         LET out == matrix_get_rows(matrices[m], row_idxs)
         IN  [q \in DOMAIN query_indices |-> Chunk(out, q - 1, rows_per_query * matrices[m].width)]]

(* The values of one query, cut into rows.                                  *)
chunks_exact(values, width) ==
  [t \in 1 .. Size(values) \div width |-> [c \in 1 .. width |-> values[(t - 1) * width + c - 1]]]

(* One kernel copies the siblings of all queries of all trees.              *)
query_digest_layers(layers, indices, num_layer) ==
  Array(Len(indices), LAMBDA i : layers[(i % num_layer) + 1][indices[i + 1]])

batch_query_proofs(trees, query_indices) ==
  LET depth == proof_depth(trees[1])
      layers == FlattenSeq([t \in DOMAIN trees |-> SubSeq(trees[t].digest_layers, 1, depth)])
      indices == FlattenSeq([q \in DOMAIN query_indices |->
                   [i \in 1 .. Len(layers) |-> Flip(query_indices[q] \div 2 ^ ((i - 1) % depth))]])
      out == query_digest_layers(layers, indices, Len(layers))
  IN  [t \in DOMAIN trees |-> [q \in DOMAIN query_indices |->
        [l \in 1 .. depth |-> out[(q - 1) * Len(layers) + (t - 1) * depth + l - 1]]]]

=============================================================================
