------------------------------ MODULE StackedPcs ------------------------------
(***************************************************************************)
(* The commitment to height-sorted traces: they are stacked into one       *)
(* matrix, its columns are encoded, and the codeword rows are hashed.  The *)
(* reference and the CPU stack first; the GPU may keep neither the stacked *)
(* nor the codeword matrix and builds the codewords from the traces again  *)
(* when they are opened.  A trace is [values, width, height].              *)
(***************************************************************************)
EXTENDS StackedLayout, MerkleTrees, Transforms

layout_of(l_skip, n_stack, traces) ==
  Layout(l_skip, l_skip + n_stack,
         [m \in DOMAIN traces |-> <<traces[m].width, Log2(traces[m].height)>>])

stride_of(l_skip, log_height) == IF log_height < l_skip THEN 2 ^ (l_skip - log_height) ELSE 1

(* Column j of a trace, written to buffer from start on with this stride.   *)
WriteColumn(buffer, start, trace, j, stride) ==
  [at \in {start + i * stride : i \in 0 .. trace.height - 1} |->
     trace.values[((j - 1) * trace.height) + ((at - start) \div stride)]] @@ buffer

-----------------------------------------------------------------------------
(* The reference.                                                           *)

stacked_matrix(l_skip, n_stack, traces) ==
  LET height == 2 ^ (l_skip + n_stack)
      cells == [m \in DOMAIN traces |-> SliceLen(Log2(traces[m].height), l_skip) * traces[m].width]
      width == (FoldLeft(LAMBDA a, b : a + b, 0, cells) + height - 1) \div height
      Place(q, s) == WriteColumn(q, s.col_idx * height + s.row_idx, traces[s.mat], s.col,
                                 stride_of(l_skip, s.log_height))
  IN  ColMajor(FoldLeft(Place, Array(width * height, LAMBDA at : 0),
                        layout_of(l_skip, n_stack, traces).sorted_cols), width)

(* Columns of a matrix whose entry at (row, column) is computed by column.  *)
ByColumn(width, height, Column(_)) ==
  LET columns == Array(width, Column)
  IN  ColMajor(Array(width * height, LAMBDA at : columns[at \div height][at % height]), width)

rs_code_matrix(l_skip, log_blowup, eval_matrix) ==
  ByColumn(eval_matrix.width, eval_matrix.height * 2 ^ log_blowup, LAMBDA c :
    dft(eval_to_coeff_rs_message(l_skip, Chunk(eval_matrix.values, c, eval_matrix.height)),
        Log2(eval_matrix.height) + log_blowup))

stacked_commit(p, traces) ==
  LET Commit(q) == [layout |-> layout_of(p.l_skip, p.n_stack, traces), matrix |-> q,
                    tree |-> MerkleTree(rs_code_matrix(p.l_skip, p.log_blowup, q), 2 ^ p.k_whir)]
  IN  Commit(stacked_matrix(p.l_skip, p.n_stack, traces))

(* The rows of the stacked matrix that hold one trace, with their stride.   *)
mat_view(p, data, mat) ==
  LET slices == SelectSeq(data.layout.sorted_cols, LAMBDA s : s.mat = mat)
      s == slices[1]
  IN  [start |-> s.col_idx * data.matrix.height + s.row_idx, width |-> Len(slices),
       lifted_height |-> SliceLen(s.log_height, p.l_skip), stride |-> stride_of(p.l_skip, s.log_height)]

-----------------------------------------------------------------------------
(* The CPU: traces come row by row.                                         *)

to_row_major(trace) ==
  [values |-> Array(trace.width * trace.height, LAMBDA at :
      trace.values[((at % trace.width) * trace.height) + (at \div trace.width)]),
   width |-> trace.width]

from_row_major(mat) ==
  LET height == Size(mat.values) \div mat.width
  IN  ColMajor(Array(Size(mat.values), LAMBDA idx :
        mat.values[((idx % height) * mat.width) + (idx \div height)]), mat.width)

eval_to_coeff_cpu(evals, tw) ==
  LET len == 2 ^ tw.log_n
      buf == Array(Size(evals) \div len, LAMBDA x : coeffs_to_evals(idft_inplace(tw, Chunk(evals, x, len))))
  IN  Array(Size(evals), LAMBDA i : buf[i \div len][i % len])

rs_encode_and_merkle_cpu(p, q) ==
  LET log_height == Log2(q.height) + p.log_blowup
      coeffs == Array(q.width, LAMBDA c :
                  eval_to_coeff_cpu(Chunk(q.values, c, q.height), DftTwiddles(p.l_skip)))
      columns == Array(q.width, LAMBDA c : dft(coeffs[c], log_height))
  IN  CpuMerkleTree([values |-> Array(q.width * 2 ^ log_height, LAMBDA at :
                                  columns[at % q.width][at \div q.width]),
                     width |-> q.width], 2 ^ p.k_whir)

cpu_commit(p, row_major_traces) ==
  LET traces == [m \in DOMAIN row_major_traces |-> from_row_major(row_major_traces[m])]
      Commit(q) == [layout |-> layout_of(p.l_skip, p.n_stack, traces), matrix |-> q,
                    tree |-> rs_encode_and_merkle_cpu(p, q)]
  IN  Commit(stacked_matrix(p.l_skip, p.n_stack, traces))

-----------------------------------------------------------------------------
(* The GPU.  Columns of one matrix that follow each other in the buffer go  *)
(* in one copy; a short column is spread by the kernel that pads columns.   *)

batch_expand_pad(in, poly_count, out_size, in_size) ==
  Array(poly_count * out_size, LAMBDA at :
    IF at % out_size < in_size THEN in[((at \div out_size) * in_size) + (at % out_size)] ELSE 0)

batch_expand_pad_wide(buffer, dst, in, src, width, padded_height, height) ==
  [at \in dst .. dst + width * padded_height - 1 |->
     LET row == (at - dst) % padded_height
     IN  IF row < height THEN in[src + (((at - dst) \div padded_height) * height) + row] ELSE 0] @@ buffer

BufferStart(s, padded_height) == s.col_idx * padded_height + s.row_idx

(* A mutant of Contiguous: two columns of a trace are taken to be           *)
(* neighbours in the buffer too, though a stacked column is padded.         *)
Contiguous_InTrace(l_skip, cols, padded_height, e) ==
  /\ e > 1 /\ cols[e].log_height >= l_skip
  /\ cols[e].mat = cols[e - 1].mat /\ cols[e].col = cols[e - 1].col + 1

(* Column e lies behind its predecessor, in the trace and in the buffer.    *)
Contiguous(l_skip, cols, padded_height, e) ==
  /\ e > 1 /\ cols[e].log_height >= l_skip
  /\ cols[e].mat = cols[e - 1].mat /\ cols[e].col = cols[e - 1].col + 1
  /\ BufferStart(cols[e], padded_height)
       = BufferStart(cols[e - 1], padded_height) + 2 ^ cols[e].log_height

stack_traces_into_expanded(l_skip, layout, traces, padded_height) ==
  LET cols == layout.sorted_cols
      leads == SetToSortSeq({i \in DOMAIN cols : ~Contiguous(l_skip, cols, padded_height, i)}, <)
      GroupLen(idx) == CHOOSE n \in 1 .. Len(cols) + 1 - idx :
        /\ \A e \in idx + 1 .. idx + n - 1 : Contiguous(l_skip, cols, padded_height, e)
        /\ idx + n <= Len(cols) => ~Contiguous(l_skip, cols, padded_height, idx + n)
      Copy(buffer, s, start, trace, copy_len) ==
        IF s.log_height >= l_skip
        THEN [at \in start .. start + copy_len - 1 |->
                trace.values[((s.col - 1) * trace.height) + (at - start)]] @@ buffer
        ELSE batch_expand_pad_wide(buffer, start, trace.values, (s.col - 1) * trace.height,
                                   trace.height, stride_of(l_skip, s.log_height), 1)
      CopyGroup(buffer, idx) ==
        Copy(buffer, cols[idx], BufferStart(cols[idx], padded_height), traces[cols[idx].mat],
             GroupLen(idx) * SliceLen(cols[idx].log_height, l_skip))
  IN  FoldLeft(CopyGroup, Array(layout.width * padded_height, LAMBDA at : 0), leads)

(* In mixed form: the coefficients in the first variable.                   *)
from_evals(l_skip, evals, height, width) ==
  [mixed |-> batch_ntt_small(evals, l_skip, TRUE), height |-> height, width |-> width]

stack_traces(l_skip, layout, traces, height) ==
  from_evals(l_skip, stack_traces_into_expanded(l_skip, layout, traces, height), height, layout.width)

(* stacked is the set of the stacked matrix, if it is kept.                 *)
gpu_rs_code_matrix(p, layout, traces, stacked) ==
  LET height == 2 ^ (p.l_skip + p.n_stack)
      codeword_height == height * 2 ^ p.log_blowup
      mixed == IF stacked # {}
               THEN batch_expand_pad((CHOOSE m \in stacked : TRUE).mixed, layout.width, codeword_height, height)
               ELSE batch_ntt_small(stack_traces_into_expanded(p.l_skip, layout, traces, codeword_height),
                                    p.l_skip, TRUE)
      message == IF p.l_skip = 0 THEN mixed
                 ELSE mle_interpolate_stages(mixed, codeword_height, p.log_blowup, 0, p.l_skip - 1, FALSE)
      Reversed(m) == Array(layout.width, LAMBDA c : bit_rev(Chunk(m, c, codeword_height)))
      Flat(columns) == Array(layout.width * codeword_height, LAMBDA at :
                         columns[at \div codeword_height][at % codeword_height])
  IN  ColMajor(batch_ntt(Flat(Reversed(message)), Log2(codeword_height), layout.width), layout.width)

(* bottom is what the kernel made of the rows of the codeword matrix.       *)
gpu_commit(p, layout, traces, matrix, bottom) ==
  [layout |-> layout, traces |-> traces,
   matrix |-> IF p.cache_stacked_matrix
              THEN {stack_traces(p.l_skip, layout, traces, 2 ^ (p.l_skip + p.n_stack))} ELSE {},
   tree |-> MerkleTreeGpu(matrix, 2 ^ p.k_whir, bottom, p.cache_rs_code_matrix)]

(* The first element of every stride rows, column after column.             *)
collapse_strided_matrix(in, width, height, stride) ==
  [values |-> Array(width * height, LAMBDA at : in[at * stride]), width |-> width, height |-> height]

(* The commitment to one trace, made on the host: the trace is cut from the *)
(* start of the stacked matrix.                                             *)
transport_and_unstack_single_data_h2d(p, data) ==
  LET view == mat_view(p, data, 1)
      strided_trace == Chunk(data.matrix.values, 0, view.lifted_height * view.width)
      Transported(trace) ==
        [layout |-> data.layout, traces |-> <<trace>>,
         matrix |-> IF p.cache_stacked_matrix
                    THEN {from_evals(p.l_skip, data.matrix.values, data.matrix.height, data.matrix.width)}
                    ELSE {},
         tree |-> transport_merkle_tree_h2d(data.tree, p.cache_rs_code_matrix)]
  IN  Transported(collapse_strided_matrix(strided_trace, view.width,
                                          view.lifted_height \div view.stride, view.stride))

=============================================================================
