--------------------------- MODULE StackedLayout ----------------------------
(***************************************************************************)
(* Greedy stacking of trace columns into the columns of one matrix         *)
(* (prover/stacked_pcs.rs).  Prover and verifier compute the layouts       *)
(* separately, from the heights and from the key.  Indices of columns and  *)
(* rows are those of the code, from 0; matrices are numbered from 1.       *)
(***************************************************************************)
EXTENDS Integers, Sequences, SequencesExt

LOCAL Larger(a, b) == IF a >= b THEN a ELSE b

(* A column takes 2^l_skip rows at least.                                   *)
SliceLen(log_height, l_skip) == 2 ^ Larger(log_height, l_skip)

(* sorted is a sequence of <<width, log_height>>.                           *)
ColumnsOf(sorted) ==
  FlattenSeq([m \in DOMAIN sorted |->
    [j \in 1 .. sorted[m][1] |-> [mat |-> m, col |-> j, log_height |-> sorted[m][2]]]])

Start(sorted, m) == Len(ColumnsOf(SubSeq(sorted, 1, m - 1)))

(* One column is placed: in the next rows, or at the top of a new stacked   *)
(* column; a column that only partly fits is an error.                      *)
PlaceColumn(l_skip, log_stacked_height, at, c) ==
  LET len  == SliceLen(c.log_height, l_skip)
      full == at.row_idx + len > 2 ^ log_stacked_height
      col  == IF full THEN at.col_idx + 1 ELSE at.col_idx
      row  == IF full THEN 0 ELSE at.row_idx
      slice == [mat |-> c.mat, col |-> c.col, log_height |-> c.log_height,
                col_idx |-> col, row_idx |-> row]
  IN IF \/ ~at.ok
        \/ c.log_height > log_stacked_height
        \/ full /\ at.row_idx # 2 ^ log_stacked_height
     THEN [at EXCEPT !.ok = FALSE]
     ELSE [at EXCEPT !.col_idx = col, !.row_idx = row + len,
                     !.sorted_cols = Append(@, slice)]

Layout(l_skip, log_stacked_height, sorted) ==
  LET Place(at, c) == PlaceColumn(l_skip, log_stacked_height, at, c)
      end == FoldLeft(Place, [ok |-> TRUE, col_idx |-> 0, row_idx |-> 0, sorted_cols |-> <<>>],
                      ColumnsOf(sorted))
  IN [ok          |-> end.ok,
      sorted_cols |-> end.sorted_cols,
      width       |-> end.col_idx + (IF end.row_idx # 0 THEN 1 ELSE 0),
      mat_starts  |-> [m \in DOMAIN sorted |-> Start(sorted, m)]]

=============================================================================
