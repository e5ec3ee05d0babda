----------------------------- MODULE ZerocheckGpu -----------------------------
(***************************************************************************)
(* The GPU prover of the batch sumcheck (cuda-backend/logup_zerocheck).    *)
(* It never builds lifted traces: round 0 evaluates short columns on their *)
(* subgroup of D, and on other cosets than the hosts.  The columns of the  *)
(* next row make a matrix of double width.  In each round the AIRs are     *)
(* divided between kernels by height and by the size of their compiled     *)
(* constraints; a launch serves several AIRs, whose blocks lie one after   *)
(* another, and takes as many as its buffers leave room for.               *)
(*                                                                         *)
(* An AIR also has rules_len and buffer_size, the sizes of its compiled    *)
(* rules; the parameters also have gkr_mem and save_memory, what GKR took  *)
(* and whether to stay below it, counted in elements.                      *)
(***************************************************************************)
EXTENDS Zerocheck

CONSTANTS
  BlockDim,      \* threads of a block
  TaskSize,      \* most threads that evaluate the interactions of one AIR
  MonomialRows,  \* most rows for which a block takes one row
  ChunkSize,     \* most monomials of a thread
  TargetBlocks,  \* blocks that occupy the device
  Unlimited      \* memory for a launch unless it is to be saved

ASSUME ZerocheckGpuAssumption ==
  /\ BlockDim \in Nat \ {0} /\ TaskSize % BlockDim = 0 /\ TaskSize > 0
  /\ MonomialRows \in Nat /\ ChunkSize \in Nat \ {0} /\ TargetBlocks \in Nat /\ Unlimited \in Nat

LOCAL CeilDiv(m, n) == (m + n - 1) \div n
LOCAL AtMost(m, n) == IF m < n THEN m ELSE n
LOCAL SumOf(ints) == FoldLeft(LAMBDA sum, n : sum + n, 0, ints)
LOCAL Listed(S) == FoldSet(LAMBDA x, s : Append(s, x), <<>>, S)
LOCAL AtLeast(m, n) == IF m > n THEN m ELSE n

(* Blocks of a launch are grouped by AIR.                                   *)
build_block_ctxs(counts) ==
  FlattenSeq([i \in DOMAIN counts |-> [k \in 1 .. counts[i] |-> [air |-> i, local |-> k - 1]]])
air_offset(counts, i) == SumOf(SubSeq(counts, 1, i - 1))

(* Each AIR gets the sum of its blocks.                                     *)
LOCAL BlockSums(counts, ctxs, sums) ==
  [i \in DOMAIN counts |-> SumTo(counts[i], LAMBDA b :
     LET ctx == ctxs[air_offset(counts, i) + b + 1] IN sums[ctx.air][ctx.local])] \o <<>>
LOCAL SumBlocks(counts, sums) == BlockSums(counts, build_block_ctxs(counts), sums)

(* Consecutive AIRs of one launch: the first, and more while there is room. *)
find_batch_end(items, limit) ==
  LET Bytes(batch) == SumOf([k \in DOMAIN batch |-> batch[k].bytes])
  IN  FoldLeft(LAMBDA batches, item :
        IF batches # <<>> /\ Bytes(Last(batches)) + item.bytes <= limit
        THEN Append(Front(batches), Append(Last(batches), item)) ELSE Append(batches, <<item>>),
        <<>>, items)

-----------------------------------------------------------------------------
(* The input of GKR.  The interactions of an AIR are evaluated in place, or *)
(* in a temporary buffer if the trace is short; each thread takes every     *)
(* task_stride-th row.  There is no padding, and no alpha yet.              *)

gkr_plan(c, a) ==
  LET height == 2 ^ c.airs[a].log_height
      raw_threads == CeilDiv(height, BlockDim) * BlockDim
      task_stride == AtMost(AtLeast(raw_threads, BlockDim), TaskSize)
      first == SelectSeq(interactions_layout(c).sorted_cols, LAMBDA s : s.mat = a)[1]
  IN  [air |-> a, height |-> height, task_stride |-> task_stride,
       num_blocks_x |-> task_stride \div BlockDim,
       num_rows_per_tile |-> AtLeast(CeilDiv(height, task_stride), 1),
       bytes |-> task_stride * c.airs[a].buffer_size, dst_offset |-> first.row_idx]

task_rows(plan, local) ==
  {row \in {local * BlockDim + t + j * plan.task_stride :
              t \in 0 .. BlockDim - 1, j \in 0 .. plan.num_rows_per_tile - 1} : row < plan.height}

(* The cells an AIR's blocks write, from those of its first interaction.    *)
evaluate_interactions(c, plan) ==
  LET air == c.airs[plan.air]
      views == view_mats(air)
      rows == UNION {task_rows(plan, local) : local \in 0 .. plan.num_blocks_x - 1}
  IN  [at \in {k * plan.height + row : k \in 0 .. Len(air.interactions) - 1, row \in rows} |->
         eval_interaction(c, air, RowParts(views, plan.height, at % plan.height),
                          air.interactions[(at \div plan.height) + 1])]

frac_matrix_vertically_repeat(fracs, width, lifted_height, height) ==
  Array(width * lifted_height, LAMBDA at : fracs[(at \div lifted_height) * height + (at % height)])

LOCAL LiftedFracs(c, plan, fracs) ==
  IF DimOf(c, plan.air) >= 0 THEN fracs
  ELSE frac_matrix_vertically_repeat(
         [at \in DOMAIN fracs |-> <<(fracs[at][1] * norm_factor(c, plan.air)) % P, fracs[at][2]>>],
         Len(c.airs[plan.air].interactions), 2 ^ LiftedLogHeight(c, plan.air), plan.height)

log_gkr_input_evals(c, memory_budget) ==
  LET air_ids == SelectSeq([a \in AirIds(c) |-> a], LAMBDA a : c.airs[a].interactions # <<>>)
      Place(leaves, dst_offset, fracs) ==
        [at \in {dst_offset + k : k \in DOMAIN fracs} |-> fracs[at - dst_offset]] @@ leaves
      Write(leaves, plan) == Place(leaves, plan.dst_offset, LiftedFracs(c, plan, evaluate_interactions(c, plan)))
      Batch(leaves, batch) == FoldLeft(Write, leaves, batch)
  IN  FoldLeft(Batch, Array(total_interactions(c), LAMBDA at : <<0, 0>>),
        find_batch_end([k \in DOMAIN air_ids |-> gkr_plan(c, air_ids[k])] \o <<>>, memory_budget))

(* The layer that GKR makes of it: alpha is added, the rest is virtual.     *)
gkr_layer(c, leaves) ==
  IF Size(leaves) = 0 THEN leaves
  ELSE Array(2 ^ (c.p.l_skip + n_logup(c)), LAMBDA at :
         IF at \in DOMAIN leaves THEN <<leaves[at][1], (leaves[at][2] + c.alpha) % P>> ELSE <<0, c.alpha>>)

-----------------------------------------------------------------------------
(* What is summed, as weighted expressions: the constraints, and the two    *)
(* sides of the interactions, where bus numbers are a term of their own.    *)

zerocheck_terms(c, a) ==
  [k \in DOMAIN c.airs[a].constraints |->
     [weight |-> Pow(c.lambda, k - 1), expr |-> c.airs[a].constraints[k]]] \o <<>>

numer_terms(c, a, eq_3bs) ==
  [k \in DOMAIN c.airs[a].interactions |->
     [weight |-> eq_3bs[k], expr |-> c.airs[a].interactions[k].count]] \o <<>>

denom_terms(c, a, eq_3bs) ==
  FlattenSeq([k \in DOMAIN c.airs[a].interactions |->
    LET message == c.airs[a].interactions[k].message
    IN  [j \in DOMAIN message |-> [weight |-> (eq_3bs[k] * Pow(c.beta, j - 1)) % P, expr |-> message[j]]]]) \o <<>>

bus_term_sum(c, a, eq_3bs) ==
  SumTo(Len(eq_3bs), LAMBDA k : LET i == c.airs[a].interactions[k + 1]
                                IN  eq_3bs[k + 1] * Pow(c.beta, Len(i.message)) * (i.bus + 1))

(* A node of the constraint graph may serve many terms.                     *)
node_weights(terms) ==
  LET nodes == Listed({terms[k].expr : k \in DOMAIN terms})
  IN  [n \in DOMAIN nodes |->
        [weight |-> SumTo(Len(terms), LAMBDA k : IF terms[k + 1].expr = nodes[n] THEN terms[k + 1].weight ELSE 0),
         expr |-> nodes[n]]] \o <<>>

EvalTerms(air, row_parts, terms) ==
  SumTo(Len(terms), LAMBDA k : terms[k + 1].weight * eval_expr(air, row_parts, terms[k + 1].expr))

(* Expanded: the products of variables and what each is multiplied by.      *)
combinations(terms) ==
  LET InExpr(expr, vars) ==
        SumTo(Len(expr), LAMBDA i : IF expr[i + 1].vars = vars THEN expr[i + 1].coeff ELSE 0)
      monomials == Listed(UNION {{terms[k].expr[i].vars : i \in DOMAIN terms[k].expr} : k \in DOMAIN terms})
  IN  [m \in DOMAIN monomials |->
        [vars |-> monomials[m],
         coeff |-> SumTo(Len(terms), LAMBDA k : terms[k + 1].weight * InExpr(terms[k + 1].expr, monomials[m]))]] \o <<>>

-----------------------------------------------------------------------------
(* Round 0, on the cosets of D in the domain that holds the whole           *)
(* polynomial: the zerocheck needs all but D itself.                        *)

omega_root(c, a) == two_adic_generator(c.p.l_skip + Log2Ceil(c.airs[a].degree))

gpu_round0_points(c, a, first, d) ==
  LET omega_skip == two_adic_generator(c.p.l_skip)
      shift == omega_root(c, a)
  IN  Array(d * 2 ^ c.p.l_skip, LAMBDA k :
        (Pow(shift, first + (k \div 2 ^ c.p.l_skip)) * Pow(omega_skip, k % 2 ^ c.p.l_skip)) % P)

avg_gp(x, log) == (progression_exp_2(x, log) * Recip(2 ^ log % P)) % P

(* A row of the cube has a selector when it is the first or the last.       *)
kernel_selectors(c, a, point, x) ==
  LET log_segment == AtMost(c.p.l_skip, c.airs[a].log_height)
      log_stride == c.p.l_skip - log_segment
      omega == Pow(point, 2 ^ log_stride)
      eta == two_adic_generator(log_segment)
      is_first == IF x = 0 THEN avg_gp(omega, log_segment) ELSE 0
      is_last == IF x = 2 ^ n_lift(c, a) - 1 THEN avg_gp((omega * eta) % P, log_segment) ELSE 0
  IN  Array(3, LAMBDA k : <<is_first, (1 - is_last) % P, is_last>>[k + 1])

(* The columns and the selectors at these points, the weighted sums by      *)
(* coset, and their order by point on the host.                             *)
CosetRows(c, a, points) ==
  LET Rows(x, mats) == Array(Size(points), LAMBDA k : <<kernel_selectors(c, a, points[k], x)>> \o mats[k])
  IN  Array(2 ^ n_lift(c, a), LAMBDA x : Rows(x, mats_at_zs(c, view_mats(c.airs[a]), points, x)))

OverCubeOnCosets(c, a, d, eq_cube, terms) ==
  LET sums == Array(d * 2 ^ c.p.l_skip, LAMBDA k :
                SumTo(2 ^ n_lift(c, a), LAMBDA x : eq_cube[x] * terms[x, k]))
  IN  Array(d * 2 ^ c.p.l_skip, LAMBDA k : sums[(k % d) * 2 ^ c.p.l_skip + (k \div d)])

LOCAL EqCube(c, a) == evals_eq_hypercube(SubSeq(c.xi, c.p.l_skip + 1, LiftedLogHeight(c, a)))

CosetTerms(c, air, points, rows) ==
  [x \in DOMAIN rows, k \in DOMAIN points |->
     (acc_constraints(c, air, rows[x][k]) * Recip((Pow(points[k], 2 ^ c.p.l_skip) - 1) % P)) % P]

gpu_sp_0_zerocheck(c, a) ==
  LET air == c.airs[a]
      d == IF air.degree > 0 THEN air.degree - 1 ELSE 0
      shift == omega_root(c, a)
  IN  IF d = 0 \/ air.constraints = <<>> THEN NoPoly
      ELSE TimesZerofier(c.p.l_skip, air.degree, from_geometric_cosets_evals_idft(
             OverCubeOnCosets(c, a, d, EqCube(c, a),
               CosetTerms(c, air, gpu_round0_points(c, a, 1, d), CosetRows(c, a, gpu_round0_points(c, a, 1, d)))),
             d, shift, shift))

CosetPoly(c, a, init, factor, weights, rows) ==
  LET air == c.airs[a]
      d == air.degree
  IN  from_geometric_cosets_evals_idft(
        OverCubeOnCosets(c, a, d, EqCube(c, a), [x \in DOMAIN rows, k \in 0 .. d * 2 ^ c.p.l_skip - 1 |->
          ((EvalTerms(air, rows[x][k], weights) + init) * factor) % P]),
        d, omega_root(c, a), 1)

LOCAL LogupCosetPolys(c, a, eq_3bs, rows) ==
  <<CosetPoly(c, a, 0, norm_factor(c, a), node_weights(numer_terms(c, a, eq_3bs)), rows),
    CosetPoly(c, a, bus_term_sum(c, a, eq_3bs), 1, node_weights(denom_terms(c, a, eq_3bs)), rows)>>

gpu_sp_0_logup(c, a) ==
  LET air == c.airs[a]
  IN  IF air.interactions = <<>> THEN <<NoPoly, NoPoly>>
      ELSE LogupCosetPolys(c, a, eq_3b(c, a), CosetRows(c, a, gpu_round0_points(c, a, 0, air.degree)))

gpu_uni_round0_polys(c) ==
  [logup |-> [a \in AirIds(c) |-> gpu_sp_0_logup(c, a)] \o <<>>,
   zerocheck |-> [a \in AirIds(c) |-> gpu_sp_0_zerocheck(c, a)] \o <<>>]

-----------------------------------------------------------------------------
(* The fold by r[1].  Tables of eq are shared by the AIRs of one height.    *)

fold_ple_evals_rotate(c, m, need_rot) ==
  LET n == 2 ^ c.p.l_skip
      num_x == AtLeast(m.height \div n, 1)
      omega == two_adic_generator(c.p.l_skip)
      scale == ((Pow(c.r[1], n) - 1) * Recip(n % P)) % P
      inv_lagrange_denoms == Array(n, LAMBDA z : (scale * Recip((c.r[1] - Pow(omega, z)) % P)) % P)
      Fold(col, rot, x) == SumTo(n, LAMBDA z :
        ((inv_lagrange_denoms[z] * Pow(omega, z)) % P) * m.values[col * m.height + ((x * n + z + rot) % m.height)])
      width == IF need_rot THEN 2 * m.width ELSE m.width
  IN  [values |-> Array(num_x * width, LAMBDA at :
         LET col == at \div num_x IN Fold(col % m.width, col \div m.width, at % num_x)),
       width |-> width, height |-> num_x]

fold_selectors_round0(c, a) ==
  LET num_x == 2 ^ n_lift(c, a)
      dom == SkipDomain(c, DimOf(c, a))
      is_first == eval_eq_uni_at_one(dom.l, dom.r)
      is_last == eval_eq_uni_at_one(dom.l, r_rot(dom))
      Last_(x) == IF x = num_x - 1 THEN is_last ELSE 0
      Column(k, x) == IF k = 0 THEN IF x = 0 THEN is_first ELSE 0
                      ELSE IF k = 1 THEN (1 - Last_(x)) % P ELSE Last_(x)
  IN  [values |-> Array(3 * num_x, LAMBDA at : Column(at \div num_x, at % num_x)), width |-> 3, height |-> num_x]

EqEvalLayers(n, x) == [k \in 1 .. n + 1 |-> evals_eq_hypercube(SubSeq(x, n - k + 2, n))] \o <<>>

PopLayers(eq_xis) ==
  [n \in DOMAIN eq_xis |-> IF Len(eq_xis[n]) > 1 THEN Front(eq_xis[n]) ELSE eq_xis[n]]

LOCAL Saturating(n) == AtLeast(n, 0)

gpu_fold_evals(c, s_0) ==
  LET Mats(air) == LET parts == MainParts(air)
                   IN  [k \in DOMAIN parts |-> fold_ple_evals_rotate(c, parts[k], air.need_rot)] \o <<>>
      mats == [a \in AirIds(c) |-> Mats(c.airs[a])] \o <<>>
      common == SumOf([a \in AirIds(c) |-> Size(Last(mats[a]).values)])
      xi_of(n) == SubSeq(c.xi, c.p.l_skip + 1, c.p.l_skip + n)
  IN  [reference_fold_evals(c, s_0) EXCEPT
         !.mats = mats,
         !.sels = [a \in AirIds(c) |-> fold_selectors_round0(c, a)] \o <<>>,
         !.eq_xi = PopLayers([n \in {n_lift(c, a) : a \in AirIds(c)} |-> EqEvalLayers(n, xi_of(n))])]
      @@ [memory_limit |-> IF c.p.save_memory THEN Saturating(c.p.gkr_mem - common)
                           ELSE AtLeast(c.p.gkr_mem, Unlimited)]

-----------------------------------------------------------------------------
(* A round.  What a kernel is given of an AIR: num_x evaluation points by   *)
(* num_y rows of all columns, and the table of eq.                          *)

interpolate_columns(m, s_deg) ==
  LET num_y == m.height \div 2
  IN  Array(m.width * s_deg * num_y, LAMBDA at :
        LET t == (at \div (s_deg * num_y)) * m.height + 2 * (at % num_y)
            x == (at % (s_deg * num_y)) \div num_y
        IN  (m.values[t] + (m.values[t + 1] - m.values[t]) * (x + 1)) % P)

(* The columns of one matrix follow those of the one before, its second     *)
(* half is the next row.                                                    *)
device_row(air, mats, columns, height, row) ==
  LET widths_so_far(k) == 3 + SumOf([j \in 1 .. k - 1 |-> mats[j].width])
      Cols(first, width) == Array(width, LAMBDA j : columns[(first + j) * height + row])
      Part(k) == LET air_width == mats[k].width \div 2
                 IN  IF air.need_rot THEN <<Cols(widths_so_far(k), air_width),
                                            Cols(widths_so_far(k) + air_width, air_width)>>
                     ELSE <<Cols(widths_so_far(k), mats[k].width)>>
  IN  <<Cols(0, 3)>> \o FlattenSeq([k \in DOMAIN mats |-> Part(k)])

LOCAL Concat(arrays) ==
  LET Join(joined, array) == LET n == Size(joined) IN Array(n + Size(array), LAMBDA i : IF i < n THEN joined[i] ELSE array[i - n])
  IN  FoldLeft(Join, Array(0, LAMBDA i : 0), arrays)

LOCAL TraceCtx(c, s, a, num_x, num_y, columns, eq_3bs) ==
  [air |-> a, num_x |-> num_x, num_y |-> num_y, eq_xi |-> s.eq_xi[n_lift(c, a)][Log2(num_y) + 1],
   rows |-> Array(num_x * num_y, LAMBDA row : device_row(c.airs[a], s.mats[a], columns, num_x * num_y, row)),
   zerocheck |-> zerocheck_terms(c, a), numer |-> numer_terms(c, a, eq_3bs),
   denom |-> denom_terms(c, a, eq_3bs), bus |-> bus_term_sum(c, a, eq_3bs),
   bytes |-> c.airs[a].buffer_size * num_x * num_y]

trace_ctx(c, s, a, round) ==
  LET mats == <<s.sels[a]>> \o s.mats[a]
  IN  IF round > n_lift(c, a)
      THEN TraceCtx(c, s, a, 1, 1, Concat([k \in DOMAIN mats |-> mats[k].values]), eq_3b(c, a))
      ELSE TraceCtx(c, s, a, Degree(c), 2 ^ (n_lift(c, a) - round),
                    Concat([k \in DOMAIN mats |-> interpolate_columns(mats[k], Degree(c))] \o <<>>), eq_3b(c, a))

LOCAL Monomial(c, t, m, x, y) ==
  (m.coeff * ProductTo(Len(m.vars), LAMBDA v : evaluator(c.airs[t.air], t.rows[x * t.num_y + y], m.vars[v + 1]))) % P
LOCAL Within(n, k, Value(_)) == IF k < n THEN Value(k) ELSE 0
LOCAL EqTimes(t, y, value) == (t.eq_xi[y] * value) % P

(* One row and up to BlockDim monomials per block, a monomial per thread;   *)
(* the first block of a row adds what the AIR has beside its monomials.     *)
monomial_kernel(c, traces, monos, mono_blocks, extra, x) ==
  LET Sum(t, mono, first, y) == SumTo(BlockDim, LAMBDA thread :
        Within(Len(mono), first + thread, LAMBDA m : Monomial(c, t, mono[m + 1], x, y)))
      Block(i, y, mono_block) ==
        EqTimes(traces[i], y, Sum(traces[i], monos[i], mono_block * BlockDim, y)
                                + (IF mono_block = 0 THEN extra[i] ELSE 0))
  IN  SumBlocks([i \in DOMAIN traces |-> mono_blocks[i] * traces[i].num_y] \o <<>>,
        [i \in DOMAIN traces |-> [local \in 0 .. mono_blocks[i] * traces[i].num_y - 1 |->
           Block(i, local \div mono_blocks[i], local % mono_blocks[i])]])

LOCAL Zeros(traces) == [i \in DOMAIN traces |-> 0]
LOCAL Combined(traces, terms) == [i \in DOMAIN traces |-> combinations(terms[i])] \o <<>>
LOCAL Pairs(p, q) == [i \in DOMAIN p |-> <<p[i], q[i]>>] \o <<>>

LOCAL ZerocheckMonomials(c, traces, monos, x) ==
  monomial_kernel(c, traces, monos, [i \in DOMAIN traces |-> CeilDiv(Len(monos[i]), BlockDim)], Zeros(traces), x)

ZerocheckMonomialBatch(c, traces, x) ==
  ZerocheckMonomials(c, traces, Combined(traces, [i \in DOMAIN traces |-> traces[i].zerocheck]), x)

(* Both sides of the interactions in as many blocks as the longer takes.    *)
LOCAL LogupMonomials(c, traces, numer, denom, x) ==
  LET mono_blocks == [i \in DOMAIN traces |->
                        AtLeast(CeilDiv(AtLeast(Len(numer[i]), Len(denom[i])), BlockDim), 1)]
  IN  Pairs(monomial_kernel(c, traces, numer, mono_blocks, Zeros(traces), x),
            monomial_kernel(c, traces, denom, mono_blocks, [i \in DOMAIN traces |-> traces[i].bus], x))

LogupMonomialBatch(c, traces, x) ==
  LogupMonomials(c, traces, Combined(traces, [i \in DOMAIN traces |-> traces[i].numer]),
                 Combined(traces, [i \in DOMAIN traces |-> traces[i].denom]), x)

(* A row per thread and a chunk of the monomials per block; chunks are      *)
(* halved until the device is occupied.                                     *)
chunk_size(traces, monos, num_x) ==
  LET Halved(k) == AtLeast(ChunkSize \div 2 ^ k, 1)
      Blocks(chunk) == SumOf([i \in DOMAIN traces |->
                         CeilDiv(traces[i].num_y, BlockDim) * CeilDiv(Len(monos[i]), chunk)])
      Enough(k) == Halved(k) = 1 \/ Blocks(Halved(k)) * num_x >= TargetBlocks
  IN  Halved(CHOOSE k \in 0 .. ChunkSize : Enough(k) /\ \A j \in 0 .. k - 1 : ~Enough(j))

MonomialChunks(c, traces, monos, chunk, x) ==
  LET chunks(i) == CeilDiv(Len(monos[i]), chunk)
      Sum(t, mono, first, last, y) == SumTo(last - first, LAMBDA m : Monomial(c, t, mono[first + m + 1], x, y))
      Block(i, y_block, first) ==
        SumTo(BlockDim, LAMBDA thread : Within(traces[i].num_y, y_block * BlockDim + thread, LAMBDA y :
          EqTimes(traces[i], y, Sum(traces[i], monos[i], first, AtMost(first + chunk, Len(monos[i])), y))))
      counts == [i \in DOMAIN traces |-> CeilDiv(traces[i].num_y, BlockDim) * chunks(i)] \o <<>>
  IN  SumBlocks(counts, [i \in DOMAIN traces |-> [local \in 0 .. counts[i] - 1 |->
        Block(i, local \div chunks(i), (local % chunks(i)) * chunk)]])

LOCAL ZerocheckChunks(c, traces, monos, x) ==
  MonomialChunks(c, traces, monos, chunk_size(traces, monos, Degree(c)), x)

ZerocheckMonomialParYBatch(c, traces, x) ==
  ZerocheckChunks(c, traces, Combined(traces, [i \in DOMAIN traces |-> traces[i].zerocheck]), x)

(* The rules, for a row per thread.                                         *)
RuleBatch(c, traces, terms, extra, x) ==
  LET tpb == AtMost(FoldLeft(LAMBDA most, t : AtLeast(most, t.num_y), 1, traces), BlockDim)
      Value(t, i, y) == EvalTerms(c.airs[t.air], t.rows[x * t.num_y + y], terms[i]) + extra[i]
      counts == [i \in DOMAIN traces |-> CeilDiv(traces[i].num_y, tpb)] \o <<>>
  IN  SumBlocks(counts, [i \in DOMAIN traces |-> [local \in 0 .. counts[i] - 1 |->
        SumTo(tpb, LAMBDA thread : Within(traces[i].num_y, local * tpb + thread, LAMBDA y :
          EqTimes(traces[i], y, Value(traces[i], i, y))))]])

ZerocheckMleBatchBuilder(c, traces, x) ==
  RuleBatch(c, traces, [i \in DOMAIN traces |-> traces[i].zerocheck], Zeros(traces), x)

LogupMleBatchBuilder(c, traces, x) ==
  Pairs(RuleBatch(c, traces, [i \in DOMAIN traces |-> traces[i].numer], Zeros(traces), x),
        RuleBatch(c, traces, [i \in DOMAIN traces |-> traces[i].denom],
                  [i \in DOMAIN traces |-> traces[i].bus], x))

-----------------------------------------------------------------------------
(* Which kernel evaluates which AIR.  The result of a launch goes to the    *)
(* AIRs by their place in it.                                               *)

LOCAL NoSums == [a \in {} |-> 0]
LOCAL ByAir(traces, out) ==
  [a \in {traces[i].air : i \in DOMAIN traces} |->
     LET i == CHOOSE k \in DOMAIN traces : traces[k].air = a IN [x \in DOMAIN out |-> out[x][i]]]
LOCAL Launched(traces, Kernel(_, _), num_x) ==
  IF traces = <<>> THEN NoSums ELSE ByAir(traces, [x \in 1 .. num_x |-> Kernel(traces, x - 1)] \o <<>>)

(* The largest first, as many as the memory allows.                         *)
LOCAL InBatches(traces, limit, Kernel(_, _), num_x) ==
  LET sorted == SortSeq(traces, LAMBDA t, u : t.bytes > u.bytes)
      batches == find_batch_end(sorted, limit)
  IN  FoldLeft(LAMBDA sums, batch : Launched(batch, Kernel, num_x) @@ sums, NoSums, batches)

evaluate_logup_batched(c, traces, limit, num_x) ==
  LET logup == SelectSeq(traces, LAMBDA t : t.numer # <<>>)
      low == SelectSeq(logup, LAMBDA t : t.num_y <= MonomialRows)
      high == SelectSeq(logup, LAMBDA t : t.num_y > MonomialRows)
  IN  Launched(low, LAMBDA ts, x : LogupMonomialBatch(c, ts, x), num_x)
        @@ InBatches(high, limit, LAMBDA ts, x : LogupMleBatchBuilder(c, ts, x), num_x)

evaluate_zerocheck_batched(c, traces, limit, num_x) ==
  InBatches(traces, limit, LAMBDA ts, x : ZerocheckMleBatchBuilder(c, ts, x), num_x)

evaluate_zerocheck(c, traces, limit, num_x) ==
  LET zc == SelectSeq(traces, LAMBDA t : t.zerocheck # <<>>)
      UsesDag(t) == t.num_y > MonomialRows /\ Len(combinations(t.zerocheck)) >= 2 * c.airs[t.air].rules_len
      low == SelectSeq(zc, LAMBDA t : t.num_y <= MonomialRows)
      dag == SelectSeq(zc, UsesDag)
      mono == SelectSeq(zc, LAMBDA t : t.num_y > MonomialRows /\ ~UsesDag(t))
  IN  evaluate_zerocheck_batched(c, dag, limit, num_x)
        @@ Launched(mono, LAMBDA ts, x : ZerocheckMonomialParYBatch(c, ts, x), num_x)
        @@ Launched(low, LAMBDA ts, x : ZerocheckMonomialBatch(c, ts, x), num_x)

TraceCtxs(c, s, round, air_ids) ==
  LET ids == SelectSeq(air_ids, LAMBDA a : c.airs[a].constraints # <<>> \/ c.airs[a].interactions # <<>>)
  IN  [k \in DOMAIN ids |-> trace_ctx(c, s, ids[k], round)] \o <<>>

(* An AIR that no kernel evaluated has nothing to sum.                      *)
LOCAL SumsAt(c, a, x, logup, zc) ==
  LET pq == IF a \in DOMAIN logup THEN logup[a][x] ELSE <<0, 0>>
  IN  <<(pq[1] * norm_factor(c, a)) % P, pq[2], IF a \in DOMAIN zc THEN zc[a][x] ELSE 0>>

LOCAL GpuTilde(c, s, round, logup, zc) ==
  WithTildeEvals(c, s, round, [a \in AirIds(c) |-> SumsAt(c, a, 1, logup, zc)])

LOCAL AtR(c, s, round, traces) ==
  GpuTilde(c, s, round,
    Launched(SelectSeq(traces, LAMBDA t : t.numer # <<>>), LAMBDA ts, x : LogupMonomialBatch(c, ts, x), 1),
    Launched(SelectSeq(traces, LAMBDA t : combinations(t.zerocheck) # <<>>),
             LAMBDA ts, x : ZerocheckMonomialBatch(c, ts, x), 1))

(* AIRs that the last fold exhausted are evaluated at their single row.     *)
gpu_tilde_evals(c, s, round) ==
  AtR(c, s, round, TraceCtxs(c, s, round,
    SelectSeq([a \in AirIds(c) |-> a], LAMBDA a : n_lift(c, a) + 1 = round)))

LOCAL GpuHeads(c, round, logup, zc) ==
  Heads(c, round, [a \in AirIds(c), x \in 1 .. Degree(c) |-> SumsAt(c, a, x, logup, zc)])

LOCAL KernelSums(c, s, round, traces) ==
  GpuHeads(c, round, evaluate_logup_batched(c, traces, s.memory_limit, Degree(c)),
           evaluate_zerocheck(c, traces, s.memory_limit, Degree(c)))

gpu_polys_eval(c, s, round) ==
  KernelSums(c, s, round, TraceCtxs(c, s, round,
    SelectSeq([a \in AirIds(c) |-> a], LAMBDA a : round <= n_lift(c, a))))

(* The tail of a round, AIR by AIR; eq is multiplied in here.               *)
compute_batch_s_poly(c, s, round, heads, x) ==
  head_and_tail(c, s, round, heads, {a \in AirIds(c) : round > n_lift(c, a)}, x)

gpu_batch_s_evals(c, s, round, heads) ==
  [x \in 1 .. Degree(c) + 1 |-> compute_batch_s_poly(c, s, round, heads, x)] \o <<>>

(* All matrices with more than a row are folded: those of the first traces. *)
batch_fold(mats, r) ==
  LET num_matrices == Cardinality({k \in DOMAIN mats : \A j \in 1 .. k : mats[j].height > 1})
      Fold(m) == [m EXCEPT !.height = @ \div 2,
                           !.values = Array(Size(@) \div 2, LAMBDA at : Linear(m.values[2 * at], m.values[2 * at + 1], r))]
  IN  [k \in DOMAIN mats |-> IF k <= num_matrices THEN Fold(mats[k]) ELSE mats[k]] \o <<>>

gpu_fold_mle_evals(c, s, round, heads) ==
  LET r_round == c.r[round + 1]
      lengths == [a \in AirIds(c) |-> Len(s.mats[a])] \o <<>>
      folded == batch_fold(FlattenSeq(s.mats), r_round)
      before(a) == air_offset(lengths, a)
      kept == SumOf([k \in DOMAIN folded |-> Size(folded[k].values)])
  IN  [PushEq(c, s, round) EXCEPT
         !.mats = [a \in AirIds(c) |-> SubSeq(folded, before(a) + 1, before(a) + lengths[a])] \o <<>>,
         !.sels = batch_fold(s.sels, r_round),
         !.eq_xi = PopLayers(s.eq_xi),
         !.prev_s_eval = compute_batch_s_poly(c, s, round, heads, r_round),
         !.memory_limit = IF c.p.save_memory THEN Saturating(c.p.gkr_mem - kept) ELSE @]

(* The halves of each matrix give a column's opening and that of its next   *)
(* row.                                                                     *)
gpu_column_openings(c, s) ==
  LET Split(air, m) == IF air.need_rot
                       THEN FlattenSeq([j \in 1 .. m.width \div 2 |-> <<m.values[j - 1], m.values[(m.width \div 2) + j - 1]>>])
                       ELSE [j \in 1 .. m.width |-> m.values[j - 1]]
      Common(mats) == <<Last(mats)>> \o Front(mats)
  IN  [a \in AirIds(c) |-> LET mats == Common(s.mats[a])
                           IN  [k \in DOMAIN mats |-> Split(c.airs[a], mats[k]) \o <<>>] \o <<>>] \o <<>>

=============================================================================
