---------------------------- MODULE ConstraintRules ----------------------------
(* The rule compiler of the GPU backend: it orders the nodes of a DAG that the  *)
(* marked positions need, gives each value that is read again a slot of a small *)
(* buffer, and encodes one rule per node; and the kernels that interpret the    *)
(* rules, one thread per row, with a buffer nobody initialised. Rules, slots    *)
(* and positions in the rule list are counted from 0 as on the device.          *)
EXTENDS SymbolicDag

CONSTANT NoSlot     \* usize::MAX
CONSTANT Unwritten  \* what a slot holds that no rule has written

-------------------------------------------------------------------------------
(* SymbolicRulesBuilder: which nodes are needed, until when, and where *)

Intermediate == {"Add", "Sub", "Mul", "Neg"}
accumulate(dag) == ToSet(dag.constraint_idx)
buffer_var(n, buffer_vars) == buffer_vars /\ n.op \in {"Variable", "Challenge"}

operands(n) ==
    CASE n.op \in Leaves -> <<>>
      [] n.op = "Neg"    -> <<n.idx>>
      [] OTHER           -> <<n.left, n.right>>

Put(f, k, v) == [i \in DOMAIN f \cup {k} |-> IF i = k THEN v ELSE f[i]]

touch_Latest(live, i, d) ==
    Put(live, i,
        IF i \in DOMAIN live
        THEN [use_count |-> live[i].use_count + 1, last_use |-> d]
        ELSE [use_count |-> 1, last_use |-> d])

(* A user at position d touches an operand: the first touch creates the entry. *)
touch(live, i, d) ==
    Put(live, i,
        IF i \in DOMAIN live
        THEN [use_count |-> live[i].use_count + 1, last_use |-> Larger(live[i].last_use, d)]
        ELSE [use_count |-> 1, last_use |-> d])

(* A node counts as a use of itself. *)
own_use(live, d) ==
    Put(live, d,
        IF d \in DOMAIN live THEN [live[d] EXCEPT !.use_count = @ + 1]
        ELSE [use_count |-> 1, last_use |-> d])

visit(dag, live, d) ==
    IF d \notin DOMAIN live /\ d \notin accumulate(dag) THEN live
    ELSE FoldLeft(LAMBDA l, i : touch(l, i, d), own_use(live, d), operands(dag.nodes[d]))

(* The nodes are visited from the last to the first, so that the first touch of *)
(* a node is its last use.                                                      *)
live_expr_info(dag) ==
    FoldLeft(LAMBDA live, k : visit(dag, live, Len(dag.nodes) + 1 - k), <<>>,
             [k \in DOMAIN dag.nodes |-> k])

buffer_dag_idxs(dag, live, buffer_vars) ==
    InOrder({d \in DOMAIN live :
               \/ dag.nodes[d].op \in Intermediate
               \/ buffer_var(dag.nodes[d], buffer_vars) /\ live[d].use_count > 1})

(* BinaryHeap with the order of BufferEntry: the slot whose value dies first. *)
Earlier(e, f) == \/ e.last_use < f.last_use
                 \/ e.last_use = f.last_use /\ e.slot <= f.slot
peek(heap) == CHOOSE e \in heap : \A f \in heap : Earlier(e, f)

(* A slot is free again in the rule that reads it last: operands are read first. *)
reusable(heap, d) == heap # {} /\ peek(heap).last_use <= d

allocate(live, a, d) ==
    LET slot == IF reusable(a.heap, d) THEN peek(a.heap).slot ELSE Cardinality(a.heap)
        rest == IF reusable(a.heap, d) THEN a.heap \ {peek(a.heap)} ELSE a.heap
    IN  [heap |-> rest \cup {[slot |-> slot, last_use |-> live[d].last_use]},
         slot |-> Put(a.slot, d, slot)]

(* The whole DAG is the only range the backend schedules. *)
set_range(dag, buffer_vars) ==
    LET live == live_expr_info(dag)
        a == FoldLeft(LAMBDA b, d : allocate(live, b, d), [heap |-> {}, slot |-> <<>>],
                      buffer_dag_idxs(dag, live, buffer_vars))
    IN  [live |-> live, slot |-> a.slot, buffer_size |-> Cardinality(a.heap)]

-------------------------------------------------------------------------------
(* Rules and their encoding *)

slot_of(info, d) == IF d \in DOMAIN info.slot THEN info.slot[d] ELSE NoSlot

dag_idx_to_source(dag, info, d, use) ==
    IF slot_of(info, d) # NoSlot /\ (dag.nodes[d].op \in Intermediate \/ d # use)
    THEN [op |-> "Intermediate", slot |-> slot_of(info, d)]
    ELSE dag.nodes[d]

(* What a kernel decodes: an operand a rule has not is the constant zero, and a *)
(* result that has no slot is encoded as slot 0 with the write flag off.        *)
encode(dag, info, d) ==
    LET n == dag.nodes[d]
        src(i) == dag_idx_to_source(dag, info, i, d)
        z == slot_of(info, d)
    IN  [op |-> IF n.op \in Leaves THEN "Var" ELSE n.op,
         x |-> IF n.op \in Leaves THEN src(d) ELSE src(operands(n)[1]),
         y |-> IF n.op \in BinaryOps THEN src(n.right) ELSE Constant(0),
         buffer_result |-> z # NoSlot,
         z_index |-> IF z = NoSlot THEN 0 ELSE z % 2 ^ 20,
         is_constraint |-> d \in accumulate(dag)]

(* The rules of the needed nodes, and the rule of every marked position. *)
to_rules(dag, buffer_vars) ==
    LET info == set_range(dag, buffer_vars)
        order == InOrder(DOMAIN info.live)
    IN  [rules |-> [k \in 0..(Len(order) - 1) |-> encode(dag, info, order[k + 1])],
         buffer_size |-> info.buffer_size,
         rule_of |-> [d \in accumulate(dag) |-> (CHOOSE k \in DOMAIN order : order[k] = d) - 1]]

(* ConstraintOnlyRules, and the rules of the interactions: used_nodes follows *)
(* the positions as given, repeated ones included.                            *)
eval_rules(dag, buffer_vars) ==
    LET Used(r) ==
          [rules |-> r.rules, buffer_size |-> r.buffer_size,
           used_nodes |-> [k \in DOMAIN dag.constraint_idx |-> r.rule_of[dag.constraint_idx[k]]]]
    IN  Used(to_rules(dag, buffer_vars))

-------------------------------------------------------------------------------
(* The kernels that interpret rules, for one thread. The challenges that weigh  *)
(* constraints and interactions, the powers of lambda and eq_3b, are symbols:   *)
(* a sum over them is the function from the index of the symbol to its          *)
(* coefficient. A value that comes from an unwritten slot stays unwritten.      *)

Known(a, b) == a # Unwritten /\ b # Unwritten
Compute(op, a, b) == IF Known(a, b) THEN Apply(op, a, b) ELSE Unwritten

Zeros(S) == [i \in S |-> 0]
AddAt(sum, i, v) == [sum EXCEPT ![i] = Compute("Add", @, v)]

-------------------------------------------------------------------------------
(* One rule *)

Buffer(rules) == [s \in 0..(rules.buffer_size - 1) |-> Unwritten]

evaluate_entry(src, buffer, row) ==
    IF src.op = "Intermediate" THEN buffer[src.slot] ELSE LeafValue(src, row)

result(rule, buffer, row) ==
    LET x == evaluate_entry(rule.x, buffer, row)
    IN  CASE rule.op = "Var" -> x
          [] rule.op = "Neg" -> Compute("Sub", 0, x)
          [] OTHER -> Compute(rule.op, x, evaluate_entry(rule.y, buffer, row))

store(rule, buffer, v) ==
    IF rule.buffer_result /\ DOMAIN buffer # {} THEN [buffer EXCEPT ![rule.z_index] = v]
    ELSE buffer

-------------------------------------------------------------------------------
(* Constraints: acc_constraints of round 0 and the MLE kernels, which add the *)
(* next power of lambda as often as used_nodes repeats the rule.              *)

RECURSIVE add_lambdas(_, _, _)
add_lambdas(acc, k, used) ==
    IF acc.lambda <= Len(used) /\ used[acc.lambda] = k
    THEN add_lambdas([acc EXCEPT !.lambda = @ + 1, !.sum = AddAt(@, acc.lambda, acc.value)],
                     k, used)
    ELSE acc

RECURSIVE run_constraints(_, _, _, _)
run_constraints(er, k, acc, row) ==
    IF k \notin DOMAIN er.rules THEN acc.sum
    ELSE LET rule == er.rules[k]
             v == result(rule, acc.buffer, row)
             next == [acc EXCEPT !.buffer = store(rule, @, v), !.value = v]
         IN  run_constraints(er, k + 1,
                             IF rule.is_constraint THEN add_lambdas(next, k, er.used_nodes)
                             ELSE next, row)

acc_constraints(er, row) ==
    run_constraints(er, 0, [buffer |-> Buffer(er), value |-> Unwritten, lambda |-> 1,
                            sum |-> Zeros(DOMAIN er.used_nodes)], row)

(* zerocheck_mle_kernel and its batched form walk the rules in the same way, *)
(* over evaluations of the multilinear extensions instead of a row.          *)
zerocheck_mle(er, row) == acc_constraints(er, row)

-------------------------------------------------------------------------------
(* Interactions as fractions: numerator and denominator of every interaction are *)
(* the marked positions of a DAG of their own, with the powers of beta as        *)
(* challenges; pair 2i is the numerator, pair 2i+1 the denominator of i.         *)

denominator(i) ==
    LET terms == FoldLeft(LAMBDA d, j : Binary("Add", d, Binary("Mul", Challenge(j), i.message[j])),
                          Constant(0), [j \in DOMAIN i.message |-> j])
    IN  Binary("Add", terms,
               Binary("Mul", Challenge(Len(i.message) + 1), Constant((i.bus_index + 1) % P)))

frac_pairs(interactions) ==
    FoldLeft(LAMBDA s, i : s \o <<i.count, denominator(i)>>, <<>>, interactions)

sort_pairs_Stable(pairs) == pairs
(* sort() of the pairs <<position in the DAG, pair>> *)
sort_pairs(pairs) == SortSeq(pairs, LAMBDA p, q : p[1] < q[1] \/ (p[1] = q[1] /\ p[2] < q[2]))

interaction_eval_rules(interactions) ==
    LET Rules(er, pairs) ==
          [rules |-> er.rules, buffer_size |-> er.buffer_size, used_nodes |-> er.used_nodes,
           pair_idxs |-> [k \in DOMAIN pairs |-> pairs[k][2]]]
        Paired(nodes, pairs) ==
          Rules(eval_rules([nodes |-> nodes, constraint_idx |-> [k \in DOMAIN pairs |-> pairs[k][1]]],
                           FALSE), pairs)
        Built(dag) ==
          Paired(dag.nodes, sort_pairs([k \in DOMAIN dag.idxs |-> <<dag.idxs[k], k - 1>>]))
    IN  Built(add_exprs(<<>>, frac_pairs(interactions)))

(* A node that was evaluated before is read again: a leaf from the trace, any *)
(* other from the slot its rule wrote.                                        *)
reread(rule, buffer, row) ==
    IF rule.op = "Var" THEN evaluate_entry(rule.x, buffer, row) ELSE buffer[rule.z_index]

RECURSIVE evaluate_upto(_, _, _, _)
evaluate_upto(er, node, t, row) ==
    IF t.evaluated > node THEN t
    ELSE LET rule == er.rules[t.evaluated]
             v == result(rule, t.buffer, row)
         IN  evaluate_upto(er, node,
                           [t EXCEPT !.evaluated = @ + 1, !.buffer = store(rule, @, v), !.value = v],
                           row)

(* evaluate_interactions_gkr_kernel; the logup MLE kernels walk alike. *)
RECURSIVE run_pairs(_, _, _, _)
run_pairs(er, u, t, row) ==
    IF u > Len(er.used_nodes) THEN t.fracs
    ELSE LET node == er.used_nodes[u]
             s == IF node < t.evaluated
                  THEN [t EXCEPT !.value = reread(er.rules[node], t.buffer, row)]
                  ELSE evaluate_upto(er, node, t, row)
         IN  run_pairs(er, u + 1, [s EXCEPT !.fracs[er.pair_idxs[u]] = s.value], row)

evaluate_interactions(er, row) ==
    run_pairs(er, 1, [buffer |-> Buffer(er), evaluated |-> 0, value |-> Unwritten,
                      fracs |-> [p \in ToSet(er.pair_idxs) |-> Unwritten]], row)

(* The logup MLE kernel weighs each result with the eq_3b of its interaction. *)
Interactions(er) == {p \div 2 : p \in ToSet(er.pair_idxs)}
logup_mle(er, row) ==
    LET fracs == evaluate_interactions(er, row)
    IN  [numer |-> [i \in Interactions(er) |-> fracs[2 * i]],
         denom |-> [i \in Interactions(er) |-> fracs[2 * i + 1]]]

-------------------------------------------------------------------------------
(* Round 0 of logup: counts and message fields are the marked positions, each *)
(* kept once, and every use of one adds to the weights of its rule.           *)

fields_of(i) == <<i.count>> \o i.message

add_fields(nodes, interactions) ==
    FoldLeft(LAMBDA b, i : LET a == add_exprs(b.nodes, fields_of(i))
                           IN  [nodes |-> a.nodes, idxs |-> Append(b.idxs, a.idxs)],
             [nodes |-> nodes, idxs |-> <<>>], interactions)

logup_round0_rules(interactions) ==
    LET Rules(r, idxs) ==
          [rules |-> r.rules, buffer_size |-> r.buffer_size,
           field_rule |-> [i \in DOMAIN interactions |->
                             [j \in DOMAIN idxs[i] |-> r.rule_of[idxs[i][j]]]]]
        Built(dag) ==
          Rules(to_rules([nodes |-> dag.nodes,
                          constraint_idx |-> SortedPositions(FlattenSeq(dag.idxs))], TRUE), dag.idxs)
    IN  Built(add_fields(<<>>, interactions))

(* numer_weights and denom_weights: interaction i weighs rule k. *)
numer_weight(r0, i, k) == IF r0.field_rule[i][1] = k THEN 1 ELSE 0
denom_weight(r0, i, k, row) ==
    FoldLeft(LAMBDA w, j : IF r0.field_rule[i][j + 1] = k THEN FAdd(w, row.challenges[j]) ELSE w,
             0, [j \in 1..(Len(r0.field_rule[i]) - 1) |-> j])

bus_term(i, row) == FMul(row.challenges[Len(i.message) + 1], (i.bus_index + 1) % P)

RECURSIVE run_interactions(_, _, _, _)
run_interactions(r0, k, acc, row) ==
    IF k \notin DOMAIN r0.rules THEN [numer |-> acc.numer, denom |-> acc.denom]
    ELSE LET rule == r0.rules[k]
             v == result(rule, acc.buffer, row)
             weighed(sum, w(_)) == [i \in DOMAIN sum |->
                                     Compute("Add", sum[i], Compute("Mul", w(i), v))]
             next == [acc EXCEPT !.buffer = store(rule, @, v)]
         IN  run_interactions(r0, k + 1,
               IF rule.is_constraint
               THEN [next EXCEPT !.numer = weighed(@, LAMBDA i : numer_weight(r0, i + 1, k)),
                                 !.denom = weighed(@, LAMBDA i : denom_weight(r0, i + 1, k, row))]
               ELSE next, row)

(* acc_interactions; the host starts the denominators with the bus terms. *)
logup_round0(r0, interactions, row) ==
    LET all == {i - 1 : i \in DOMAIN interactions}
    IN  run_interactions(r0, 0,
          [buffer |-> Buffer(r0), numer |-> Zeros(all),
           denom |-> [i \in all |-> bus_term(interactions[i + 1], row)]], row)
==============================================================================
