------------------------------ MODULE SymbolicDag ------------------------------
(* The symbolic constraints of an AIR: the expressions its author writes, and *)
(* the DAG that keygen puts into the verifying key. An expression is a tree of *)
(* records (the Arcs of the source; the cache by pointer finds the index that *)
(* building the same tree again finds too, and is left out). A node of the DAG *)
(* is a leaf, or an operation on the positions of earlier nodes. Field elements *)
(* are 0..P-1. The operators are recursive: no theorem rests on this module.    *)
EXTENDS Integers, Sequences, SequencesExt, FiniteSetsExt

CONSTANT P      \* the characteristic of the base field

FAdd(a, b) == (a + b) % P
FSub(a, b) == (a - b) % P
FMul(a, b) == (a * b) % P
FNeg(a) == (0 - a) % P

-------------------------------------------------------------------------------
(* Expressions *)

Column(name) == [op |-> "Variable", name |-> name, deg |-> 1]
Public(name) == [op |-> "Variable", name |-> name, deg |-> 0]
Challenge(j) == [op |-> "Challenge", index |-> j, deg |-> 0]
Selector(name) == [op |-> "Selector", name |-> name, deg |-> 1]
Constant(c) == [op |-> "Constant", value |-> c, deg |-> 0]

Leaves == {"Variable", "Challenge", "Selector", "Constant"}
BinaryOps == {"Add", "Sub", "Mul"}

Larger(a, b) == IF a >= b THEN a ELSE b
Binary(op, x, y) ==
    [op |-> op, x |-> x, y |-> y,
     deg |-> IF op = "Mul" THEN x.deg + y.deg ELSE Larger(x.deg, y.deg)]
Negation(x) == [op |-> "Neg", x |-> x, deg |-> x.deg]

(* A row of the trace, or a point of the sumcheck: a value for every leaf. *)
LeafValue(e, row) ==
    CASE e.op = "Constant"  -> e.value
      [] e.op = "Challenge" -> row.challenges[e.index]
      [] OTHER              -> row.columns[e.name]

Apply(op, a, b) ==
    CASE op = "Add" -> FAdd(a, b)
      [] op = "Sub" -> FSub(a, b)
      [] op = "Mul" -> FMul(a, b)

RECURSIVE eval_expr(_, _)
eval_expr(e, row) ==
    CASE e.op \in Leaves -> LeafValue(e, row)
      [] e.op = "Neg"    -> FNeg(eval_expr(e.x, row))
      [] OTHER           -> Apply(e.op, eval_expr(e.x, row), eval_expr(e.y, row))

-------------------------------------------------------------------------------
(* The builder of the DAG. It returns the nodes with the position of the root. *)

NodeNeg(i, deg) == [op |-> "Neg", idx |-> i, deg |-> deg]
NodeOp(op, l, r, deg) == [op |-> op, left |-> l, right |-> r, deg |-> deg]

intern_node(nodes, n) ==
    LET known == {i \in DOMAIN nodes : nodes[i] = n}
    IN  IF known # {} THEN [nodes |-> nodes, idx |-> Min(known)]
        ELSE [nodes |-> Append(nodes, n), idx |-> Len(nodes) + 1]

At(nodes, i) == [nodes |-> nodes, idx |-> i]

is_const(n, c) == n.op = "Constant" /\ n.value = c

Negated_Same(op) == "Sub"
(* x + (-y) is kept as x - y, and x - (-y) as x + y. *)
Negated(op) == IF op = "Add" THEN "Sub" ELSE "Add"

simplify(nodes, op, l, r, deg) ==
    LET x == nodes[l]
        y == nodes[r]
        folds == x.op = "Constant" /\ y.op = "Constant"
        keep_left  == \/ op \in {"Add", "Sub"} /\ is_const(y, 0)
                      \/ op = "Mul" /\ (is_const(x, 0) \/ is_const(y, 1))
        keep_right == \/ op = "Add" /\ is_const(x, 0)
                      \/ op = "Mul" /\ (is_const(y, 0) \/ is_const(x, 1))
    IN  IF folds THEN intern_node(nodes, Constant(Apply(op, x.value, y.value)))
        ELSE IF keep_left THEN At(nodes, l)
        ELSE IF keep_right THEN At(nodes, r)
        ELSE IF op # "Mul" /\ y.op = "Neg"
             THEN intern_node(nodes, NodeOp(Negated(op), l, y.idx, deg))
        ELSE intern_node(nodes, NodeOp(op, l, r, deg))

RECURSIVE add_expr(_, _)
add_expr(nodes, e) ==
    CASE e.op \in Leaves -> intern_node(nodes, e)
      [] e.op = "Neg" ->
           LET x == add_expr(nodes, e.x)
               child == x.nodes[x.idx]
           IN  IF child.op = "Constant" THEN intern_node(x.nodes, Constant(FNeg(child.value)))
               ELSE intern_node(x.nodes, NodeNeg(x.idx, e.deg))
      [] OTHER ->
           LET x == add_expr(nodes, e.x)
               y == add_expr(x.nodes, e.y)
           IN  simplify(y.nodes, e.op, x.idx, y.idx, e.deg)

add_exprs(nodes, exprs) ==
    FoldLeft(LAMBDA b, e : LET a == add_expr(b.nodes, e)
                           IN  [nodes |-> a.nodes, idxs |-> Append(b.idxs, a.idx)],
             [nodes |-> nodes, idxs |-> <<>>], exprs)

(* sort and dedup of a vector of positions *)
InOrder(S) == SelectSeq([i \in 1..Max(S \cup {0}) |-> i], LAMBDA i : i \in S)
SortedPositions(idxs) == InOrder(ToSet(idxs))

(* The constraints come first, then the message and the count of every *)
(* interaction, in the order of the AIR.                                *)
build_symbolic_constraints_dag(constraints, interactions) ==
    LET roots == add_exprs(<<>>, constraints)
        all == FoldLeft(
                 LAMBDA b, i :
                   LET message == add_exprs(b.nodes, i.message)
                       count == add_expr(message.nodes, i.count)
                   IN  [nodes |-> count.nodes,
                        list |-> Append(b.list, [message |-> message.idxs, count |-> count.idx,
                                                 bus_index |-> i.bus_index])],
                 [nodes |-> roots.nodes, list |-> <<>>], interactions)
    IN  [nodes |-> all.nodes, constraint_idx |-> SortedPositions(roots.idxs),
         interactions |-> all.list]

-------------------------------------------------------------------------------
(* Reading the DAG *)

(* One pass over the nodes in their order: operands must already have a value. *)
eval_nodes(nodes, row) ==
    FoldLeft(LAMBDA vals, n :
               Append(vals,
                      CASE n.op \in Leaves -> LeafValue(n, row)
                        [] n.op = "Neg"    -> FNeg(vals[n.idx])
                        [] OTHER           -> Apply(n.op, vals[n.left], vals[n.right])),
             <<>>, nodes)

RECURSIVE to_expression(_, _)
to_expression(nodes, i) ==
    LET n == nodes[i]
    IN  CASE n.op \in Leaves -> n
          [] n.op = "Neg" -> [op |-> "Neg", x |-> to_expression(nodes, n.idx), deg |-> n.deg]
          [] OTHER -> [op |-> n.op, x |-> to_expression(nodes, n.left),
                       y |-> to_expression(nodes, n.right), deg |-> n.deg]

(* The interactions as expressions again, for the device's own DAGs. *)
symbolic_interactions(dag) ==
    [k \in DOMAIN dag.interactions |->
        LET i == dag.interactions[k]
        IN  [message |-> [j \in DOMAIN i.message |-> to_expression(dag.nodes, i.message[j])],
             count |-> to_expression(dag.nodes, i.count), bus_index |-> i.bus_index]]
==============================================================================
