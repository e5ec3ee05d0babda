------------------------------- MODULE Monomials -------------------------------
(* The other way the backend evaluates constraints and interactions: expanded   *)
(* into monomials when the proving key is transferred, and summed by blocks of  *)
(* threads. A polynomial is the function from the bag of the variables of a     *)
(* monomial to its coefficient, as combine_like_terms leaves it.                *)
EXTENDS ConstraintRules, Bags

CONSTANT Threads    \* monomials per block

-------------------------------------------------------------------------------
(* Expansion *)

Coefficient(p, vars) == IF vars \in DOMAIN p THEN p[vars] ELSE 0

(* combine_like_terms: monomials whose coefficients cancel are dropped. *)
Combined(vars, coeff(_)) ==
    LET left == {v \in vars : coeff(v) # 0} IN [v \in left |-> coeff(v)]

expand_leaf(n) ==
    IF n.op = "Constant" THEN (EmptyBag :> n.value) ELSE (SetToBag({n}) :> 1)

SumOver(S, f(_)) == FoldSet(LAMBDA s, acc : FAdd(acc, f(s)), 0, S)

Product(p, q) ==
    LET pairs == (DOMAIN p) \X (DOMAIN q)
    IN  Combined({m[1] (+) m[2] : m \in pairs},
                 LAMBDA v : SumOver({m \in pairs : m[1] (+) m[2] = v},
                                    LAMBDA m : FMul(p[m[1]], q[m[2]])))

expand_op(op, p, q) ==
    IF op = "Mul" THEN Product(p, q)
    ELSE Combined(DOMAIN p \cup DOMAIN q,
                  LAMBDA v : Apply(op, Coefficient(p, v), Coefficient(q, v)))

expand_neg(p) == [v \in DOMAIN p |-> FNeg(p[v])]

(* expand_node_cached, over the nodes of the DAG *)
RECURSIVE expand_node(_, _)
expand_node(nodes, i) ==
    LET n == nodes[i]
    IN  CASE n.op \in Leaves -> expand_leaf(n)
          [] n.op = "Neg"    -> expand_neg(expand_node(nodes, n.idx))
          [] OTHER -> expand_op(n.op, expand_node(nodes, n.left), expand_node(nodes, n.right))

RECURSIVE expand_symbolic_expression(_)
expand_symbolic_expression(e) ==
    CASE e.op \in Leaves -> expand_leaf(e)
      [] e.op = "Neg"    -> expand_neg(expand_symbolic_expression(e.x))
      [] OTHER -> expand_op(e.op, expand_symbolic_expression(e.x), expand_symbolic_expression(e.y))

-------------------------------------------------------------------------------
(* Serialisation: the monomials one after the other, their variables and terms *)
(* in two flat arrays that the headers point into. A term is <<where the        *)
(* monomial occurs, its coefficient there>>.                                    *)

(* A monomial's variables as a list, each as often as its exponent says. *)
BagToList(vars) ==
    FoldSet(LAMBDA v, s : s \o [k \in 1..vars[v] |-> v], <<>>, BagToSet(vars))

Listed(S) == FoldSet(LAMBDA x, s : Append(s, x), <<>>, S)

NonZero(p) == {v \in DOMAIN p : p[v] # 0}

(* polys: occurrence -> polynomial *)
terms_of(polys, vars) ==
    Listed({<<k, polys[k][vars]>> : k \in {l \in DOMAIN polys : vars \in NonZero(polys[l])}})

serialize_monomials(polys) ==
    FoldLeft(LAMBDA b, vars :
               LET vs == BagToList(vars)
                   ts == terms_of(polys, vars)
               IN  [headers |-> Append(b.headers,
                                       [var_offset |-> Len(b.variables), num_vars |-> Len(vs) % 2 ^ 16,
                                        term_offset |-> Len(b.terms), num_terms |-> Len(ts) % 2 ^ 16]),
                    variables |-> b.variables \o vs, terms |-> b.terms \o ts],
             [headers |-> <<>>, variables |-> <<>>, terms |-> <<>>],
             Listed(UNION {NonZero(polys[k]) : k \in DOMAIN polys}))

(* ExpandedMonomials::from_dag: occurrences are positions in constraint_idx. *)
zerocheck_expanded(dag) ==
    serialize_monomials([k \in DOMAIN dag.constraint_idx |->
                           expand_node(dag.nodes, dag.constraint_idx[k])])

(* ExpandedInteractionMonomials: occurrences are interactions, and for the *)
(* denominators the field as well. Interactions count from 0.               *)
numer_expanded(interactions) ==
    serialize_monomials([i \in {k - 1 : k \in DOMAIN interactions} |->
                           expand_symbolic_expression(interactions[i + 1].count)])

denom_expanded(interactions) ==
    serialize_monomials(
      [f \in UNION {{<<i - 1, j>> : j \in DOMAIN interactions[i].message} : i \in DOMAIN interactions} |->
         expand_symbolic_expression(interactions[f[1] + 1].message[f[2]])])

-------------------------------------------------------------------------------
(* The kernels: a combination per monomial, computed once, and then one thread *)
(* per monomial in every block.                                                *)

Slice(s, offset, n) == SubSeq(s, offset + 1, offset + n)

(* precompute_lambda_combinations_kernel and its two logup forms: every term *)
(* adds to its symbol; a term of a denominator brings a challenge along.     *)
TermsOf(e, m) == Slice(e.terms, e.headers[m].term_offset, e.headers[m].num_terms)

combination(e, m, symbols) ==
    FoldLeft(LAMBDA sum, t : AddAt(sum, t[1], t[2]), Zeros(symbols), TermsOf(e, m))

denom_combination(e, m, symbols, row) ==
    FoldLeft(LAMBDA sum, t : AddAt(sum, t[1][1], FMul(t[2], row.challenges[t[1][2]])),
             Zeros(symbols), TermsOf(e, m))

monomial(e, m, row) ==
    FoldLeft(LAMBDA p, v : FMul(p, LeafValue(v, row)), 1,
             Slice(e.variables, e.headers[m].var_offset, e.headers[m].num_vars))

Blocks(n) == 0..(n - 1)
div_ceil(a, b) == (a + b - 1) \div b
Scaled(sum, c) == [i \in DOMAIN sum |-> FMul(sum[i], c)]
Plus(s, t) == [i \in DOMAIN s |-> FAdd(s[i], t[i])]

(* The sum of the blocks of one row; thread t of block b has monomial b*Threads+t. *)
sum_blocks(e, blocks, zero, comb(_), row) ==
    FoldSet(LAMBDA m, sum : Plus(sum, Scaled(comb(m), monomial(e, m, row))), zero,
            {b * Threads + t + 1 : b \in Blocks(blocks), t \in 0..(Threads - 1)} \cap DOMAIN e.headers)

zerocheck_monomial(e, n, row) ==
    sum_blocks(e, div_ceil(Len(e.headers), Threads), Zeros(1..n),
               LAMBDA m : combination(e, m, 1..n), row)

(* The larger of numerators and denominators sets the number of blocks, and *)
(* block 0 adds the bus terms: there is one block even without monomials.   *)
mono_blocks(numer, denom) ==
    Larger(div_ceil(Larger(Len(numer.headers), Len(denom.headers)), Threads), 1)

logup_monomial(numer, denom, interactions, row) ==
    LET all == {i - 1 : i \in DOMAIN interactions}
        blocks == mono_blocks(numer, denom)
        bus_term_sum == [i \in all |-> IF 0 \in Blocks(blocks) THEN bus_term(interactions[i + 1], row) ELSE 0]
    IN  [numer |-> sum_blocks(numer, blocks, Zeros(all),
                              LAMBDA m : combination(numer, m, all), row),
         denom |-> sum_blocks(denom, blocks, bus_term_sum,
                              LAMBDA m : denom_combination(denom, m, all, row), row)]
==============================================================================
