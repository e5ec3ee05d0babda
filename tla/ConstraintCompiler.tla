--------------------------- MODULE ConstraintCompiler ---------------------------
(* An AIR on its way to the device: its author writes expressions, asserts some *)
(* of them zero and may send one interaction; keygen builds the DAG of the      *)
(* verifying key; the key transfer compiles rules and monomials; and the prover *)
(* evaluates a row with one of the kernels, whichever the height selects.       *)
EXTENDS Monomials

CONSTANTS
    Airs,       \* what the author has: [leaves, ops, size, roots, sends]
    Rows        \* values of the leaves: [columns, challenges]

VARIABLES
    author,     \* the kind of AIR, its expressions, constraints and interactions
    stage,      \* "eval", "keygen", "transfer", "ready", "evaluated" or "panicked"
    vk,         \* the DAG of the verifying key
    device,     \* what the transfer uploads
    launch      \* the last kernel, its row and its result
vars == <<author, stage, vk, device, launch>>

None == [kernel |-> "none"]
NotBuilt == [nodes |-> <<>>]

Init ==
    /\ \E a \in Airs : author = [air |-> a, exprs |-> a.leaves, constraints |-> <<>>,
                                 interactions |-> <<>>]
    /\ stage = "eval"
    /\ vk = NotBuilt
    /\ device = NotBuilt
    /\ launch = None

-------------------------------------------------------------------------------
(* Air::eval on the symbolic builder *)

Written == Len(author.exprs) - Len(author.air.leaves)

(* One more expression out of those at hand. With sorted operands the author *)
(* writes only one of x op y and y op x.                                     *)
Write ==
    /\ stage = "eval" /\ Written < author.air.size
    /\ \E op \in author.air.ops, i, j \in DOMAIN author.exprs :
         /\ author.air.sorted => i <= j
         /\ op = "Neg" => i = j
         /\ author' = [author EXCEPT !.exprs = Append(@,
              IF op = "Neg" THEN Negation(@[i]) ELSE Binary(op, @[i], @[j]))]
    /\ UNCHANGED <<stage, vk, device, launch>>

(* assert_zero pushes a constraint; the same expression may be pushed twice. *)
AssertZero ==
    /\ stage = "eval" /\ Written = author.air.size
    /\ Len(author.constraints) < author.air.roots /\ author.interactions = <<>>
    /\ \E i \in DOMAIN author.exprs :
         author' = [author EXCEPT !.constraints = Append(@, author.exprs[i])]
    /\ UNCHANGED <<stage, vk, device, launch>>

PushInteraction ==
    /\ stage = "eval" /\ Written = author.air.size
    /\ Len(author.interactions) < author.air.sends
    /\ \E count, field \in DOMAIN author.exprs, arity \in 0..2 :
         author' = [author EXCEPT !.interactions = Append(@,
           [count |-> author.exprs[count], bus_index |-> Len(@),
            message |-> SubSeq(<<author.exprs[field], author.exprs[Len(author.exprs)]>>, 1, arity)])]
    /\ UNCHANGED <<stage, vk, device, launch>>

EvalDone ==
    /\ stage = "eval" /\ Written = author.air.size
    /\ author.constraints # <<>> \/ author.interactions # <<>>
    /\ stage' = "keygen"
    /\ UNCHANGED <<author, vk, device, launch>>

Keygen ==
    /\ stage = "keygen"
    /\ vk' = build_symbolic_constraints_dag(author.constraints, author.interactions)
    /\ stage' = "transfer"
    /\ UNCHANGED <<author, device, launch>>

-------------------------------------------------------------------------------
(* AirDataGpu::new *)

has_constraints == vk.constraint_idx # <<>>
has_interactions == vk.interactions # <<>>

(* to_device_on refuses an empty vector; only the interactions are checked. *)
uploads(e) == e.headers # <<>> /\ e.variables # <<>> /\ e.terms # <<>>

Transfer ==
    /\ stage = "transfer"
    /\ LET sent == symbolic_interactions(vk)
           zc == zerocheck_expanded(vk)
       IN  IF has_constraints /\ ~uploads(zc)
           THEN stage' = "panicked" /\ UNCHANGED device
           ELSE /\ stage' = "ready"
                /\ device' =
                     [zerocheck_round0 |-> eval_rules(vk, TRUE),
                      zerocheck_mle |-> eval_rules(vk, FALSE),
                      zerocheck_monomials |-> zc,
                      interaction_rules |-> interaction_eval_rules(sent),
                      numer_monomials |-> numer_expanded(sent),
                      denom_monomials |-> denom_expanded(sent)]
    /\ UNCHANGED <<author, vk, launch>>

-------------------------------------------------------------------------------
(* The prover *)

evaluate(kernel, row) ==
    LET sent == symbolic_interactions(vk)
        n == Len(vk.constraint_idx)
    IN  CASE kernel = "zerocheck_round0"   -> acc_constraints(device.zerocheck_round0, row)
          [] kernel = "zerocheck_mle"      -> zerocheck_mle(device.zerocheck_mle, row)
          [] kernel = "zerocheck_monomial" -> zerocheck_monomial(device.zerocheck_monomials, n, row)
          [] kernel = "logup_gkr_input"    -> logup_mle(device.interaction_rules, row)
          [] kernel = "logup_round0"       -> logup_round0(logup_round0_rules(sent), sent, row)
          [] kernel = "logup_monomial"     ->
               logup_monomial(device.numer_monomials, device.denom_monomials, sent, row)

ZerocheckKernels == {"zerocheck_round0", "zerocheck_mle", "zerocheck_monomial"}
LogupKernels == {"logup_gkr_input", "logup_round0", "logup_monomial"}

Launch ==
    /\ stage = "ready"
    /\ \E row \in Rows, kernel \in ZerocheckKernels \cup LogupKernels :
         /\ kernel \in ZerocheckKernels => has_constraints
         /\ kernel \in LogupKernels => has_interactions
         /\ launch' = [kernel |-> kernel, row |-> row, result |-> evaluate(kernel, row)]
    /\ stage' = "evaluated"
    /\ UNCHANGED <<author, vk, device>>

(* The host takes the result and may evaluate another row. *)
Collect ==
    /\ stage = "evaluated"
    /\ stage' = "ready"
    /\ launch' = None
    /\ UNCHANGED <<author, vk, device>>

Next == Write \/ AssertZero \/ PushInteraction \/ EvalDone \/ Keygen \/ Transfer \/ Launch \/ Collect
Spec == Init /\ [][Next]_vars

-------------------------------------------------------------------------------
(* Properties *)

Precedes == \A i \in DOMAIN vk.nodes : \A o \in ToSet(operands(vk.nodes[i])) : o < i
OnRows(f(_)) == [row \in Rows |-> f(row)]
NodeOnRows(i) == OnRows(LAMBDA row : eval_nodes(vk.nodes, row)[i])
ExprOnRows(e) == OnRows(LAMBDA row : eval_expr(e, row))

(* The DAG says what the author wrote: folding, the rules for 0, 1 and double *)
(* negation, sharing of equal nodes and the sorting of the roots lose no      *)
(* constraint and change no value, and every node follows its operands.       *)
DagComputes ==
    vk # NotBuilt =>
      /\ Precedes
      /\ \A k \in 2..Len(vk.constraint_idx) : vk.constraint_idx[k - 1] < vk.constraint_idx[k]
      /\ {NodeOnRows(i) : i \in ToSet(vk.constraint_idx)}
           = {ExprOnRows(c) : c \in ToSet(author.constraints)}
      /\ \A k \in DOMAIN author.interactions :
           LET i == author.interactions[k]
               d == vk.interactions[k]
           IN  /\ NodeOnRows(d.count) = ExprOnRows(i.count)
               /\ [j \in DOMAIN d.message |-> NodeOnRows(d.message[j])]
                    = [j \in DOMAIN i.message |-> ExprOnRows(i.message[j])]

(* What the verifier folds with the powers of lambda is what each of the three *)
(* zerocheck kernels sums: every constraint once, with its own power, at the   *)
(* value of its node, whatever was buffered, overwritten or expanded on the way *)
(* (the batched sums of batch_constraints.rs:339).                             *)
ZerocheckAgrees ==
    launch.kernel \in ZerocheckKernels =>
      launch.result = [k \in DOMAIN vk.constraint_idx |->
                         eval_nodes(vk.nodes, launch.row)[vk.constraint_idx[k]]]

(* A message folded with beta and closed by its bus.                           *)
message_value(i, row) ==
    FoldLeft(LAMBDA s, j : FAdd(s, FMul(row.challenges[j], eval_expr(i.message[j], row))),
             FMul(row.challenges[Len(i.message) + 1], i.bus_index + 1),
             [j \in DOMAIN i.message |-> j])

(* The three logup evaluations give every interaction of the AIR its own       *)
(* numerator, the count, and its own denominator, the message folded with beta *)
(* and closed by the bus: also when expressions are shared between fields,     *)
(* counts and interactions, or vanish.                                         *)
LogupAgrees ==
    launch.kernel \in LogupKernels =>
      \A k \in DOMAIN author.interactions :
        LET i == author.interactions[k]
        IN  /\ launch.result.numer[k - 1] = eval_expr(i.count, launch.row)
            /\ launch.result.denom[k - 1] = message_value(i, launch.row)
==============================================================================
