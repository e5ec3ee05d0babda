-------------------------- MODULE MCConstraintCompiler --------------------------
(* Small AIRs. The first writes every shape of two operations over a column and *)
(* the constants the builder simplifies; the second writes enough products for  *)
(* slots to be reused and values to be read late; the third sends interactions. *)
EXTENDS ConstraintCompiler

a == Column("a")
b == Column("b")

Small(leaves, ops, size, sorted, roots, sends) ==
    [leaves |-> leaves, ops |-> ops, size |-> size, sorted |-> sorted,
     roots |-> roots, sends |-> sends]

MCAirs ==
    {Small(<<a, Constant(0), Constant(1)>>, {"Add", "Sub", "Mul", "Neg"}, 2, FALSE, 1, 0),
     Small(<<a, Constant(100)>>, {"Add", "Mul", "Neg"}, 3, TRUE, 1, 0),
     Small(<<a, Selector("first")>>, {"Mul"}, 4, TRUE, 1, 0),
     Small(<<a, b>>, {"Sub"}, 2, FALSE, 2, 0),
     Small(<<a, Constant(0)>>, {"Sub", "Mul"}, 1, FALSE, 1, 1),
     Small(<<a, Public("v")>>, {"Mul"}, 1, TRUE, 0, 2)}

Row(x, y, s, c) ==
    [columns |-> [n \in {"a", "b", "v", "first"} |->
                  CASE n = "a" -> x [] n = "first" -> s [] OTHER -> y],
     challenges |-> c]
MCRows == {Row(17, 5, 1, <<1, 29, 33>>), Row(60, 43, 88, <<1, 71, 92>>)}
==============================================================================
