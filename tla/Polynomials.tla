----------------------------- MODULE Polynomials -----------------------------
(***************************************************************************)
(* Multilinear and prismalinear polynomials over a small field             *)
(* (poly_common.rs, prover/poly.rs, prover/sumcheck.rs).  Tables are       *)
(* arrays, points are sequences of challenges; a prismalinear polynomial   *)
(* has degree below 2^l_skip in its first variable and is linear in the    *)
(* others, and its table runs through the first variable first.            *)
(***************************************************************************)
EXTENDS Integers, Sequences, FiniteSets, TLC

-----------------------------------------------------------------------------
(***************************************************************************)
(* Arithmetic in a small prime field with a subgroup of order              *)
(* 2^TwoAdicity, and the arrays the provers keep, indexed from 0 as in the *)
(* code.  Base field and extension are one field here: nothing that is     *)
(* modelled depends on the degree of the extension.                        *)
(***************************************************************************)

CONSTANTS P,          \* the characteristic
          Generator,  \* of the multiplicative group
          TwoAdicity

ASSUME FieldAssumption ==
  /\ P \in Nat /\ P > 2
  /\ \A d \in 2 .. P - 1 : P % d # 0
  /\ Generator \in 1 .. P - 1
  /\ TwoAdicity \in Nat /\ (P - 1) % 2 ^ TwoAdicity = 0

Pow(x, n) ==
  LET pow[k \in Nat] == IF k = 0 THEN 1
                        ELSE LET h == pow[k \div 2]
                             IN  (h * h * (IF k % 2 = 1 THEN x ELSE 1)) % P
  IN  pow[n]

Recip(x) == Pow(x, P - 2)
Half(x) == (x * ((P + 1) \div 2)) % P

two_adic_generator(bits) == Pow(Generator, (P - 1) \div 2 ^ bits)

(* Sum and product of the first n terms.                                    *)
LOCAL Sums(n, f) ==
  LET sum[k \in 0 .. n] == IF k = 0 THEN 0 ELSE (sum[k - 1] + f[k - 1]) % P
  IN  sum[n]
SumTo(n, Term(_)) == Sums(n, [i \in 0 .. n - 1 |-> Term(i)])

LOCAL Products(n, f) ==
  LET prod[k \in 0 .. n] == IF k = 0 THEN 1 ELSE (prod[k - 1] * f[k - 1]) % P
  IN  prod[n]
ProductTo(n, Term(_)) == Products(n, [i \in 0 .. n - 1 |-> Term(i)])

(* An array of n elements; @@ makes TLC compute them once.                  *)
Array(n, Elem(_)) == [i \in 0 .. n - 1 |-> Elem(i)] @@ <<>>
Size(a) == Cardinality(DOMAIN a)

(* Step(i, v) for i = 0 .. n - 1 in turn.                                    *)
Iterate(n, v, Step(_, _)) ==
  LET it[k \in 0 .. n] == IF k = 0 THEN v ELSE Step(k - 1, it[k - 1])
  IN  it[n]

Log2(n) == CHOOSE k \in 0 .. n : 2 ^ k = n
Bit(i, j) == (i \div 2 ^ j) % 2
Flip(i) == IF i % 2 = 0 THEN i + 1 ELSE i - 1

-----------------------------------------------------------------------------

horner_eval(coeffs, x) ==
  LET h[k \in 0 .. Size(coeffs)] ==
        IF k = Size(coeffs) THEN 0 ELSE (h[k + 1] * x + coeffs[k]) % P
  IN  h[0]

Linear(v0, v1, x) == (v0 + (v1 - v0) * x) % P

interpolate_quadratic_at_012(e0, e1, e2, x) ==
  LET p == Half(e2 - 2 * e1 + e0)
  IN  ((p * x + (e1 - e0) - p) * x + e0) % P

(* Values on the subgroup of order 2^log, and back.                         *)
dft(coeffs, log) ==
  LET omega == two_adic_generator(log)
  IN  Array(2 ^ log, LAMBDA i : horner_eval(coeffs, Pow(omega, i)))

idft(values) ==
  LET n == Size(values)
      inv == Recip(two_adic_generator(Log2(n)))
  IN  Array(n, LAMBDA k : horner_eval(values, Pow(inv, k)) * Recip(n) % P)

(* The basis of the polynomials of degree below width on the points         *)
(* init * base^i: the quotients of the polynomial that vanishes on all of   *)
(* them, over denominators that are products of 1 - base^k.                 *)
lagrange_basis_from_geometric_points(base, width, init) ==
  LET points == Array(width, LAMBDA i : (init * Pow(base, i)) % P)
      root_poly == Iterate(width, Array(1, LAMBDA k : 1), LAMBDA i, p :
        Array(i + 2, LAMBDA k : ((IF k > 0 THEN p[k - 1] ELSE 0)
                                 - points[i] * (IF k <= i THEN p[k] ELSE 0)) % P))
      prefix == Array(width, LAMBDA i : ProductTo(i, LAMBDA k : 1 - Pow(base, k + 1)))
      Quotient(i) == LET q[k \in 0 .. width - 1] ==
                           IF k = width - 1 THEN root_poly[width]
                           ELSE (root_poly[k + 1] + points[i] * q[k + 1]) % P
                     IN  q
      Denom(i) == (((IF i % 2 = 0 THEN 1 ELSE -1) * Pow(init, width - 1)
                     * Pow(base, i * (width - 1) - (i * (i + 1)) \div 2)) % P)
                  * prefix[i] * prefix[width - 1 - i]
      Scaled(q, inv_denom) == Array(width, LAMBDA k : (q[k] * inv_denom) % P)
  IN  IF width = 1 THEN Array(1, LAMBDA i : Array(1, LAMBDA k : 1))
      ELSE Array(width, LAMBDA i : Scaled(Quotient(i), Recip(Denom(i) % P)))

(* Coefficients from the values on width cosets init * shift^i * D; row z   *)
(* of evals holds the values at the z-th element of each coset.             *)
from_geometric_cosets_evals_idft(evals, width, shift, init) ==
  LET height == Size(evals) \div width
      Column(i) == idft(Array(height, LAMBDA z : evals[(z * width) + i]))
      Unshifted(i, coeffs) ==
        Array(height, LAMBDA t : (coeffs[t] * Pow(Recip((init * Pow(shift, i)) % P), t)) % P)
      Across(columns, basis) == Array(height * width, LAMBDA at :
        SumTo(width, LAMBDA i : columns[i][at % height] * basis[i][at \div height]))
  IN  Across(Array(width, LAMBDA i : Unshifted(i, Column(i))),
             lagrange_basis_from_geometric_points(Pow(shift, height), width, Pow(init, height)))

exp_powers_of_2(z, n) == [i \in 1 .. n |-> Pow(z, 2 ^ (i - 1))]

(* A product over the variables, for every vertex of the hypercube.         *)
OverCube(x, At0(_), At1(_)) ==
  Array(2 ^ Len(x), LAMBDA b : ProductTo(Len(x), LAMBDA i :
    IF Bit(b, i) = 1 THEN At1(x[i + 1]) ELSE At0(x[i + 1])))

evals_eq_hypercube(x) == OverCube(x, LAMBDA t : 1 - t, LAMBDA t : t)
evals_mobius_eq_hypercube(u) == OverCube(u, LAMBDA t : 1 - 2 * t, LAMBDA t : t)

eval_eq_mle(x, y) ==
  ProductTo(Len(x), LAMBDA i : 1 - x[i + 1] - y[i + 1] + 2 * x[i + 1] * y[i + 1])

eval_mobius_eq_mle(u, x) ==
  ProductTo(Len(u), LAMBDA i : (1 - 2 * u[i + 1]) * (1 - x[i + 1]) + u[i + 1] * x[i + 1])

(* The value at x of the multilinear polynomial with these coefficients.    *)
eval_coeffs_at_point(coeffs, x) ==
  SumTo(Size(coeffs), LAMBDA i :
    coeffs[i] * ProductTo(Len(x), LAMBDA j : IF Bit(i, j) = 1 THEN x[j + 1] ELSE 1))

eval_mle_evals_at_point(evals, x) ==
  LET eq == evals_eq_hypercube(x)
  IN  SumTo(Size(evals), LAMBDA b : evals[b] * eq[b])

coeffs_to_evals(a) ==
  Iterate(Log2(Size(a)), a, LAMBDA b, v :
    Array(Size(a), LAMBDA i : IF Bit(i, b) = 1 THEN (v[i] + v[i - 2 ^ b]) % P ELSE v[i]))

evals_to_coeffs(a) ==
  Iterate(Log2(Size(a)), a, LAMBDA b, v :
    Array(Size(a), LAMBDA i : IF Bit(i, b) = 1 THEN (v[i] - v[i - 2 ^ b]) % P ELSE v[i]))

Chunk(a, x, len) == Array(len, LAMBDA i : a[x * len + i])

(* Evaluations on D x {0,1}^n to the coefficients that are encoded.         *)
eval_to_coeff_rs_message(l_skip, evals) ==
  LET len == 2 ^ l_skip
      msg == Array(Size(evals) \div len, LAMBDA x : coeffs_to_evals(idft(Chunk(evals, x, len))))
  IN  Array(Size(evals), LAMBDA i : msg[i \div len][i % len])

(* eq on the skip domain of order 2^l, and its value with the point 1.      *)
eval_eq_uni(l, x, y) ==
  (Recip(2 ^ l % P) * Iterate(l, 1, LAMBDA i, res :
     LET xp == Pow(x, 2 ^ i)  yp == Pow(y, 2 ^ i)
     IN  ((xp + yp) * res + (xp - 1) * (yp - 1)) % P)) % P

eval_eq_uni_at_one(l, x) ==
  (Recip(2 ^ l % P) * ProductTo(l, LAMBDA i : Pow(x, 2 ^ i) + 1)) % P

(* The indicator that a point of D lies in the subgroup of a small trace.   *)
eval_in_uni(l_skip, n, z) ==
  IF n < 0 THEN eval_eq_uni_at_one(-n, Pow(z, 2 ^ (l_skip + n))) ELSE 1

eval_eq_prism(l, x, y) ==
  (eval_eq_uni(l, x[1], y[1]) * eval_eq_mle(Tail(x), Tail(y))) % P

(* eq and its rotation on the hypercube, from the last variable down.       *)
eval_eq_rot_cube(x, y) ==
  Iterate(Len(x), [eq |-> 1, rot |-> 1], LAMBDA k, v :
    LET i == Len(x) - k
    IN  [eq  |-> v.eq * (x[i] * y[i] + (1 - x[i]) * (1 - y[i])) % P,
         rot |-> (((x[i] * (1 - y[i])) % P) * v.eq + (((1 - x[i]) * y[i]) % P) * v.rot) % P])

eval_rot_kernel_prism(l, x, y) ==
  LET y_rot == (y[1] * two_adic_generator(l)) % P
      cube == eval_eq_rot_cube(Tail(x), Tail(y))
  IN  (eval_eq_uni(l, x[1], y_rot) * cube.eq
       + ((eval_eq_uni_at_one(l, x[1]) * eval_eq_uni_at_one(l, y_rot)) % P)
           * (cube.rot - cube.eq)) % P

(* The value at r of the univariate polynomial with these values on D.      *)
eval_on_domain(values, r) == horner_eval(idft(values), r)

(* The table of a column with its first variable bound to r; a column       *)
(* shorter than D is repeated.                                              *)
fold_ple_evals(l_skip, col, r) ==
  LET height == Size(col)
      lifted == IF height < 2 ^ l_skip THEN 2 ^ l_skip ELSE height
  IN  Array(lifted \div 2 ^ l_skip, LAMBDA x :
        eval_on_domain(Array(2 ^ l_skip, LAMBDA z : col[(x * 2 ^ l_skip + z) % height]), r))

fold_mle_evals(col, r) ==
  IF Size(col) <= 1 THEN col
  ELSE Array(Size(col) \div 2, LAMBDA y : Linear(col[2 * y], col[2 * y + 1], r))

=============================================================================
