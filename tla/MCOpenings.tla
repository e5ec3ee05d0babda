------------------------------ MODULE MCOpenings ------------------------------
(* Small setups for Openings: AIRs with traces that satisfy them.           *)
EXTENDS Openings

T(coeff, factors) == [coeff |-> coeff % P, vars |-> factors]
Here(part, j) == <<part, j, 0>>
Next_(part, j) == <<part, j, 1>>
First == Here(0, 0)
Transition == Here(0, 1)
LastRow == Here(0, 2)
Is(value) == <<T(value, <<>>)>>

Matrix(columns, height) ==
  [values |-> Array(Len(columns) * height, LAMBDA i : columns[(i \div height) + 1][i % height]),
   width |-> Len(columns), height |-> height]
Column(height, Cell(_)) == Array(height, LAMBDA i : Cell(i) % P)

Air(parts, log_height, need_rot, degree, sizes, constraints, interactions) ==
  [parts |-> parts, log_height |-> log_height, need_rot |-> need_rot, degree |-> degree,
   rules_len |-> sizes[1], buffer_size |-> sizes[2],
   constraints |-> constraints, interactions |-> interactions]

Bus(bus, count, message) == [bus |-> bus, count |-> count, message |-> message]

(* a' = a^2 + 1, beside a cached part with 2 a and 3 a; the rows but the    *)
(* first are received and all but the last are sent.                        *)
Chain(log_height) ==
  LET height == 2 ^ log_height
      a == Iterate(height - 1, <<3>>, LAMBDA j, cells : Append(cells, (cells[j + 1] * cells[j + 1] + 1) % P))
      Times(k) == Column(height, LAMBDA i : k * a[i + 1])
      Main == 2
  IN  Air(<<Matrix(<<Times(1)>>, height), Matrix(<<Times(2), Times(3)>>, height)>>, log_height, TRUE, 3, <<3, 2>>,
        << <<T(1, <<Transition, Next_(Main, 0)>>), T(-1, <<Transition, Here(Main, 0), Here(Main, 0)>>),
             T(-1, <<Transition>>)>>,
           <<T(1, <<First, Here(Main, 0)>>), T(-3, <<First>>)>>,
           <<T(2, <<Here(Main, 0)>>), T(-1, <<Here(1, 0)>>)>>,
           <<T(3, <<Here(Main, 0)>>), T(-1, <<Here(1, 1)>>)>> >>,
        <<Bus(1, <<T(1, <<Transition>>)>>, << <<T(1, <<Next_(Main, 0)>>)>> >>),
          Bus(1, <<T(-1, <<>>), T(1, <<First>>)>>, << <<T(1, <<Here(Main, 0)>>)>> >>)>>)

(* b = a^2: sent a times, and received by the AIR given count -1.           *)
Square(log_height, bus, counts, cached) ==
  LET height == 2 ^ log_height
      a == Column(height, LAMBDA i : i + 5)
      b == Column(height, LAMBDA i : (i + 5) * (i + 5))
      parts == IF cached THEN <<Matrix(<<a>>, height), Matrix(<<b>>, height)>> ELSE <<Matrix(<<a, b>>, height)>>
      A == IF cached THEN Here(2, 0) ELSE Here(1, 0)
      B == IF cached THEN Here(1, 0) ELSE Here(1, 1)
      Message == << <<T(1, <<A>>)>>, <<T(1, <<B>>), T(1, <<A>>)>> >>
  IN  Air(parts, log_height, FALSE, 2, <<1, 1>>,
        << <<T(1, <<A, A>>), T(-1, <<B>>)>> >>,
        [k \in DOMAIN counts |-> Bus(bus, <<T(counts[k], <<A>>)>>, Message)])

(* A counter: it needs the next row, if there is one, and talks to itself.  *)
Counter(log_height, start, counts) ==
  LET height == 2 ^ log_height
  IN  Air(<<Matrix(<<Column(height, LAMBDA i : start + i)>>, height)>>, log_height, TRUE, 2, <<1, 1>>,
        << <<T(1, <<Transition, Next_(1, 0)>>), T(-1, <<Transition, Here(1, 0)>>), T(-1, <<Transition>>)>>,
           <<T(1, <<LastRow, Here(1, 0)>>), T(-(start + height - 1), <<LastRow>>)>> >>,
        [k \in DOMAIN counts |-> Bus(4, Is(counts[k]), << <<T(1, <<Here(1, 0)>>)>> >>)])

(* (a + b + c)^3 = 0 has ten monomials and few rules.                       *)
Cubed(log_height) ==
  LET height == 2 ^ log_height
      a == Column(height, LAMBDA i : 7 * i * i + 2)
      b == Column(height, LAMBDA i : 3 * i + 11)
      c == Column(height, LAMBDA i : -(7 * i * i + 2) - (3 * i + 11))
      X == Here(1, 0)
      Y == Here(1, 1)
      Z == Here(1, 2)
  IN  Air(<<Matrix(<<a, b, c>>, height)>>, log_height, FALSE, 3, <<4, 3>>,
        << <<T(1, <<X, X, X>>), T(1, <<Y, Y, Y>>), T(1, <<Z, Z, Z>>), T(3, <<X, X, Y>>), T(3, <<X, X, Z>>),
             T(3, <<Y, Y, X>>), T(3, <<Y, Y, Z>>), T(3, <<Z, Z, X>>), T(3, <<Z, Z, Y>>), T(6, <<X, Y, Z>>)>> >>,
        <<Bus(3, Is(1), << <<T(1, <<X>>)>>, <<T(1, <<Y>>)>> >>),
          Bus(3, Is(-1), << <<T(1, <<X>>)>>, <<T(-1, <<X>>), T(-1, <<Z>>)>> >>)>>)

(* Booleans, as many columns as wanted.                                     *)
Bits(log_height, width) ==
  LET height == 2 ^ log_height
  IN  Air(<<Matrix([j \in 1 .. width |-> Column(height, LAMBDA i : Bit(5 * j + i, j % 3))], height)>>,
        log_height, FALSE, 2, <<width, 1>>,
        [j \in 1 .. width |-> <<T(1, <<Here(1, j - 1), Here(1, j - 1)>>), T(-1, <<Here(1, j - 1)>>)>>], <<>>)

(* Nothing to prove but the openings.                                       *)
Plain(widths, log_height, salt) ==
  LET height == 2 ^ log_height
      Cells(part, j) == Column(height, LAMBDA i : 7 * i * i + 5 * i + 13 * j + 29 * part + salt)
  IN  Air([part \in DOMAIN widths |-> Matrix([j \in 1 .. widths[part] |-> Cells(part, j)], height)],
        log_height, FALSE, 0, <<0, 0>>, <<>>, <<>>)

Setup(l_skip, n_stack, k_whir, queries, scheme, caches, mem, max_constraint_degree, salt, airs) ==
  [l_skip |-> l_skip, n_stack |-> n_stack, log_blowup |-> 1, k_whir |-> k_whir,
   queries |-> queries, scheme |-> scheme, cache_stacked_matrix |-> caches[1],
   cache_rs_code_matrix |-> caches[2], save_memory |-> mem[1], gkr_mem |-> mem[2],
   interaction_mem |-> mem[3], max_constraint_degree |-> max_constraint_degree, salt |-> salt, airs |-> airs]

(* Columns of every size against the skip domain, one that fills a stacked  *)
(* column, cached parts, two rounds of queries with 2 or 4 rows; AIRs that  *)
(* each kernel of the batch sumcheck gets, alone and with others, with and  *)
(* without memory to spare.                                                 *)
SmallSetups ==
  {Setup(1, 2, 1, <<2, 1>>, "poseidon", <<FALSE, FALSE>>, <<FALSE, 0, 6>>, 3, 1,
         <<Chain(3), Square(1, 2, <<1, -1>>, FALSE), Plain(<<2>>, 0, 5)>>),
   Setup(2, 2, 2, <<2, 1>>, "poseidon", <<TRUE, FALSE>>, <<TRUE, 50, 100>>, 3, 2,
         <<Bits(4, 1), Square(3, 1, <<1, -1>>, TRUE), Counter(1, 9, <<1, -1>>), Counter(0, 4, <<>>)>>),
   Setup(0, 3, 1, <<1, 2, 1>>, "bn254", <<FALSE, TRUE>>, <<TRUE, 30, 4>>, 3, 3,
         <<Cubed(2), Bits(2, 1), Square(1, 4, <<1>>, FALSE), Square(1, 4, <<-1>>, TRUE)>>),
   Setup(1, 1, 1, <<2>>, "bn254", <<FALSE, FALSE>>, <<FALSE, 0, 6>>, 2, 4, <<Bits(1, 9), Counter(0, 2, <<>>)>>),
   Setup(1, 2, 1, <<1, 1, 2>>, "poseidon", <<TRUE, TRUE>>, <<FALSE, 0, 6>>, 3, 6,
         <<Cubed(2), Square(2, 6, <<2, -2, 1, -1>>, TRUE), Counter(1, 7, <<>>)>>),
   Setup(2, 0, 2, <<3>>, "bn254", <<TRUE, FALSE>>, <<TRUE, 10, 6>>, 2, 9,
         <<Bits(2, 1), Square(1, 2, <<1, -1>>, FALSE), Plain(<<1>>, 1, 8)>>)}

MCChallenges ==
  <<11, 23, 45, 17, 13, 31, 47, 59, 71, 83, 29, 7, 53, 67, 5, 41, 89, 19, 37, 61, 74, 43, 79>>
===============================================================================
