----------------------- MODULE VirtualMemoryPoolProofs -----------------------
(***************************************************************************)
(* Theorems about the virtual memory pool, for any chunks, requests,       *)
(* streams and kernels and any failures of the driver: the state is well   *)
(* typed, regions never overlap, and malloc_internal always finds the      *)
(* region that defragmentation prepared for it.  One lemma per action      *)
(* shows that it preserves the inductive invariant IInv; before them, what *)
(* cutting, merging and inserting regions does to the intervals of         *)
(* addresses they claim.                                                   *)
(*                                                                         *)
(* Neither that regions are disjoint nor that malloc_internal finds its    *)
(* region is inductive alone.  The first rests on the hole a call is       *)
(* filling being claimed as well (Claims); the second on what each stage   *)
(* of the call has gathered so far (CallInv) and on the layout: the new    *)
(* pages and the remapped ones meet in one region only because nothing     *)
(* free lies in between.                                                   *)
(***************************************************************************)
EXTENDS VirtualMemoryPool, FiniteSetTheorems, WellFoundedInduction, TLAPS

(* A claim is an interval of addresses with its kind; zombies are told      *)
(* apart by their event.                                                    *)
Claim(kind, p, n, tag) == [kind |-> kind, lo |-> p, n |-> n, tag |-> tag]
In(x, c) == c.lo <= x /\ x < c.lo + c.n

FreeClaims == {Claim("free", p, free_regions[p].size, 0) : p \in DOMAIN free_regions}
MallocClaims ==
  {Claim("malloc", p, malloc_regions[p].size, 0) : p \in DOMAIN malloc_regions}
UnmappedClaims ==
  {Claim("unmapped", p, unmapped_regions[p], 0) : p \in DOMAIN unmapped_regions}
ZombieClaims == {Claim("zombie", z.ptr, z.size, z.event) : z \in zombie_regions}
HoleClaims ==
  CASE call.pc = "create"  -> {Claim("hole", call.dst, call.size, 0)}
    [] call.pc = "harvest" ->
         {Claim("hole", call.goal, call.size - (call.goal - call.dst), 0)}
    [] OTHER -> {}

Claims == FreeClaims \cup MallocClaims \cup UnmappedClaims \cup ZombieClaims \cup HoleClaims

Disjoint(R) == \A r, q \in R : \A x \in Int : In(x, r) /\ In(x, q) => r = q
Within(R, X) == \A r \in R : \A x \in Int : In(x, r) => x \in X

Layout == Disjoint(Claims) /\ Within(Claims, RootPages)

FreeRegion(num) == [size : Nat \ {0}, stream : AllStreams, id : 0 .. num - 1]

TypeInv ==
  /\ roots \subseteq VaBase
  /\ DOMAIN active_pages \subseteq Address
  /\ free_num \in Nat
  /\ DOMAIN free_regions \subseteq Int
  /\ free_regions \in [DOMAIN free_regions -> FreeRegion(free_num)]
  /\ DOMAIN malloc_regions \subseteq Int
  /\ malloc_regions \in [DOMAIN malloc_regions -> [size : Request, stream : Stream]]
  /\ DOMAIN unmapped_regions \subseteq Int
  /\ unmapped_regions \in [DOMAIN unmapped_regions -> Nat \ {0}]
  /\ zombie_regions \subseteq [ptr : Int, size : Nat \ {0}, event : 0 .. free_num - 1]

(* The stage of the call: what is created, harvested and still missing.     *)
InCall == call.pc \notin {"idle", "dropped"}
Growing == call.pc \in {"create", "harvest"}

(* A call is a record with these fields.                                    *)
CallShape ==
  call = [pc |-> call.pc, stream |-> call.stream, size |-> call.size,
          scan |-> call.scan, dst |-> call.dst, goal |-> call.goal,
          next |-> call.next, ptr |-> call.ptr, left |-> call.left,
          moves |-> call.moves]

CallInv ==
  /\ CallShape
  /\ call.pc \in Stage
  /\ call.scan \subseteq zombie_regions
  /\ InCall => call.stream \in Stream /\ call.size \in Request
  /\ Growing =>
       /\ call.dst \in Int /\ call.goal \in Int /\ call.next \in Int
       /\ call.dst <= call.goal /\ call.goal <= call.dst + call.size
  /\ call.pc \in {"cleanup", "hole", "create"} =>
       call.ptr = NoPtr /\ DOMAIN call.moves = {}
  /\ call.pc = "create" => call.dst <= call.next /\ call.next <= call.goal
  /\ call.pc = "harvest" =>
       /\ call.left \in Nat
       /\ call.goal <= call.next
       /\ call.left = 0 => call.goal < call.next
       /\ DOMAIN call.moves = call.goal .. call.next - 1
       /\ call.ptr = NoPtr =>
            /\ call.goal = call.dst
            /\ call.next + call.left = call.dst + call.size
       /\ call.ptr # NoPtr =>
            /\ call.ptr \in DOMAIN free_regions
            /\ call.ptr <= call.dst
            /\ call.ptr < call.goal
            /\ call.ptr + free_regions[call.ptr].size = call.goal
            /\ free_regions[call.ptr].stream = call.stream
            /\ free_regions[call.ptr].size + (call.next - call.goal) + call.left = call.size
  /\ RegionFound

IInv == TypeInv /\ Layout /\ CallInv

-----------------------------------------------------------------------------
(* Maps.                                                                   *)

LEMMA WithDomain ==
  ASSUME NEW f, NEW k, NEW v
  PROVE  DOMAIN With(f, k, v) = DOMAIN f \cup {k}
  BY DEF With

LEMMA WithNew ==
  ASSUME NEW f, NEW k, NEW v
  PROVE  With(f, k, v)[k] = v
  BY DEF With

LEMMA WithOld ==
  ASSUME NEW f, NEW k, NEW v, NEW x \in DOMAIN f, x # k
  PROVE  With(f, k, v)[x] = f[x]
  BY DEF With

LEMMA WithType ==
  ASSUME NEW f, NEW k, NEW R, NEW v \in R, f \in [DOMAIN f -> R]
  PROVE  With(f, k, v) \in [DOMAIN f \cup {k} -> R]
  BY DEF With

LEMMA WithoutDomain ==
  ASSUME NEW f, NEW K
  PROVE  DOMAIN Without(f, K) = DOMAIN f \ K
  BY DEF Without

LEMMA WithoutOld ==
  ASSUME NEW f, NEW K, NEW x \in DOMAIN f \ K
  PROVE  Without(f, K)[x] = f[x]
  BY DEF Without

LEMMA WithoutType ==
  ASSUME NEW f, NEW K, NEW R, f \in [DOMAIN f -> R]
  PROVE  Without(f, K) \in [DOMAIN f \ K -> R]
  BY DEF Without

(* Intervals rearranged within the intervals they replace stay disjoint.    *)
LEMMA Rearranged ==
  ASSUME NEW R, NEW D \in SUBSET R, NEW A, NEW S, NEW X,
         Disjoint(R), Within(R, X), Disjoint(A),
         \A a \in A : \A x \in Int : In(x, a) => \E d \in D : In(x, d),
         S \subseteq (R \ D) \cup A
  PROVE  Disjoint(S) /\ Within(S, X)
<1>1. Within(S, X)
  BY DEF Within
<1>2. ASSUME NEW r \in S, NEW q \in S, NEW x \in Int, In(x, r), In(x, q)
      PROVE  r = q
  <2>1. CASE r \in A /\ q \in A
    BY <1>2, <2>1 DEF Disjoint
  <2>2. CASE r \in R \ D /\ q \in R \ D
    BY <1>2, <2>2 DEF Disjoint
  <2>3. CASE r \in A /\ q \in R \ D
    <3>1. PICK d \in D : In(x, d)
      BY <1>2, <2>3
    <3> QED
      BY <1>2, <2>3, <3>1 DEF Disjoint
  <2>4. CASE q \in A /\ r \in R \ D
    <3>1. PICK d \in D : In(x, d)
      BY <1>2, <2>4
    <3> QED
      BY <1>2, <2>4, <3>1 DEF Disjoint
  <2> QED
    BY <2>1, <2>2, <2>3, <2>4
<1> QED
  BY <1>1, <1>2 DEF Disjoint

-----------------------------------------------------------------------------
(* Regions.                                                                *)

LEMMA CutFrontMap ==
  ASSUME NEW f, NEW p \in DOMAIN f, NEW n \in Nat, NEW num,
         DOMAIN f \subseteq Int, f \in [DOMAIN f -> FreeRegion(num)]
  PROVE  /\ DOMAIN CutFront(f, p, n) \subseteq Int
         /\ CutFront(f, p, n) \in [DOMAIN CutFront(f, p, n) -> FreeRegion(num)]
         /\ \A q \in DOMAIN CutFront(f, p, n) :
              \/ q \in DOMAIN f \ {p} /\ CutFront(f, p, n)[q] = f[q]
              \/ /\ q = p + n
                 /\ f[p].size > n
                 /\ CutFront(f, p, n)[q].size = f[p].size - n
         /\ \A q \in DOMAIN f \ {p} :
              q # p + n \/ f[p].size <= n =>
                q \in DOMAIN CutFront(f, p, n) /\ CutFront(f, p, n)[q] = f[q]
<1> DEFINE g == Without(f, {p})
           v == [f[p] EXCEPT !.size = @ - n]
<1>1. /\ DOMAIN g = DOMAIN f \ {p}
      /\ \A q \in DOMAIN f \ {p} : g[q] = f[q]
      /\ g \in [DOMAIN g -> FreeRegion(num)]
  <2>1. DOMAIN g = DOMAIN f \ {p}
    BY WithoutDomain
  <2>2. \A q \in DOMAIN f \ {p} : g[q] = f[q]
    BY WithoutOld
  <2>3. g \in [DOMAIN f \ {p} -> FreeRegion(num)]
    BY WithoutType
  <2> HIDE DEF g
  <2> QED
    BY <2>1, <2>2, <2>3
<1>2. f[p] \in FreeRegion(num)
  OBVIOUS
<1> f[p].size \in Nat
  BY <1>2 DEF FreeRegion
<1>3. CASE f[p].size > n
  <2>1. CutFront(f, p, n) = With(g, p + n, v)
    BY <1>3 DEF CutFront
  <2>2. v \in FreeRegion(num) /\ v.size = f[p].size - n
    BY <1>2, <1>3 DEF FreeRegion
  <2> HIDE DEF g, v
  <2>3. /\ DOMAIN With(g, p + n, v) = DOMAIN g \cup {p + n}
        /\ With(g, p + n, v)[p + n] = v
        /\ \A x \in DOMAIN g : x # p + n => With(g, p + n, v)[x] = g[x]
    <3>1. DOMAIN With(g, p + n, v) = DOMAIN g \cup {p + n}
      BY WithDomain
    <3>2. With(g, p + n, v)[p + n] = v
      BY WithNew
    <3>3. \A x \in DOMAIN g : x # p + n => With(g, p + n, v)[x] = g[x]
      BY WithOld
    <3> QED
      BY <3>1, <3>2, <3>3
  <2>4. With(g, p + n, v) \in [DOMAIN g \cup {p + n} -> FreeRegion(num)]
    BY <1>1, <2>2, WithType
  <2> QED
    BY <1>1, <1>3, <2>1, <2>2, <2>3, <2>4
<1>4. CASE ~(f[p].size > n)
  <2>1. CutFront(f, p, n) = g
    BY <1>4 DEF CutFront
  <2> HIDE DEF g
  <2> QED
    BY <1>1, <1>4, <2>1
<1> QED
  BY <1>3, <1>4

(* Addresses of free regions and of requests.                               *)
LEMMA RequestPositive == Request \subseteq Nat \ {0}
  BY PoolAssumption

LEMMA FreeTyped ==
  ASSUME TypeInv, NEW p \in DOMAIN free_regions
  PROVE  /\ p \in Int
         /\ free_regions[p] \in FreeRegion(free_num)
         /\ free_regions[p].size \in Nat \ {0}
  BY DEF TypeInv, FreeRegion

(* The interval [lo, hi) is made of [p, p + n) and regions K of sizes f.    *)
Covers(lo, hi, p, n, K, f) ==
  \A x \in Int : lo <= x /\ x < hi =>
    \/ p <= x /\ x < p + n
    \/ \E q \in K : q <= x /\ x < q + f[q]

(* Except at lo, the map u has only what f has, and nothing of K.           *)
Kept(u, f, K, lo) ==
  \A q \in DOMAIN u : q = lo \/ (q \in DOMAIN f \ K /\ u[q] = f[q])

(* The region that free_region_insert makes of (p, n) covers (p, n) and the *)
(* regions it absorbs, and nothing else.                                    *)
LEMMA Merged ==
  ASSUME TypeInv, NEW p \in Int, NEW n \in Nat \ {0}, NEW s
  PROVE  /\ Absorbed(p, n, s) \subseteq DOMAIN free_regions
         /\ MergedLo(p, n, s) \in Int /\ MergedLo(p, n, s) <= p
         /\ MergedHi(p, n, s) \in Int /\ p + n <= MergedHi(p, n, s)
         /\ Covers(MergedLo(p, n, s), MergedHi(p, n, s), p, n, Absorbed(p, n, s), FreeSize)
         /\ \A q \in DOMAIN free_regions :
              q < p /\ q + free_regions[q].size = p /\ free_regions[q].stream = s =>
                /\ MergedLo(p, n, s) \in DOMAIN free_regions
                /\ MergedLo(p, n, s) < p
                /\ MergedLo(p, n, s) + free_regions[MergedLo(p, n, s)].size = p
         /\ p + n \notin DOMAIN free_regions => MergedHi(p, n, s) = p + n
         /\ MergedLo(p, n, s) # p =>
              /\ MergedLo(p, n, s) \in DOMAIN free_regions
              /\ MergedLo(p, n, s) + free_regions[MergedLo(p, n, s)].size = p
              /\ free_regions[MergedLo(p, n, s)].stream = s
<1> DEFINE ab == Absorbed(p, n, s)
           lo == MergedLo(p, n, s)
           hi == MergedHi(p, n, s)
<1>1. \A q : q \in ab <=>
        /\ q \in DOMAIN free_regions
        /\ free_regions[q].stream = s
        /\ q = p + n \/ (q < p /\ q + free_regions[q].size = p)
  BY DEF Absorbed
<1>2. \A q \in DOMAIN free_regions : q \in Int /\ free_regions[q].size \in Nat \ {0}
  BY FreeTyped
<1>3. \/ lo = p /\ ~\E q \in ab : q < p
      \/ lo \in ab /\ lo < p
  BY DEF MergedLo
<1>4. \/ hi = p + n /\ p + n \notin ab
      \/ p + n \in ab /\ hi = p + n + free_regions[p + n].size
  BY DEF MergedHi
<1> HIDE DEF ab, lo, hi
<1>5. lo \in Int /\ lo <= p /\ hi \in Int /\ p + n <= hi
  BY <1>1, <1>2, <1>3, <1>4
<1>6. lo < p => lo \in DOMAIN free_regions /\ lo + free_regions[lo].size = p
                /\ free_regions[lo].stream = s
  BY <1>1, <1>2, <1>3
<1>7. Covers(lo, hi, p, n, ab, FreeSize)
  <2>1. \A q \in ab : FreeSize[q] = free_regions[q].size
    BY <1>1 DEF FreeSize
  <2> QED
    BY <1>1, <1>2, <1>3, <1>4, <2>1 DEF Covers
<1>8. \A q \in DOMAIN free_regions :
        q < p /\ q + free_regions[q].size = p /\ free_regions[q].stream = s => lo < p
  BY <1>1, <1>2, <1>3
<1>9. p + n \notin DOMAIN free_regions => hi = p + n
  BY <1>1, <1>4
<1>10. lo # p => lo < p
  BY <1>5
<1>11. ab \subseteq DOMAIN free_regions
  BY <1>1
<1> QED
  BY <1>5, <1>6, <1>7, <1>8, <1>9, <1>10, <1>11 DEF ab, lo, hi

LEMMA FreeInsert ==
  ASSUME TypeInv, NEW p \in Int, NEW n \in Nat \ {0}, NEW s \in AllStreams,
         free_region_insert(p, n, s)
  PROVE  LET lo == MergedLo(p, n, s)
             hi == MergedHi(p, n, s)
         IN /\ free_num' = free_num + 1
            /\ free_num' \in Nat
            /\ DOMAIN free_regions' \subseteq Int
            /\ free_regions' \in [DOMAIN free_regions' -> FreeRegion(free_num')]
            /\ lo \in DOMAIN free_regions'
            /\ free_regions'[lo].size = hi - lo
            /\ free_regions'[lo].stream = s
            /\ Kept(free_regions', free_regions, Absorbed(p, n, s), lo)
<1> DEFINE lo == MergedLo(p, n, s)
           hi == MergedHi(p, n, s)
           g  == Without(free_regions, Absorbed(p, n, s))
           v  == [size |-> hi - lo, stream |-> s, id |-> free_num]
<1>1. /\ free_num' = free_num + 1
      /\ free_regions' = With(g, lo, v)
  BY DEF free_region_insert, RecordFree
<1>2. free_num \in Nat /\ DOMAIN free_regions \subseteq Int
  BY DEF TypeInv
<1>3. FreeRegion(free_num) \subseteq FreeRegion(free_num + 1)
  BY <1>2 DEF FreeRegion
<1>4. free_regions \in [DOMAIN free_regions -> FreeRegion(free_num + 1)]
  BY <1>3 DEF TypeInv
<1>5. v \in FreeRegion(free_num + 1)
  <2>1. hi - lo \in Nat \ {0}
    BY Merged
  <2> QED
    BY <1>2, <2>1 DEF FreeRegion
<1>6. /\ DOMAIN g = DOMAIN free_regions \ Absorbed(p, n, s)
      /\ \A q \in DOMAIN g : g[q] = free_regions[q]
      /\ g \in [DOMAIN g -> FreeRegion(free_num + 1)]
  <2>1. DOMAIN g = DOMAIN free_regions \ Absorbed(p, n, s)
    BY WithoutDomain
  <2>2. \A q \in DOMAIN free_regions \ Absorbed(p, n, s) : g[q] = free_regions[q]
    BY WithoutOld
  <2>3. g \in [DOMAIN free_regions \ Absorbed(p, n, s) -> FreeRegion(free_num + 1)]
    BY <1>4, WithoutType
  <2> HIDE DEF g
  <2> QED
    BY <2>1, <2>2, <2>3
<1>7. lo \in Int
  BY Merged
<1>8. v.size = hi - lo /\ v.stream = s
  OBVIOUS
<1> HIDE DEF lo, hi, g, v
<1>9. /\ DOMAIN With(g, lo, v) = DOMAIN g \cup {lo}
      /\ With(g, lo, v)[lo] = v
      /\ \A x \in DOMAIN g : x # lo => With(g, lo, v)[x] = g[x]
  <2>1. DOMAIN With(g, lo, v) = DOMAIN g \cup {lo}
    BY WithDomain
  <2>2. With(g, lo, v)[lo] = v
    BY WithNew
  <2>3. \A x \in DOMAIN g : x # lo => With(g, lo, v)[x] = g[x]
    BY WithOld
  <2> QED
    BY <2>1, <2>2, <2>3
<1>10. With(g, lo, v) \in [DOMAIN g \cup {lo} -> FreeRegion(free_num + 1)]
  BY <1>5, <1>6, WithType
<1> SUFFICES /\ free_num' = free_num + 1
             /\ free_num' \in Nat
             /\ DOMAIN free_regions' \subseteq Int
             /\ free_regions' \in [DOMAIN free_regions' -> FreeRegion(free_num')]
             /\ lo \in DOMAIN free_regions'
             /\ free_regions'[lo].size = hi - lo
             /\ free_regions'[lo].stream = s
             /\ Kept(free_regions', free_regions, Absorbed(p, n, s), lo)
  BY DEF lo, hi
<1> QED
  BY <1>1, <1>2, <1>6, <1>7, <1>8, <1>9, <1>10 DEF Kept

(* insert_unmapped_region likewise.                                         *)
LEMMA HoleInsert ==
  ASSUME TypeInv, NEW p \in Int, NEW n \in Nat \ {0},
         NEW u, u = insert_unmapped_region(unmapped_regions, p, n)
  PROVE  \E lo, hi \in Int, ab \in SUBSET DOMAIN unmapped_regions :
           /\ DOMAIN u \subseteq Int
           /\ u \in [DOMAIN u -> Nat \ {0}]
           /\ lo < hi
           /\ Covers(lo, hi, p, n, ab, unmapped_regions)
           /\ u[lo] = hi - lo
           /\ Kept(u, unmapped_regions, ab, lo)
<1> DEFINE prev == EndingAt(unmapped_regions, p)
           next == BeginningAt(unmapped_regions, p + n)
           lo == IF prev = {} THEN p ELSE CHOOSE q \in prev : TRUE
           hi == IF next = {} THEN p + n ELSE p + n + unmapped_regions[p + n]
           ab == prev \cup next
           g  == Without(unmapped_regions, ab)
<1>1. u = With(g, lo, hi - lo)
  BY DEF insert_unmapped_region
<1>2. /\ DOMAIN unmapped_regions \subseteq Int
      /\ unmapped_regions \in [DOMAIN unmapped_regions -> Nat \ {0}]
      /\ \A q \in DOMAIN unmapped_regions : q \in Int /\ unmapped_regions[q] \in Nat \ {0}
  BY DEF TypeInv
<1>3. \A q : q \in prev <=>
        q \in DOMAIN unmapped_regions /\ q < p /\ q + unmapped_regions[q] = p
  BY DEF EndingAt
<1>4. \A q : q \in next <=> q \in DOMAIN unmapped_regions /\ q = p + n
  BY DEF BeginningAt
<1>5. \/ lo = p
      \/ lo \in prev /\ lo < p
  BY <1>3
<1>6. \/ hi = p + n
      \/ p + n \in next /\ hi = p + n + unmapped_regions[p + n]
  BY <1>4
<1>7. ab \subseteq DOMAIN unmapped_regions
  BY <1>3, <1>4
<1>8. DOMAIN g = DOMAIN unmapped_regions \ ab
  BY WithoutDomain
<1>9. \A q \in DOMAIN unmapped_regions \ ab : g[q] = unmapped_regions[q]
  BY WithoutOld
<1>10. g \in [DOMAIN unmapped_regions \ ab -> Nat \ {0}]
  BY <1>2, WithoutType
<1>11. ab = prev \cup next
  OBVIOUS
<1> HIDE DEF prev, next, lo, hi, ab, g
<1>12. DOMAIN u = DOMAIN g \cup {lo}
  BY <1>1, WithDomain
<1>13. u[lo] = hi - lo
  BY <1>1, WithNew
<1>14. \A x \in DOMAIN g : x # lo => u[x] = g[x]
  BY <1>1, WithOld
<1>15. lo \in Int /\ hi \in Int /\ lo <= p /\ p + n <= hi
  BY <1>2, <1>3, <1>4, <1>5, <1>6
<1>16. Covers(lo, hi, p, n, ab, unmapped_regions)
  BY <1>2, <1>3, <1>4, <1>5, <1>6, <1>11 DEF Covers
<1>17. u \in [DOMAIN u -> Nat \ {0}]
  <2>1. g \in [DOMAIN g -> Nat \ {0}]
    BY <1>8, <1>10
  <2>2. hi - lo \in Nat \ {0}
    BY <1>15
  <2>3. With(g, lo, hi - lo) \in [DOMAIN g \cup {lo} -> Nat \ {0}]
    BY <2>1, <2>2, WithType
  <2> QED
    BY <1>1, <1>12, <2>3
<1>18. DOMAIN u \subseteq Int
  BY <1>2, <1>8, <1>12, <1>15
<1>19. Kept(u, unmapped_regions, ab, lo)
  BY <1>8, <1>9, <1>12, <1>14 DEF Kept
<1>20. lo < hi
  BY <1>15
<1> QED
  BY <1>7, <1>13, <1>15, <1>16, <1>17, <1>18, <1>19, <1>20

-----------------------------------------------------------------------------
(* Claims rearranged by the helpers of the pool.                            *)

LEMMA ClaimEq ==
  ASSUME NEW k, NEW p, NEW n, NEW t, NEW l, NEW q, NEW m, NEW u
  PROVE  /\ Claim(k, p, n, t).kind = k
         /\ Claim(k, p, n, t).lo = p
         /\ Claim(k, p, n, t).n = n
         /\ Claim(k, p, n, t).tag = t
         /\ Claim(k, p, n, t) = Claim(l, q, m, u) <=> k = l /\ p = q /\ n = m /\ t = u
  BY DEF Claim

(* Addresses of claim d return to the holes; E is what else is made of d.   *)
LEMMA HoleLayout ==
  ASSUME TypeInv, NEW p \in Int, NEW n \in Nat, NEW R, NEW X, NEW E, NEW S, NEW d \in R,
         Disjoint(R), Within(R, X), UnmappedClaims \subseteq R,
         d \notin UnmappedClaims,
         \A x \in Int : p <= x /\ x < p + n => In(x, d),
         Disjoint(E),
         \A e \in E : \A x \in Int : In(x, e) => In(x, d) /\ ~(p <= x /\ x < p + n),
         unmapped_regions' = insert_unmapped_region(unmapped_regions, p, n),
         S \subseteq (R \ ({d} \cup UnmappedClaims)) \cup UnmappedClaims' \cup E
  PROVE  Disjoint(S) /\ Within(S, X)
<1>1. CASE n = 0
  <2>1. unmapped_regions' = unmapped_regions
    BY <1>1 DEF insert_unmapped_region
  <2>2. UnmappedClaims' = UnmappedClaims
    BY <2>1 DEF UnmappedClaims
  <2>3. S \subseteq (R \ {d}) \cup E
    BY <2>2
  <2> DEFINE D == {d}
  <2>4. /\ D \subseteq R
        /\ \A a \in E : \A x \in Int : In(x, a) => \E c \in D : In(x, c)
        /\ S \subseteq (R \ D) \cup E
    BY <2>3
  <2> HIDE DEF D
  <2> QED
    BY <2>4, Rearranged
<1>2. CASE n # 0
  <2>1. PICK lo \in Int, hi \in Int, ab \in SUBSET DOMAIN unmapped_regions :
          /\ DOMAIN unmapped_regions' \subseteq Int
          /\ unmapped_regions' \in [DOMAIN unmapped_regions' -> Nat \ {0}]
          /\ lo < hi
          /\ Covers(lo, hi, p, n, ab, unmapped_regions)
          /\ unmapped_regions'[lo] = hi - lo
          /\ Kept(unmapped_regions', unmapped_regions, ab, lo)
    <3>1. n \in Nat \ {0}
      BY <1>2
    <3> QED
      BY <3>1, HoleInsert
  <2> DEFINE hole(q) == Claim("unmapped", q, unmapped_regions[q], 0)
             new == Claim("unmapped", lo, hi - lo, 0)
             D == {d} \cup {hole(q) : q \in ab}
             A == {new} \cup E
  <2>2. \A q \in ab : hole(q) \in UnmappedClaims
    BY DEF UnmappedClaims
  <2>3. \A x \in Int : In(x, new) <=> lo <= x /\ x < hi
    BY ClaimEq DEF In
  <2>4. \A q \in ab : \A x \in Int :
          q <= x /\ x < q + unmapped_regions[q] <=> In(x, hole(q))
    BY ClaimEq DEF In
  <2>5. D \subseteq R
    BY <2>2
  <2>6. \A a \in A : \A x \in Int : In(x, a) => \E c \in D : In(x, c)
    <3>1. \A x \in Int : In(x, new) => \E c \in D : In(x, c)
      BY <2>1, <2>3, <2>4 DEF Covers
    <3> QED
      BY <3>1
  <2>7. Disjoint(A)
    <3>1. \A x \in Int, e \in E : ~(In(x, new) /\ In(x, e))
      <4>1. SUFFICES ASSUME NEW x \in Int, NEW e \in E, In(x, new), In(x, e)
                     PROVE  FALSE
        OBVIOUS
      <4>2. In(x, d) /\ ~(p <= x /\ x < p + n)
        BY <4>1
      <4>3. PICK q \in ab : In(x, hole(q))
        BY <2>1, <2>3, <2>4, <4>1, <4>2 DEF Covers
      <4>4. hole(q) = d
        BY <2>2, <4>2, <4>3 DEF Disjoint
      <4> QED
        BY <2>2, <4>4
    <3> QED
      BY <3>1 DEF Disjoint
  <2>8. S \subseteq (R \ D) \cup A
    <3>1. ASSUME NEW c \in UnmappedClaims'
          PROVE  c \in (R \ D) \cup A
      <4>1. PICK q \in DOMAIN unmapped_regions' :
              c = Claim("unmapped", q, unmapped_regions'[q], 0)
        BY <3>1 DEF UnmappedClaims
      <4>2. CASE q = lo
        BY <2>1, <4>1, <4>2
      <4>3. CASE /\ q \in DOMAIN unmapped_regions \ ab
                 /\ unmapped_regions'[q] = unmapped_regions[q]
        <5>1. c = hole(q) /\ c \in UnmappedClaims
          BY <4>1, <4>3 DEF UnmappedClaims
        <5>2. \A r \in ab : hole(r) # hole(q)
          BY <4>3, ClaimEq
        <5> QED
          BY <5>1, <5>2
      <4> QED
        BY <2>1, <4>2, <4>3 DEF Kept
    <3>2. \A q \in ab : hole(q) \in UnmappedClaims
      BY <2>2
    <3> QED
      BY <3>1, <3>2
  <2> HIDE DEF D, A
  <2> QED
    BY <2>5, <2>6, <2>7, <2>8, Rearranged
<1> QED
  BY <1>1, <1>2

(* Addresses of claim d become free, merged with their neighbours.          *)
LEMMA FreeLayout ==
  ASSUME TypeInv, NEW p \in Int, NEW n \in Nat \ {0}, NEW s \in AllStreams,
         free_region_insert(p, n, s),
         NEW R, NEW X, NEW E, NEW S, NEW d \in R,
         Disjoint(R), Within(R, X), FreeClaims \subseteq R,
         d \notin FreeClaims,
         \A x \in Int : p <= x /\ x < p + n => In(x, d),
         Disjoint(E),
         \A e \in E : \A x \in Int : In(x, e) => In(x, d) /\ ~(p <= x /\ x < p + n),
         S \subseteq (R \ ({d} \cup FreeClaims)) \cup FreeClaims' \cup E
  PROVE  Disjoint(S) /\ Within(S, X)
<1> DEFINE lo == MergedLo(p, n, s)
           hi == MergedHi(p, n, s)
           ab == Absorbed(p, n, s)
<1>1. /\ lo \in Int /\ hi \in Int
      /\ ab \subseteq DOMAIN free_regions
      /\ Covers(lo, hi, p, n, ab, FreeSize)
  BY Merged
<1>2. /\ free_regions'[lo].size = hi - lo
      /\ Kept(free_regions', free_regions, ab, lo)
  BY FreeInsert
<1> HIDE DEF lo, hi, ab
<1> DEFINE old(q) == Claim("free", q, free_regions[q].size, 0)
           new == Claim("free", lo, hi - lo, 0)
           D == {d} \cup {old(q) : q \in ab}
           A == {new} \cup E
<1>3. \A q \in ab : old(q) \in FreeClaims
  BY <1>1 DEF FreeClaims
<1>4. \A x \in Int : In(x, new) <=> lo <= x /\ x < hi
  BY <1>1, ClaimEq DEF In
<1>5. \A q \in ab : \A x \in Int :
        q <= x /\ x < q + FreeSize[q] <=> In(x, old(q))
  BY <1>1, ClaimEq DEF In, FreeSize
<1>6. D \subseteq R
  BY <1>3
<1>7. \A a \in A : \A x \in Int : In(x, a) => \E c \in D : In(x, c)
  <2>1. \A x \in Int : In(x, new) => \E c \in D : In(x, c)
    BY <1>1, <1>4, <1>5 DEF Covers
  <2> QED
    BY <2>1
<1>8. Disjoint(A)
  <2>1. \A x \in Int, e \in E : ~(In(x, new) /\ In(x, e))
    <3>1. SUFFICES ASSUME NEW x \in Int, NEW e \in E, In(x, new), In(x, e)
                   PROVE  FALSE
      OBVIOUS
    <3>2. In(x, d) /\ ~(p <= x /\ x < p + n)
      BY <3>1
    <3>3. PICK q \in ab : In(x, old(q))
      BY <1>1, <1>4, <1>5, <3>1, <3>2 DEF Covers
    <3>4. old(q) = d
      BY <1>3, <3>2, <3>3 DEF Disjoint
    <3> QED
      BY <1>3, <3>4
  <2> QED
    BY <2>1 DEF Disjoint
<1>9. S \subseteq (R \ D) \cup A
  <2>1. ASSUME NEW c \in FreeClaims'
        PROVE  c \in (R \ D) \cup A
    <3>1. PICK q \in DOMAIN free_regions' :
            c = Claim("free", q, free_regions'[q].size, 0)
      BY <2>1 DEF FreeClaims
    <3>2. CASE q = lo
      BY <1>2, <3>1, <3>2
    <3>3. CASE /\ q \in DOMAIN free_regions \ ab
               /\ free_regions'[q] = free_regions[q]
      <4>1. c = old(q) /\ c \in FreeClaims
        BY <3>1, <3>3 DEF FreeClaims
      <4>2. \A r \in ab : old(r) # old(q)
        BY <3>3, ClaimEq
      <4> QED
        BY <4>1, <4>2
    <3> QED
      BY <1>2, <3>2, <3>3 DEF Kept
  <2> QED
    BY <2>1, <1>3
<1> HIDE DEF D, A
<1> QED
  BY <1>6, <1>7, <1>8, <1>9, Rearranged

(* The first n pages of free region p become a claim of another kind.       *)
LEMMA CutLayout ==
  ASSUME TypeInv, NEW p \in DOMAIN free_regions, NEW n \in Nat,
         n <= free_regions[p].size,
         NEW f, DOMAIN f = DOMAIN free_regions,
         \A q \in DOMAIN f : f[q].size = free_regions[q].size,
         f \in [DOMAIN f -> FreeRegion(free_num)],
         free_regions' = CutFront(f, p, n),
         NEW k, NEW t, k # "free", NEW R, NEW X, NEW S,
         Disjoint(R), Within(R, X), FreeClaims \subseteq R,
         S \subseteq (R \ FreeClaims) \cup FreeClaims' \cup {Claim(k, p, n, t)}
  PROVE  Disjoint(S) /\ Within(S, X)
<1> DEFINE old(q) == Claim("free", q, free_regions[q].size, 0)
           cut == Claim(k, p, n, t)
           rest == Claim("free", p + n, free_regions[p].size - n, 0)
           D == {old(p)}
           A == {cut, rest}
<1>1. \A q \in DOMAIN free_regions : q \in Int /\ free_regions[q].size \in Nat \ {0}
  BY FreeTyped
<1>2. \A q \in DOMAIN free_regions' :
        \/ q \in DOMAIN f \ {p} /\ free_regions'[q] = f[q]
        \/ /\ q = p + n
           /\ f[p].size > n
           /\ free_regions'[q].size = f[p].size - n
  <2>1. DOMAIN f \subseteq Int
    BY DEF TypeInv
  <2> QED
    BY <2>1, CutFrontMap
<1>3. \A q \in DOMAIN free_regions : old(q) \in FreeClaims
  BY DEF FreeClaims
<1>4. /\ \A x \in Int : In(x, old(p)) <=> p <= x /\ x < p + free_regions[p].size
      /\ \A x \in Int : In(x, cut) <=> p <= x /\ x < p + n
      /\ \A x \in Int : In(x, rest) <=> p + n <= x /\ x < p + free_regions[p].size
  BY <1>1, ClaimEq DEF In
<1>5. D \subseteq R
  BY <1>3
<1>6. \A a \in A : \A x \in Int : In(x, a) => \E c \in D : In(x, c)
  BY <1>1, <1>4
<1>7. Disjoint(A)
  BY <1>1, <1>4 DEF Disjoint
<1>8. S \subseteq (R \ D) \cup A
  <2>1. ASSUME NEW c \in FreeClaims'
        PROVE  c \in (R \ D) \cup A
    <3>1. PICK q \in DOMAIN free_regions' :
            c = Claim("free", q, free_regions'[q].size, 0)
      BY <2>1 DEF FreeClaims
    <3>2. CASE q \in DOMAIN f \ {p} /\ free_regions'[q] = f[q]
      <4>1. c = old(q) /\ c \in FreeClaims
        BY <3>1, <3>2 DEF FreeClaims
      <4>2. old(q) # old(p)
        BY <3>2, ClaimEq
      <4> QED
        BY <4>1, <4>2
    <3>3. CASE q = p + n /\ free_regions'[q].size = f[p].size - n
      BY <3>1, <3>3
    <3> QED
      BY <1>2, <3>2, <3>3
  <2> QED
    BY <2>1, <1>3
<1> HIDE DEF D, A
<1> QED
  BY <1>5, <1>6, <1>7, <1>8, Rearranged

-----------------------------------------------------------------------------
(* Minima.                                                                 *)

LEMMA Least ==
  ASSUME NEW S, NEW f, S # {}, \A x \in S : f[x] \in Nat
  PROVE  \E x \in S : \A y \in S : f[x] <= f[y]
<1> DEFINE R == {ss \in Nat \X Nat : ss[1] < ss[2]}
           T == {f[x] : x \in S}
<1>1. IsWellFoundedOn(R, Nat)
  BY NatLessThanWellFounded DEF OpToRel
<1>2. T \subseteq Nat /\ T # {}
  OBVIOUS
<1>3. \E m \in T : \A n \in T : ~(<<n, m>> \in R)
  <2> HIDE DEF R, T
  <2> QED
    BY <1>1, <1>2, WFMin
<1>4. PICK m \in T : \A n \in T : ~(<<n, m>> \in R)
  BY <1>3
<1>5. \A n \in T : ~(n < m)
  BY <1>2, <1>4
<1>6. PICK x \in S : f[x] = m
  OBVIOUS
<1>7. \A y \in S : f[y] \in T /\ f[y] \in Nat
  OBVIOUS
<1> HIDE DEF T
<1> QED
  BY <1>2, <1>5, <1>6, <1>7

(* The candidate that fits best exists.                                     *)
LEMMA BestFitIn ==
  ASSUME NEW C, NEW size, C # {}, C \subseteq Nat, \A p \in C : size[p] \in Nat
  PROVE  BestFit(C, size) \in C
<1>1. PICK x \in C : \A q \in C : size[x] <= size[q]
  BY Least
<1> DEFINE D == {q \in C : size[q] = size[x]}
           g == [q \in D |-> q]
<1>2. D # {} /\ \A q \in D : g[q] = q /\ g[q] \in Nat
  OBVIOUS
<1>3. \E y \in D : \A q \in D : g[y] <= g[q]
  <2> HIDE DEF D, g
  <2> QED
    BY <1>2, Least
<1>4. PICK y \in D : \A q \in D : g[y] <= g[q]
  BY <1>3
<1>5. \A q \in C : size[y] < size[q] \/ (size[y] = size[q] /\ y <= q)
  BY <1>1, <1>2, <1>4
<1>6. y \in C
  OBVIOUS
<1> QED
  BY <1>5, <1>6 DEF BestFit

LEMMA NextHarvestIn ==
  ASSUME TypeInv, Harvestable # {}
  PROVE  NextHarvest \in Harvestable
<1> DEFINE own == {p \in Harvestable : free_regions[p].stream = call.stream}
           C == IF own # {} THEN own ELSE Harvestable
           id == [p \in C |-> free_regions[p].id]
<1>1. \A p \in Harvestable : free_regions[p].id \in Nat
  BY DEF TypeInv, FreeRegion, Harvestable
<1>2. C \subseteq Harvestable /\ C # {} /\ \A p \in C : id[p] \in Nat
  BY <1>1
<1>3. \E x \in C : \A q \in C : id[x] <= id[q]
  <2> HIDE DEF C, id
  <2> QED
    BY <1>2, Least
<1>4. PICK x \in C : \A q \in C : id[x] <= id[q]
  BY <1>3
<1>5. x \in Harvestable /\ \A q \in C : free_regions[x].id <= free_regions[q].id
  BY <1>2, <1>4
<1>6. \A q \in Harvestable :
        LET other(p) == free_regions[p].stream # call.stream
        IN  IF other(x) = other(q)
            THEN free_regions[x].id <= free_regions[q].id
            ELSE other(q)
  BY <1>5
<1> QED
  BY <1>5, <1>6 DEF NextHarvest

(* Regions begin at reserved addresses, which are natural numbers.          *)
LEMMA BasesNat ==
  ASSUME TypeInv, Layout
  PROVE  DOMAIN free_regions \subseteq Nat /\ DOMAIN unmapped_regions \subseteq Nat
<1>1. RootPages \subseteq Nat
  BY PoolAssumption DEF RootPages, Span, TypeInv
<1>2. ASSUME NEW p \in DOMAIN free_regions
      PROVE  p \in Nat
  <2> DEFINE c == Claim("free", p, free_regions[p].size, 0)
  <2>1. c \in Claims
    BY DEF Claims, FreeClaims
  <2>2. p \in Int /\ In(p, c)
    BY FreeTyped, ClaimEq DEF In
  <2> QED
    BY <1>1, <2>1, <2>2 DEF Layout, Within
<1>3. ASSUME NEW p \in DOMAIN unmapped_regions
      PROVE  p \in Nat
  <2> DEFINE c == Claim("unmapped", p, unmapped_regions[p], 0)
  <2>1. c \in Claims
    BY DEF Claims, UnmappedClaims
  <2>2. p \in Int /\ In(p, c)
    BY ClaimEq DEF In, TypeInv
  <2> QED
    BY <1>1, <2>1, <2>2 DEF Layout, Within
<1> QED
  BY <1>2, <1>3

LEMMA RootPagesFinite ==
  ASSUME TypeInv
  PROVE  IsFiniteSet(RootPages)
<1> DEFINE span == [b \in roots |-> Span(b, VaSize)]
           spans == {span[b] : b \in roots}
<1>1. IsFiniteSet(roots)
  BY FS_Subset, PoolAssumption DEF TypeInv
<1>2. span \in Surjection(roots, spans)
  BY DEF Surjection
<1>3. IsFiniteSet(spans)
  <2> HIDE DEF span, spans
  <2> QED
    BY <1>1, <1>2, FS_Surjection
<1>4. \A T \in spans : IsFiniteSet(T)
  <2>1. ASSUME NEW b \in roots
        PROVE  IsFiniteSet(span[b])
    <3>1. b \in Int /\ b + VaSize - 1 \in Int
      BY PoolAssumption DEF TypeInv
    <3> QED
      BY <3>1, FS_Interval DEF Span
  <2> QED
    BY <2>1
<1>5. UNION spans = RootPages
  BY DEF RootPages
<1> HIDE DEF spans
<1> QED
  BY <1>3, <1>4, <1>5, FS_UNION

LEMMA FreePagesFinite ==
  ASSUME TypeInv, Layout
  PROVE  IsFiniteSet(FreePages)
<1>1. FreePages \subseteq RootPages
  <2> SUFFICES ASSUME NEW p \in DOMAIN free_regions, NEW x \in Span(p, free_regions[p].size)
               PROVE  x \in RootPages
    BY DEF FreePages
  <2> DEFINE c == Claim("free", p, free_regions[p].size, 0)
  <2>1. c \in Claims
    BY DEF Claims, FreeClaims
  <2>2. x \in Int /\ In(x, c)
    BY FreeTyped, ClaimEq DEF In, Span
  <2> QED
    BY <2>1, <2>2 DEF Layout, Within
<1> QED
  BY <1>1, RootPagesFinite, FS_Subset

LEMMA ShortfallRange ==
  ASSUME TypeInv, Layout, call.size \in Nat
  PROVE  Shortfall \in 0 .. call.size
<1>1. Cardinality(FreePages) \in Nat
  BY FreePagesFinite, FS_CardinalityType
<1> QED
  BY <1>1 DEF Shortfall
-----------------------------------------------------------------------------
(* Steps that leave the addresses as they are.                             *)

LEMMA Kinds ==
  /\ \A c \in FreeClaims : c.kind = "free"
  /\ \A c \in MallocClaims : c.kind = "malloc"
  /\ \A c \in UnmappedClaims : c.kind = "unmapped"
  /\ \A c \in ZombieClaims : c.kind = "zombie"
  /\ \A c \in HoleClaims : c.kind = "hole"
<1>1. \A k, p, n, t : Claim(k, p, n, t).kind = k
  BY ClaimEq
<1> QED
  BY <1>1 DEF FreeClaims, MallocClaims, UnmappedClaims, ZombieClaims, HoleClaims

LEMMA SameLayout ==
  ASSUME Layout, Claims' \subseteq Claims, roots' = roots
  PROVE  Layout'
<1>1. RootPages' = RootPages
  BY DEF RootPages
<1>2. Disjoint(Claims') /\ Within(Claims', RootPages)
  BY DEF Layout, Disjoint, Within
<1> QED
  BY <1>1, <1>2 DEF Layout

LEMMA ReturnCallInv ==
  ASSUME Return
  PROVE  CallInv' /\ HoleClaims' = {}
<1>1. call'.pc = "idle" /\ call'.scan = {}
  BY DEF Return, NoCall
<1>2. CallShape'
  BY DEF Return, NoCall, CallShape
<1> QED
  BY <1>1, <1>2 DEF CallInv, InCall, Growing, RegionFound, HoleClaims, Stage

LEMMA Sizes ==
  ASSUME IInv, InCall
  PROVE  call.size \in Nat \ {0} /\ call.size \in Request /\ call.stream \in Stream
  BY RequestPositive DEF IInv, CallInv

LEMMA MallocIInv ==
  ASSUME IInv, NEW s \in Stream, NEW n \in Request, malloc_internal(s, n)
  PROVE  IInv'
<1> USE DEF malloc_internal
<1>1. /\ call'.pc = "cleanup" /\ call'.stream = s /\ call'.size = n
      /\ call'.scan = zombie_regions /\ call'.ptr = NoPtr /\ DOMAIN call'.moves = {}
  BY DEF NoCall, EmptyMap
<1>2. CallShape'
  BY DEF CallShape, NoCall
<1>3. CallInv'
  BY <1>1, <1>2 DEF CallInv, InCall, Growing, RegionFound, Stage
<1>4. TypeInv'
  BY DEF IInv, TypeInv
<1>5. Claims' = FreeClaims \cup MallocClaims \cup UnmappedClaims \cup ZombieClaims
  BY <1>1 DEF Claims, FreeClaims, MallocClaims, UnmappedClaims, ZombieClaims, HoleClaims
<1>6. Layout'
  BY <1>5, SameLayout DEF IInv, Claims
<1> QED
  BY <1>3, <1>4, <1>6 DEF IInv

(* Part of a free region is handed out; f may differ from free_regions in   *)
(* the streams.                                                             *)
LEMMA HandOutIInv ==
  ASSUME IInv, InCall, NEW p \in DOMAIN free_regions,
         free_regions[p].size >= call.size,
         NEW f, DOMAIN f = DOMAIN free_regions,
         \A q \in DOMAIN f : f[q].size = free_regions[q].size,
         f \in [DOMAIN f -> FreeRegion(free_num)],
         HandOut(f, p),
         UNCHANGED <<roots, active_pages, unmapped_regions, zombie_regions, free_num>>
  PROVE  IInv'
<1> DEFINE rec == [size |-> call.size, stream |-> call.stream]
<1>1. /\ free_regions' = CutFront(f, p, call.size)
      /\ malloc_regions' = With(malloc_regions, p, rec)
      /\ Return
  BY DEF HandOut
<1>2. TypeInv /\ Layout /\ call.size \in Nat
  BY Sizes DEF IInv
<1>3. CallInv' /\ HoleClaims' = {}
  BY <1>1, ReturnCallInv
<1>4. TypeInv'
  <2>1. /\ DOMAIN free_regions' \subseteq Int
        /\ free_regions' \in [DOMAIN free_regions' -> FreeRegion(free_num)]
    <3>1. DOMAIN f \subseteq Int
      BY <1>2 DEF TypeInv
    <3> QED
      BY <1>1, <1>2, <3>1, CutFrontMap
  <2>2. malloc_regions' \in [DOMAIN malloc_regions \cup {p} -> [size : Request, stream : Stream]]
    <3>1. rec \in [size : Request, stream : Stream]
      BY Sizes
    <3>2. malloc_regions \in [DOMAIN malloc_regions -> [size : Request, stream : Stream]]
      BY <1>2 DEF TypeInv
    <3> HIDE DEF rec
    <3> QED
      BY <1>1, <3>1, <3>2, WithType
  <2>3. p \in Int
    BY <1>2, FreeTyped
  <2> QED
    BY <1>2, <2>1, <2>2, <2>3 DEF TypeInv
<1>5. MallocClaims' \subseteq MallocClaims \cup {Claim("malloc", p, call.size, 0)}
  <2> SUFFICES ASSUME NEW q \in DOMAIN malloc_regions'
               PROVE  Claim("malloc", q, malloc_regions'[q].size, 0)
                        \in MallocClaims \cup {Claim("malloc", p, call.size, 0)}
    BY DEF MallocClaims
  <2>1. DOMAIN malloc_regions' = DOMAIN malloc_regions \cup {p}
    BY <1>1, WithDomain
  <2>2. CASE q = p
    <3>1. malloc_regions'[p] = rec
      BY <1>1, WithNew
    <3> QED
      BY <2>2, <3>1
  <2>3. CASE q # p
    <3>1. malloc_regions'[q] = malloc_regions[q]
      BY <1>1, <2>1, <2>3, WithOld
    <3> QED
      BY <2>1, <2>3, <3>1 DEF MallocClaims
  <2> QED
    BY <2>2, <2>3
<1>6. UnmappedClaims' = UnmappedClaims /\ ZombieClaims' = ZombieClaims
  BY DEF UnmappedClaims, ZombieClaims
<1>7. Claims' \subseteq (Claims \ FreeClaims) \cup FreeClaims'
                          \cup {Claim("malloc", p, call.size, 0)}
  <2>1. MallocClaims \cup UnmappedClaims \cup ZombieClaims \subseteq Claims \ FreeClaims
    BY Kinds DEF Claims
  <2>2. Claims' = FreeClaims' \cup MallocClaims' \cup UnmappedClaims' \cup ZombieClaims'
    BY <1>3 DEF Claims
  <2> QED
    BY <1>5, <1>6, <2>1, <2>2
<1>8. Disjoint(Claims') /\ Within(Claims', RootPages)
  <2>1. Disjoint(Claims) /\ Within(Claims, RootPages) /\ FreeClaims \subseteq Claims
    BY <1>2 DEF Layout, Claims
  <2>2. call.size <= free_regions[p].size
    BY <1>2, FreeTyped
  <2> QED
    BY <1>1, <1>2, <1>7, <2>1, <2>2, CutLayout
<1>9. Layout'
  BY <1>8 DEF Layout, RootPages
<1> QED
  BY <1>3, <1>4, <1>9 DEF IInv

LEMMA CleanupIInv ==
  ASSUME IInv, NEW z \in call.scan, cleanup_zombie_regions(z)
  PROVE  IInv'
<1> USE DEF cleanup_zombie_regions
<1>1. call'.pc = "cleanup" /\ call' = [call EXCEPT !.scan = @ \ {z}]
  BY DEF IInv, CallInv, CallShape
<1>2. TypeInv /\ z \in zombie_regions /\ z.ptr \in Int /\ z.size \in Nat \ {0}
  BY DEF IInv, CallInv, TypeInv
<1>3. ASSUME ~completed(z.event)
      PROVE  IInv'
  <2>1. UNCHANGED <<zombie_regions, unmapped_regions>>
    BY <1>3
  <2>2. TypeInv'
    BY <2>1 DEF IInv, TypeInv
  <2>3. CallInv'
    BY <1>1, <2>1 DEF IInv, CallInv, CallShape, InCall, Growing, RegionFound
  <2>4. Claims' = Claims
    BY <1>1, <2>1 DEF Claims, FreeClaims, MallocClaims, UnmappedClaims, ZombieClaims, HoleClaims
  <2>5. Layout'
    BY <2>4, SameLayout DEF IInv
  <2> QED
    BY <2>2, <2>3, <2>5 DEF IInv
<1>4. ASSUME completed(z.event)
      PROVE  IInv'
  <2> DEFINE d == Claim("zombie", z.ptr, z.size, z.event)
  <2>1. /\ zombie_regions' = zombie_regions \ {z}
        /\ unmapped_regions' = insert_unmapped_region(unmapped_regions, z.ptr, z.size)
    BY <1>4
  <2>2. /\ DOMAIN unmapped_regions' \subseteq Int
        /\ unmapped_regions' \in [DOMAIN unmapped_regions' -> Nat \ {0}]
    BY <1>2, <2>1, HoleInsert
  <2>3. TypeInv'
    BY <2>1, <2>2 DEF IInv, TypeInv
  <2>4. CallInv'
    BY <1>1, <2>1 DEF IInv, CallInv, CallShape, InCall, Growing, RegionFound
  <2>5. FreeClaims' = FreeClaims /\ MallocClaims' = MallocClaims
        /\ HoleClaims = {} /\ HoleClaims' = {}
    BY <1>1 DEF FreeClaims, MallocClaims, HoleClaims
  <2>6. d \in ZombieClaims /\ d.kind = "zombie"
    BY <1>2, ClaimEq DEF ZombieClaims
  <2>7. ZombieClaims' \subseteq ZombieClaims \ {d}
    <3> SUFFICES ASSUME NEW y \in zombie_regions, y # z
                 PROVE  Claim("zombie", y.ptr, y.size, y.event) \in ZombieClaims \ {d}
      BY <2>1 DEF ZombieClaims
    <3>1. y = [ptr |-> y.ptr, size |-> y.size, event |-> y.event]
          /\ z = [ptr |-> z.ptr, size |-> z.size, event |-> z.event]
      BY <1>2 DEF TypeInv
    <3> QED
      BY <3>1, ClaimEq DEF ZombieClaims
  <2>8. Claims' \subseteq (Claims \ ({d} \cup UnmappedClaims)) \cup UnmappedClaims' \cup {}
    BY <2>5, <2>6, <2>7, Kinds DEF Claims
  <2>9. /\ \A x \in Int : z.ptr <= x /\ x < z.ptr + z.size => In(x, d)
        /\ d \in Claims /\ d \notin UnmappedClaims /\ UnmappedClaims \subseteq Claims
        /\ Disjoint({})
    BY <2>6, Kinds, ClaimEq DEF In, Claims, Disjoint
  <2>10. Disjoint(Claims') /\ Within(Claims', RootPages)
    <3> DEFINE E == {}
    <3>1. /\ Claims' \subseteq (Claims \ ({d} \cup UnmappedClaims)) \cup UnmappedClaims' \cup E
          /\ Disjoint(E)
          /\ \A e \in E : \A x \in Int :
               In(x, e) => In(x, d) /\ ~(z.ptr <= x /\ x < z.ptr + z.size)
      BY <2>8, <2>9
    <3>2. Disjoint(Claims) /\ Within(Claims, RootPages) /\ z.size \in Nat
      BY <1>2 DEF IInv, Layout
    <3> HIDE DEF d, E
    <3> QED
      BY <1>2, <2>1, <2>9, <3>1, <3>2, HoleLayout
  <2>11. Layout'
    BY <2>10 DEF Layout, RootPages
  <2> QED
    BY <2>3, <2>4, <2>11 DEF IInv
<1> QED
  BY <1>3, <1>4

LEMMA FindBestFitIInv ==
  ASSUME IInv, find_best_fit
  PROVE  IInv'
<1> USE DEF find_best_fit
<1>1. TypeInv /\ Layout /\ InCall
  BY DEF IInv, InCall
<1>2. /\ DOMAIN free_regions \subseteq Nat
      /\ \A p \in DOMAIN free_regions : FreeSize[p] \in Nat
  BY <1>1, BasesNat, FreeTyped DEF FreeSize
<1>3. free_regions \in [DOMAIN free_regions -> FreeRegion(free_num)]
  BY <1>1 DEF TypeInv
<1>4. CASE OwnFit # {} /\ HandOut(free_regions, BestFit(OwnFit, FreeSize))
  <2> DEFINE p == BestFit(OwnFit, FreeSize)
  <2>1. p \in OwnFit
    <3>1. OwnFit \subseteq DOMAIN free_regions
      BY DEF OwnFit, Fitting
    <3> QED
      BY <1>2, <1>4, <3>1, BestFitIn
  <2>2. p \in DOMAIN free_regions /\ free_regions[p].size >= call.size
    BY <2>1 DEF OwnFit, Fitting
  <2>3. HandOut(free_regions, p)
    BY <1>4
  <2> HIDE DEF p
  <2> QED
    BY <1>1, <1>3, <2>2, <2>3, HandOutIInv
<1>5. CASE /\ CompletedFit # {}
           /\ LET p == BestFit(CompletedFit, FreeSize)
              IN  HandOut([free_regions EXCEPT ![p].stream = call.stream], p)
  <2> DEFINE p == BestFit(CompletedFit, FreeSize)
             f == [free_regions EXCEPT ![p].stream = call.stream]
  <2>1. p \in CompletedFit
    <3>1. CompletedFit \subseteq DOMAIN free_regions
      BY DEF CompletedFit, Fitting
    <3> QED
      BY <1>2, <1>5, <3>1, BestFitIn
  <2>2. p \in DOMAIN free_regions /\ free_regions[p].size >= call.size
    BY <2>1 DEF CompletedFit, Fitting
  <2>3. HandOut(f, p)
    BY <1>5
  <2>4. call.stream \in AllStreams
    BY <1>1, Sizes DEF AllStreams
  <2> HIDE DEF p
  <2>5. /\ DOMAIN f = DOMAIN free_regions
        /\ \A q \in DOMAIN f : f[q].size = free_regions[q].size
        /\ f \in [DOMAIN f -> FreeRegion(free_num)]
    BY <1>3, <2>2, <2>4 DEF FreeRegion
  <2> HIDE DEF f
  <2> QED
    BY <1>1, <2>2, <2>3, <2>5, HandOutIInv
<1>6. CASE /\ call' = [call EXCEPT !.pc = "hole"]
           /\ UNCHANGED <<free_regions, malloc_regions>>
  <2>1. call'.pc = "hole" /\ call' = [call EXCEPT !.pc = "hole"]
    BY <1>6 DEF IInv, CallInv, CallShape
  <2>2. TypeInv'
    BY <1>6 DEF IInv, TypeInv
  <2>3. CallInv'
    BY <2>1 DEF IInv, CallInv, CallShape, InCall, Growing, RegionFound, Stage
  <2>4. Claims' = Claims
    BY <1>6, <2>1 DEF Claims, FreeClaims, MallocClaims, UnmappedClaims, ZombieClaims, HoleClaims
  <2>5. Layout'
    BY <2>4, SameLayout DEF IInv
  <2> QED
    BY <2>2, <2>3, <2>5 DEF IInv
<1> QED
  BY <1>4, <1>5, <1>6

LEMMA OpenedCallInv ==
  ASSUME IInv, call.pc = "hole", NEW dst \in Int, Opened(dst),
         zombie_regions' = zombie_regions
  PROVE  CallInv' /\ HoleClaims' = {Claim("hole", dst, call.size, 0)}
<1>1. /\ call'.pc = "create" /\ call'.dst = dst /\ call'.next = dst
      /\ call'.goal = dst + Shortfall /\ call'.size = call.size
      /\ call'.stream = call.stream /\ call'.scan = call.scan
      /\ call'.ptr = call.ptr /\ call'.moves = call.moves
  BY DEF Opened, IInv, CallInv, CallShape
<1>2. CallShape'
  BY DEF Opened, IInv, CallInv, CallShape
<1>3. call.size \in Nat /\ Shortfall \in 0 .. call.size
  BY Sizes, ShortfallRange DEF IInv, InCall
<1>4. CallInv'
  BY <1>1, <1>2, <1>3 DEF IInv, CallInv, InCall, Growing, RegionFound, Stage
<1> QED
  BY <1>1, <1>4 DEF HoleClaims

(* A hole is filled from its first page on; its tail remains a hole.        *)
LEMMA TakeHoleIInv ==
  ASSUME IInv, call.pc = "hole", NEW p \in DOMAIN unmapped_regions,
         unmapped_regions[p] >= call.size,
         unmapped_regions' =
           IF unmapped_regions[p] > call.size
           THEN With(Without(unmapped_regions, {p}), p + call.size,
                     unmapped_regions[p] - call.size)
           ELSE Without(unmapped_regions, {p}),
         Opened(p),
         UNCHANGED <<roots, active_pages, free_regions, malloc_regions,
                     zombie_regions, free_num>>
  PROVE  IInv'
<1> DEFINE n == unmapped_regions[p]
           u == Without(unmapped_regions, {p})
           old == Claim("unmapped", p, n, 0)
           hole == Claim("hole", p, call.size, 0)
           rest == Claim("unmapped", p + call.size, n - call.size, 0)
           D == {old}
           A == {hole, rest}
<1>1. TypeInv /\ Layout /\ call.size \in Nat \ {0}
  BY Sizes DEF IInv, InCall
<1>2. /\ DOMAIN unmapped_regions \subseteq Int
      /\ unmapped_regions \in [DOMAIN unmapped_regions -> Nat \ {0}]
      /\ p \in Int /\ n \in Nat /\ n >= call.size
  BY <1>1 DEF TypeInv
<1>3. CallInv' /\ HoleClaims' = {hole}
  BY <1>2, OpenedCallInv
<1>4. DOMAIN u = DOMAIN unmapped_regions \ {p}
  BY WithoutDomain
<1>5. \A q \in DOMAIN unmapped_regions \ {p} : u[q] = unmapped_regions[q]
  BY WithoutOld
<1>6. u \in [DOMAIN unmapped_regions \ {p} -> Nat \ {0}]
  BY <1>2, WithoutType
<1>7. unmapped_regions' = IF n > call.size THEN With(u, p + call.size, n - call.size) ELSE u
  OBVIOUS
<1> HIDE DEF n, u
<1>8. DOMAIN With(u, p + call.size, n - call.size) = DOMAIN u \cup {p + call.size}
  BY WithDomain
<1>9. With(u, p + call.size, n - call.size)[p + call.size] = n - call.size
  BY WithNew
<1>10. \A q \in DOMAIN u : q # p + call.size =>
         With(u, p + call.size, n - call.size)[q] = u[q]
  BY WithOld
<1>11. n > call.size =>
         With(u, p + call.size, n - call.size) \in [DOMAIN u \cup {p + call.size} -> Nat \ {0}]
  <2>1. u \in [DOMAIN u -> Nat \ {0}]
    BY <1>4, <1>6
  <2>2. n > call.size => n - call.size \in Nat \ {0}
    BY <1>1, <1>2
  <2> QED
    BY <2>1, <2>2, WithType
<1>12. /\ DOMAIN unmapped_regions' \subseteq Int
       /\ unmapped_regions' \in [DOMAIN unmapped_regions' -> Nat \ {0}]
       /\ \A q \in DOMAIN unmapped_regions' :
            \/ q \in DOMAIN unmapped_regions \ {p} /\ unmapped_regions'[q] = unmapped_regions[q]
            \/ q = p + call.size /\ unmapped_regions'[q] = n - call.size
  <2>1. CASE n > call.size
    BY <1>1, <1>2, <1>4, <1>5, <1>7, <1>8, <1>9, <1>10, <1>11, <2>1
  <2>2. CASE ~(n > call.size)
    BY <1>2, <1>4, <1>5, <1>6, <1>7, <2>2
  <2> QED
    BY <2>1, <2>2
<1>13. TypeInv'
  BY <1>1, <1>12 DEF TypeInv
<1>14. UnmappedClaims' \subseteq (UnmappedClaims \ {old}) \cup {rest}
  <2> SUFFICES ASSUME NEW q \in DOMAIN unmapped_regions'
               PROVE  Claim("unmapped", q, unmapped_regions'[q], 0)
                        \in (UnmappedClaims \ {old}) \cup {rest}
    BY DEF UnmappedClaims
  <2>1. CASE q \in DOMAIN unmapped_regions \ {p} /\ unmapped_regions'[q] = unmapped_regions[q]
    <3>1. Claim("unmapped", q, unmapped_regions[q], 0) \in UnmappedClaims
      BY <2>1 DEF UnmappedClaims
    <3>2. Claim("unmapped", q, unmapped_regions[q], 0) # old
      BY <2>1, ClaimEq
    <3> QED
      BY <2>1, <3>1, <3>2
  <2>2. CASE q = p + call.size /\ unmapped_regions'[q] = n - call.size
    BY <2>2
  <2> QED
    BY <1>12, <2>1, <2>2
<1>15. Claims' \subseteq (Claims \ D) \cup A
  <2>1. FreeClaims' = FreeClaims /\ MallocClaims' = MallocClaims /\ ZombieClaims' = ZombieClaims
    BY DEF FreeClaims, MallocClaims, ZombieClaims
  <2>2. old.kind = "unmapped"
    BY ClaimEq
  <2> QED
    BY <1>3, <1>14, <2>1, <2>2, Kinds DEF Claims
<1>16. D \subseteq Claims
  BY DEF Claims, UnmappedClaims, n
<1>17. /\ \A x \in Int : In(x, old) <=> p <= x /\ x < p + n
       /\ \A x \in Int : In(x, hole) <=> p <= x /\ x < p + call.size
       /\ \A x \in Int : In(x, rest) <=> p + call.size <= x /\ x < p + n
  BY <1>1, <1>2, ClaimEq DEF In
<1>18. \A a \in A : \A x \in Int : In(x, a) => \E c \in D : In(x, c)
  BY <1>1, <1>2, <1>17
<1>19. Disjoint(A)
  BY <1>1, <1>2, <1>17 DEF Disjoint
<1>20. Disjoint(Claims') /\ Within(Claims', RootPages)
  <2>1. Disjoint(Claims) /\ Within(Claims, RootPages)
    BY <1>1 DEF Layout
  <2> HIDE DEF D, A
  <2> QED
    BY <1>15, <1>16, <1>18, <1>19, <2>1, Rearranged
<1>21. Layout'
  BY <1>20 DEF Layout, RootPages
<1> QED
  BY <1>3, <1>13, <1>21 DEF IInv

(* A chunk newly reserved holds the hole; its tail joins the holes.         *)
LEMMA NewChunkIInv ==
  ASSUME IInv, call.pc = "hole", call.size <= VaSize,
         NEW base \in VaBase \ roots,
         roots' = roots \cup {base},
         unmapped_regions' =
           insert_unmapped_region(unmapped_regions, base + call.size, VaSize - call.size),
         Opened(base),
         UNCHANGED <<active_pages, free_regions, malloc_regions, zombie_regions, free_num>>
  PROVE  IInv'
<1> DEFINE p == base + call.size
           n == VaSize - call.size
           d == Claim("chunk", base, VaSize, 0)
           hole == Claim("hole", base, call.size, 0)
           E == {hole}
           R == Claims \cup {d}
<1>1. TypeInv /\ Layout /\ call.size \in Nat \ {0}
  BY Sizes DEF IInv, InCall
<1>2. base \in Nat /\ VaSize \in Nat /\ p \in Int /\ n \in Nat
  BY <1>1, PoolAssumption
<1>3. CallInv' /\ HoleClaims' = {hole}
  BY <1>2, OpenedCallInv
<1>4. TypeInv'
  <2>1. /\ DOMAIN unmapped_regions' \subseteq Int
        /\ unmapped_regions' \in [DOMAIN unmapped_regions' -> Nat \ {0}]
    <3>1. CASE n = 0
      BY <1>1, <3>1 DEF insert_unmapped_region, TypeInv
    <3>2. CASE n # 0
      <4> HIDE DEF p, n
      <4>1. unmapped_regions' = insert_unmapped_region(unmapped_regions, p, n)
        BY DEF p, n
      <4>2. n \in Nat \ {0}
        BY <1>2, <3>2
      <4> QED
        BY <1>1, <1>2, <4>1, <4>2, HoleInsert
    <3> QED
      BY <3>1, <3>2
  <2> QED
    BY <1>1, <2>1 DEF TypeInv
<1>5. /\ \A x \in Int : In(x, d) <=> base <= x /\ x < base + VaSize
      /\ \A x \in Int : In(x, hole) <=> base <= x /\ x < base + call.size
  BY <1>1, <1>2, ClaimEq DEF In
<1>6. \A r \in Claims : \A x \in Int : In(x, r) => ~In(x, d)
  <2> SUFFICES ASSUME NEW r \in Claims, NEW x \in Int, In(x, r), In(x, d)
               PROVE  FALSE
    OBVIOUS
  <2>1. PICK b \in roots : x \in Span(b, VaSize)
    BY <1>1 DEF Layout, Within, RootPages
  <2>2. b \in VaBase /\ b # base /\ b \in Nat
    BY <1>1, PoolAssumption DEF TypeInv
  <2>3. b <= x /\ x < b + VaSize
    BY <1>2, <2>1, <2>2 DEF Span
  <2>4. b + VaSize <= base \/ base + VaSize <= b
    BY <2>2, PoolAssumption
  <2> QED
    BY <1>2, <1>5, <2>2, <2>3, <2>4
<1>7. Disjoint(R)
  BY <1>1, <1>6 DEF Disjoint, Layout
<1>8. Within(R, RootPages')
  <2>1. RootPages \subseteq RootPages'
    BY DEF RootPages
  <2>2. \A x \in Int : In(x, d) => x \in Span(base, VaSize)
    BY <1>2, <1>5 DEF Span
  <2>3. Span(base, VaSize) \subseteq RootPages'
    BY DEF RootPages
  <2> QED
    BY <1>1, <2>1, <2>2, <2>3 DEF Within, Layout
<1>9. d.kind = "chunk"
  BY ClaimEq
<1>10. /\ d \in R /\ d \notin UnmappedClaims /\ UnmappedClaims \subseteq R
       /\ Claims' \subseteq (R \ ({d} \cup UnmappedClaims)) \cup UnmappedClaims' \cup E
  <2>1. FreeClaims' = FreeClaims /\ MallocClaims' = MallocClaims /\ ZombieClaims' = ZombieClaims
    BY DEF FreeClaims, MallocClaims, ZombieClaims
  <2> QED
    BY <1>3, <1>9, <2>1, Kinds DEF Claims
<1>11. /\ Disjoint(E)
       /\ \A e \in E : \A x \in Int : In(x, e) => In(x, d) /\ ~(p <= x /\ x < p + n)
       /\ \A x \in Int : p <= x /\ x < p + n => In(x, d)
  <2>1. Disjoint(E)
    BY DEF Disjoint
  <2> QED
    BY <1>1, <1>2, <1>5, <2>1
<1>12. unmapped_regions' = insert_unmapped_region(unmapped_regions, p, n)
  OBVIOUS
<1>13. Disjoint(Claims') /\ Within(Claims', RootPages')
  <2> HIDE DEF p, n, d, E, R
  <2> QED
    BY <1>1, <1>2, <1>7, <1>8, <1>10, <1>11, <1>12, HoleLayout
<1> QED
  BY <1>3, <1>4, <1>13 DEF IInv, Layout

LEMMA TakeUnmappedIInv ==
  ASSUME IInv, take_unmapped_region
  PROVE  IInv'
<1> USE DEF take_unmapped_region
<1>1. TypeInv /\ Layout
  BY DEF IInv
<1>2. CASE /\ call.size <= VaSize
           /\ Holes # {}
           /\ LET p == BestFit(Holes, unmapped_regions)
                  n == unmapped_regions[p]
                  u == Without(unmapped_regions, {p})
              IN /\ unmapped_regions' =
                      IF n > call.size THEN With(u, p + call.size, n - call.size) ELSE u
                 /\ Opened(p)
           /\ UNCHANGED roots
  <2> DEFINE p == BestFit(Holes, unmapped_regions)
  <2>1. p \in Holes
    <3>1. Holes \subseteq Nat
      BY <1>1, BasesNat DEF Holes
    <3>2. \A q \in Holes : unmapped_regions[q] \in Nat
      BY <1>1 DEF Holes, TypeInv
    <3> QED
      BY <1>2, <3>1, <3>2, BestFitIn
  <2>2. /\ unmapped_regions' =
             IF unmapped_regions[p] > call.size
             THEN With(Without(unmapped_regions, {p}), p + call.size,
                       unmapped_regions[p] - call.size)
             ELSE Without(unmapped_regions, {p})
        /\ Opened(p)
        /\ UNCHANGED roots
    BY <1>2
  <2>3. p \in DOMAIN unmapped_regions /\ unmapped_regions[p] >= call.size
    BY <2>1 DEF Holes
  <2> HIDE DEF p
  <2> QED
    BY <2>2, <2>3, TakeHoleIInv
<1>3. CASE call.size <= VaSize /\ Holes = {} /\ \E base \in VaBase \ roots :
             /\ roots' = roots \cup {base}
             /\ unmapped_regions' =
                  insert_unmapped_region(unmapped_regions, base + call.size,
                                         VaSize - call.size)
             /\ Opened(base)
  BY <1>3, NewChunkIInv
<1>4. CASE Return /\ UNCHANGED <<roots, unmapped_regions>>
  <2>1. CallInv' /\ HoleClaims' = {}
    BY <1>4, ReturnCallInv
  <2>2. TypeInv'
    BY <1>1, <1>4 DEF TypeInv
  <2>3. Claims' \subseteq Claims
    BY <1>4, <2>1 DEF Claims, FreeClaims, MallocClaims, UnmappedClaims, ZombieClaims
  <2>4. Layout'
    BY <1>1, <1>4, <2>3, SameLayout
  <2> QED
    BY <2>1, <2>2, <2>4 DEF IInv
<1> QED
  BY <1>2, <1>3, <1>4

(* The call ends and leaves the regions as they are: the hole is lost.      *)
LEMMA ReturnIInv ==
  ASSUME IInv, Return, DOMAIN active_pages' \subseteq Address,
         UNCHANGED <<roots, free_regions, malloc_regions, unmapped_regions,
                     zombie_regions, free_num>>
  PROVE  IInv'
<1>1. CallInv' /\ HoleClaims' = {}
  BY ReturnCallInv
<1>2. TypeInv'
  BY DEF IInv, TypeInv
<1>3. Claims' \subseteq Claims
  BY <1>1 DEF Claims, FreeClaims, MallocClaims, UnmappedClaims, ZombieClaims
<1>4. Layout'
  BY <1>3, SameLayout DEF IInv
<1> QED
  BY <1>1, <1>2, <1>4 DEF IInv

(* The hole of a call that creates pages lies in the reserved addresses.    *)
LEMMA HoleInAddress ==
  ASSUME IInv, Growing
  PROVE  \A c \in HoleClaims : \A x \in Int : In(x, c) => x \in Address
<1>1. RootPages \subseteq Address
  BY DEF IInv, TypeInv, RootPages, Address
<1>2. HoleClaims \subseteq Claims
  BY DEF Claims
<1> QED
  BY <1>1, <1>2 DEF IInv, Layout, Within

LEMMA CreatePageIInv ==
  ASSUME IInv, create_new_page
  PROVE  IInv'
<1>1. /\ call.pc = "create" /\ call.next < call.goal
      /\ UNCHANGED <<roots, free_regions, malloc_regions, unmapped_regions,
                     zombie_regions, free_num>>
      /\ \/ /\ \E h : active_pages' = With(active_pages, call.next, h)
            /\ call' = [call EXCEPT !.next = @ + 1]
         \/ Return /\ active_pages' = active_pages
  BY DEF create_new_page
<1>2. CASE Return /\ active_pages' = active_pages
  BY <1>1, <1>2, ReturnIInv DEF IInv, TypeInv
<1>3. CASE /\ \E h : active_pages' = With(active_pages, call.next, h)
           /\ call' = [call EXCEPT !.next = @ + 1]
  <2>1. /\ call'.pc = "create" /\ call'.next = call.next + 1
        /\ call'.dst = call.dst /\ call'.size = call.size
    BY <1>1, <1>3 DEF IInv, CallInv, CallShape
  <2>2. CallInv'
    BY <1>1, <1>3, <2>1 DEF IInv, CallInv, CallShape, InCall, Growing, RegionFound, Stage
  <2>3. call.size \in Nat \ {0}
    BY <1>1, Sizes DEF InCall
  <2>4. call.next \in Address
    <3> DEFINE c == Claim("hole", call.dst, call.size, 0)
    <3>1. c \in HoleClaims
      BY <1>1 DEF HoleClaims
    <3>2. call.next \in Int /\ In(call.next, c)
      BY <1>1, <2>3, ClaimEq DEF IInv, CallInv, Growing, In
    <3>3. Growing
      BY <1>1 DEF Growing
    <3> HIDE DEF c
    <3> QED
      BY <3>1, <3>2, <3>3, HoleInAddress
  <2>5. DOMAIN active_pages' \subseteq Address
    <3>1. PICK h : active_pages' = With(active_pages, call.next, h)
      BY <1>3
    <3>2. DOMAIN active_pages' = DOMAIN active_pages \cup {call.next}
      BY <3>1, WithDomain
    <3> QED
      BY <2>4, <3>2 DEF IInv, TypeInv
  <2>6. TypeInv'
    BY <1>1, <2>5 DEF IInv, TypeInv
  <2>7. Claims' = Claims
    BY <1>1, <2>1 DEF Claims, FreeClaims, MallocClaims, UnmappedClaims, ZombieClaims, HoleClaims
  <2>8. Layout'
    BY <1>1, <2>7, SameLayout DEF IInv
  <2> QED
    BY <2>2, <2>6, <2>8 DEF IInv
<1> QED
  BY <1>1, <1>2, <1>3

LEMMA RollbackIInv ==
  ASSUME IInv, rollback_new_pages
  PROVE  IInv'
<1> DEFINE d == Claim("hole", call.dst, call.size, 0)
           E == {}
<1>1. /\ call.pc = "create" /\ Return
      /\ unmapped_regions' = insert_unmapped_region(unmapped_regions, call.dst, call.size)
      /\ UNCHANGED <<roots, free_regions, malloc_regions, zombie_regions, free_num>>
      /\ \E B : active_pages' = Without(active_pages, B)
  BY DEF rollback_new_pages, Undo
<1>2. CallInv' /\ HoleClaims' = {}
  BY <1>1, ReturnCallInv
<1>3. call.size \in Nat \ {0} /\ call.dst \in Int /\ TypeInv
  BY <1>1, Sizes DEF InCall, IInv, CallInv, Growing
<1>4. /\ DOMAIN unmapped_regions' \subseteq Int
      /\ unmapped_regions' \in [DOMAIN unmapped_regions' -> Nat \ {0}]
  BY <1>1, <1>3, HoleInsert
<1>5. DOMAIN active_pages' \subseteq Address
  BY <1>1, <1>3, WithoutDomain DEF TypeInv
<1>6. TypeInv'
  BY <1>1, <1>3, <1>4, <1>5 DEF TypeInv
<1>7. HoleClaims = {d} /\ d.kind = "hole"
  BY <1>1, ClaimEq DEF HoleClaims
<1>8. /\ Claims' \subseteq (Claims \ ({d} \cup UnmappedClaims)) \cup UnmappedClaims' \cup E
      /\ d \in Claims /\ d \notin UnmappedClaims /\ UnmappedClaims \subseteq Claims
  <2>1. FreeClaims' = FreeClaims /\ MallocClaims' = MallocClaims /\ ZombieClaims' = ZombieClaims
    BY <1>1 DEF FreeClaims, MallocClaims, ZombieClaims
  <2> QED
    BY <1>2, <1>7, <2>1, Kinds DEF Claims
<1>9. /\ \A x \in Int : call.dst <= x /\ x < call.dst + call.size => In(x, d)
      /\ Disjoint(E)
      /\ \A e \in E : \A x \in Int :
           In(x, e) => In(x, d) /\ ~(call.dst <= x /\ x < call.dst + call.size)
  <2>1. \A x \in Int : call.dst <= x /\ x < call.dst + call.size => In(x, d)
    BY ClaimEq DEF In
  <2> QED
    BY <2>1 DEF Disjoint
<1>10. Disjoint(Claims') /\ Within(Claims', RootPages)
  <2>1. Disjoint(Claims) /\ Within(Claims, RootPages) /\ call.size \in Nat
    BY <1>3 DEF IInv, Layout
  <2> HIDE DEF d, E
  <2> QED
    BY <1>1, <1>3, <1>8, <1>9, <2>1, HoleLayout
<1>11. Layout'
  BY <1>1, <1>10 DEF Layout, RootPages
<1> QED
  BY <1>2, <1>6, <1>11 DEF IInv

LEMMA CreationFailsIInv ==
  ASSUME IInv, creation_fails
  PROVE  IInv'
  BY ReturnIInv DEF creation_fails, IInv, TypeInv

LEMMA NoNewPagesIInv ==
  ASSUME IInv, no_new_pages
  PROVE  IInv'
<1> USE DEF no_new_pages
<1>1. /\ call'.pc = "harvest" /\ call'.left = call.size /\ call'.dst = call.dst
      /\ call'.goal = call.goal /\ call'.next = call.next /\ call'.size = call.size
      /\ call'.ptr = call.ptr /\ call'.moves = call.moves /\ call'.scan = call.scan
      /\ call'.stream = call.stream
  BY DEF IInv, CallInv, CallShape
<1>2. call.size \in Nat \ {0}
  BY Sizes DEF InCall
<1>3. CallShape'
  BY DEF IInv, CallInv, CallShape
<1>4. DOMAIN call.moves = call.goal .. call.next - 1
  <2>1. DOMAIN call.moves = {}
    BY DEF IInv, CallInv
  <2>2. call.next = call.goal /\ call.goal \in Int
    BY DEF IInv, CallInv, Growing
  <2>3. call.goal .. call.next - 1 = {}
    BY <2>2
  <2> QED
    BY <2>1, <2>3
<1>5. CallInv'
  BY <1>1, <1>2, <1>3, <1>4 DEF IInv, CallInv, InCall, Growing, RegionFound, Stage
<1>6. TypeInv'
  BY DEF IInv, TypeInv
<1>7. HoleClaims' = HoleClaims
  BY <1>1, <1>2 DEF HoleClaims, IInv, CallInv, Growing
<1>8. Claims' = Claims
  BY <1>7 DEF Claims, FreeClaims, MallocClaims, UnmappedClaims, ZombieClaims
<1>9. Layout'
  BY <1>8, SameLayout DEF IInv
<1> QED
  BY <1>5, <1>6, <1>9 DEF IInv

(* The new pages at the front of the hole join the free regions; if that is *)
(* not enough, the rest of the hole keeps them from merging to the right.   *)
LEMMA InsertNewPagesIInv ==
  ASSUME IInv, insert_new_pages
  PROVE  IInv'
<1> DEFINE p == call.dst
           n == call.goal - call.dst
           s == call.stream
           lo == MergedLo(p, n, s)
           hi == MergedHi(p, n, s)
           left == IF call.size > hi - lo THEN call.size - (hi - lo) ELSE 0
           d == Claim("hole", p, call.size, 0)
           rest == Claim("hole", call.goal, call.size - n, 0)
           E == {rest}
<1>1. /\ call.pc = "create" /\ call.next = call.goal /\ call.goal > call.dst
      /\ free_region_insert(p, n, s)
      /\ UNCHANGED <<roots, active_pages, malloc_regions, unmapped_regions, zombie_regions>>
  BY DEF insert_new_pages
<1>2. call' = [call EXCEPT !.pc = IF left = 0 THEN "take" ELSE "harvest",
                           !.ptr = lo, !.left = left]
  BY DEF insert_new_pages
<1>3. TypeInv /\ call.size \in Nat \ {0} /\ s \in AllStreams
  BY <1>1, Sizes DEF IInv, InCall, AllStreams
<1>4. /\ p \in Int /\ call.goal \in Int /\ n \in Nat \ {0}
      /\ call.goal = p + n /\ n <= call.size
  BY <1>1, <1>3 DEF IInv, CallInv, Growing
<1>5. /\ lo \in Int /\ lo <= p /\ hi \in Int /\ p + n <= hi
      /\ p + n \notin DOMAIN free_regions => hi = p + n
      /\ lo # p => lo \in DOMAIN free_regions
  <2> HIDE DEF p, n, s
  <2> QED
    BY <1>3, <1>4, Merged
<1>6. /\ free_num' = free_num + 1 /\ free_num' \in Nat
      /\ DOMAIN free_regions' \subseteq Int
      /\ free_regions' \in [DOMAIN free_regions' -> FreeRegion(free_num')]
      /\ lo \in DOMAIN free_regions'
      /\ free_regions'[lo].size = hi - lo
      /\ free_regions'[lo].stream = s
  <2> HIDE DEF p, n, s
  <2> QED
    BY <1>1, <1>3, <1>4, FreeInsert
<1>7. TypeInv'
  <2>1. zombie_regions' \subseteq [ptr : Int, size : Nat \ {0}, event : 0 .. free_num' - 1]
    BY <1>1, <1>3, <1>6 DEF TypeInv
  <2> QED
    BY <1>1, <1>3, <1>6, <2>1 DEF TypeInv
<1>8. HoleClaims = {d} /\ d.kind = "hole" /\ d \in Claims /\ d \notin FreeClaims
  BY <1>1, Kinds, ClaimEq DEF HoleClaims, Claims
<1>9. /\ \A x \in Int : In(x, d) <=> p <= x /\ x < p + call.size
      /\ \A x \in Int : In(x, rest) <=> p + n <= x /\ x < p + call.size
  BY <1>3, <1>4, ClaimEq DEF In
<1>10. left # 0 => hi = call.goal
  <2> SUFFICES ASSUME left # 0, p + n \in DOMAIN free_regions
               PROVE  FALSE
    BY <1>4, <1>5
  <2> DEFINE c == Claim("free", p + n, free_regions[p + n].size, 0)
  <2>1. n < call.size
    BY <1>3, <1>4, <1>5
  <2>2. In(p + n, d)
    BY <1>3, <1>4, <1>9, <2>1
  <2>3. In(p + n, c)
    BY <1>3, <1>4, FreeTyped, ClaimEq DEF In
  <2>4. c \in FreeClaims /\ c \in Claims
    BY DEF FreeClaims, Claims
  <2> HIDE DEF c, d, p, n
  <2> QED
    BY <1>4, <1>8, <2>2, <2>3, <2>4 DEF IInv, Layout, Disjoint
<1>11. lo \in Nat
  <2>1. p \in Nat
    <3>1. In(p, d)
      BY <1>3, <1>4, <1>9
    <3>2. p \in RootPages
      BY <1>4, <1>8, <3>1 DEF IInv, Layout, Within
    <3> QED
      BY <1>3, <3>2, PoolAssumption DEF RootPages, Span, TypeInv
  <2> QED
    BY <1>5, <2>1, BasesNat DEF IInv
<1>12. /\ call'.pc = IF left = 0 THEN "take" ELSE "harvest"
       /\ call'.ptr = lo /\ call'.left = left
       /\ call'.dst = call.dst /\ call'.goal = call.goal /\ call'.next = call.next
       /\ call'.size = call.size /\ call'.stream = call.stream
       /\ call'.scan = call.scan /\ call'.moves = call.moves
  BY <1>2 DEF IInv, CallInv, CallShape
<1>13. CallShape'
  BY <1>2 DEF IInv, CallInv, CallShape
<1>14. left \in Nat /\ (left = 0 => hi - lo >= call.size)
       /\ (left # 0 => (hi - lo) + left = call.size)
  BY <1>3, <1>5
<1>15. call.goal .. call.next - 1 = {}
  BY <1>1, <1>4
<1>16. CallInv'
  <2> HIDE DEF lo, hi, left
  <2>1. CASE left = 0
    <3>1. call'.pc = "take"
      BY <1>12, <2>1
    <3> QED
      BY <1>1, <1>6, <1>12, <1>13, <1>14, <2>1, <3>1
      DEF IInv, CallInv, InCall, Growing, RegionFound, Stage
  <2>2. CASE left # 0
    <3>1. call'.pc = "harvest"
      BY <1>12, <2>2
    <3>2. DOMAIN call.moves = {}
      BY <1>1 DEF IInv, CallInv
    <3>3. lo # NoPtr
      BY <1>11 DEF NoPtr
    <3> QED
      BY <1>1, <1>4, <1>5, <1>6, <1>10, <1>12, <1>13, <1>14, <1>15, <2>2, <3>1, <3>2, <3>3
      DEF IInv, CallInv, InCall, Growing, RegionFound, Stage
  <2> QED
    BY <2>1, <2>2
<1>17. HoleClaims' \subseteq E
  BY <1>12 DEF HoleClaims
<1>18. Claims' \subseteq (Claims \ ({d} \cup FreeClaims)) \cup FreeClaims' \cup E
  <2>1. MallocClaims' = MallocClaims /\ UnmappedClaims' = UnmappedClaims
        /\ ZombieClaims' = ZombieClaims
    BY <1>1 DEF MallocClaims, UnmappedClaims, ZombieClaims
  <2> HIDE DEF d, E
  <2> QED
    BY <1>8, <1>17, <2>1, Kinds DEF Claims
<1>19. /\ \A x \in Int : p <= x /\ x < p + n => In(x, d)
       /\ Disjoint(E)
       /\ \A e \in E : \A x \in Int : In(x, e) => In(x, d) /\ ~(p <= x /\ x < p + n)
  <2>1. Disjoint(E)
    BY DEF Disjoint
  <2> HIDE DEF p, n, d, rest
  <2> QED
    BY <1>3, <1>4, <1>9, <2>1
<1>20. Disjoint(Claims') /\ Within(Claims', RootPages)
  <2>1. Disjoint(Claims) /\ Within(Claims, RootPages) /\ FreeClaims \subseteq Claims
    BY DEF IInv, Layout, Claims
  <2> HIDE DEF p, n, s, d, E
  <2> QED
    BY <1>1, <1>3, <1>4, <1>8, <1>18, <1>19, <2>1, FreeLayout
<1>21. Layout'
  BY <1>1, <1>20 DEF Layout, RootPages
<1> QED
  BY <1>7, <1>16, <1>21 DEF IInv

(* Pages are taken from free region p, at a stage that leaves the hole and  *)
(* the region call.ptr of the new pages alone.                              *)
LEMMA HarvestedIInv ==
  ASSUME IInv, call.pc = "harvest", NEW p \in Harvestable, NEW take \in Nat \ {0},
         take <= call.left, take <= free_regions[p].size,
         zombie_regions' = zombie_regions
           \cup {[ptr |-> p, size |-> take, event |-> free_regions[p].id]},
         free_regions' = CutFront(free_regions, p, take),
         call'.pc = "harvest", call'.left = call.left - take,
         call'.next = call.next + take, call'.dst = call.dst, call'.goal = call.goal,
         call'.size = call.size, call'.stream = call.stream,
         call'.ptr = call.ptr, call'.scan = call.scan,
         DOMAIN call'.moves = DOMAIN call.moves \cup Span(call.next, take),
         CallShape',
         UNCHANGED <<roots, active_pages, malloc_regions, unmapped_regions, free_num>>
  PROVE  IInv'
<1> DEFINE r == free_regions[p]
           cut == Claim("zombie", p, take, r.id)
<1>1. TypeInv /\ Layout /\ p \in DOMAIN free_regions /\ p # call.ptr
  BY DEF IInv, Harvestable
<1>2. p \in Int /\ r \in FreeRegion(free_num) /\ r.size \in Nat \ {0} /\ r.id \in 0 .. free_num - 1
  BY <1>1, FreeTyped DEF FreeRegion
<1>3. /\ DOMAIN free_regions \subseteq Int
      /\ free_regions \in [DOMAIN free_regions -> FreeRegion(free_num)]
  BY <1>1 DEF TypeInv
<1>4. /\ DOMAIN free_regions' \subseteq Int
      /\ free_regions' \in [DOMAIN free_regions' -> FreeRegion(free_num)]
  BY <1>1, <1>3, CutFrontMap
<1>5. \A q \in DOMAIN free_regions \ {p} :
        q # p + take \/ r.size <= take =>
          q \in DOMAIN free_regions' /\ free_regions'[q] = free_regions[q]
  BY <1>1, <1>3, CutFrontMap
<1>6. TypeInv'
  <2>1. zombie_regions' \subseteq [ptr : Int, size : Nat \ {0}, event : 0 .. free_num - 1]
    BY <1>1, <1>2 DEF TypeInv
  <2> QED
    BY <1>1, <1>4, <2>1 DEF TypeInv
<1>7. call.ptr # NoPtr =>
        call.ptr \in DOMAIN free_regions' /\ free_regions'[call.ptr] = free_regions[call.ptr]
  <2> SUFFICES ASSUME call.ptr # NoPtr
               PROVE  call.ptr # p + take \/ r.size <= take
    BY <1>1, <1>5 DEF IInv, CallInv
  <2>1. call.ptr \in DOMAIN free_regions /\ call.ptr \in Int
    BY <1>3 DEF IInv, CallInv
  <2> DEFINE c == Claim("free", p, r.size, 0)
             e == Claim("free", call.ptr, free_regions[call.ptr].size, 0)
  <2>2. c \in Claims /\ e \in Claims
    BY <1>1, <2>1 DEF FreeClaims, Claims
  <2>3. c # e
    BY <1>1, ClaimEq
  <2>4. In(call.ptr, e)
    BY <1>1, <2>1, FreeTyped, ClaimEq DEF In
  <2>5. In(call.ptr, c) <=> p <= call.ptr /\ call.ptr < p + r.size
    BY ClaimEq DEF In
  <2>6. ~In(call.ptr, c)
    BY <1>1, <2>1, <2>2, <2>3, <2>4 DEF Layout, Disjoint
  <2> QED
    BY <1>2, <2>1, <2>5, <2>6
<1>8. /\ call.goal \in Int /\ call.next \in Int /\ call.left \in Nat /\ call.goal <= call.next
      /\ DOMAIN call.moves = call.goal .. call.next - 1
  BY DEF IInv, CallInv, Growing
<1>9. DOMAIN call'.moves = call'.goal .. call'.next - 1
  BY <1>8 DEF Span
<1>10. CallInv'
  <2>1. call.size \in Nat \ {0}
    BY Sizes DEF InCall
  <2>2. /\ call'.left \in Nat /\ call'.goal <= call'.next
        /\ call'.next + call'.left = call.next + call.left
        /\ call'.next - call'.goal + call'.left = call.next - call.goal + call.left
        /\ call'.goal < call'.next
    BY <1>8
  <2>3. call.ptr # NoPtr =>
          /\ call'.ptr \in DOMAIN free_regions'
          /\ call'.ptr <= call'.dst /\ call'.ptr < call'.goal
          /\ call'.ptr + free_regions'[call'.ptr].size = call'.goal
          /\ free_regions'[call'.ptr].stream = call'.stream
          /\ free_regions'[call'.ptr].size + (call'.next - call'.goal) + call'.left
               = call'.size
    <3> SUFFICES ASSUME call.ptr # NoPtr
                 PROVE  /\ call.ptr \in DOMAIN free_regions'
                        /\ call.ptr <= call.dst /\ call.ptr < call.goal
                        /\ call.ptr + free_regions'[call.ptr].size = call.goal
                        /\ free_regions'[call.ptr].stream = call.stream
                        /\ free_regions'[call.ptr].size + (call'.next - call'.goal) + call'.left
                             = call.size
      OBVIOUS
    <3>1. /\ call.ptr \in DOMAIN free_regions
          /\ call.ptr <= call.dst /\ call.ptr < call.goal
          /\ call.ptr + free_regions[call.ptr].size = call.goal
          /\ free_regions[call.ptr].stream = call.stream
          /\ free_regions[call.ptr].size + (call.next - call.goal) + call.left = call.size
      BY DEF IInv, CallInv
    <3>2. free_regions[call.ptr].size \in Nat
      BY <1>1, <3>1, FreeTyped
    <3>3. free_regions'[call.ptr] = free_regions[call.ptr] /\ call.ptr \in DOMAIN free_regions'
      BY <1>7
    <3> QED
      BY <1>8, <3>1, <3>2, <3>3
  <2>4. call.ptr = NoPtr =>
          call'.goal = call'.dst /\ call'.next + call'.left = call'.dst + call'.size
    BY <2>2 DEF IInv, CallInv
  <2>5. Growing' /\ call'.pc \in Stage /\ InCall' /\ RegionFound'
    BY DEF Growing, InCall, RegionFound, Stage
  <2>6. /\ call'.scan \subseteq zombie_regions'
        /\ call'.stream \in Stream /\ call'.size \in Request
        /\ call'.dst \in Int /\ call'.goal \in Int /\ call'.next \in Int
        /\ call'.dst <= call'.goal /\ call'.goal <= call'.dst + call'.size
    BY <1>8 DEF IInv, CallInv, Growing, InCall
  <2> QED
    BY <1>9, <2>2, <2>3, <2>4, <2>5, <2>6 DEF CallInv
<1>11. ZombieClaims' \subseteq ZombieClaims \cup {cut}
  BY DEF ZombieClaims
<1>12. HoleClaims' = HoleClaims
  BY DEF HoleClaims
<1>13. Claims' \subseteq (Claims \ FreeClaims) \cup FreeClaims' \cup {cut}
  <2>1. MallocClaims' = MallocClaims /\ UnmappedClaims' = UnmappedClaims
    BY DEF MallocClaims, UnmappedClaims
  <2> HIDE DEF cut
  <2> QED
    BY <1>11, <1>12, <2>1, Kinds DEF Claims
<1>14. Disjoint(Claims') /\ Within(Claims', RootPages)
  <2>1. Disjoint(Claims) /\ Within(Claims, RootPages) /\ FreeClaims \subseteq Claims
    BY <1>1 DEF Layout, Claims
  <2> QED
    BY <1>1, <1>3, <1>13, <2>1, CutLayout
<1>15. Layout'
  BY <1>14 DEF Layout, RootPages
<1> QED
  BY <1>6, <1>10, <1>15 DEF IInv

LEMMA HarvestIInv ==
  ASSUME IInv, harvest_free_region
  PROVE  IInv'
<1> DEFINE p == NextHarvest
           r == free_regions[p]
           take == IF call.left < r.size THEN call.left ELSE r.size
           into == Span(call.next, take)
<1>1. /\ call.pc = "harvest" /\ call.left > 0 /\ Harvestable # {}
      /\ UNCHANGED <<roots, active_pages, malloc_regions, unmapped_regions, free_num>>
  BY DEF harvest_free_region
<1>2. TypeInv /\ p \in Harvestable /\ p \in DOMAIN free_regions
  BY <1>1, NextHarvestIn DEF IInv, Harvestable
<1>3. r.size \in Nat \ {0} /\ call.left \in Nat
  BY <1>1, <1>2, FreeTyped DEF IInv, CallInv
<1>4. take \in Nat \ {0} /\ take <= call.left /\ take <= r.size
  BY <1>1, <1>3
<1>5. CASE /\ zombie_regions' =
                zombie_regions \cup {[ptr |-> p, size |-> take, event |-> r.id]}
           /\ free_regions' = CutFront(free_regions, p, take)
           /\ call' = [call EXCEPT
                !.left  = @ - take,
                !.next  = @ + take,
                !.moves = [d \in DOMAIN @ \cup into |->
                             IF d \in into THEN p + (d - call.next) ELSE @[d]]]
  <2>1. /\ zombie_regions' =
             zombie_regions \cup {[ptr |-> p, size |-> take, event |-> free_regions[p].id]}
        /\ free_regions' = CutFront(free_regions, p, take)
    BY <1>5
  <2> HIDE DEF take, p
  <2>2. /\ call'.pc = "harvest" /\ call'.left = call.left - take
        /\ call'.next = call.next + take /\ call'.dst = call.dst /\ call'.goal = call.goal
        /\ call'.size = call.size /\ call'.stream = call.stream
        /\ call'.ptr = call.ptr /\ call'.scan = call.scan
        /\ DOMAIN call'.moves = DOMAIN call.moves \cup into
    BY <1>1, <1>5 DEF IInv, CallInv, CallShape
  <2>3. CallShape'
    BY <1>5 DEF IInv, CallInv, CallShape
  <2> QED
    BY <1>1, <1>2, <1>4, <2>1, <2>2, <2>3, HarvestedIInv
<1>6. CASE /\ free_regions' = Without(free_regions, {p})
           /\ Return
           /\ UNCHANGED <<before, zombie_regions>>
  <2> HIDE DEF p
  <2>1. CallInv' /\ HoleClaims' = {}
    BY <1>6, ReturnCallInv
  <2>2. DOMAIN free_regions' = DOMAIN free_regions \ {p}
    BY <1>6, WithoutDomain
  <2>3. \A q \in DOMAIN free_regions \ {p} : free_regions'[q] = free_regions[q]
    BY <1>6, WithoutOld
  <2>4. free_regions \in [DOMAIN free_regions -> FreeRegion(free_num)]
    BY <1>2 DEF TypeInv
  <2>5. free_regions' \in [DOMAIN free_regions \ {p} -> FreeRegion(free_num)]
    BY <1>6, <2>4, WithoutType
  <2>6. TypeInv'
    BY <1>1, <1>2, <1>6, <2>2, <2>5 DEF TypeInv
  <2>7. FreeClaims' \subseteq FreeClaims
    BY <2>2, <2>3 DEF FreeClaims
  <2>8. Claims' \subseteq Claims
    BY <1>1, <1>6, <2>1, <2>7
    DEF Claims, MallocClaims, UnmappedClaims, ZombieClaims
  <2>9. Layout'
    BY <1>1, <2>8, SameLayout DEF IInv
  <2> QED
    BY <2>1, <2>6, <2>9 DEF IInv
<1> QED
  BY <1>5, <1>6 DEF harvest_free_region

(* The addresses that harvested pages move to lie in the hole.              *)
LEMMA MovesInHole ==
  ASSUME IInv, call.pc = "harvest"
  PROVE  LET d == Claim("hole", call.goal, call.size - (call.goal - call.dst), 0)
         IN  /\ HoleClaims = {d}
             /\ call.left = 0 =>
                  \A x \in Int : call.goal <= x /\ x < call.next => In(x, d)
             /\ call.left = 0 => \A x \in DOMAIN call.moves : x \in Address
<1> DEFINE d == Claim("hole", call.goal, call.size - (call.goal - call.dst), 0)
<1>1. HoleClaims = {d}
  BY DEF HoleClaims
<1>2. call.size \in Nat \ {0}
  BY Sizes DEF InCall
<1>3. /\ call.dst \in Int /\ call.goal \in Int /\ call.next \in Int
      /\ DOMAIN call.moves = call.goal .. call.next - 1
  BY DEF IInv, CallInv, Growing
<1>4. call.left = 0 => call.next <= call.dst + call.size
  <2>1. CASE call.ptr = NoPtr
    BY <1>3, <2>1 DEF IInv, CallInv
  <2>2. CASE call.ptr # NoPtr
    <3>1. /\ call.ptr \in DOMAIN free_regions /\ call.ptr <= call.dst
          /\ call.ptr + free_regions[call.ptr].size = call.goal
          /\ free_regions[call.ptr].size + (call.next - call.goal) + call.left = call.size
      BY <2>2 DEF IInv, CallInv
    <3>2. call.ptr \in Int /\ free_regions[call.ptr].size \in Nat
      BY <3>1, FreeTyped DEF IInv
    <3> QED
      BY <1>2, <1>3, <3>1, <3>2
  <2> QED
    BY <2>1, <2>2
<1>5. \A x \in Int : In(x, d) <=> call.goal <= x /\ x < call.dst + call.size
  BY <1>2, <1>3, ClaimEq DEF In
<1>6. call.left = 0 => \A x \in Int : call.goal <= x /\ x < call.next => In(x, d)
  BY <1>2, <1>3, <1>4, <1>5
<1>7. call.left = 0 => \A x \in DOMAIN call.moves : x \in Address
  <2> SUFFICES ASSUME call.left = 0, NEW x \in DOMAIN call.moves
               PROVE  x \in Address
    OBVIOUS
  <2>1. x \in Int /\ In(x, d)
    BY <1>3, <1>6
  <2>2. Growing
    BY DEF Growing
  <2> HIDE DEF d
  <2> QED
    BY <1>1, <2>1, <2>2, HoleInAddress
<1> HIDE DEF d
<1> SUFFICES /\ HoleClaims = {d}
             /\ call.left = 0 =>
                  \A x \in Int : call.goal <= x /\ x < call.next => In(x, d)
             /\ call.left = 0 => \A x \in DOMAIN call.moves : x \in Address
  BY DEF d
<1> QED
  BY <1>1, <1>6, <1>7

(* The pages of the hole become free; with the new pages before them they   *)
(* are one region, large enough for the request.                            *)
LEMMA RemapIInv ==
  ASSUME IInv, remap_regions
  PROVE  IInv'
<1> DEFINE p == call.goal
           n == call.next - call.goal
           s == call.stream
           lo == MergedLo(p, n, s)
           hi == MergedHi(p, n, s)
           d == Claim("hole", call.goal, call.size - (call.goal - call.dst), 0)
           E == {}
<1>1. /\ call.pc = "harvest" /\ call.left = 0
      /\ active_pages' = Remapped(DOMAIN call.moves)
      /\ free_region_insert(p, n, s)
      /\ UNCHANGED <<roots, malloc_regions, unmapped_regions, zombie_regions>>
  BY DEF remap_regions
<1>2. call' = [call EXCEPT !.pc = "take", !.ptr = MinPtr(@, lo)]
  BY DEF remap_regions
<1>3. TypeInv /\ call.size \in Nat \ {0} /\ s \in AllStreams
  BY <1>1, Sizes DEF IInv, InCall, AllStreams
<1>4. p \in Int /\ call.next \in Int /\ n \in Nat \ {0}
  BY <1>1 DEF IInv, CallInv, Growing
<1>5. /\ lo \in Int /\ lo <= p /\ hi \in Int /\ p + n <= hi
      /\ \A q \in DOMAIN free_regions :
           q < p /\ q + free_regions[q].size = p /\ free_regions[q].stream = s =>
             /\ lo \in DOMAIN free_regions /\ lo < p
             /\ lo + free_regions[lo].size = p
  <2> HIDE DEF p, n, s
  <2>1. lo \in Int /\ lo <= p /\ hi \in Int /\ p + n <= hi
    BY <1>3, <1>4, Merged
  <2>2. \A q \in DOMAIN free_regions :
          q < p /\ q + free_regions[q].size = p /\ free_regions[q].stream = s =>
            /\ lo \in DOMAIN free_regions /\ lo < p
            /\ lo + free_regions[lo].size = p
    BY <1>3, <1>4, Merged
  <2> QED
    BY <2>1, <2>2
<1>6. /\ free_num' = free_num + 1 /\ free_num' \in Nat
      /\ DOMAIN free_regions' \subseteq Int
      /\ free_regions' \in [DOMAIN free_regions' -> FreeRegion(free_num')]
      /\ lo \in DOMAIN free_regions'
      /\ free_regions'[lo].size = hi - lo
      /\ free_regions'[lo].stream = s
  <2> HIDE DEF p, n, s
  <2> QED
    BY <1>1, <1>3, <1>4, FreeInsert
<1>7. TypeInv'
  <2>1. DOMAIN active_pages' \subseteq Address
    BY <1>1, <1>3, MovesInHole DEF Remapped, TypeInv
  <2>2. zombie_regions' \subseteq [ptr : Int, size : Nat \ {0}, event : 0 .. free_num' - 1]
    BY <1>1, <1>3, <1>6 DEF TypeInv
  <2> QED
    BY <1>1, <1>3, <1>6, <2>1, <2>2 DEF TypeInv
<1>8. /\ HoleClaims = {d}
      /\ \A x \in Int : p <= x /\ x < p + n => In(x, d)
  BY <1>1, <1>4, MovesInHole
<1>9. MinPtr(call.ptr, lo) = lo /\ hi - lo >= call.size
  <2>1. CASE call.ptr = NoPtr
    <3>1. call.goal = call.dst /\ call.next = call.dst + call.size /\ call.dst \in Int
      BY <1>1, <1>3, <1>4, <2>1 DEF IInv, CallInv, Growing
    <3>2. n = call.size
      BY <1>3, <3>1
    <3> HIDE DEF p, n, lo, hi
    <3> QED
      BY <1>3, <1>4, <1>5, <2>1, <3>2 DEF MinPtr
  <2>2. CASE call.ptr # NoPtr
    <3> DEFINE q == call.ptr
               c == Claim("free", q, free_regions[q].size, 0)
               e == Claim("free", lo, free_regions[lo].size, 0)
    <3>1. /\ q \in DOMAIN free_regions /\ q < p
          /\ q + free_regions[q].size = p
          /\ free_regions[q].stream = s
          /\ free_regions[q].size + n + call.left = call.size
      BY <1>1, <2>2 DEF IInv, CallInv
    <3>2. lo \in DOMAIN free_regions /\ lo < p /\ lo + free_regions[lo].size = p
      BY <1>5, <3>1
    <3>3. /\ q \in Int /\ free_regions[q].size \in Nat
          /\ lo \in Int /\ free_regions[lo].size \in Nat
      BY <1>3, <3>1, <3>2, FreeTyped
    <3>4. c \in Claims /\ e \in Claims
      BY <3>1, <3>2 DEF Claims, FreeClaims
    <3>5. In(p - 1, c) /\ In(p - 1, e)
      <4> HIDE DEF p, lo
      <4> QED
        BY <1>4, <3>1, <3>2, <3>3, ClaimEq DEF In
    <3>6. c = e
      <4> HIDE DEF c, e, p
      <4>1. p - 1 \in Int
        BY <1>4
      <4> QED
        BY <3>4, <3>5, <4>1 DEF IInv, Layout, Disjoint
    <3>7. lo = q
      BY <3>6, ClaimEq
    <3> HIDE DEF p, n, lo, hi
    <3> QED
      BY <1>1, <1>3, <1>4, <1>5, <3>1, <3>3, <3>7 DEF MinPtr
  <2> QED
    BY <2>1, <2>2
<1>10. /\ call'.pc = "take" /\ call'.ptr = lo
       /\ call'.size = call.size /\ call'.stream = call.stream /\ call'.scan = call.scan
  BY <1>2, <1>9 DEF IInv, CallInv, CallShape
<1>11. CallShape'
  BY <1>2 DEF IInv, CallInv, CallShape
<1>12. CallInv'
  <2> HIDE DEF lo, hi
  <2>1. RegionFound'
    BY <1>6, <1>9, <1>10 DEF RegionFound
  <2> QED
    BY <1>1, <1>10, <1>11, <2>1 DEF IInv, CallInv, InCall, Growing, Stage
<1>13. HoleClaims' = {}
  BY <1>10 DEF HoleClaims
<1>14. d.kind = "hole" /\ d \in Claims /\ d \notin FreeClaims
  BY <1>8, Kinds, ClaimEq DEF Claims
<1>15. Claims' \subseteq (Claims \ ({d} \cup FreeClaims)) \cup FreeClaims' \cup E
  <2>1. MallocClaims' = MallocClaims /\ UnmappedClaims' = UnmappedClaims
        /\ ZombieClaims' = ZombieClaims
    BY <1>1 DEF MallocClaims, UnmappedClaims, ZombieClaims
  <2> HIDE DEF d
  <2> QED
    BY <1>8, <1>13, <1>14, <2>1, Kinds DEF Claims
<1>16. /\ Disjoint(E)
       /\ \A e \in E : \A x \in Int : In(x, e) => In(x, d) /\ ~(p <= x /\ x < p + n)
  BY DEF Disjoint
<1>17. Disjoint(Claims') /\ Within(Claims', RootPages)
  <2>1. Disjoint(Claims) /\ Within(Claims, RootPages) /\ FreeClaims \subseteq Claims
    BY DEF IInv, Layout, Claims
  <2> HIDE DEF p, n, s, d, E
  <2> QED
    BY <1>1, <1>3, <1>4, <1>8, <1>14, <1>15, <1>16, <2>1, FreeLayout
<1>18. Layout'
  BY <1>1, <1>17 DEF Layout, RootPages
<1> QED
  BY <1>7, <1>12, <1>18 DEF IInv

LEMMA RemapFailsIInv ==
  ASSUME IInv, NEW k, remap_fails(k)
  PROVE  IInv'
<1> DEFINE done == {d \in DOMAIN call.moves : d < k}
           gone == {call.moves[d] : d \in {d \in DOMAIN call.moves : d <= k}}
<1>1. /\ call.pc = "harvest" /\ call.left = 0 /\ Return
      /\ active_pages' = [a \in DOMAIN Remapped(done) \ gone |-> Remapped(done)[a]]
      /\ UNCHANGED <<roots, free_regions, malloc_regions, unmapped_regions,
                     zombie_regions, free_num>>
  BY DEF remap_fails
<1>2. DOMAIN active_pages' \subseteq DOMAIN active_pages \cup DOMAIN call.moves
  <2>1. DOMAIN Remapped(done) \subseteq DOMAIN active_pages \cup done
    BY DEF Remapped
  <2>2. DOMAIN active_pages' \subseteq DOMAIN Remapped(done)
    BY <1>1
  <2> QED
    BY <2>1, <2>2
<1>3. DOMAIN active_pages' \subseteq Address
  BY <1>1, <1>2, MovesInHole DEF IInv, TypeInv
<1> QED
  BY <1>1, <1>3, ReturnIInv

LEMMA TakeIInv ==
  ASSUME IInv, hand_out_defragmented
  PROVE  IInv'
<1>1. /\ call.ptr \in DOMAIN free_regions /\ free_regions[call.ptr].size >= call.size
      /\ InCall
  BY DEF hand_out_defragmented, IInv, CallInv, RegionFound, InCall
<1>2. free_regions \in [DOMAIN free_regions -> FreeRegion(free_num)]
  BY DEF IInv, TypeInv
<1> QED
  BY <1>1, <1>2, HandOutIInv DEF hand_out_defragmented

LEMMA FreeIInv ==
  ASSUME IInv, NEW p \in DOMAIN malloc_regions, free_internal(p)
  PROVE  IInv'
<1> DEFINE n == malloc_regions[p].size
           s == malloc_regions[p].stream
           d == Claim("malloc", p, n, 0)
           E == {}
<1>1. /\ call.pc = "idle" /\ call' = call
      /\ free_region_insert(p, n, s)
      /\ malloc_regions' = Without(malloc_regions, {p})
      /\ UNCHANGED <<roots, active_pages, unmapped_regions, zombie_regions>>
  BY DEF free_internal
<1>2. TypeInv /\ p \in Int /\ n \in Nat \ {0} /\ s \in AllStreams
  BY RequestPositive DEF IInv, TypeInv, AllStreams
<1>3. /\ free_num' = free_num + 1 /\ free_num' \in Nat
      /\ DOMAIN free_regions' \subseteq Int
      /\ free_regions' \in [DOMAIN free_regions' -> FreeRegion(free_num')]
  <2> HIDE DEF n, s
  <2> QED
    BY <1>1, <1>2, FreeInsert
<1>4. DOMAIN malloc_regions' = DOMAIN malloc_regions \ {p}
  BY <1>1, WithoutDomain
<1>5. \A q \in DOMAIN malloc_regions \ {p} : malloc_regions'[q] = malloc_regions[q]
  BY <1>1, WithoutOld
<1>6. TypeInv'
  <2>1. malloc_regions \in [DOMAIN malloc_regions -> [size : Request, stream : Stream]]
    BY <1>2 DEF TypeInv
  <2>2. malloc_regions' \in [DOMAIN malloc_regions \ {p} -> [size : Request, stream : Stream]]
    BY <1>1, <2>1, WithoutType
  <2>3. zombie_regions' \subseteq [ptr : Int, size : Nat \ {0}, event : 0 .. free_num' - 1]
    BY <1>1, <1>2, <1>3 DEF TypeInv
  <2> QED
    BY <1>1, <1>2, <1>3, <1>4, <2>2, <2>3 DEF TypeInv
<1>7. CallInv'
  BY <1>1 DEF IInv, CallInv, CallShape, InCall, Growing, RegionFound
<1>8. MallocClaims' \subseteq MallocClaims \ {d}
  <2> SUFFICES ASSUME NEW q \in DOMAIN malloc_regions \ {p}
               PROVE  Claim("malloc", q, malloc_regions[q].size, 0) \in MallocClaims \ {d}
    BY <1>4, <1>5 DEF MallocClaims
  <2>1. Claim("malloc", q, malloc_regions[q].size, 0) # d
    BY ClaimEq
  <2> QED
    BY <2>1 DEF MallocClaims
<1>9. d \in MallocClaims /\ d.kind = "malloc" /\ d \in Claims /\ d \notin FreeClaims
  BY Kinds, ClaimEq DEF MallocClaims, Claims
<1>10. Claims' \subseteq (Claims \ ({d} \cup FreeClaims)) \cup FreeClaims' \cup E
  <2>1. UnmappedClaims' = UnmappedClaims /\ ZombieClaims' = ZombieClaims
        /\ HoleClaims' = HoleClaims
    BY <1>1 DEF UnmappedClaims, ZombieClaims, HoleClaims
  <2> HIDE DEF d
  <2> QED
    BY <1>8, <1>9, <2>1, Kinds DEF Claims
<1>11. /\ \A x \in Int : p <= x /\ x < p + n => In(x, d)
       /\ Disjoint(E)
       /\ \A e \in E : \A x \in Int : In(x, e) => In(x, d) /\ ~(p <= x /\ x < p + n)
  BY ClaimEq DEF Disjoint, In
<1>12. Disjoint(Claims') /\ Within(Claims', RootPages)
  <2>1. Disjoint(Claims) /\ Within(Claims, RootPages) /\ FreeClaims \subseteq Claims
    BY DEF IInv, Layout, Claims
  <2> HIDE DEF n, s, d, E
  <2> QED
    BY <1>1, <1>2, <1>9, <1>10, <1>11, <2>1, FreeLayout
<1>13. Layout'
  BY <1>1, <1>12 DEF Layout, RootPages
<1> QED
  BY <1>6, <1>7, <1>13 DEF IInv

LEMMA DropIInv ==
  ASSUME IInv, drop
  PROVE  IInv'
<1> USE DEF drop
<1>1. call'.pc = "dropped" /\ call'.scan = {} /\ CallShape'
  BY DEF NoCall, CallShape
<1>2. CallInv'
  BY <1>1 DEF CallInv, InCall, Growing, RegionFound, Stage
<1>3. \A f : f = EmptyMap => DOMAIN f = {} /\ \A R : f \in [DOMAIN f -> R]
  BY DEF EmptyMap
<1>4. TypeInv'
  BY <1>3 DEF IInv, TypeInv
<1>5. Claims' = {}
  BY <1>1, <1>3
  DEF Claims, FreeClaims, MallocClaims, UnmappedClaims, ZombieClaims, HoleClaims
<1>6. Layout'
  BY <1>5 DEF Layout, Disjoint, Within
<1> QED
  BY <1>2, <1>4, <1>6 DEF IInv

LEMMA StutterIInv ==
  ASSUME IInv, UNCHANGED pool_vars
  PROVE  IInv'
<1>1. TypeInv'
  BY DEF IInv, TypeInv, pool_vars
<1>2. CallInv'
  BY DEF IInv, CallInv, CallShape, InCall, Growing, RegionFound, pool_vars
<1>3. Claims' = Claims
  BY DEF Claims, FreeClaims, MallocClaims, UnmappedClaims, ZombieClaims, HoleClaims, pool_vars
<1>4. Layout'
  BY <1>3, SameLayout DEF IInv, pool_vars
<1> QED
  BY <1>1, <1>2, <1>4 DEF IInv

-----------------------------------------------------------------------------
(* Theorems.                                                               *)

LEMMA InitIInv == Init => IInv
<1> SUFFICES ASSUME Init
             PROVE  IInv
  OBVIOUS
<1> DEFINE pages(base) ==
             CHOOSE m \in [Span(base, InitialPages) -> Handle] : IsInjective(m)
<1>1. PICK base \in VaBase :
        /\ roots = {base}
        /\ active_pages = pages(base)
        /\ free_regions = [p \in IF InitialPages > 0 THEN {base} ELSE {} |->
                            [size |-> InitialPages, stream |-> InitStream, id |-> 0]]
        /\ unmapped_regions = [p \in IF InitialPages < VaSize
                                    THEN {base + InitialPages} ELSE {} |->
                                VaSize - InitialPages]
        /\ free_num = IF InitialPages > 0 THEN 1 ELSE 0
        /\ malloc_regions = EmptyMap
        /\ zombie_regions = {}
        /\ call = NoCall
  BY DEF Init
<1>2. /\ base \in Nat /\ VaSize \in Nat /\ InitialPages \in Nat /\ InitialPages <= VaSize
  BY PoolAssumption
<1>3. pages(base) \in [Span(base, InitialPages) -> Handle]
  BY PreallocationAssumption
<1>4. Span(base, InitialPages) \subseteq Address
  BY <1>2 DEF Span, Address
<1> HIDE DEF pages
<1>5. TypeInv
  <2>1. DOMAIN active_pages \subseteq Address
    BY <1>1, <1>3, <1>4
  <2>2. /\ DOMAIN malloc_regions = {}
        /\ malloc_regions \in [DOMAIN malloc_regions -> [size : Request, stream : Stream]]
    BY <1>1 DEF EmptyMap
  <2>3. /\ DOMAIN free_regions \subseteq Int
        /\ free_regions \in [DOMAIN free_regions -> FreeRegion(free_num)]
    BY <1>1, <1>2 DEF FreeRegion, AllStreams
  <2>4. /\ DOMAIN unmapped_regions \subseteq Int
        /\ unmapped_regions \in [DOMAIN unmapped_regions -> Nat \ {0}]
    BY <1>1, <1>2
  <2> QED
    BY <1>1, <2>1, <2>2, <2>3, <2>4 DEF TypeInv
<1>6. CallInv
  BY <1>1 DEF NoCall, CallInv, CallShape, InCall, Growing, RegionFound, Stage
<1>7. Layout
  <2> DEFINE c == Claim("free", base, InitialPages, 0)
             e == Claim("unmapped", base + InitialPages, VaSize - InitialPages, 0)
  <2>1. Claims \subseteq {c, e}
    <3>1. FreeClaims \subseteq {c}
      BY <1>1 DEF FreeClaims
    <3>2. UnmappedClaims \subseteq {e}
      BY <1>1 DEF UnmappedClaims
    <3>3. MallocClaims = {} /\ ZombieClaims = {} /\ HoleClaims = {}
      BY <1>1 DEF MallocClaims, ZombieClaims, HoleClaims, EmptyMap, NoCall
    <3> QED
      BY <3>1, <3>2, <3>3 DEF Claims
  <2>2. /\ \A x \in Int : In(x, c) <=> base <= x /\ x < base + InitialPages
        /\ \A x \in Int : In(x, e) <=> base + InitialPages <= x /\ x < base + VaSize
    BY <1>2, ClaimEq DEF In
  <2>3. \A x \in Int : base <= x /\ x < base + VaSize => x \in RootPages
    BY <1>1, <1>2 DEF RootPages, Span
  <2> HIDE DEF c, e
  <2>4. Disjoint(Claims)
    BY <1>2, <2>1, <2>2 DEF Disjoint
  <2>5. Within(Claims, RootPages)
    BY <1>2, <2>1, <2>2, <2>3 DEF Within
  <2> QED
    BY <2>4, <2>5 DEF Layout
<1> QED
  BY <1>5, <1>6, <1>7 DEF IInv

LEMMA NextIInv == IInv /\ [Next]_vars => IInv'
<1> SUFFICES ASSUME IInv, [Next]_vars
             PROVE  IInv'
  OBVIOUS
<1>1. CASE \E s \in Stream, n \in Request : malloc_internal(s, n)
  BY <1>1, MallocIInv
<1>2. CASE CallStep
  BY <1>2, CleanupIInv, FindBestFitIInv, TakeUnmappedIInv, CreatePageIInv,
     RollbackIInv, CreationFailsIInv, InsertNewPagesIInv, NoNewPagesIInv,
     HarvestIInv, RemapIInv, RemapFailsIInv, TakeIInv DEF CallStep
<1>3. CASE \E p \in DOMAIN malloc_regions : free_internal(p)
  BY <1>3, FreeIInv
<1>4. CASE drop
  BY <1>4, DropIInv
<1>5. CASE UNCHANGED pool_vars
  BY <1>5, StutterIInv
<1>6. ASSUME \/ \E p \in DOMAIN malloc_regions, k \in Kernel : Launch(p, k)
             \/ \E id \in DOMAIN ops : Device(id)
             \/ Dropped
             \/ UNCHANGED vars
      PROVE  UNCHANGED pool_vars
  BY <1>6 DEF Launch, Device, Dropped, vars
<1> QED
  BY <1>1, <1>2, <1>3, <1>4, <1>5, <1>6 DEF Next

(* The inductive invariant: every reserved address is claimed at most once, *)
(* the hole a call of malloc_internal is filling included, and what the     *)
(* call has created and harvested so far adds up to its request.            *)
THEOREM InductiveInvariant == Spec => []IInv
  BY InitIInv, NextIInv, PTL DEF Spec

(* Bases are reserved addresses: every region claims at least its first     *)
(* address, and all claims lie in the chunks reserved so far.               *)
LEMMA IInvTypeOK == IInv => TypeOK
<1> SUFFICES ASSUME IInv
             PROVE  TypeOK
  OBVIOUS
<1>1. TypeInv /\ call.pc \in Stage
  BY DEF IInv, CallInv
<1>2. RootPages \subseteq Address
  BY <1>1 DEF TypeInv, RootPages, Address
<1>3. ASSUME NEW k, NEW p \in Int, NEW n \in Nat \ {0}, NEW t, Claim(k, p, n, t) \in Claims
      PROVE  p \in Address
  <2>1. In(p, Claim(k, p, n, t))
    BY ClaimEq DEF In
  <2> QED
    BY <1>2, <1>3, <2>1 DEF IInv, Layout, Within
<1>4. DOMAIN free_regions \subseteq Address
  <2> SUFFICES ASSUME NEW p \in DOMAIN free_regions
               PROVE  p \in Address
    OBVIOUS
  <2>1. Claim("free", p, free_regions[p].size, 0) \in Claims
    BY DEF Claims, FreeClaims
  <2> QED
    BY <1>1, <1>3, <2>1, FreeTyped
<1>5. DOMAIN malloc_regions \subseteq Address
  <2> SUFFICES ASSUME NEW p \in DOMAIN malloc_regions
               PROVE  p \in Address
    OBVIOUS
  <2>1. Claim("malloc", p, malloc_regions[p].size, 0) \in Claims
    BY DEF Claims, MallocClaims
  <2>2. p \in Int /\ malloc_regions[p].size \in Nat \ {0}
    BY <1>1, RequestPositive DEF TypeInv
  <2> QED
    BY <1>3, <2>1, <2>2
<1>6. DOMAIN unmapped_regions \subseteq Address
  <2> SUFFICES ASSUME NEW p \in DOMAIN unmapped_regions
               PROVE  p \in Address
    OBVIOUS
  <2>1. Claim("unmapped", p, unmapped_regions[p], 0) \in Claims
    BY DEF Claims, UnmappedClaims
  <2>2. p \in Int /\ unmapped_regions[p] \in Nat \ {0}
    BY <1>1 DEF TypeInv
  <2> QED
    BY <1>3, <2>1, <2>2
<1>7. zombie_regions \subseteq [ptr : Address, size : Nat \ {0}, event : 0 .. free_num - 1]
  <2> SUFFICES ASSUME NEW z \in zombie_regions
               PROVE  z \in [ptr : Address, size : Nat \ {0}, event : 0 .. free_num - 1]
    OBVIOUS
  <2>1. Claim("zombie", z.ptr, z.size, z.event) \in Claims
    BY DEF Claims, ZombieClaims
  <2>2. z \in [ptr : Int, size : Nat \ {0}, event : 0 .. free_num - 1]
    BY <1>1 DEF TypeInv
  <2>3. z.ptr \in Address
    BY <1>3, <2>1, <2>2
  <2> QED
    BY <2>2, <2>3
<1> QED
  BY <1>1, <1>4, <1>5, <1>6, <1>7 DEF TypeOK, TypeInv, IsPartial, FreeRegion

(* The fields of the pool are well typed: no region is empty, every region  *)
(* begins in a reserved chunk, and its event has been recorded.             *)
THEOREM TypeCorrect == Spec => []TypeOK
  BY InductiveInvariant, IInvTypeOK, PTL

(* The claim of a region as RegionsDisjoint lists it.                       *)
ClaimOf(r) == Claim(r[1], r[2], r[3], IF r[1] = "zombie" THEN r[4] ELSE 0)
Listed(r) ==
  r = IF r[1] = "zombie" THEN <<r[1], r[2], r[3], r[4]>> ELSE <<r[1], r[2], r[3]>>

LEMMA RegionsClaimed ==
  ASSUME IInv, NEW r \in Regions
  PROVE  /\ ClaimOf(r) \in Claims \ HoleClaims
         /\ Listed(r)
         /\ \A x \in Span(r[2], r[3]) : x \in Int /\ In(x, ClaimOf(r))
<1>1. TypeInv
  BY DEF IInv
<1>2. /\ ClaimOf(r) \in FreeClaims \cup MallocClaims \cup UnmappedClaims \cup ZombieClaims
      /\ Listed(r) /\ r[2] \in Int /\ r[3] \in Nat
  <2>1. CASE \E p \in DOMAIN free_regions : r = <<"free", p, free_regions[p].size>>
    <3>1. PICK p \in DOMAIN free_regions : r = <<"free", p, free_regions[p].size>>
      BY <2>1
    <3>2. ClaimOf(r) = Claim("free", p, free_regions[p].size, 0)
      BY <3>1 DEF ClaimOf
    <3> QED
      BY <1>1, <3>1, <3>2, FreeTyped DEF FreeClaims, Listed
  <2>2. CASE \E p \in DOMAIN malloc_regions : r = <<"malloc", p, malloc_regions[p].size>>
    <3>1. PICK p \in DOMAIN malloc_regions : r = <<"malloc", p, malloc_regions[p].size>>
      BY <2>2
    <3>2. ClaimOf(r) = Claim("malloc", p, malloc_regions[p].size, 0)
      BY <3>1 DEF ClaimOf
    <3>3. p \in Int /\ malloc_regions[p].size \in Nat
      BY <1>1, RequestPositive DEF TypeInv
    <3> QED
      BY <3>1, <3>2, <3>3 DEF MallocClaims, Listed
  <2>3. CASE \E p \in DOMAIN unmapped_regions : r = <<"unmapped", p, unmapped_regions[p]>>
    <3>1. PICK p \in DOMAIN unmapped_regions : r = <<"unmapped", p, unmapped_regions[p]>>
      BY <2>3
    <3>2. ClaimOf(r) = Claim("unmapped", p, unmapped_regions[p], 0)
      BY <3>1 DEF ClaimOf
    <3>3. p \in Int /\ unmapped_regions[p] \in Nat
      BY <1>1 DEF TypeInv
    <3> QED
      BY <3>1, <3>2, <3>3 DEF UnmappedClaims, Listed
  <2>4. CASE \E z \in zombie_regions : r = <<"zombie", z.ptr, z.size, z.event>>
    <3>1. PICK z \in zombie_regions : r = <<"zombie", z.ptr, z.size, z.event>>
      BY <2>4
    <3>2. ClaimOf(r) = Claim("zombie", z.ptr, z.size, z.event)
      BY <3>1 DEF ClaimOf
    <3>3. z.ptr \in Int /\ z.size \in Nat
      BY <1>1 DEF TypeInv
    <3> QED
      BY <3>1, <3>2, <3>3 DEF ZombieClaims, Listed
  <2> QED
    BY <2>1, <2>2, <2>3, <2>4 DEF Regions
<1>3. ClaimOf(r) \in Claims \ HoleClaims
  BY <1>2, Kinds DEF Claims
<1>4. \A x \in Span(r[2], r[3]) : x \in Int /\ In(x, ClaimOf(r))
  <2>1. ClaimOf(r).lo = r[2] /\ ClaimOf(r).n = r[3]
    BY ClaimEq DEF ClaimOf
  <2> QED
    BY <1>2, <2>1 DEF In, Span
<1> QED
  BY <1>2, <1>3, <1>4

LEMMA IInvRegionsDisjoint == IInv => RegionsDisjoint
<1> SUFFICES ASSUME IInv
             PROVE  RegionsDisjoint
  OBVIOUS
<1>1. ASSUME NEW r \in Regions, NEW q \in Regions, NEW x,
             x \in Span(r[2], r[3]), x \in Span(q[2], q[3])
      PROVE  r = q
  <2>1. ClaimOf(r) = ClaimOf(q)
    <3>1. /\ ClaimOf(r) \in Claims /\ ClaimOf(q) \in Claims
          /\ x \in Int /\ In(x, ClaimOf(r)) /\ In(x, ClaimOf(q))
      BY <1>1, RegionsClaimed
    <3> QED
      BY <3>1 DEF IInv, Layout, Disjoint
  <2>2. /\ r[1] = q[1] /\ r[2] = q[2] /\ r[3] = q[3]
        /\ r[1] = "zombie" => r[4] = q[4]
    BY <2>1, ClaimEq DEF ClaimOf
  <2>3. Listed(r) /\ Listed(q)
    BY RegionsClaimed
  <2> QED
    BY <2>2, <2>3 DEF Listed
<1>2. ASSUME NEW r \in Regions, NEW x \in Span(r[2], r[3])
      PROVE  x \in RootPages \ HolePages
  <2>1. ClaimOf(r) \in Claims \ HoleClaims /\ x \in Int /\ In(x, ClaimOf(r))
    BY <1>2, RegionsClaimed
  <2>2. x \in RootPages
    BY <2>1 DEF IInv, Layout, Within
  <2>3. ASSUME x \in HolePages
        PROVE  FALSE
    <3>1. Growing
      BY <2>3 DEF HolePages, Growing
    <3>2. /\ call.size \in Nat /\ call.dst \in Int /\ call.goal \in Int
          /\ call.goal - call.dst \in 0 .. call.size
      <4>1. InCall
        BY <3>1 DEF Growing, InCall
      <4> QED
        BY <3>1, <4>1, Sizes DEF IInv, CallInv
    <3>3. PICK c \in HoleClaims : In(x, c)
      <4>1. CASE call.pc = "create"
        <5>1. HoleClaims = {Claim("hole", call.dst, call.size, 0)}
          BY <4>1 DEF HoleClaims
        <5>2. In(x, Claim("hole", call.dst, call.size, 0))
          BY <2>1, <2>3, <3>2, <4>1, ClaimEq DEF HolePages, Span, In
        <5> QED
          BY <5>1, <5>2
      <4>2. CASE call.pc = "harvest"
        <5> DEFINE n == call.size - (call.goal - call.dst)
        <5>1. HoleClaims = {Claim("hole", call.goal, n, 0)}
          BY <4>2 DEF HoleClaims
        <5>2. In(x, Claim("hole", call.goal, n, 0))
          BY <2>1, <2>3, <3>2, <4>2, ClaimEq DEF HolePages, Span, In
        <5> QED
          BY <5>1, <5>2
      <4> QED
        BY <3>1, <4>1, <4>2 DEF Growing
    <3>4. c = ClaimOf(r)
      <4>1. c \in Claims
        BY <3>3 DEF Claims
      <4> QED
        BY <2>1, <3>3, <4>1 DEF IInv, Layout, Disjoint
    <3> QED
      BY <2>1, <3>3, <3>4
  <2> QED
    BY <2>2, <2>3
<1> QED
  BY <1>1, <1>2 DEF RegionsDisjoint

(* Free, allocated, unmapped and zombie regions never overlap, nor do they  *)
(* overlap the hole a call is filling: for any chunks and requests, and     *)
(* whatever driver calls fail, no address is handed out twice.              *)
THEOREM RegionsNeverOverlap == Spec => []RegionsDisjoint
  BY InductiveInvariant, IInvRegionsDisjoint, PTL

(* The expect("BUG") after defragment_or_create_new_pages never fires: the  *)
(* region it returns is free and has the requested size.                    *)
THEOREM DefragmentationFindsRegion == Spec => []RegionFound
<1>1. IInv => RegionFound
  BY DEF IInv, CallInv
<1> QED
  BY <1>1, InductiveInvariant, PTL
=============================================================================
