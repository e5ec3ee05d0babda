----------------------- MODULE VirtualMemoryPoolSafety -----------------------
(***************************************************************************)
(* What the pool does with its pages.  Every page of a free or allocated   *)
(* region is backed by a physical page of its own, kernels neither lose    *)
(* the pages they use nor race on them, and a harvest finds all the pages  *)
(* it looks for, whatever calls of the driver fail half-way.  As long as   *)
(* the driver fails only for want of memory, no page leaks, addresses are  *)
(* lost in one way only, and no more pages are created than are needed.    *)
(*                                                                         *)
(* PagesBacked is not inductive alone: the pages a call has created but    *)
(* not yet inserted, and those it has harvested but not yet remapped, are  *)
(* in no region, and become one later (Held).  That the pages to remap are *)
(* distinct (so that no two addresses get the same one) rests on their old *)
(* addresses being zombies already, which no later harvest can take again. *)
(* OrderInv, HarvestInv and LeakInv, further down, build on it.            *)
(***************************************************************************)
EXTENDS VirtualMemoryPoolProofs

(* Pages that the call has created, and the old addresses of those it has   *)
(* harvested.                                                               *)
Created == IF call.pc = "create" THEN Span(call.dst, call.next - call.dst) ELSE {}
Sources == IF call.pc = "harvest" THEN Range(call.moves) ELSE {}

Held == FreePages \cup MallocPages \cup Created \cup Sources

Backed(A) ==
  /\ A \subseteq DOMAIN active_pages
  /\ A \subseteq DOMAIN page_table
  /\ \A a \in A : page_table[a] = active_pages[a]

BackInv ==
  /\ Backed(Held)
  /\ IsInjective(active_pages)
  /\ Range(active_pages) \subseteq physical
  /\ physical \subseteq Handle
  /\ Sources \subseteq ZombiePages
  /\ call.pc = "harvest" => IsInjective(call.moves)

-----------------------------------------------------------------------------
(* The pages of regions, from the intervals they claim.                     *)

LEMMA InSpan ==
  ASSUME NEW p \in Int, NEW n \in Int, NEW x
  PROVE  x \in Span(p, n) <=> x \in Int /\ p <= x /\ x < p + n
  BY DEF Span

LEMMA MallocTyped ==
  ASSUME TypeInv, NEW p \in DOMAIN malloc_regions
  PROVE  /\ p \in Int
         /\ malloc_regions[p] \in [size : Request, stream : Stream]
         /\ malloc_regions[p].size \in Nat \ {0}
         /\ malloc_regions[p].stream \in Stream
  BY RequestPositive DEF TypeInv

LEMMA ZombieTyped ==
  ASSUME TypeInv, NEW z \in zombie_regions
  PROVE  /\ z.ptr \in Int /\ z.size \in Nat \ {0} /\ z.event \in 0 .. free_num - 1
         /\ z = [ptr |-> z.ptr, size |-> z.size, event |-> z.event]
  BY DEF TypeInv

LEMMA FreePage ==
  ASSUME IInv, NEW p \in DOMAIN free_regions, NEW x \in Span(p, free_regions[p].size)
  PROVE  /\ x \in Int /\ In(x, Claim("free", p, free_regions[p].size, 0))
         /\ Claim("free", p, free_regions[p].size, 0) \in FreeClaims
  BY FreeTyped, InSpan, ClaimEq DEF IInv, In, FreeClaims

LEMMA MallocPage ==
  ASSUME IInv, NEW p \in DOMAIN malloc_regions, NEW x \in Span(p, malloc_regions[p].size)
  PROVE  /\ x \in Int /\ In(x, Claim("malloc", p, malloc_regions[p].size, 0))
         /\ Claim("malloc", p, malloc_regions[p].size, 0) \in MallocClaims
  BY MallocTyped, InSpan, ClaimEq DEF IInv, In, MallocClaims

LEMMA UnmappedPage ==
  ASSUME IInv, NEW p \in DOMAIN unmapped_regions, NEW x \in Span(p, unmapped_regions[p])
  PROVE  /\ x \in Int /\ In(x, Claim("unmapped", p, unmapped_regions[p], 0))
         /\ Claim("unmapped", p, unmapped_regions[p], 0) \in UnmappedClaims
<1>1. p \in Int /\ unmapped_regions[p] \in Nat
  BY DEF IInv, TypeInv
<1> QED
  BY <1>1, InSpan, ClaimEq DEF In, UnmappedClaims

LEMMA ZombiePage ==
  ASSUME IInv, NEW z \in zombie_regions, NEW x \in Span(z.ptr, z.size)
  PROVE  /\ x \in Int /\ In(x, Claim("zombie", z.ptr, z.size, z.event))
         /\ Claim("zombie", z.ptr, z.size, z.event) \in ZombieClaims
  BY ZombieTyped, InSpan, ClaimEq DEF IInv, In, ZombieClaims

LEMMA HolePage ==
  ASSUME IInv, NEW x \in HolePages
  PROVE  x \in Int /\ \E c \in HoleClaims : In(x, c)
<1>1. Growing
  BY DEF HolePages, Growing
<1>2. call.size \in Nat /\ call.dst \in Int /\ call.goal \in Int
  BY <1>1, Sizes DEF IInv, CallInv, Growing, InCall
<1>3. CASE call.pc = "create"
  <2> DEFINE c == Claim("hole", call.dst, call.size, 0)
  <2>1. c \in HoleClaims
    BY <1>3 DEF HoleClaims
  <2>2. x \in Int /\ In(x, c)
    BY <1>2, <1>3, InSpan, ClaimEq DEF HolePages, In
  <2> QED
    BY <2>1, <2>2
<1>4. CASE call.pc = "harvest"
  <2> DEFINE n == call.size - (call.goal - call.dst)
             c == Claim("hole", call.goal, n, 0)
  <2>1. c \in HoleClaims
    BY <1>4 DEF HoleClaims
  <2>2. x \in Int /\ In(x, c)
    BY <1>2, <1>4, InSpan, ClaimEq DEF HolePages, In
  <2> QED
    BY <2>1, <2>2
<1> QED
  BY <1>1, <1>3, <1>4 DEF Growing

(* The five kinds of pages, with the claims behind them.                    *)
LEMMA PagesClaimed ==
  ASSUME IInv
  PROVE  /\ \A x \in FreePages : x \in Int /\ \E c \in FreeClaims : In(x, c)
         /\ \A x \in MallocPages : x \in Int /\ \E c \in MallocClaims : In(x, c)
         /\ \A x \in UnmappedPages : x \in Int /\ \E c \in UnmappedClaims : In(x, c)
         /\ \A x \in ZombiePages : x \in Int /\ \E c \in ZombieClaims : In(x, c)
         /\ \A x \in HolePages : x \in Int /\ \E c \in HoleClaims : In(x, c)
<1>1. \A x \in FreePages : x \in Int /\ \E c \in FreeClaims : In(x, c)
  BY FreePage DEF FreePages
<1>2. \A x \in MallocPages : x \in Int /\ \E c \in MallocClaims : In(x, c)
  BY MallocPage DEF MallocPages
<1>3. \A x \in UnmappedPages : x \in Int /\ \E c \in UnmappedClaims : In(x, c)
  BY UnmappedPage DEF UnmappedPages
<1>4. \A x \in ZombiePages : x \in Int /\ \E c \in ZombieClaims : In(x, c)
  BY ZombiePage DEF ZombiePages
<1>5. \A x \in HolePages : x \in Int /\ \E c \in HoleClaims : In(x, c)
  BY HolePage
<1> QED
  BY <1>1, <1>2, <1>3, <1>4, <1>5

(* Pages of two kinds are never the same, and all are reserved.             *)
LEMMA PageLayout ==
  ASSUME IInv
  PROVE  /\ FreePages \cap (MallocPages \cup UnmappedPages \cup ZombiePages \cup HolePages) = {}
         /\ MallocPages \cap (UnmappedPages \cup ZombiePages \cup HolePages) = {}
         /\ UnmappedPages \cap (ZombiePages \cup HolePages) = {}
         /\ ZombiePages \cap HolePages = {}
         /\ FreePages \cup MallocPages \cup UnmappedPages \cup ZombiePages \cup HolePages
              \subseteq RootPages
<1>1. \A x \in Int : \A c, d \in Claims : In(x, c) /\ In(x, d) => c.kind = d.kind
  BY DEF IInv, Layout, Disjoint
<1>2. FreeClaims \cup MallocClaims \cup UnmappedClaims \cup ZombieClaims \cup HoleClaims
        = Claims
  BY DEF Claims
<1>3. \A x \in Int : \A c \in Claims : In(x, c) => x \in RootPages
  BY DEF IInv, Layout, Within
<1>4. /\ \A x \in FreePages : \A c \in Claims : In(x, c) => c.kind = "free"
      /\ \A x \in MallocPages : \A c \in Claims : In(x, c) => c.kind = "malloc"
      /\ \A x \in UnmappedPages : \A c \in Claims : In(x, c) => c.kind = "unmapped"
      /\ \A x \in ZombiePages : \A c \in Claims : In(x, c) => c.kind = "zombie"
      /\ \A x \in HolePages : \A c \in Claims : In(x, c) => c.kind = "hole"
  <2>1. \A x \in FreePages : \A c \in Claims : In(x, c) => c.kind = "free"
    BY <1>1, <1>2, PagesClaimed, Kinds
  <2>2. \A x \in MallocPages : \A c \in Claims : In(x, c) => c.kind = "malloc"
    BY <1>1, <1>2, PagesClaimed, Kinds
  <2>3. \A x \in UnmappedPages : \A c \in Claims : In(x, c) => c.kind = "unmapped"
    BY <1>1, <1>2, PagesClaimed, Kinds
  <2>4. \A x \in ZombiePages : \A c \in Claims : In(x, c) => c.kind = "zombie"
    BY <1>1, <1>2, PagesClaimed, Kinds
  <2>5. \A x \in HolePages : \A c \in Claims : In(x, c) => c.kind = "hole"
    BY <1>1, <1>2, PagesClaimed, Kinds
  <2> QED
    BY <2>1, <2>2, <2>3, <2>4, <2>5
<1>5. \A x \in FreePages \cup MallocPages \cup UnmappedPages \cup ZombiePages \cup HolePages :
        x \in Int /\ \E c \in Claims : In(x, c)
  BY <1>2, PagesClaimed
<1> QED
  BY <1>3, <1>4, <1>5

(* Two allocations share no address.                                        *)
LEMMA MallocUnique ==
  ASSUME IInv, NEW p \in DOMAIN malloc_regions, NEW q \in DOMAIN malloc_regions, NEW x,
         x \in Span(p, malloc_regions[p].size), x \in Span(q, malloc_regions[q].size)
  PROVE  p = q
<1> DEFINE c == Claim("malloc", p, malloc_regions[p].size, 0)
           d == Claim("malloc", q, malloc_regions[q].size, 0)
<1>1. /\ x \in Int /\ In(x, c) /\ In(x, d)
      /\ c \in Claims /\ d \in Claims
  BY MallocPage DEF Claims
<1>2. c = d
  <2> HIDE DEF c, d
  <2> QED
    BY <1>1 DEF IInv, Layout, Disjoint
<1> QED
  BY <1>2, ClaimEq

-----------------------------------------------------------------------------
(* What the helpers of the pool do to the pages of regions.                 *)

(* The regions that free_region_insert leaves: the old ones, and one of     *)
(* stream s, with the new event, made of the inserted pages and of regions  *)
(* of the same stream.                                                      *)
LEMMA FreeInsertPages ==
  ASSUME TypeInv, NEW p \in Int, NEW n \in Nat \ {0}, NEW s \in AllStreams,
         free_region_insert(p, n, s)
  PROVE  \A q \in DOMAIN free_regions' : \A x \in Span(q, free_regions'[q].size) :
           \/ q \in DOMAIN free_regions /\ free_regions'[q] = free_regions[q]
           \/ /\ free_regions'[q].stream = s /\ free_regions'[q].id = free_num
              /\ \/ x \in Span(p, n)
                 \/ \E r \in DOMAIN free_regions :
                      free_regions[r].stream = s /\ x \in Span(r, free_regions[r].size)
<1> DEFINE lo == MergedLo(p, n, s)
           hi == MergedHi(p, n, s)
           ab == Absorbed(p, n, s)
<1>1. /\ lo \in Int /\ hi \in Int
      /\ ab \subseteq DOMAIN free_regions
      /\ Covers(lo, hi, p, n, ab, FreeSize)
  BY Merged
<1>2. /\ free_regions'[lo].size = hi - lo
      /\ Kept(free_regions', free_regions, ab, lo)
  BY FreeInsert
<1>3. free_regions'[lo].stream = s /\ free_regions'[lo].id = free_num
  <2>1. free_regions'[lo] = [size |-> hi - lo, stream |-> s, id |-> free_num]
    BY WithNew DEF free_region_insert
  <2> QED
    BY <2>1
<1>4. \A r \in ab : free_regions[r].stream = s /\ r \in DOMAIN free_regions
  BY DEF Absorbed
<1> HIDE DEF lo, hi, ab
<1>5. ASSUME NEW x \in Span(lo, free_regions'[lo].size)
      PROVE  \/ x \in Span(p, n)
             \/ \E r \in ab : x \in Span(r, free_regions[r].size)
  <2>1. x \in Int /\ lo <= x /\ x < hi
    BY <1>1, <1>2, <1>5, InSpan
  <2>2. CASE p <= x /\ x < p + n
    BY <2>1, <2>2, InSpan
  <2>3. CASE \E r \in ab : r <= x /\ x < r + FreeSize[r]
    <3>1. PICK r \in ab : r <= x /\ x < r + free_regions[r].size
      BY <1>1, <2>3 DEF FreeSize
    <3> QED
      BY <1>1, <2>1, <3>1, FreeTyped, InSpan
  <2> QED
    BY <1>1, <2>1, <2>2, <2>3 DEF Covers
<1> QED
  BY <1>2, <1>3, <1>4, <1>5 DEF Kept

(* After a cut, every page that is left was in a region of the same stream  *)
(* and event; f is free_regions but for the streams.                        *)
LEMMA CutFrontPages ==
  ASSUME TypeInv, NEW f, DOMAIN f = DOMAIN free_regions,
         \A q \in DOMAIN f : f[q].size = free_regions[q].size,
         f \in [DOMAIN f -> FreeRegion(free_num)],
         NEW p \in DOMAIN f, NEW n \in Nat,
         free_regions' = CutFront(f, p, n)
  PROVE  \A q \in DOMAIN free_regions' : \A x \in Span(q, free_regions'[q].size) :
           \E r \in DOMAIN f :
             /\ free_regions'[q].stream = f[r].stream
             /\ free_regions'[q].id = f[r].id
             /\ x \in Span(r, free_regions[r].size)
             /\ r = p => ~(x \in Span(p, n))
<1> DEFINE v == [f[p] EXCEPT !.size = @ - n]
           g == Without(f, {p})
<1>1. p \in Int /\ f[p] \in FreeRegion(free_num) /\ f[p].size \in Nat
  BY FreeTyped DEF TypeInv
<1>2. /\ DOMAIN g = DOMAIN f \ {p}
      /\ \A q \in DOMAIN f \ {p} : g[q] = f[q]
  BY WithoutDomain, WithoutOld
<1>3. v.stream = f[p].stream /\ v.id = f[p].id /\ v.size = f[p].size - n
  BY <1>1 DEF FreeRegion
<1> HIDE DEF v, g
<1>4. \A q \in DOMAIN free_regions' :
        \/ q \in DOMAIN f \ {p} /\ free_regions'[q] = f[q]
        \/ q = p + n /\ free_regions'[q] = v
  <2>1. CASE f[p].size > n
    <3>1. free_regions' = With(g, p + n, v)
      BY <2>1 DEF CutFront, g, v
    <3>2. DOMAIN With(g, p + n, v) = DOMAIN g \cup {p + n}
      BY WithDomain
    <3>3. With(g, p + n, v)[p + n] = v
      BY WithNew
    <3>4. \A q \in DOMAIN g : q # p + n => With(g, p + n, v)[q] = g[q]
      BY WithOld
    <3> QED
      BY <1>2, <3>1, <3>2, <3>3, <3>4
  <2>2. CASE ~(f[p].size > n)
    <3>1. free_regions' = g
      BY <2>2 DEF CutFront, g
    <3> QED
      BY <1>2, <3>1
  <2> QED
    BY <2>1, <2>2
<1> SUFFICES ASSUME NEW q \in DOMAIN free_regions', NEW x \in Span(q, free_regions'[q].size)
             PROVE  \E r \in DOMAIN f :
                      /\ free_regions'[q].stream = f[r].stream
                      /\ free_regions'[q].id = f[r].id
                      /\ x \in Span(r, free_regions[r].size)
                      /\ r = p => ~(x \in Span(p, n))
  OBVIOUS
<1>5. CASE q \in DOMAIN f \ {p} /\ free_regions'[q] = f[q]
  BY <1>5
<1>6. CASE q = p + n /\ free_regions'[q] = v
  <2>1. x \in Int /\ p + n <= x /\ x < p + n + (f[p].size - n)
    <3>1. x \in Span(p + n, f[p].size - n)
      BY <1>3, <1>6
    <3>2. p + n \in Int /\ f[p].size - n \in Int
      BY <1>1
    <3> QED
      BY <3>1, <3>2, InSpan
  <2>2. x \in Span(p, free_regions[p].size) /\ ~(x \in Span(p, n))
    BY <1>1, <2>1, InSpan
  <2> QED
    BY <1>3, <1>6, <2>2
<1> QED
  BY <1>4, <1>5, <1>6

(* The hole that insert_unmapped_region makes has only the pages inserted   *)
(* and pages of its neighbours.                                             *)
LEMMA HoleInsertPages ==
  ASSUME TypeInv, NEW p \in Int, NEW n \in Nat,
         unmapped_regions' = insert_unmapped_region(unmapped_regions, p, n)
  PROVE  UnmappedPages' \subseteq UnmappedPages \cup Span(p, n)
<1>1. CASE n = 0
  <2>1. unmapped_regions' = unmapped_regions
    BY <1>1 DEF insert_unmapped_region
  <2> QED
    BY <2>1 DEF UnmappedPages
<1>2. CASE n # 0
  <2>1. PICK lo \in Int, hi \in Int, ab \in SUBSET DOMAIN unmapped_regions :
          /\ lo < hi
          /\ Covers(lo, hi, p, n, ab, unmapped_regions)
          /\ unmapped_regions'[lo] = hi - lo
          /\ Kept(unmapped_regions', unmapped_regions, ab, lo)
    <3>1. n \in Nat \ {0}
      BY <1>2
    <3> QED
      BY <3>1, HoleInsert
  <2> SUFFICES ASSUME NEW q \in DOMAIN unmapped_regions', NEW x \in Span(q, unmapped_regions'[q])
               PROVE  x \in UnmappedPages \cup Span(p, n)
    BY DEF UnmappedPages
  <2>2. CASE q \in DOMAIN unmapped_regions /\ unmapped_regions'[q] = unmapped_regions[q]
    BY <2>2 DEF UnmappedPages
  <2>3. CASE q = lo
    <3>1. x \in Int /\ lo <= x /\ x < hi
      BY <2>1, <2>3, InSpan
    <3>2. CASE p <= x /\ x < p + n
      BY <3>1, <3>2, InSpan
    <3>3. CASE \E r \in ab : r <= x /\ x < r + unmapped_regions[r]
      <4>1. PICK r \in ab : r <= x /\ x < r + unmapped_regions[r]
        BY <3>3
      <4>2. r \in DOMAIN unmapped_regions /\ r \in Int /\ unmapped_regions[r] \in Nat
        BY DEF TypeInv
      <4>3. x \in Span(r, unmapped_regions[r])
        BY <3>1, <4>1, <4>2, InSpan
      <4> QED
        BY <4>2, <4>3 DEF UnmappedPages
    <3> QED
      BY <2>1, <3>1, <3>2, <3>3 DEF Covers
  <2> QED
    BY <2>1, <2>2, <2>3 DEF Kept
<1> QED
  BY <1>1, <1>2

-----------------------------------------------------------------------------
(* No step of a call moves the pages of a free or allocated region.         *)

LEMMA GrowingTypes ==
  ASSUME IInv, Growing
  PROVE  /\ call.size \in Nat \ {0} /\ call.stream \in Stream
         /\ call.dst \in Int /\ call.goal \in Int /\ call.next \in Int
         /\ call.dst <= call.goal /\ call.goal <= call.dst + call.size
  BY Sizes DEF IInv, CallInv, Growing, InCall

LEMMA CreatedInHole ==
  ASSUME IInv, call.pc = "create"
  PROVE  /\ call.dst <= call.next /\ call.next <= call.goal
         /\ \A x \in Created : x \in Int /\ call.dst <= x /\ x < call.next
         /\ Created \subseteq HolePages
<1>1. Growing /\ call.dst <= call.next /\ call.next <= call.goal
  BY DEF Growing, IInv, CallInv
<1>2. \A x \in Created : x \in Int /\ call.dst <= x /\ x < call.next
  BY <1>1, GrowingTypes, InSpan DEF Created
<1>3. Created \subseteq HolePages
  BY <1>1, <1>2, GrowingTypes, InSpan DEF HolePages
<1> QED
  BY <1>1, <1>2, <1>3

LEMMA MovesInHolePages ==
  ASSUME IInv, call.pc = "harvest", call.left = 0
  PROVE  DOMAIN call.moves \subseteq HolePages
<1> DEFINE n == call.size - (call.goal - call.dst)
           d == Claim("hole", call.goal, n, 0)
<1>1. \A x \in Int : call.goal <= x /\ x < call.next => In(x, d)
  BY MovesInHole
<1>2. Growing
  BY DEF Growing
<1>3. DOMAIN call.moves = call.goal .. call.next - 1
  BY DEF IInv, CallInv
<1>4. HolePages = Span(call.goal, n)
  BY DEF HolePages
<1>5. \A x \in Int : In(x, d) <=> call.goal <= x /\ x < call.goal + n
  BY ClaimEq DEF In
<1>6. call.goal \in Int /\ call.next \in Int /\ n \in Int
  BY <1>2, GrowingTypes
<1> HIDE DEF n, d
<1> QED
  BY <1>1, <1>3, <1>4, <1>5, <1>6, InSpan

LEMMA ZombieSpan ==
  ASSUME IInv, NEW z \in call.scan
  PROVE  z \in zombie_regions /\ Span(z.ptr, z.size) \subseteq ZombiePages
  BY DEF IInv, CallInv, ZombiePages

(* Double mapping adds the hole and keeps what was mapped.                  *)
LEMMA DoubleMappedKeeps ==
  ASSUME NEW D, NEW a \in DOMAIN page_table, D \cap DOMAIN page_table = {}
  PROVE  a \in DOMAIN DoubleMapped(D) /\ DoubleMapped(D)[a] = page_table[a]
  BY DEF DoubleMapped

(* For every page of a region, whatever the call does.                      *)
LEMMA PagesStay ==
  ASSUME IInv, Backed(Held), CallStep
  PROVE  \A a \in FreePages \cup MallocPages :
           /\ a \in DOMAIN page_table /\ a \in DOMAIN page_table'
           /\ page_table'[a] = page_table[a]
<1>1. \A a \in FreePages \cup MallocPages : a \in DOMAIN page_table
  BY DEF Backed, Held
<1> DEFINE Stays == \A a \in FreePages \cup MallocPages :
             a \in DOMAIN page_table' /\ page_table'[a] = page_table[a]
<1>2. ASSUME UNCHANGED page_table
      PROVE  Stays
  BY <1>1, <1>2
<1>3. ASSUME NEW z \in call.scan, cleanup_zombie_regions(z)
      PROVE  Stays
  <2>1. \/ UNCHANGED page_table
        \/ page_table' = Without(page_table, Span(z.ptr, z.size))
    BY <1>3 DEF cleanup_zombie_regions
  <2>2. (FreePages \cup MallocPages) \cap Span(z.ptr, z.size) = {}
    BY ZombieSpan, PageLayout
  <2> QED
    BY <1>1, <1>2, <2>1, <2>2 DEF Without
<1>4. ASSUME create_new_page
      PROVE  Stays
  <2>1. \/ UNCHANGED page_table
        \/ /\ call.next \notin DOMAIN page_table
           /\ \E h : page_table' = With(page_table, call.next, h)
    BY <1>4 DEF create_new_page
  <2> QED
    BY <1>1, <1>2, <2>1 DEF With
<1>5. ASSUME rollback_new_pages
      PROVE  Stays
  <2>1. call.pc = "create"
    BY <1>5 DEF rollback_new_pages
  <2>2. PICK B \in SUBSET Created : page_table' = Without(page_table, B)
    BY <1>5, <2>1 DEF rollback_new_pages, Undo, Created
  <2>3. (FreePages \cup MallocPages) \cap B = {}
    BY <2>1, CreatedInHole, PageLayout
  <2> QED
    BY <1>1, <2>2, <2>3 DEF Without
<1>6. ASSUME remap_regions
      PROVE  Stays
  BY <1>1, <1>6, DoubleMappedKeeps DEF remap_regions
<1>7. ASSUME NEW k, remap_fails(k)
      PROVE  Stays
  BY <1>1, <1>7, DoubleMappedKeeps DEF remap_fails
<1>8. ASSUME \/ find_best_fit \/ take_unmapped_region \/ creation_fails
             \/ insert_new_pages \/ no_new_pages \/ harvest_free_region
             \/ hand_out_defragmented
      PROVE  UNCHANGED page_table
  BY <1>8 DEF find_best_fit, take_unmapped_region, creation_fails, insert_new_pages,
              no_new_pages, harvest_free_region, hand_out_defragmented, device_vars
<1> HIDE DEF Stays
<1>9. Stays
  BY <1>2, <1>3, <1>4, <1>5, <1>6, <1>7, <1>8 DEF CallStep
<1> QED
  BY <1>1, <1>9 DEF Stays

-----------------------------------------------------------------------------
(* Each action preserves BackInv.                                           *)

(* The pages held after a step were held before, and stay where they are.   *)
LEMMA KeptBacking ==
  ASSUME BackInv, UNCHANGED <<active_pages, physical>>,
         Held' \subseteq Held,
         \A a \in Held' : a \in DOMAIN page_table' /\ page_table'[a] = page_table[a],
         Sources' \subseteq ZombiePages',
         call'.pc = "harvest" => IsInjective(call'.moves)
  PROVE  BackInv'
  BY DEF BackInv, Backed

(* Outside the stages that create and harvest, only regions hold pages.     *)
LEMMA NoneUnderway ==
  ASSUME call.pc \notin {"create", "harvest"}
  PROVE  Created = {} /\ Sources = {} /\ HolePages = {}
  BY DEF Created, Sources, HolePages

LEMMA ReturnNone ==
  ASSUME Return
  PROVE  Created' = {} /\ Sources' = {} /\ HolePages' = {} /\ call'.pc = "idle"
<1>1. call'.pc = "idle"
  BY DEF Return, NoCall
<1> QED
  BY <1>1 DEF Created, Sources, HolePages

LEMMA MallocBack ==
  ASSUME IInv, BackInv, NEW s \in Stream, NEW n \in Request, malloc_internal(s, n)
  PROVE  BackInv'
<1>1. call'.pc = "cleanup"
  BY DEF malloc_internal, NoCall
<1>2. Created' = {} /\ Sources' = {}
  BY <1>1 DEF Created, Sources
<1>3. UNCHANGED <<page_table, physical, active_pages, free_regions, malloc_regions>>
  BY DEF malloc_internal, device_vars
<1>4. Held' = FreePages \cup MallocPages
  BY <1>2, <1>3 DEF Held, FreePages, MallocPages
<1> QED
  BY <1>1, <1>2, <1>3, <1>4, KeptBacking DEF Held, BackInv, Backed

LEMMA CleanupBack ==
  ASSUME IInv, BackInv, NEW z \in call.scan, cleanup_zombie_regions(z)
  PROVE  BackInv'
<1>1. call.pc = "cleanup" /\ call'.pc = "cleanup"
  BY DEF cleanup_zombie_regions, IInv, CallInv, CallShape
<1>2. UNCHANGED <<physical, active_pages, free_regions, malloc_regions>>
  BY DEF cleanup_zombie_regions
<1>3. Held' = FreePages \cup MallocPages /\ Held' \subseteq Held /\ Sources' = {}
  BY <1>1, <1>2 DEF Held, FreePages, MallocPages, Created, Sources
<1>4. CallStep
  BY DEF CallStep
<1>5. \A a \in Held' : a \in DOMAIN page_table' /\ page_table'[a] = page_table[a]
  BY <1>3, <1>4, PagesStay DEF BackInv
<1> QED
  BY <1>1, <1>2, <1>3, <1>5, KeptBacking

(* HandOut only turns free pages into allocated ones.                       *)
LEMMA HandOutPages ==
  ASSUME IInv, InCall, NEW f, DOMAIN f = DOMAIN free_regions,
         \A q \in DOMAIN f : f[q].size = free_regions[q].size,
         f \in [DOMAIN f -> FreeRegion(free_num)],
         NEW p \in DOMAIN f, f[p].size >= call.size, HandOut(f, p)
  PROVE  /\ FreePages' \cup MallocPages' \subseteq FreePages \cup MallocPages
         /\ Span(p, call.size) \subseteq Span(p, f[p].size)
         /\ \A q \in DOMAIN malloc_regions' :
              \/ q \in DOMAIN malloc_regions /\ malloc_regions'[q] = malloc_regions[q]
              \/ /\ q = p
                 /\ malloc_regions'[q].size = call.size
                 /\ malloc_regions'[q].stream = call.stream
<1>1. TypeInv /\ call.size \in Nat
  BY Sizes DEF IInv
<1>2. FreePages' \subseteq FreePages
  <2>1. free_regions' = CutFront(f, p, call.size)
    BY DEF HandOut
  <2>2. \A q \in DOMAIN free_regions' : \A x \in Span(q, free_regions'[q].size) :
          \E r \in DOMAIN f :
            /\ free_regions'[q].stream = f[r].stream
            /\ free_regions'[q].id = f[r].id
            /\ x \in Span(r, free_regions[r].size)
            /\ r = p => ~(x \in Span(p, call.size))
    BY <1>1, <2>1, CutFrontPages, Z3T(30)
  <2> QED
    BY <2>2 DEF FreePages
<1>3. Span(p, call.size) \subseteq Span(p, f[p].size)
  <2>1. p \in Int /\ f[p].size \in Nat
    BY <1>1, FreeTyped
  <2> QED
    BY <1>1, <2>1 DEF Span
<1>4. ASSUME NEW q \in DOMAIN malloc_regions'
      PROVE  \/ q \in DOMAIN malloc_regions /\ malloc_regions'[q] = malloc_regions[q]
             \/ /\ q = p
                /\ malloc_regions'[q].size = call.size
                /\ malloc_regions'[q].stream = call.stream
  <2> DEFINE rec == [size |-> call.size, stream |-> call.stream]
  <2>1. malloc_regions' = With(malloc_regions, p, rec)
    BY DEF HandOut
  <2>2. malloc_regions'[p] = rec
    BY <2>1, WithNew
  <2>3. DOMAIN With(malloc_regions, p, rec) = DOMAIN malloc_regions \cup {p}
    BY WithDomain
  <2>4. q # p => malloc_regions'[q] = malloc_regions[q]
    BY <2>1, <2>3, WithOld
  <2> QED
    BY <2>1, <2>2, <2>3, <2>4
<1>5. MallocPages' \subseteq MallocPages \cup Span(p, call.size)
  BY <1>4 DEF MallocPages
<1>6. Span(p, call.size) \subseteq FreePages
  BY <1>3 DEF FreePages
<1> QED
  BY <1>2, <1>3, <1>4, <1>5, <1>6

LEMMA HandOutBack ==
  ASSUME IInv, BackInv, InCall, NEW f, DOMAIN f = DOMAIN free_regions,
         \A q \in DOMAIN f : f[q].size = free_regions[q].size,
         f \in [DOMAIN f -> FreeRegion(free_num)],
         NEW p \in DOMAIN f, f[p].size >= call.size, HandOut(f, p),
         UNCHANGED <<device_vars, active_pages>>
  PROVE  BackInv'
<1>1. Created' = {} /\ Sources' = {} /\ call'.pc = "idle"
  BY ReturnNone DEF HandOut
<1>2. Held' \subseteq FreePages \cup MallocPages
  BY <1>1, HandOutPages DEF Held
<1> QED
  BY <1>1, <1>2, KeptBacking DEF device_vars, Held, BackInv, Backed

(* find_best_fit hands out a region of the caller's stream, or one whose    *)
(* last use has completed, or finds none.                                   *)
LEMMA BestFitChoice ==
  ASSUME IInv, find_best_fit
  PROVE  \/ \E p \in DOMAIN free_regions, f \in [DOMAIN free_regions -> FreeRegion(free_num)] :
              /\ free_regions[p].size >= call.size
              /\ DOMAIN f = DOMAIN free_regions
              /\ \A q \in DOMAIN f :
                   f[q].size = free_regions[q].size /\ f[q].id = free_regions[q].id
              /\ \A q \in DOMAIN f \ {p} : f[q] = free_regions[q]
              /\ f[p].stream = call.stream
              /\ f \in [DOMAIN f -> FreeRegion(free_num)]
              /\ HandOut(f, p)
              /\ \/ free_regions[p].stream = call.stream
                 \/ completed(free_regions[p].id)
         \/ /\ call' = [call EXCEPT !.pc = "hole"]
            /\ UNCHANGED <<free_regions, malloc_regions>>
<1>1. TypeInv /\ Layout /\ InCall
  BY DEF find_best_fit, IInv, InCall
<1>2. /\ DOMAIN free_regions \subseteq Nat
      /\ \A p \in DOMAIN free_regions : FreeSize[p] \in Nat
  BY <1>1, BasesNat, FreeTyped DEF FreeSize
<1>3. free_regions \in [DOMAIN free_regions -> FreeRegion(free_num)]
  BY <1>1 DEF TypeInv
<1>4. CASE OwnFit # {} /\ HandOut(free_regions, BestFit(OwnFit, FreeSize))
  <2> DEFINE p == BestFit(OwnFit, FreeSize)
  <2>1. p \in OwnFit
    <3>1. OwnFit \subseteq DOMAIN free_regions
      BY DEF OwnFit, Fitting
    <3> QED
      BY <1>2, <1>4, <3>1, BestFitIn
  <2>2. /\ p \in DOMAIN free_regions /\ free_regions[p].size >= call.size
        /\ free_regions[p].stream = call.stream
    BY <2>1 DEF OwnFit, Fitting
  <2>3. HandOut(free_regions, p)
    BY <1>4
  <2> HIDE DEF p
  <2> QED
    BY <1>3, <2>2, <2>3
<1>5. CASE /\ CompletedFit # {}
           /\ LET p == BestFit(CompletedFit, FreeSize)
              IN  HandOut([free_regions EXCEPT ![p].stream = call.stream], p)
  <2> DEFINE p == BestFit(CompletedFit, FreeSize)
             f == [free_regions EXCEPT ![p].stream = call.stream]
  <2>1. p \in CompletedFit
    <3>1. CompletedFit \subseteq DOMAIN free_regions
      BY DEF CompletedFit, Fitting
    <3> QED
      BY <1>2, <1>5, <3>1, BestFitIn
  <2>2. /\ p \in DOMAIN free_regions /\ free_regions[p].size >= call.size
        /\ completed(free_regions[p].id)
    BY <2>1 DEF CompletedFit, Fitting
  <2>3. HandOut(f, p)
    BY <1>5
  <2>4. call.stream \in AllStreams
    BY <1>1, Sizes DEF AllStreams
  <2> HIDE DEF p
  <2>5. /\ DOMAIN f = DOMAIN free_regions
        /\ \A q \in DOMAIN f :
             f[q].size = free_regions[q].size /\ f[q].id = free_regions[q].id
        /\ \A q \in DOMAIN f \ {p} : f[q] = free_regions[q]
        /\ f[p].stream = call.stream
        /\ f \in [DOMAIN f -> FreeRegion(free_num)]
    BY <1>3, <2>2, <2>4 DEF FreeRegion
  <2> HIDE DEF f
  <2> QED
    BY <2>2, <2>3, <2>5
<1> QED
  BY <1>4, <1>5 DEF find_best_fit

LEMMA FindBestFitBack ==
  ASSUME IInv, BackInv, find_best_fit
  PROVE  BackInv'
<1>1. call.pc = "cleanup" /\ InCall /\ UNCHANGED <<device_vars, active_pages>>
  BY DEF find_best_fit, InCall
<1>2. CASE \E p \in DOMAIN free_regions, f \in [DOMAIN free_regions -> FreeRegion(free_num)] :
             /\ free_regions[p].size >= call.size
             /\ DOMAIN f = DOMAIN free_regions
             /\ \A q \in DOMAIN f : f[q].size = free_regions[q].size
             /\ f \in [DOMAIN f -> FreeRegion(free_num)]
             /\ HandOut(f, p)
  <2>1. PICK p \in DOMAIN free_regions, f \in [DOMAIN free_regions -> FreeRegion(free_num)] :
             /\ free_regions[p].size >= call.size
             /\ DOMAIN f = DOMAIN free_regions
             /\ \A q \in DOMAIN f : f[q].size = free_regions[q].size
             /\ f \in [DOMAIN f -> FreeRegion(free_num)]
             /\ HandOut(f, p)
    BY <1>2
  <2>2. p \in DOMAIN f /\ f[p].size >= call.size
    BY <2>1
  <2> QED
    BY <1>1, <2>1, <2>2, HandOutBack
<1>3. CASE call' = [call EXCEPT !.pc = "hole"] /\ UNCHANGED <<free_regions, malloc_regions>>
  <2>1. call'.pc = "hole"
    BY <1>3 DEF IInv, CallInv, CallShape
  <2>2. Held' = FreePages \cup MallocPages /\ Held' \subseteq Held /\ Sources' = {}
    BY <1>3, <2>1 DEF Held, FreePages, MallocPages, Created, Sources
  <2> QED
    BY <1>1, <2>1, <2>2, KeptBacking DEF device_vars, BackInv, Backed
<1> QED
  BY <1>2, <1>3, BestFitChoice

(* A hole is opened at an address, with nothing created in it yet.          *)
LEMMA OpenedAt ==
  ASSUME IInv, call.pc = "hole", NEW dst \in Int, Opened(dst)
  PROVE  /\ call'.pc = "create" /\ call'.dst = dst /\ call'.next = dst
         /\ call'.size = call.size /\ call'.stream = call.stream
         /\ Created' = {} /\ Sources' = {} /\ HolePages' = Span(dst, call.size)
<1>1. /\ call'.pc = "create" /\ call'.dst = dst /\ call'.next = dst
      /\ call'.size = call.size /\ call'.stream = call.stream
  BY DEF Opened, IInv, CallInv, CallShape
<1>2. Span(dst, dst - dst) = {}
  BY DEF Span
<1> QED
  BY <1>1, <1>2 DEF Created, Sources, HolePages

(* take_unmapped_region opens the front of a hole, or of a new chunk, or    *)
(* gives up.                                                                *)
LEMMA TakeUnmappedChoice ==
  ASSUME IInv, take_unmapped_region
  PROVE  \/ \E p \in DOMAIN unmapped_regions :
              /\ p \in Int /\ unmapped_regions[p] \in Nat
              /\ unmapped_regions[p] >= call.size
              /\ LET n == unmapped_regions[p]
                     u == Without(unmapped_regions, {p})
                 IN  unmapped_regions' =
                       IF n > call.size THEN With(u, p + call.size, n - call.size) ELSE u
              /\ Opened(p) /\ UNCHANGED roots
         \/ \E base \in VaBase \ roots :
              /\ base \in Int /\ call.size <= VaSize
              /\ roots' = roots \cup {base}
              /\ unmapped_regions' =
                   insert_unmapped_region(unmapped_regions, base + call.size,
                                          VaSize - call.size)
              /\ Opened(base)
         \/ Return /\ UNCHANGED <<roots, unmapped_regions>>
<1>1. TypeInv /\ Layout
  BY DEF IInv
<1>2. ASSUME call.size <= VaSize, Holes # {}, NEW p, p = BestFit(Holes, unmapped_regions)
      PROVE  /\ p \in DOMAIN unmapped_regions /\ p \in Int /\ unmapped_regions[p] \in Nat
             /\ unmapped_regions[p] >= call.size
  <2>1. Holes \subseteq Nat /\ \A q \in Holes : unmapped_regions[q] \in Nat
    BY <1>1, BasesNat DEF Holes, TypeInv
  <2>2. p \in Holes
    BY <1>2, <2>1, BestFitIn
  <2> QED
    BY <1>1, <2>1, <2>2 DEF Holes
<1>3. VaBase \subseteq Int
  BY PoolAssumption
<1> QED
  BY <1>2, <1>3 DEF take_unmapped_region

LEMMA TakeUnmappedBack ==
  ASSUME IInv, BackInv, take_unmapped_region
  PROVE  BackInv'
<1>1. /\ call.pc = "hole"
      /\ UNCHANGED <<page_table, physical, active_pages, free_regions, malloc_regions>>
  BY DEF take_unmapped_region, device_vars
<1>2. Created' = {} /\ Sources' = {} /\ call'.pc # "harvest"
  <2>1. CASE \E dst \in Int : Opened(dst)
    BY <1>1, <2>1, OpenedAt
  <2>2. CASE Return
    BY <2>2, ReturnNone
  <2> QED
    BY <2>1, <2>2, TakeUnmappedChoice
<1>3. Held' \subseteq Held
  BY <1>1, <1>2 DEF Held, FreePages, MallocPages
<1> QED
  BY <1>1, <1>2, <1>3, KeptBacking DEF BackInv, Backed

(* Steps that end the call and leave the regions and their pages alone.     *)
LEMMA ReturnBack ==
  ASSUME BackInv, Return, CallStep, IInv,
         UNCHANGED <<active_pages, physical, free_regions, malloc_regions>>
  PROVE  BackInv'
<1>1. Created' = {} /\ Sources' = {} /\ call'.pc = "idle"
  BY ReturnNone
<1>2. Held' = FreePages \cup MallocPages /\ Held' \subseteq Held
  BY <1>1 DEF Held, FreePages, MallocPages
<1>3. \A a \in Held' : a \in DOMAIN page_table' /\ page_table'[a] = page_table[a]
  BY <1>2, PagesStay DEF BackInv
<1> QED
  BY <1>1, <1>2, <1>3, KeptBacking

(* A new physical page backs the next page of the hole.                     *)
LEMMA CreatePageBack ==
  ASSUME IInv, BackInv, create_new_page
  PROVE  BackInv'
<1> DEFINE n == call.next
<1>1. /\ call.pc = "create" /\ n < call.goal
      /\ UNCHANGED <<free_regions, malloc_regions, zombie_regions>>
  BY DEF create_new_page
<1>2. PICK h \in Unused :
        /\ physical' = physical \cup {h}
        /\ \/ /\ n \notin DOMAIN page_table
              /\ page_table' = With(page_table, n, h)
              /\ active_pages' = With(active_pages, n, h)
              /\ call' = [call EXCEPT !.next = @ + 1]
           \/ Return /\ UNCHANGED <<page_table, active_pages>>
  BY DEF create_new_page
<1>3. h \in Handle \ physical
  BY DEF Unused
<1>4. CASE Return /\ UNCHANGED <<page_table, active_pages>>
  <2>1. Created' = {} /\ Sources' = {} /\ call'.pc = "idle"
    BY <1>4, ReturnNone
  <2>2. Held' \subseteq Held
    BY <1>1, <2>1 DEF Held, FreePages, MallocPages
  <2> QED
    BY <1>2, <1>3, <1>4, <2>1, <2>2 DEF BackInv, Backed
<1>5. CASE /\ n \notin DOMAIN page_table
           /\ page_table' = With(page_table, n, h)
           /\ active_pages' = With(active_pages, n, h)
           /\ call' = [call EXCEPT !.next = @ + 1]
  <2>1. call'.pc = "create" /\ call'.next = n + 1 /\ call'.dst = call.dst
    BY <1>1, <1>5 DEF IInv, CallInv, CallShape
  <2>2. n \in Int /\ call.dst \in Int /\ call.dst <= n
    BY <1>1, GrowingTypes, CreatedInHole DEF Growing
  <2>3. Created' = Created \cup {n}
    <3>1. Created = Span(call.dst, n - call.dst)
      BY <1>1 DEF Created
    <3>2. Created' = Span(call'.dst, call'.next - call'.dst)
      BY <2>1 DEF Created
    <3> QED
      BY <2>1, <2>2, <3>1, <3>2 DEF Span
  <2>4. Sources = {} /\ Sources' = {}
    BY <1>1, <2>1 DEF Sources
  <2>5. Held' = Held \cup {n}
    BY <1>1, <2>3, <2>4 DEF Held, FreePages, MallocPages
  <2>6. DOMAIN page_table' = DOMAIN page_table \cup {n}
        /\ DOMAIN active_pages' = DOMAIN active_pages \cup {n}
    BY <1>5 DEF With
  <2>7. page_table'[n] = h /\ active_pages'[n] = h
    BY <1>5 DEF With
  <2>8. /\ \A a \in DOMAIN page_table : a # n => page_table'[a] = page_table[a]
        /\ \A a \in DOMAIN active_pages : a # n => active_pages'[a] = active_pages[a]
    BY <1>5 DEF With
  <2> HIDE DEF n
  <2>9. Backed(Held)'
    BY <2>5, <2>6, <2>7, <2>8 DEF BackInv, Backed
  <2>10. \A a \in DOMAIN active_pages : active_pages[a] # h
    BY <1>3 DEF BackInv, Range
  <2>11. IsInjective(active_pages')
    BY <2>6, <2>7, <2>8, <2>10 DEF BackInv, IsInjective
  <2>12. Range(active_pages') \subseteq physical'
    BY <1>2, <2>6, <2>7, <2>8 DEF BackInv, Range
  <2> QED
    BY <1>2, <1>3, <2>1, <2>4, <2>9, <2>11, <2>12 DEF BackInv
<1> QED
  BY <1>2, <1>4, <1>5

(* The pages created so far are released; no region has them.               *)
LEMMA RollbackBack ==
  ASSUME IInv, BackInv, rollback_new_pages
  PROVE  BackInv'
<1>1. /\ call.pc = "create" /\ Return
      /\ UNCHANGED <<free_regions, malloc_regions>>
      /\ active_pages' = Without(active_pages, Created)
      /\ physical' = physical \ {active_pages[a] : a \in Created}
  BY DEF rollback_new_pages, Undo, Created
<1>2. Created' = {} /\ Sources' = {} /\ call'.pc = "idle"
  BY <1>1, ReturnNone
<1>3. Held' = FreePages \cup MallocPages /\ Held' \subseteq Held
  BY <1>1, <1>2 DEF Held, FreePages, MallocPages
<1>4. \A a \in Held' : a \in DOMAIN page_table' /\ page_table'[a] = page_table[a]
  BY <1>3, PagesStay DEF BackInv, CallStep
<1>5. Held' \cap Created = {}
  BY <1>1, <1>3, CreatedInHole, PageLayout
<1>6. /\ DOMAIN active_pages' = DOMAIN active_pages \ Created
      /\ \A a \in DOMAIN active_pages \ Created : active_pages'[a] = active_pages[a]
  BY <1>1 DEF Without
<1>7. Created \subseteq DOMAIN active_pages
  BY DEF BackInv, Backed, Held
<1>8. IsInjective(active_pages')
  BY <1>6 DEF BackInv, IsInjective
<1>9. Range(active_pages') \subseteq physical'
  BY <1>1, <1>6, <1>7 DEF BackInv, IsInjective, Range
<1>10. Backed(Held)'
  BY <1>3, <1>4, <1>5, <1>6 DEF BackInv, Backed
<1> QED
  BY <1>1, <1>2, <1>8, <1>9, <1>10 DEF BackInv

LEMMA CreationFailsBack ==
  ASSUME IInv, BackInv, creation_fails
  PROVE  BackInv'
  BY ReturnBack DEF creation_fails, device_vars, CallStep

(* The created pages become a free region.                                  *)
LEMMA InsertNewPagesBack ==
  ASSUME IInv, BackInv, insert_new_pages
  PROVE  BackInv'
<1> DEFINE n == call.goal - call.dst
<1>1. /\ call.pc = "create" /\ call.next = call.goal /\ call.goal > call.dst
      /\ free_region_insert(call.dst, n, call.stream)
      /\ call'.pc \in {"take", "harvest"} /\ call'.moves = call.moves
      /\ UNCHANGED <<page_table, physical, active_pages, malloc_regions>>
  BY DEF insert_new_pages, IInv, CallInv, CallShape
<1>2. /\ call.dst \in Int /\ n \in Nat \ {0} /\ call.stream \in AllStreams /\ TypeInv
  BY <1>1, GrowingTypes DEF Growing, AllStreams, IInv
<1>3. DOMAIN call.moves = {}
  BY <1>1 DEF IInv, CallInv
<1>4. Created' = {} /\ Sources' = {} /\ (call'.pc = "harvest" => IsInjective(call'.moves))
  BY <1>1, <1>3 DEF Created, Sources, Range, IsInjective
<1>5. Span(call.dst, n) = Created
  BY <1>1 DEF Created
<1>6. FreePages' \subseteq FreePages \cup Span(call.dst, n)
  <2> HIDE DEF n
  <2> QED
    BY <1>1, <1>2, FreeInsertPages DEF FreePages
<1>7. Held' \subseteq Held
  BY <1>1, <1>4, <1>5, <1>6 DEF Held, MallocPages
<1> QED
  BY <1>1, <1>4, <1>7, KeptBacking DEF BackInv, Backed

LEMMA NoNewPagesBack ==
  ASSUME IInv, BackInv, no_new_pages
  PROVE  BackInv'
<1>1. /\ call.pc = "create" /\ call'.pc = "harvest" /\ call'.moves = call.moves
      /\ UNCHANGED <<page_table, physical, active_pages, free_regions, malloc_regions>>
  BY DEF no_new_pages, device_vars, IInv, CallInv, CallShape
<1>2. DOMAIN call.moves = {}
  BY <1>1 DEF IInv, CallInv
<1>3. Created' = {} /\ Sources' = {} /\ IsInjective(call'.moves)
  BY <1>1, <1>2 DEF Created, Sources, Range, IsInjective
<1>4. Held' \subseteq Held
  BY <1>1, <1>3 DEF Held, FreePages, MallocPages
<1> QED
  BY <1>1, <1>3, <1>4, KeptBacking DEF BackInv, Backed

(* One harvest: the first pages of a free region p become a zombie and will *)
(* move to the next addresses of the hole, or the wait for p's event fails  *)
(* and its pages are lost.                                                  *)
LEMMA HarvestStep ==
  ASSUME IInv, harvest_free_region
  PROVE  \E p \in DOMAIN free_regions, take \in Nat \ {0} :
           /\ p # call.ptr /\ take <= free_regions[p].size
           /\ \/ /\ IF NeedsWait(free_regions[p])
                    THEN wait(call.stream, free_regions[p].id)
                    ELSE UNCHANGED before
                 /\ zombie_regions' = zombie_regions
                      \cup {[ptr |-> p, size |-> take, event |-> free_regions[p].id]}
                 /\ free_regions' = CutFront(free_regions, p, take)
                 /\ call'.pc = "harvest" /\ call'.stream = call.stream
                 /\ call'.size = call.size /\ call'.dst = call.dst /\ call'.goal = call.goal
                 /\ call'.left = call.left - take /\ call'.ptr = call.ptr
                 /\ DOMAIN call'.moves = DOMAIN call.moves \cup Span(call.next, take)
                 /\ \A d \in Span(call.next, take) :
                      d \in Int /\ call'.moves[d] = p + (d - call.next)
                 /\ \A d \in DOMAIN call.moves :
                      d \notin Span(call.next, take) /\ call'.moves[d] = call.moves[d]
              \/ /\ "wait" \in Faults
                 /\ free_regions' = Without(free_regions, {p})
                 /\ Return
                 /\ UNCHANGED <<before, zombie_regions>>
<1> DEFINE p == NextHarvest
           r == free_regions[p]
           take == IF call.left < r.size THEN call.left ELSE r.size
           into == Span(call.next, take)
<1>1. call.pc = "harvest" /\ call.left > 0 /\ Harvestable # {}
  BY DEF harvest_free_region
<1>2. p \in DOMAIN free_regions /\ p # call.ptr
  BY <1>1, NextHarvestIn DEF IInv, Harvestable
<1>3. r.size \in Nat \ {0} /\ call.left \in Nat
  BY <1>1, <1>2, FreeTyped DEF IInv, CallInv
<1>4. take \in Nat \ {0} /\ take <= r.size
  BY <1>1, <1>3
<1>5. /\ call.goal \in Int /\ call.next \in Int
      /\ DOMAIN call.moves = call.goal .. call.next - 1
  BY <1>1, GrowingTypes DEF Growing, IInv, CallInv
<1>6. CASE /\ IF NeedsWait(r) THEN wait(call.stream, r.id) ELSE UNCHANGED before
           /\ zombie_regions' =
                zombie_regions \cup {[ptr |-> p, size |-> take, event |-> r.id]}
           /\ free_regions' = CutFront(free_regions, p, take)
           /\ call' = [call EXCEPT
                !.left  = @ - take,
                !.next  = @ + take,
                !.moves = [d \in DOMAIN @ \cup into |->
                             IF d \in into THEN p + (d - call.next) ELSE @[d]]]
  <2> HIDE DEF take, p
  <2>1. /\ call'.pc = "harvest" /\ call'.stream = call.stream
        /\ call'.size = call.size /\ call'.dst = call.dst /\ call'.goal = call.goal
        /\ call'.left = call.left - take /\ call'.ptr = call.ptr
        /\ call'.moves = [d \in DOMAIN call.moves \cup into |->
                            IF d \in into THEN p + (d - call.next) ELSE call.moves[d]]
    BY <1>1, <1>6 DEF IInv, CallInv, CallShape
  <2>2. \A d \in into : d \in Int /\ call.next <= d
    BY <1>4, <1>5, InSpan
  <2>3. \A d \in DOMAIN call.moves : d \notin into
    BY <1>5, <2>2
  <2> HIDE DEF into
  <2>4. /\ DOMAIN call'.moves = DOMAIN call.moves \cup into
        /\ \A d \in into : call'.moves[d] = p + (d - call.next)
        /\ \A d \in DOMAIN call.moves : call'.moves[d] = call.moves[d]
    BY <2>1, <2>3
  <2> QED
    BY <1>2, <1>4, <1>6, <2>1, <2>2, <2>3, <2>4 DEF into
<1>7. CASE /\ "wait" \in Faults
           /\ free_regions' = Without(free_regions, {p})
           /\ Return
           /\ UNCHANGED <<before, zombie_regions>>
  <2> HIDE DEF take, p
  <2> QED
    BY <1>2, <1>4, <1>7
<1> QED
  BY <1>6, <1>7 DEF harvest_free_region

LEMMA HarvestBack ==
  ASSUME IInv, BackInv, harvest_free_region
  PROVE  BackInv'
<1>1. /\ call.pc = "harvest"
      /\ UNCHANGED <<page_table, physical, active_pages, malloc_regions>>
  BY DEF harvest_free_region
<1>2. PICK p \in DOMAIN free_regions, take \in Nat \ {0} :
        /\ take <= free_regions[p].size
        /\ \/ /\ zombie_regions' = zombie_regions
                   \cup {[ptr |-> p, size |-> take, event |-> free_regions[p].id]}
              /\ free_regions' = CutFront(free_regions, p, take)
              /\ call'.pc = "harvest"
              /\ DOMAIN call'.moves = DOMAIN call.moves \cup Span(call.next, take)
              /\ \A d \in Span(call.next, take) :
                   d \in Int /\ call'.moves[d] = p + (d - call.next)
              /\ \A d \in DOMAIN call.moves :
                   d \notin Span(call.next, take) /\ call'.moves[d] = call.moves[d]
           \/ /\ free_regions' = Without(free_regions, {p})
              /\ Return
  BY HarvestStep
<1>3. /\ p \in Int /\ free_regions[p].size \in Nat /\ TypeInv
      /\ free_regions \in [DOMAIN free_regions -> FreeRegion(free_num)]
  BY FreeTyped DEF IInv, TypeInv
<1>4. CASE /\ free_regions' = Without(free_regions, {p})
           /\ Return
  <2>1. Created' = {} /\ Sources' = {} /\ call'.pc = "idle"
    BY <1>4, ReturnNone
  <2>2. FreePages' \subseteq FreePages
    BY <1>4 DEF FreePages, Without
  <2>3. Held' \subseteq Held
    BY <1>1, <2>1, <2>2 DEF Held, MallocPages
  <2> QED
    BY <1>1, <2>1, <2>3, KeptBacking DEF BackInv, Backed
<1>5. CASE /\ zombie_regions' = zombie_regions
                \cup {[ptr |-> p, size |-> take, event |-> free_regions[p].id]}
           /\ free_regions' = CutFront(free_regions, p, take)
           /\ call'.pc = "harvest"
           /\ DOMAIN call'.moves = DOMAIN call.moves \cup Span(call.next, take)
           /\ \A d \in Span(call.next, take) :
                d \in Int /\ call'.moves[d] = p + (d - call.next)
           /\ \A d \in DOMAIN call.moves :
                d \notin Span(call.next, take) /\ call'.moves[d] = call.moves[d]
  <2>1. Span(p, take) \subseteq FreePages
    <3>1. Span(p, take) \subseteq Span(p, free_regions[p].size)
      BY <1>2, <1>3 DEF Span
    <3> QED
      BY <3>1 DEF FreePages
  <2>2. call.next \in Int
    BY <1>1, GrowingTypes DEF Growing
  <2>3. \A d \in Span(call.next, take) : call'.moves[d] \in Span(p, take)
    BY <1>3, <1>5, <2>2, InSpan
  <2>4. Sources = {call.moves[d] : d \in DOMAIN call.moves}
        /\ Sources' = {call'.moves[d] : d \in DOMAIN call'.moves}
    BY <1>1, <1>5 DEF Sources, Range
  <2>5. Sources' \subseteq Sources \cup Span(p, take)
    BY <1>5, <2>3, <2>4
  <2>6. Sources' \subseteq ZombiePages'
    <3> DEFINE z == [ptr |-> p, size |-> take, event |-> free_regions[p].id]
    <3>0. z \in zombie_regions' /\ z.ptr = p /\ z.size = take
      BY <1>5
    <3>1. ZombiePages \cup Span(p, take) \subseteq ZombiePages'
      <4> HIDE DEF z
      <4> QED
        BY <1>5, <3>0 DEF ZombiePages
    <3> QED
      BY <2>5, <3>1 DEF BackInv
  <2>7. Sources \cap Span(p, take) = {}
    BY <2>1, PageLayout DEF BackInv
  <2>8. IsInjective(call.moves)
    BY <1>1 DEF BackInv
  <2>9. \A d, e \in Span(call.next, take) : call'.moves[d] = call'.moves[e] => d = e
    BY <1>3, <1>5, <2>2
  <2>10. IsInjective(call'.moves)
    BY <1>5, <2>3, <2>4, <2>7, <2>8, <2>9 DEF IsInjective
  <2>11. FreePages' \subseteq FreePages
    <3>1. take \in Nat
      OBVIOUS
    <3>2. \A q \in DOMAIN free_regions' : \A x \in Span(q, free_regions'[q].size) :
            \E s \in DOMAIN free_regions :
              /\ free_regions'[q].stream = free_regions[s].stream
              /\ free_regions'[q].id = free_regions[s].id
              /\ x \in Span(s, free_regions[s].size)
              /\ s = p => ~(x \in Span(p, take))
      BY <1>3, <1>5, <3>1, CutFrontPages, Z3T(30)
    <3> QED
      BY <3>2 DEF FreePages
  <2>12. Held' \subseteq Held
    <3>1. Created' = {}
      BY <1>5 DEF Created
    <3> QED
      BY <1>1, <2>1, <2>5, <2>11, <3>1 DEF Held, MallocPages
  <2> QED
    BY <1>1, <2>6, <2>10, <2>12, KeptBacking DEF BackInv, Backed
<1> QED
  BY <1>2, <1>4, <1>5

(* Remapping some of the pages moves them and shares none.                  *)
LEMMA RemappedPages ==
  ASSUME IInv, BackInv, call.pc = "harvest", call.left = 0,
         NEW D \in SUBSET DOMAIN call.moves
  PROVE  /\ IsInjective(Remapped(D))
         /\ Range(Remapped(D)) \subseteq Range(active_pages)
         /\ \A a \in FreePages \cup MallocPages :
              a \in DOMAIN Remapped(D) /\ Remapped(D)[a] = active_pages[a]
         /\ \A d \in D : d \in DOMAIN Remapped(D)
                         /\ Remapped(D)[d] = active_pages[call.moves[d]]
         /\ \A d \in DOMAIN call.moves :
              call.moves[d] \in DOMAIN active_pages
              /\ call.moves[d] \notin FreePages \cup MallocPages
<1> DEFINE old == {call.moves[d] : d \in D}
           f == Remapped(D)
<1>1. /\ DOMAIN f = (DOMAIN active_pages \ old) \cup D
      /\ \A a \in DOMAIN f : f[a] = active_pages[IF a \in D THEN call.moves[a] ELSE a]
  BY DEF Remapped
<1>2. Sources = {call.moves[d] : d \in DOMAIN call.moves}
  BY DEF Sources, Range
<1>3. \A d \in DOMAIN call.moves :
        call.moves[d] \in DOMAIN active_pages /\ call.moves[d] \in ZombiePages
  BY <1>2 DEF BackInv, Backed, Held
<1>4. \A d \in DOMAIN call.moves : call.moves[d] \notin FreePages \cup MallocPages
  BY <1>3, PageLayout
<1>5. D \cap (FreePages \cup MallocPages) = {}
  BY MovesInHolePages, PageLayout
<1>6. FreePages \cup MallocPages \subseteq DOMAIN active_pages
  BY DEF BackInv, Backed, Held
<1>7. /\ \A a, b \in DOMAIN active_pages : active_pages[a] = active_pages[b] => a = b
      /\ \A a, b \in DOMAIN call.moves : call.moves[a] = call.moves[b] => a = b
  BY DEF BackInv, IsInjective
<1>8. \A a \in DOMAIN f :
        \/ a \in D /\ f[a] = active_pages[call.moves[a]]
                   /\ call.moves[a] \in old /\ call.moves[a] \in DOMAIN active_pages
        \/ a \notin D /\ f[a] = active_pages[a] /\ a \in DOMAIN active_pages \ old
  BY <1>1, <1>3
<1>9. D \subseteq DOMAIN f /\ \A d \in D : f[d] = active_pages[call.moves[d]]
  BY <1>1
<1>10. \A a \in FreePages \cup MallocPages : a \in DOMAIN f /\ f[a] = active_pages[a]
  BY <1>1, <1>4, <1>5, <1>6
<1> HIDE DEF f, old
<1>11. IsInjective(f)
  BY <1>7, <1>8 DEF IsInjective
<1>12. Range(f) \subseteq Range(active_pages)
  BY <1>8 DEF Range
<1> QED
  BY <1>3, <1>4, <1>9, <1>10, <1>11, <1>12 DEF f

(* The harvested pages back the hole, which joins the free regions.         *)
LEMMA RemapBack ==
  ASSUME IInv, BackInv, remap_regions
  PROVE  BackInv'
<1> DEFINE D == DOMAIN call.moves
           n == call.next - call.goal
<1>1. /\ call.pc = "harvest" /\ call.left = 0
      /\ D \cap DOMAIN page_table = {}
      /\ active_pages' = Remapped(D)
      /\ page_table' = DoubleMapped(D)
      /\ free_region_insert(call.goal, n, call.stream)
      /\ UNCHANGED <<physical, malloc_regions>>
  BY DEF remap_regions
<1>2. call'.pc = "take"
  BY DEF remap_regions, IInv, CallInv, CallShape
<1>3. Created' = {} /\ Sources' = {}
  BY <1>2 DEF Created, Sources
<1>4. /\ call.goal \in Int /\ n \in Nat \ {0} /\ call.stream \in AllStreams /\ TypeInv
      /\ Span(call.goal, n) = D
  <2>1. /\ call.goal \in Int /\ call.next \in Int /\ call.stream \in AllStreams /\ TypeInv
        /\ call.goal < call.next
        /\ D = call.goal .. call.next - 1
    BY <1>1, GrowingTypes DEF Growing, AllStreams, IInv, CallInv
  <2> QED
    BY <2>1 DEF Span
<1>5. FreePages' \subseteq FreePages \cup D
  <2>1. FreePages' \subseteq FreePages \cup Span(call.goal, n)
    <3> HIDE DEF n
    <3> QED
      BY <1>1, <1>4, FreeInsertPages DEF FreePages
  <2> QED
    BY <1>4, <2>1
<1>6. Held' \subseteq FreePages \cup MallocPages \cup D
  BY <1>1, <1>3, <1>5 DEF Held, MallocPages
<1>7. \A a \in FreePages \cup MallocPages :
        /\ a \in DOMAIN page_table' /\ page_table'[a] = active_pages[a]
        /\ a \in DOMAIN active_pages' /\ active_pages'[a] = active_pages[a]
  <2>1. CallStep
    BY DEF CallStep
  <2> QED
    BY <1>1, <2>1, PagesStay, RemappedPages DEF BackInv, Backed, Held
<1>8. \A d \in D :
        /\ d \in DOMAIN page_table' /\ page_table'[d] = active_pages[call.moves[d]]
        /\ d \in DOMAIN active_pages' /\ active_pages'[d] = active_pages[call.moves[d]]
  BY <1>1, RemappedPages DEF DoubleMapped
<1>9. Backed(Held)'
  <2> HIDE DEF D
  <2> QED
    BY <1>6, <1>7, <1>8 DEF Backed
<1>10. IsInjective(active_pages') /\ Range(active_pages') \subseteq physical'
  BY <1>1, RemappedPages DEF BackInv
<1> QED
  BY <1>1, <1>2, <1>3, <1>9, <1>10 DEF BackInv

LEMMA RemapFailsBack ==
  ASSUME IInv, BackInv, NEW k \in DOMAIN call.moves \cup {call.next}, remap_fails(k)
  PROVE  BackInv'
<1> DEFINE done == {d \in DOMAIN call.moves : d < k}
           gone == {call.moves[d] : d \in {d \in DOMAIN call.moves : d <= k}}
<1>1. /\ call.pc = "harvest" /\ call.left = 0 /\ Return
      /\ active_pages' = [a \in DOMAIN Remapped(done) \ gone |-> Remapped(done)[a]]
      /\ UNCHANGED <<physical, free_regions, malloc_regions>>
  BY DEF remap_fails
<1>2. Created' = {} /\ Sources' = {} /\ call'.pc = "idle"
  BY <1>1, ReturnNone
<1>3. Held' = FreePages \cup MallocPages
  BY <1>1, <1>2 DEF Held, FreePages, MallocPages
<1>4. done \in SUBSET DOMAIN call.moves
  OBVIOUS
<1>5. \A a \in FreePages \cup MallocPages : a \notin gone
  BY <1>1, <1>4, RemappedPages
<1> HIDE DEF done, gone
<1>6. \A a \in FreePages \cup MallocPages :
        a \in DOMAIN active_pages' /\ active_pages'[a] = active_pages[a]
  <2>1. \A a \in FreePages \cup MallocPages :
          a \in DOMAIN Remapped(done) /\ Remapped(done)[a] = active_pages[a]
    BY <1>1, <1>4, RemappedPages
  <2> QED
    BY <1>1, <1>5, <2>1
<1>7. \A a \in FreePages \cup MallocPages :
        a \in DOMAIN page_table' /\ page_table'[a] = active_pages[a]
  <2>1. CallStep
    BY DEF CallStep
  <2> QED
    BY <2>1, PagesStay DEF BackInv, Backed, Held
<1>8. Backed(Held)'
  BY <1>3, <1>6, <1>7 DEF Backed
<1>9. IsInjective(active_pages') /\ Range(active_pages') \subseteq Range(active_pages)
  <2>1. IsInjective(Remapped(done)) /\ Range(Remapped(done)) \subseteq Range(active_pages)
    BY <1>1, <1>4, RemappedPages
  <2>2. \A a \in DOMAIN active_pages' :
          a \in DOMAIN Remapped(done) /\ active_pages'[a] = Remapped(done)[a]
    BY <1>1
  <2> QED
    BY <2>1, <2>2 DEF IsInjective, Range
<1> QED
  BY <1>1, <1>2, <1>8, <1>9 DEF BackInv

LEMMA TakeBack ==
  ASSUME IInv, BackInv, hand_out_defragmented
  PROVE  BackInv'
<1>1. /\ call.ptr \in DOMAIN free_regions /\ free_regions[call.ptr].size >= call.size
      /\ InCall /\ UNCHANGED <<device_vars, active_pages>>
  BY DEF hand_out_defragmented, IInv, CallInv, RegionFound, InCall
<1>2. free_regions \in [DOMAIN free_regions -> FreeRegion(free_num)]
  BY DEF IInv, TypeInv
<1> QED
  BY <1>1, <1>2, HandOutBack DEF hand_out_defragmented

LEMMA FreeBack ==
  ASSUME IInv, BackInv, NEW p \in DOMAIN malloc_regions, free_internal(p)
  PROVE  BackInv'
<1> DEFINE n == malloc_regions[p].size
           s == malloc_regions[p].stream
<1>1. /\ call.pc = "idle" /\ call' = call
      /\ free_region_insert(p, n, s)
      /\ malloc_regions' = Without(malloc_regions, {p})
      /\ UNCHANGED <<page_table, physical, active_pages>>
  BY DEF free_internal
<1>2. TypeInv /\ p \in Int /\ n \in Nat \ {0} /\ s \in AllStreams
  BY MallocTyped DEF IInv, AllStreams
<1>3. Created' = {} /\ Sources' = {}
  BY <1>1 DEF Created, Sources
<1>4. FreePages' \subseteq FreePages \cup Span(p, n)
  <2> HIDE DEF n, s
  <2> QED
    BY <1>1, <1>2, FreeInsertPages DEF FreePages
<1>5. MallocPages' \subseteq MallocPages /\ Span(p, n) \subseteq MallocPages
  BY <1>1 DEF MallocPages, Without
<1>6. Held' \subseteq Held
  BY <1>3, <1>4, <1>5 DEF Held
<1> QED
  BY <1>1, <1>3, <1>6, KeptBacking DEF BackInv, Backed

LEMMA DropBack ==
  ASSUME IInv, BackInv, drop
  PROVE  BackInv'
<1>1. call'.pc = "dropped"
  BY DEF drop, NoCall
<1>2. /\ DOMAIN free_regions' = {} /\ DOMAIN malloc_regions' = {}
      /\ DOMAIN active_pages' = {}
      /\ physical' = physical \ Range(active_pages)
  BY DEF drop, EmptyMap
<1>3. Held' = {} /\ Sources' = {}
  BY <1>1, <1>2 DEF Held, FreePages, MallocPages, Created, Sources
<1> QED
  BY <1>1, <1>2, <1>3 DEF BackInv, Backed, IsInjective, Range

LEMMA StutterBack ==
  ASSUME BackInv, UNCHANGED <<page_table, physical, pool_vars>>
  PROVE  BackInv'
  BY DEF BackInv, Backed, Held, FreePages, MallocPages, ZombiePages, Created, Sources,
         pool_vars

LEMMA InitBack == Init => BackInv
<1> SUFFICES ASSUME Init
             PROVE  BackInv
  OBVIOUS
<1> DEFINE pages(base) ==
             CHOOSE m \in [Span(base, InitialPages) -> Handle] : IsInjective(m)
<1>1. PICK base \in VaBase :
        /\ active_pages = pages(base) /\ page_table = pages(base)
        /\ physical = Range(pages(base))
        /\ free_regions = [p \in IF InitialPages > 0 THEN {base} ELSE {} |->
                            [size |-> InitialPages, stream |-> InitStream, id |-> 0]]
        /\ malloc_regions = EmptyMap
        /\ call = NoCall
  BY DEF Init
<1>2. pages(base) \in [Span(base, InitialPages) -> Handle] /\ IsInjective(pages(base))
  BY PreallocationAssumption
<1> HIDE DEF pages
<1>3. Created = {} /\ Sources = {} /\ call.pc = "idle"
  BY <1>1 DEF Created, Sources, NoCall
<1>4. MallocPages = {}
  BY <1>1 DEF MallocPages, EmptyMap
<1>5. FreePages \subseteq Span(base, InitialPages)
  BY <1>1 DEF FreePages
<1>6. Held \subseteq Span(base, InitialPages)
  BY <1>3, <1>4, <1>5 DEF Held
<1>7. physical \subseteq Handle
  BY <1>1, <1>2 DEF Range
<1> QED
  BY <1>1, <1>2, <1>3, <1>6, <1>7 DEF BackInv, Backed

-----------------------------------------------------------------------------
(* Theorems.                                                               *)

LEMMA CallStepBack ==
  ASSUME IInv, BackInv, CallStep
  PROVE  BackInv'
  BY CleanupBack, FindBestFitBack, TakeUnmappedBack, CreatePageBack, RollbackBack,
     CreationFailsBack, InsertNewPagesBack, NoNewPagesBack, HarvestBack, RemapBack,
     RemapFailsBack, TakeBack DEF CallStep

LEMMA NextBack == IInv /\ BackInv /\ [Next]_vars => BackInv'
<1> SUFFICES ASSUME IInv, BackInv, [Next]_vars
             PROVE  BackInv'
  OBVIOUS
<1>1. CASE \E s \in Stream, n \in Request : malloc_internal(s, n)
  BY <1>1, MallocBack
<1>2. CASE CallStep
  BY <1>2, CallStepBack
<1>3. CASE \E p \in DOMAIN malloc_regions : free_internal(p)
  BY <1>3, FreeBack
<1>4. CASE drop
  BY <1>4, DropBack
<1>5. CASE UNCHANGED <<page_table, physical, pool_vars>>
  BY <1>5, StutterBack
<1>6. ASSUME \/ \E p \in DOMAIN malloc_regions, k \in Kernel : Launch(p, k)
             \/ \E id \in DOMAIN ops : Device(id)
             \/ Dropped
             \/ UNCHANGED vars
      PROVE  UNCHANGED <<page_table, physical, pool_vars>>
  BY <1>6 DEF Launch, Device, Retire, Dropped, vars, device_vars
<1> QED
  BY <1>1, <1>2, <1>3, <1>4, <1>5, <1>6 DEF Next

(* Both inductive invariants together.                                      *)
THEOREM BackingInvariant == Spec => [](IInv /\ BackInv)
<1>1. Init => IInv /\ BackInv
  BY InitIInv, InitBack
<1>2. IInv /\ BackInv /\ [Next]_vars => (IInv /\ BackInv)'
  BY NextIInv, NextBack
<1> QED
  BY <1>1, <1>2, PTL DEF Spec

(* Every page of a free or allocated region is mapped to a physical page of *)
(* its own that has not been released, for any chunks, requests and         *)
(* physical memory, and whatever driver calls fail: a remapping that fails  *)
(* half-way, a rollback and a failed wait lose pages but never share one.   *)
THEOREM RegionsAreBacked == Spec => []PagesBacked
<1>1. BackInv => PagesBacked
  BY DEF BackInv, Backed, Held, PagesBacked
<1> QED
  BY <1>1, BackingInvariant, PTL

-----------------------------------------------------------------------------
(***************************************************************************)
(* Kernels in flight never lose a page they use and never race on one,     *)
(* though pages are reused and remapped before the device is done with     *)
(* them.                                                                   *)
(*                                                                         *)
(* NoRace is not inductive alone.  A launch is safe because the pending    *)
(* kernels that touch the allocation's pages already precede the next one  *)
(* of its stream; the pages got there from a free region, so its stream    *)
(* and its event have to follow those kernels too; and the pages that a    *)
(* call has harvested follow them from the wait it has queued until they   *)
(* are remapped (UsersOrdered).  NoFault holds because only addresses of   *)
(* zombies are ever unmapped, and a zombie's event follows every kernel    *)
(* that was launched at its addresses (UsesMapped).                        *)
(***************************************************************************)

(* Every pending operation that touches the page h precedes the next one of *)
(* stream s; or precedes the event e; or there is none.                     *)
Precede(h, s) == \A o \in DOMAIN ops : h \in Touches(o) => o \in before[s]
Behind(h, e) ==
  \A o \in DOMAIN ops : h \in Touches(o) => e \in DOMAIN ops /\ o \in ops[e].after
Untouched(h) == \A o \in DOMAIN ops : h \notin Touches(o)

OpsTyped ==
  /\ DOMAIN ops \subseteq Kernel \cup 0 .. free_num - 1
  /\ \A o \in DOMAIN ops :
       /\ ops[o] = [uses |-> ops[o].uses, after |-> ops[o].after]
       /\ ops[o].after \subseteq DOMAIN ops
       /\ Touches(o) \subseteq physical
  /\ before \in [AllStreams -> SUBSET DOMAIN ops]

MallocOrdered ==
  \A p \in DOMAIN malloc_regions : \A x \in Span(p, malloc_regions[p].size) :
    Precede(page_table[x], malloc_regions[p].stream)

FreeOrdered ==
  \A p \in DOMAIN free_regions : \A x \in Span(p, free_regions[p].size) :
    /\ Precede(page_table[x], free_regions[p].stream)
    /\ Behind(page_table[x], free_regions[p].id)

(* The pages of the call: those created, and those harvested.               *)
CallOrdered ==
  /\ \A x \in Created : Untouched(page_table[x])
  /\ \A x \in Sources : Precede(page_table[x], call.stream)

UsersOrdered == MallocOrdered /\ FreeOrdered /\ CallOrdered

UsesMapped ==
  \A o \in DOMAIN ops : \A a \in DOMAIN ops[o].uses :
    /\ a \in DOMAIN page_table /\ page_table[a] = ops[o].uses[a]
    /\ a \in RootPages \ (UnmappedPages \cup HolePages)
    /\ \A z \in zombie_regions :
         a \in Span(z.ptr, z.size) => z.event \in DOMAIN ops /\ o \in ops[z.event].after

(* The region that a call ends with is of its own stream.                   *)
OwnRegion == call.pc = "take" => free_regions[call.ptr].stream = call.stream

OrderInv == OpsTyped /\ UsersOrdered /\ UsesMapped /\ NoRace /\ OwnRegion

-----------------------------------------------------------------------------
(* Steps of a call only add markers and order.                             *)

OpsGrow ==
  /\ DOMAIN ops \subseteq DOMAIN ops'
  /\ \A o \in DOMAIN ops : ops'[o] = ops[o]
  /\ \A o \in DOMAIN ops' \ DOMAIN ops : o \in Nat /\ DOMAIN ops'[o].uses = {}
  /\ \A s \in AllStreams : before[s] \subseteq before'[s]

(* Behind a marker is whatever its stream waited for.                       *)
LEMMA RecordGrows ==
  ASSUME TypeInv, OpsTyped, NEW s \in AllStreams, RecordFree(s), physical \subseteq physical'
  PROVE  /\ OpsGrow /\ OpsTyped'
         /\ free_num \in DOMAIN ops' /\ ops'[free_num].after = before[s]
<1> DEFINE marker == [uses |-> EmptyMap, after |-> before[s]]
<1>1. /\ ops' = With(ops, free_num, marker)
      /\ before' = [before EXCEPT ![s] = @ \cup {free_num}]
      /\ free_num' = free_num + 1
  BY DEF RecordFree, record_on, enqueue
<1>2. free_num \in Nat /\ free_num \notin DOMAIN ops
  BY DeviceAssumption DEF TypeInv, OpsTyped
<1>3. /\ DOMAIN ops' = DOMAIN ops \cup {free_num}
      /\ ops'[free_num] = marker
      /\ \A o \in DOMAIN ops : ops'[o] = ops[o]
  BY <1>1, <1>2 DEF With
<1>4. /\ marker.after = before[s] /\ marker.uses = EmptyMap
      /\ DOMAIN EmptyMap = {} /\ Range(EmptyMap) = {}
      /\ marker = [uses |-> marker.uses, after |-> marker.after]
  BY DEF EmptyMap, Range
<1> HIDE DEF marker
<1>5. /\ before[s] \subseteq DOMAIN ops
      /\ \A t \in AllStreams : before'[t] = IF t = s THEN before[t] \cup {free_num} ELSE before[t]
      /\ before' \in [AllStreams -> SUBSET DOMAIN ops']
  BY <1>1, <1>3 DEF OpsTyped
<1>6. OpsGrow
  BY <1>2, <1>3, <1>4, <1>5 DEF OpsGrow
<1>7. DOMAIN ops' \subseteq Kernel \cup 0 .. free_num' - 1
  BY <1>1, <1>2, <1>3 DEF OpsTyped
<1>8. ASSUME NEW o \in DOMAIN ops'
      PROVE  /\ ops'[o] = [uses |-> ops'[o].uses, after |-> ops'[o].after]
             /\ ops'[o].after \subseteq DOMAIN ops'
             /\ Range(ops'[o].uses) \subseteq physical'
  BY <1>3, <1>4, <1>5 DEF OpsTyped, Touches
<1> QED
  BY <1>3, <1>4, <1>5, <1>6, <1>7, <1>8 DEF OpsTyped, Touches

(* Markers touch nothing, so whoever touched a page before still does, and  *)
(* nobody else.                                                             *)
LEMMA TouchesGrow ==
  ASSUME OpsGrow
  PROVE  \A o \in DOMAIN ops' : \A h :
           h \in Range(ops'[o].uses) => o \in DOMAIN ops /\ ops'[o] = ops[o]
                                        /\ h \in Touches(o)
  BY DEF OpsGrow, Touches, Range

LEMMA OrderGrows ==
  ASSUME OpsTyped, OpsGrow
  PROVE  /\ \A h : \A s \in AllStreams : Precede(h, s) => Precede(h, s)'
         /\ \A h, e : Behind(h, e) => Behind(h, e)'
         /\ \A h : Untouched(h) => Untouched(h)'
  BY TouchesGrow DEF Precede, Behind, Untouched, Touches, OpsGrow

LEMMA NoRaceGrows ==
  ASSUME NoRace, OpsGrow
  PROVE  NoRace'
<1> SUFFICES ASSUME NEW o \in DOMAIN ops', NEW q \in DOMAIN ops', o # q,
                    NEW h, h \in Range(ops'[o].uses), h \in Range(ops'[q].uses)
             PROVE  o \in ops'[q].after \/ q \in ops'[o].after
  BY DEF NoRace, Touches
<1> QED
  BY TouchesGrow DEF NoRace

LEMMA QuietGrows ==
  ASSUME OpsTyped, UNCHANGED <<ops, before, free_num>>, physical \subseteq physical'
  PROVE  OpsGrow /\ OpsTyped'
  BY DEF OpsTyped, OpsGrow, Touches

LEMMA RollbackGrows ==
  ASSUME IInv, BackInv, OrderInv, rollback_new_pages
  PROVE  OpsGrow /\ OpsTyped'
<1>1. /\ UNCHANGED <<ops, before, free_num>>
      /\ physical' = physical \ {active_pages[a] : a \in Created}
  BY DEF rollback_new_pages, Undo, Created
<1>2. \A a \in Created : page_table[a] = active_pages[a] /\ Untouched(page_table[a])
  BY DEF BackInv, Backed, Held, OrderInv, UsersOrdered, CallOrdered
<1>3. \A o \in DOMAIN ops : Touches(o) \subseteq physical'
  BY <1>1, <1>2 DEF OrderInv, OpsTyped, Untouched
<1> QED
  BY <1>1, <1>3 DEF OpsTyped, OpsGrow, Touches, OrderInv

LEMMA WaitGrows ==
  ASSUME OpsTyped, UNCHANGED <<ops, free_num, physical>>, NEW s \in AllStreams,
         NEW e \in DOMAIN ops, wait(s, e)
  PROVE  /\ OpsGrow /\ OpsTyped'
         /\ e \in before'[s] /\ ops[e].after \subseteq before'[s]
<1>1. /\ before' \in [AllStreams -> SUBSET DOMAIN ops]
      /\ before'[s] = before[s] \cup {e} \cup ops[e].after
      /\ \A t \in AllStreams : t # s => before'[t] = before[t]
  BY DEF wait, OpsTyped
<1> QED
  BY <1>1 DEF OpsTyped, OpsGrow, Touches

LEMMA InsertTyped ==
  ASSUME IInv, insert_new_pages
  PROVE  /\ call.dst \in Int /\ call.goal - call.dst \in Nat \ {0}
         /\ call.stream \in AllStreams
         /\ Span(call.dst, call.goal - call.dst) = Created
<1>1. call.pc = "create" /\ call.goal > call.dst /\ call.next = call.goal
  BY DEF insert_new_pages
<1> QED
  BY <1>1, GrowingTypes DEF Growing, AllStreams, Created

LEMMA RemapTyped ==
  ASSUME IInv, remap_regions
  PROVE  /\ call.goal \in Int /\ call.next - call.goal \in Nat \ {0}
         /\ call.stream \in AllStreams
         /\ Span(call.goal, call.next - call.goal) = DOMAIN call.moves
<1>1. /\ call.goal \in Int /\ call.next \in Int /\ call.stream \in AllStreams
      /\ call.goal < call.next
      /\ DOMAIN call.moves = call.goal .. call.next - 1
  <2>1. call.pc = "harvest" /\ call.left = 0
    BY DEF remap_regions
  <2> QED
    BY <2>1, GrowingTypes DEF Growing, AllStreams, IInv, CallInv
<1> QED
  BY <1>1 DEF Span

LEMMA CallStepGrows ==
  ASSUME IInv, BackInv, OrderInv, CallStep
  PROVE  OpsGrow /\ OpsTyped'
<1>1. TypeInv /\ OpsTyped
  BY DEF IInv, OrderInv
<1>2. CASE rollback_new_pages
  BY <1>2, RollbackGrows
<1>3. CASE insert_new_pages
  <2>1. RecordFree(call.stream) /\ UNCHANGED physical
    BY <1>3 DEF insert_new_pages, free_region_insert
  <2> QED
    BY <1>1, <1>3, <2>1, InsertTyped, RecordGrows
<1>4. CASE remap_regions
  <2>1. RecordFree(call.stream) /\ UNCHANGED physical
    BY <1>4 DEF remap_regions, free_region_insert
  <2> QED
    BY <1>1, <1>4, <2>1, RemapTyped, RecordGrows
<1>5. CASE harvest_free_region
  <2>1. UNCHANGED <<ops, free_num, physical>> /\ call.stream \in AllStreams
    <3>1. call.pc = "harvest"
      BY <1>5 DEF harvest_free_region
    <3> QED
      BY <1>5, <3>1, GrowingTypes DEF harvest_free_region, Growing, AllStreams
  <2>2. \/ UNCHANGED before
        \/ \E e \in DOMAIN ops : wait(call.stream, e)
    BY <1>5, HarvestStep DEF NeedsWait, completed
  <2> QED
    BY <1>1, <2>1, <2>2, WaitGrows, QuietGrows
<1>6. ASSUME \/ \E z \in call.scan : cleanup_zombie_regions(z)
             \/ find_best_fit \/ take_unmapped_region \/ create_new_page
             \/ creation_fails \/ no_new_pages \/ hand_out_defragmented
             \/ \E k \in DOMAIN call.moves \cup {call.next} : remap_fails(k)
      PROVE  UNCHANGED <<ops, before, free_num>> /\ physical \subseteq physical'
  BY <1>6 DEF cleanup_zombie_regions, find_best_fit, take_unmapped_region,
     create_new_page, creation_fails, no_new_pages, hand_out_defragmented, remap_fails,
     device_vars
<1> QED
  BY <1>1, <1>2, <1>3, <1>4, <1>5, <1>6, QuietGrows DEF CallStep

-----------------------------------------------------------------------------
(* The users of a page precede whoever gets it next.                       *)

(* The steps that leave the allocations, or the free regions, alone.        *)
LEMMA RegionsGrow ==
  ASSUME IInv, BackInv, OrderInv, OpsGrow,
         \A a \in FreePages \cup MallocPages : page_table'[a] = page_table[a]
  PROVE  /\ UNCHANGED malloc_regions => MallocOrdered'
         /\ UNCHANGED free_regions => FreeOrdered'
<1>1. ASSUME UNCHANGED malloc_regions
      PROVE  MallocOrdered'
  <2> SUFFICES ASSUME NEW p \in DOMAIN malloc_regions,
                      NEW x \in Span(p, malloc_regions[p].size)
               PROVE  Precede(page_table[x], malloc_regions[p].stream)'
    BY <1>1 DEF MallocOrdered
  <2>1. page_table'[x] = page_table[x] /\ malloc_regions[p].stream \in AllStreams
    BY MallocTyped DEF IInv, MallocPages, AllStreams
  <2> QED
    BY <1>1, <2>1, OrderGrows DEF OrderInv, UsersOrdered, MallocOrdered
<1>2. ASSUME UNCHANGED free_regions
      PROVE  FreeOrdered'
  <2> SUFFICES ASSUME NEW p \in DOMAIN free_regions,
                      NEW x \in Span(p, free_regions[p].size)
               PROVE  /\ Precede(page_table[x], free_regions[p].stream)'
                      /\ Behind(page_table[x], free_regions[p].id)'
    BY <1>2 DEF FreeOrdered
  <2>1. page_table'[x] = page_table[x] /\ free_regions[p].stream \in AllStreams
    BY FreeTyped DEF IInv, FreePages, FreeRegion
  <2> QED
    BY <1>2, <2>1, OrderGrows DEF OrderInv, UsersOrdered, FreeOrdered
<1> QED
  BY <1>1, <1>2

(* A page whose users precede stream s is safe in a region freed on s: they *)
(* precede the new event as well.                                           *)
LEMMA RecordOrders ==
  ASSUME TypeInv, OpsTyped, NEW s \in AllStreams, RecordFree(s), UNCHANGED physical
  PROVE  \A h : Precede(h, s) =>
           Precede(h, s)' /\ \A e : e = free_num => Behind(h, e)'
<1>1. /\ OpsGrow /\ free_num \in DOMAIN ops' /\ ops'[free_num].after = before[s]
  BY RecordGrows
<1> SUFFICES ASSUME NEW h, Precede(h, s)
             PROVE  Precede(h, s)' /\ \A e : e = free_num => Behind(h, e)'
  OBVIOUS
<1>2. Precede(h, s)'
  BY <1>1, OrderGrows
<1>3. ASSUME NEW o \in DOMAIN ops', h \in Range(ops'[o].uses)
      PROVE  o \in before[s]
  BY <1>1, <1>3, TouchesGrow DEF Precede
<1> QED
  BY <1>1, <1>2, <1>3 DEF Behind, Touches

LEMMA InsertOrdered ==
  ASSUME IInv, BackInv, OrderInv, UNCHANGED physical,
         NEW p \in Int, NEW n \in Nat \ {0}, NEW s \in AllStreams,
         free_region_insert(p, n, s),
         \A a \in FreePages : page_table'[a] = page_table[a],
         \A x \in Span(p, n) : Precede(page_table'[x], s)
  PROVE  FreeOrdered'
<1>1. TypeInv /\ OpsTyped /\ RecordFree(s)
  BY DEF IInv, OrderInv, free_region_insert
<1>2. OpsGrow
  BY <1>1, RecordGrows
<1> SUFFICES ASSUME NEW q \in DOMAIN free_regions', NEW x \in Span(q, free_regions'[q].size)
             PROVE  /\ Precede(page_table[x], free_regions[q].stream)'
                    /\ Behind(page_table[x], free_regions[q].id)'
  BY DEF FreeOrdered
<1>3. CASE q \in DOMAIN free_regions /\ free_regions'[q] = free_regions[q]
  <2>1. page_table'[x] = page_table[x] /\ free_regions[q].stream \in AllStreams
    BY <1>1, <1>3, FreeTyped DEF FreePages, FreeRegion
  <2>2. /\ Precede(page_table[x], free_regions[q].stream)
        /\ Behind(page_table[x], free_regions[q].id)
    BY <1>3 DEF OrderInv, UsersOrdered, FreeOrdered
  <2> QED
    BY <1>1, <1>2, <1>3, <2>1, <2>2, OrderGrows
<1>4. CASE /\ free_regions'[q].stream = s /\ free_regions'[q].id = free_num
           /\ \/ x \in Span(p, n)
              \/ \E r \in DOMAIN free_regions :
                   free_regions[r].stream = s /\ x \in Span(r, free_regions[r].size)
  <2>1. Precede(page_table'[x], s)
    <3>1. ASSUME NEW r \in DOMAIN free_regions, free_regions[r].stream = s,
                 x \in Span(r, free_regions[r].size)
          PROVE  Precede(page_table'[x], s)
      <4>1. page_table'[x] = page_table[x]
        BY <3>1 DEF FreePages
      <4> QED
        BY <3>1, <4>1 DEF OrderInv, UsersOrdered, FreeOrdered
    <3> QED
      BY <1>4, <3>1
  <2> QED
    BY <1>1, <1>4, <2>1, RecordOrders
<1> QED
  BY <1>1, <1>3, <1>4, FreeInsertPages

(* A region is handed out to the stream it was freed on, or after every use *)
(* of it has completed.                                                     *)
LEMMA HandOutOrdered ==
  ASSUME IInv, BackInv, OrderInv, InCall, UNCHANGED device_vars,
         NEW f, DOMAIN f = DOMAIN free_regions,
         NEW p \in DOMAIN f, f[p].size >= call.size, HandOut(f, p),
         \A q \in DOMAIN f : f[q].size = free_regions[q].size /\ f[q].id = free_regions[q].id,
         \A q \in DOMAIN f \ {p} : f[q] = free_regions[q],
         f[p].stream = call.stream,
         f \in [DOMAIN f -> FreeRegion(free_num)],
         free_regions[p].stream = call.stream \/ completed(free_regions[p].id)
  PROVE  UsersOrdered'
<1>1. /\ TypeInv /\ call.size \in Nat /\ call.stream \in AllStreams
      /\ OpsTyped /\ UsersOrdered
  BY Sizes DEF IInv, OrderInv, AllStreams
<1>2. OpsGrow
  BY DEF OpsGrow, device_vars
<1>3. \A x \in Span(p, f[p].size) : /\ Precede(page_table[x], call.stream)
                                    /\ Behind(page_table[x], f[p].id)
  <2>1. \A x \in Span(p, f[p].size) : /\ Precede(page_table[x], free_regions[p].stream)
                                      /\ Behind(page_table[x], free_regions[p].id)
    BY DEF OrderInv, UsersOrdered, FreeOrdered
  <2> QED
    BY <2>1 DEF completed, Behind, Precede
<1>4. \A q \in DOMAIN f : \A x \in Span(q, f[q].size) :
        Precede(page_table[x], f[q].stream) /\ Behind(page_table[x], f[q].id)
  BY <1>3 DEF OrderInv, UsersOrdered, FreeOrdered
<1>5. FreeOrdered'
  <2>1. \A q \in DOMAIN free_regions' : \A x \in Span(q, free_regions'[q].size) :
          \E r \in DOMAIN f :
            /\ free_regions'[q].stream = f[r].stream
            /\ free_regions'[q].id = f[r].id
            /\ x \in Span(r, free_regions[r].size)
            /\ r = p => ~(x \in Span(p, call.size))
    <3>1. free_regions' = CutFront(f, p, call.size)
      BY DEF HandOut
    <3> QED
      BY <1>1, <3>1, CutFrontPages, Z3T(30)
  <2>2. \A r \in DOMAIN f : f[r].stream \in AllStreams
    BY DEF FreeRegion
  <2> SUFFICES ASSUME NEW q \in DOMAIN free_regions', NEW x \in Span(q, free_regions'[q].size)
               PROVE  /\ Precede(page_table[x], free_regions[q].stream)'
                      /\ Behind(page_table[x], free_regions[q].id)'
    BY DEF FreeOrdered
  <2>3. PICK r \in DOMAIN f : /\ free_regions'[q].stream = f[r].stream
                              /\ free_regions'[q].id = f[r].id
                              /\ x \in Span(r, free_regions[r].size)
    BY <2>1
  <2>4. Precede(page_table[x], f[r].stream) /\ Behind(page_table[x], f[r].id)
    BY <1>4, <2>3
  <2> QED
    BY <1>1, <1>2, <2>2, <2>3, <2>4, OrderGrows DEF device_vars
<1>6. MallocOrdered'
  <2> SUFFICES ASSUME NEW q \in DOMAIN malloc_regions', NEW x \in Span(q, malloc_regions'[q].size)
               PROVE  Precede(page_table[x], malloc_regions[q].stream)'
    BY DEF MallocOrdered
  <2>1. /\ Span(p, call.size) \subseteq Span(p, f[p].size)
        /\ \/ q \in DOMAIN malloc_regions /\ malloc_regions'[q] = malloc_regions[q]
           \/ /\ q = p
              /\ malloc_regions'[q].size = call.size
              /\ malloc_regions'[q].stream = call.stream
    BY HandOutPages
  <2>2. CASE q \in DOMAIN malloc_regions /\ malloc_regions'[q] = malloc_regions[q]
    <3>1. malloc_regions[q].stream \in AllStreams /\ Precede(page_table[x], malloc_regions[q].stream)
      BY <1>1, <2>2, MallocTyped DEF UsersOrdered, MallocOrdered, AllStreams
    <3> QED
      BY <1>1, <1>2, <2>2, <3>1, OrderGrows DEF device_vars
  <2>3. CASE /\ q = p
             /\ malloc_regions'[q].size = call.size
             /\ malloc_regions'[q].stream = call.stream
    <3>1. Precede(page_table[x], call.stream)
      BY <1>3, <2>1, <2>3
    <3> QED
      BY <1>1, <1>2, <2>3, <3>1, OrderGrows DEF device_vars
  <2> QED
    BY <2>1, <2>2, <2>3
<1>7. CallOrdered'
  <2>1. Created' = {} /\ Sources' = {}
    BY ReturnNone DEF HandOut
  <2> QED
    BY <2>1 DEF CallOrdered
<1> QED
  BY <1>5, <1>6, <1>7 DEF UsersOrdered

LEMMA KeptOrdered ==
  ASSUME IInv, BackInv, OrderInv, CallStep, UNCHANGED <<free_regions, malloc_regions>>,
         Created' = {}, Sources' = {}
  PROVE  UsersOrdered'
<1>1. OpsGrow
  BY CallStepGrows
<1>2. MallocOrdered' /\ FreeOrdered'
  BY <1>1, PagesStay, RegionsGrow DEF BackInv
<1> QED
  BY <1>2 DEF UsersOrdered, CallOrdered

LEMMA FindBestFitOrdered ==
  ASSUME IInv, BackInv, OrderInv, find_best_fit
  PROVE  UsersOrdered'
<1>1. InCall /\ UNCHANGED device_vars /\ CallStep
  BY DEF find_best_fit, InCall, CallStep
<1>2. ASSUME NEW p \in DOMAIN free_regions, NEW f,
             /\ free_regions[p].size >= call.size
             /\ DOMAIN f = DOMAIN free_regions
             /\ \A q \in DOMAIN f :
                  f[q].size = free_regions[q].size /\ f[q].id = free_regions[q].id
             /\ \A q \in DOMAIN f \ {p} : f[q] = free_regions[q]
             /\ f[p].stream = call.stream
             /\ f \in [DOMAIN f -> FreeRegion(free_num)]
             /\ HandOut(f, p)
             /\ \/ free_regions[p].stream = call.stream
                \/ completed(free_regions[p].id)
      PROVE  UsersOrdered'
  <2>1. p \in DOMAIN f /\ f[p].size >= call.size
    BY <1>2
  <2> QED
    BY <1>1, <1>2, <2>1, HandOutOrdered
<1>3. CASE call' = [call EXCEPT !.pc = "hole"] /\ UNCHANGED <<free_regions, malloc_regions>>
  <2>1. call'.pc = "hole"
    BY <1>3 DEF IInv, CallInv, CallShape
  <2>2. Created' = {} /\ Sources' = {}
    BY <2>1 DEF Created, Sources
  <2> QED
    BY <1>1, <1>3, <2>2, KeptOrdered
<1> QED
  BY <1>2, <1>3, BestFitChoice

LEMMA TakeOrdered ==
  ASSUME IInv, BackInv, OrderInv, hand_out_defragmented
  PROVE  UsersOrdered'
<1>1. /\ call.pc = "take" /\ InCall /\ UNCHANGED device_vars
      /\ HandOut(free_regions, call.ptr)
  BY DEF hand_out_defragmented, InCall
<1>2. /\ call.ptr \in DOMAIN free_regions /\ free_regions[call.ptr].size >= call.size
      /\ free_regions[call.ptr].stream = call.stream
      /\ free_regions \in [DOMAIN free_regions -> FreeRegion(free_num)]
  BY <1>1 DEF IInv, TypeInv, CallInv, RegionFound, OrderInv, OwnRegion
<1> QED
  BY <1>1, <1>2, HandOutOrdered

LEMMA CreatePageOrdered ==
  ASSUME IInv, BackInv, OrderInv, create_new_page
  PROVE  UsersOrdered'
<1> DEFINE n == call.next
<1>1. /\ call.pc = "create" /\ CallStep
      /\ UNCHANGED <<free_regions, malloc_regions>>
  BY DEF create_new_page, CallStep
<1>2. PICK h \in Unused :
        \/ /\ n \notin DOMAIN page_table
           /\ page_table' = With(page_table, n, h)
           /\ call' = [call EXCEPT !.next = @ + 1]
        \/ Return
  BY DEF create_new_page
<1>3. CASE Return
  BY <1>1, <1>3, ReturnNone, KeptOrdered
<1>4. CASE /\ n \notin DOMAIN page_table
           /\ page_table' = With(page_table, n, h)
           /\ call' = [call EXCEPT !.next = @ + 1]
  <2>1. call'.pc = "create" /\ call'.next = n + 1 /\ call'.dst = call.dst
    BY <1>1, <1>4 DEF IInv, CallInv, CallShape
  <2>2. n \in Int /\ call.dst \in Int
    BY <1>1, GrowingTypes DEF Growing
  <2>3. Created' \subseteq Created \cup {n}
    <3>1. Created = Span(call.dst, n - call.dst)
      BY <1>1 DEF Created
    <3>2. Created' = Span(call'.dst, call'.next - call'.dst)
      BY <2>1 DEF Created
    <3> QED
      BY <2>1, <2>2, <3>1, <3>2 DEF Span
  <2>4. Sources' = {}
    BY <2>1 DEF Sources
  <2>5. OpsGrow
    BY <1>1, CallStepGrows
  <2>6. MallocOrdered' /\ FreeOrdered'
    BY <1>1, <2>5, PagesStay, RegionsGrow DEF BackInv
  <2>7. Untouched(h)
    BY DEF Unused, OrderInv, OpsTyped, Untouched
  <2>8. ASSUME NEW x \in Created'
        PROVE  Untouched(page_table[x])'
    <3>1. CASE x \in Created /\ x # n
      <4>1. x \in DOMAIN page_table /\ Untouched(page_table[x])
        BY <3>1 DEF BackInv, Backed, Held, OrderInv, UsersOrdered, CallOrdered
      <4>2. page_table'[x] = page_table[x]
        BY <1>4, <3>1, <4>1, WithOld
      <4> QED
        BY <2>5, <4>1, <4>2, OrderGrows DEF OrderInv
    <3>2. CASE x = n
      <4>1. page_table'[x] = h
        BY <1>4, <3>2, WithNew
      <4> QED
        BY <2>5, <2>7, <4>1, OrderGrows DEF OrderInv
    <3> QED
      BY <2>3, <3>1, <3>2
  <2> QED
    BY <2>4, <2>6, <2>8 DEF UsersOrdered, CallOrdered
<1> QED
  BY <1>2, <1>3, <1>4

LEMMA InsertNewPagesOrdered ==
  ASSUME IInv, BackInv, OrderInv, insert_new_pages
  PROVE  UsersOrdered'
<1>1. /\ free_region_insert(call.dst, call.goal - call.dst, call.stream)
      /\ call'.pc \in {"take", "harvest"} /\ call'.moves = call.moves
      /\ UNCHANGED <<page_table, physical, malloc_regions>>
      /\ CallStep
  BY DEF insert_new_pages, IInv, CallInv, CallShape, CallStep
<1>2. \A x \in Created : Precede(page_table'[x], call.stream)
  BY <1>1 DEF OrderInv, UsersOrdered, CallOrdered, Untouched, Precede
<1>3. FreeOrdered'
  BY <1>1, <1>2, InsertTyped, InsertOrdered
<1>4. MallocOrdered'
  BY <1>1, CallStepGrows, RegionsGrow
<1>5. Created' = {} /\ Sources' = {}
  <2>1. DOMAIN call.moves = {}
    BY DEF insert_new_pages, IInv, CallInv
  <2> QED
    BY <1>1, <2>1 DEF Created, Sources, Range
<1> QED
  BY <1>3, <1>4, <1>5 DEF UsersOrdered, CallOrdered

LEMMA RemapOrdered ==
  ASSUME IInv, BackInv, OrderInv, remap_regions
  PROVE  UsersOrdered'
<1> DEFINE D == DOMAIN call.moves
<1>1. /\ call.pc = "harvest" /\ call.left = 0
      /\ page_table' = DoubleMapped(D)
      /\ free_region_insert(call.goal, call.next - call.goal, call.stream)
      /\ UNCHANGED <<physical, malloc_regions>>
      /\ CallStep
  BY DEF remap_regions, CallStep
<1>2. call'.pc = "take"
  BY DEF remap_regions, IInv, CallInv, CallShape
<1>3. Created' = {} /\ Sources' = {}
  BY <1>2 DEF Created, Sources
<1>4. \A a \in FreePages \cup MallocPages : page_table'[a] = page_table[a]
  BY <1>1, PagesStay DEF BackInv
<1>5. ASSUME NEW x \in D
      PROVE  Precede(page_table'[x], call.stream)
  <2>1. call.moves[x] \in Sources
    BY <1>1 DEF Sources, Range
  <2>2. page_table'[x] = active_pages[call.moves[x]]
    BY <1>1 DEF DoubleMapped
  <2>3. page_table[call.moves[x]] = active_pages[call.moves[x]]
    BY <2>1 DEF BackInv, Backed, Held
  <2>4. Precede(page_table[call.moves[x]], call.stream)
    BY <2>1 DEF OrderInv, UsersOrdered, CallOrdered
  <2> QED
    BY <2>2, <2>3, <2>4
<1>6. FreeOrdered'
  <2>1. Span(call.goal, call.next - call.goal) = D
    BY RemapTyped
  <2> HIDE DEF D
  <2> QED
    BY <1>1, <1>4, <1>5, <2>1, RemapTyped, InsertOrdered
<1>7. MallocOrdered'
  BY <1>1, <1>4, CallStepGrows, RegionsGrow
<1> QED
  BY <1>3, <1>6, <1>7 DEF UsersOrdered, CallOrdered

(* The pages that are harvested follow their users: those of the caller's   *)
(* stream, those that have completed, and those it has to wait for.         *)
LEMMA HarvestOrdered ==
  ASSUME IInv, BackInv, OrderInv, harvest_free_region
  PROVE  UsersOrdered'
<1>1. /\ call.pc = "harvest" /\ CallStep /\ OpsTyped
      /\ UNCHANGED <<ops, free_num, physical, page_table, malloc_regions>>
  BY DEF harvest_free_region, CallStep, OrderInv
<1>2. PICK p \in DOMAIN free_regions, take \in Nat \ {0} :
        /\ take <= free_regions[p].size
        /\ \/ /\ IF NeedsWait(free_regions[p])
                 THEN wait(call.stream, free_regions[p].id)
                 ELSE UNCHANGED before
              /\ free_regions' = CutFront(free_regions, p, take)
              /\ call'.pc = "harvest" /\ call'.stream = call.stream
              /\ DOMAIN call'.moves = DOMAIN call.moves \cup Span(call.next, take)
              /\ \A d \in Span(call.next, take) :
                   d \in Int /\ call'.moves[d] = p + (d - call.next)
              /\ \A d \in DOMAIN call.moves : call'.moves[d] = call.moves[d]
           \/ /\ free_regions' = Without(free_regions, {p})
              /\ Return
  BY HarvestStep
<1>3. /\ p \in Int /\ free_regions[p].size \in Nat /\ TypeInv
      /\ free_regions \in [DOMAIN free_regions -> FreeRegion(free_num)]
      /\ call.stream \in AllStreams
      /\ \A q \in DOMAIN free_regions : free_regions[q].stream \in AllStreams
  BY <1>1, FreeTyped, GrowingTypes DEF IInv, TypeInv, Growing, AllStreams, FreeRegion
<1>4. OpsGrow
  BY <1>1, CallStepGrows
<1>5. MallocOrdered'
  BY <1>1, <1>4, RegionsGrow
<1>6. ASSUME \A q \in DOMAIN free_regions' : \A x \in Span(q, free_regions'[q].size) :
               \E r \in DOMAIN free_regions :
                 /\ free_regions'[q].stream = free_regions[r].stream
                 /\ free_regions'[q].id = free_regions[r].id
                 /\ x \in Span(r, free_regions[r].size)
      PROVE  FreeOrdered'
  <2> SUFFICES ASSUME NEW q \in DOMAIN free_regions', NEW x \in Span(q, free_regions'[q].size)
               PROVE  /\ Precede(page_table[x], free_regions[q].stream)'
                      /\ Behind(page_table[x], free_regions[q].id)'
    BY DEF FreeOrdered
  <2>1. PICK r \in DOMAIN free_regions :
                 /\ free_regions'[q].stream = free_regions[r].stream
                 /\ free_regions'[q].id = free_regions[r].id
                 /\ x \in Span(r, free_regions[r].size)
    BY <1>6
  <2>2. Precede(page_table[x], free_regions[r].stream) /\ Behind(page_table[x], free_regions[r].id)
    BY <2>1 DEF OrderInv, UsersOrdered, FreeOrdered
  <2> QED
    BY <1>1, <1>3, <1>4, <2>1, <2>2, OrderGrows
<1>7. CASE /\ free_regions' = Without(free_regions, {p})
           /\ Return
  <2>1. FreeOrdered'
    BY <1>6, <1>7 DEF Without
  <2>2. Created' = {} /\ Sources' = {}
    BY <1>7, ReturnNone
  <2> QED
    BY <1>5, <2>1, <2>2 DEF UsersOrdered, CallOrdered
<1>8. CASE /\ IF NeedsWait(free_regions[p])
              THEN wait(call.stream, free_regions[p].id)
              ELSE UNCHANGED before
           /\ free_regions' = CutFront(free_regions, p, take)
           /\ call'.pc = "harvest" /\ call'.stream = call.stream
           /\ DOMAIN call'.moves = DOMAIN call.moves \cup Span(call.next, take)
           /\ \A d \in Span(call.next, take) :
                d \in Int /\ call'.moves[d] = p + (d - call.next)
           /\ \A d \in DOMAIN call.moves : call'.moves[d] = call.moves[d]
  <2>1. FreeOrdered'
    <3>1. take \in Nat /\ free_regions' = CutFront(free_regions, p, take)
      BY <1>8
    <3>2. \A q \in DOMAIN free_regions' : \A x \in Span(q, free_regions'[q].size) :
            \E s \in DOMAIN free_regions :
              /\ free_regions'[q].stream = free_regions[s].stream
              /\ free_regions'[q].id = free_regions[s].id
              /\ x \in Span(s, free_regions[s].size)
              /\ s = p => ~(x \in Span(p, take))
      BY <1>3, <3>1, CutFrontPages, Z3T(30)
    <3> QED
      BY <1>6, <3>2
  <2>2. call.next \in Int
    BY <1>1, GrowingTypes DEF Growing
  <2>3. \A d \in Span(call.next, take) : call'.moves[d] \in Span(p, take)
    BY <1>3, <1>8, <2>2, InSpan
  <2>4. Sources = {call.moves[d] : d \in DOMAIN call.moves}
        /\ Sources' = {call'.moves[d] : d \in DOMAIN call'.moves}
    BY <1>1, <1>8 DEF Sources, Range
  <2>5. Sources' \subseteq Sources \cup Span(p, take)
    BY <1>8, <2>3, <2>4
  <2>6. \A x \in Span(p, take) :
          /\ Precede(page_table[x], free_regions[p].stream)
          /\ Behind(page_table[x], free_regions[p].id)
    <3>1. Span(p, take) \subseteq Span(p, free_regions[p].size)
      BY <1>2, <1>3 DEF Span
    <3> QED
      BY <3>1 DEF OrderInv, UsersOrdered, FreeOrdered
  <2>7. ASSUME NEW x \in Span(p, take)
        PROVE  Precede(page_table[x], call.stream)'
    <3>1. CASE NeedsWait(free_regions[p])
      <4>1. /\ free_regions[p].id \in DOMAIN ops
            /\ ops[free_regions[p].id].after \subseteq before'[call.stream]
        BY <1>1, <1>3, <1>8, <3>1, WaitGrows DEF NeedsWait, completed
      <4> QED
        BY <1>1, <1>8, <2>6, <4>1 DEF Behind, Precede, Touches
    <3>2. CASE ~NeedsWait(free_regions[p])
      <4>1. Precede(page_table[x], call.stream)
        BY <2>6, <3>2 DEF NeedsWait, completed, Behind, Precede
      <4> QED
        BY <1>1, <1>3, <1>4, <1>8, <4>1, OrderGrows
    <3> QED
      BY <3>1, <3>2
  <2>8. ASSUME NEW x \in Sources
        PROVE  Precede(page_table[x], call.stream)'
    <3>1. Precede(page_table[x], call.stream)
      BY DEF OrderInv, UsersOrdered, CallOrdered
    <3> QED
      BY <1>1, <1>3, <1>4, <1>8, <3>1, OrderGrows
  <2>9. Created' = {}
    BY <1>8 DEF Created
  <2> QED
    BY <1>5, <2>1, <2>5, <2>7, <2>8, <2>9 DEF UsersOrdered, CallOrdered
<1> QED
  BY <1>2, <1>7, <1>8

(* The remaining steps of a call leave all regions alone, and end it or     *)
(* have nothing created and nothing harvested.                              *)
LEMMA CallStepOrdered ==
  ASSUME IInv, BackInv, OrderInv, CallStep
  PROVE  UsersOrdered'
<1>1. ASSUME NEW z \in call.scan, cleanup_zombie_regions(z)
      PROVE  Created' = {} /\ Sources' = {} /\ UNCHANGED <<free_regions, malloc_regions>>
  <2>1. call'.pc = "cleanup"
    BY <1>1 DEF cleanup_zombie_regions, IInv, CallInv, CallShape
  <2> QED
    BY <1>1, <2>1 DEF Created, Sources, cleanup_zombie_regions
<1>2. ASSUME take_unmapped_region
      PROVE  Created' = {} /\ Sources' = {} /\ UNCHANGED <<free_regions, malloc_regions>>
  <2>1. call.pc = "hole" /\ UNCHANGED <<free_regions, malloc_regions>>
    BY <1>2 DEF take_unmapped_region
  <2>2. \/ \E dst \in Int : Opened(dst)
        \/ Return
    BY <1>2, TakeUnmappedChoice
  <2> QED
    BY <2>1, <2>2, OpenedAt, ReturnNone
<1>3. ASSUME no_new_pages
      PROVE  Created' = {} /\ Sources' = {} /\ UNCHANGED <<free_regions, malloc_regions>>
  <2>1. call'.pc = "harvest" /\ call'.moves = call.moves /\ DOMAIN call.moves = {}
    BY <1>3 DEF no_new_pages, IInv, CallInv, CallShape
  <2> QED
    BY <1>3, <2>1 DEF Created, Sources, Range, no_new_pages
<1>4. ASSUME \/ rollback_new_pages \/ creation_fails
             \/ \E k \in DOMAIN call.moves \cup {call.next} : remap_fails(k)
      PROVE  Created' = {} /\ Sources' = {} /\ UNCHANGED <<free_regions, malloc_regions>>
  BY <1>4, ReturnNone DEF rollback_new_pages, creation_fails, remap_fails
<1> QED
  BY <1>1, <1>2, <1>3, <1>4, KeptOrdered, FindBestFitOrdered, TakeOrdered, CreatePageOrdered,
     InsertNewPagesOrdered, RemapOrdered, HarvestOrdered DEF CallStep

-----------------------------------------------------------------------------
(* The addresses in use by the device stay mapped.                         *)

Used == UNION {DOMAIN ops[o].uses : o \in DOMAIN ops}

LEMMA UsedMapped ==
  ASSUME OrderInv, NEW a \in Used
  PROVE  a \in DOMAIN page_table /\ a \in RootPages \ (UnmappedPages \cup HolePages)
  BY DEF Used, OrderInv, UsesMapped

(* What a step does to the pages in use.                                    *)
Stays(a) ==
  /\ a \in DOMAIN page_table' /\ page_table'[a] = page_table[a]
  /\ a \notin UnmappedPages' \cup HolePages'

LEMMA CleanupStays ==
  ASSUME IInv, OrderInv, NEW z \in call.scan, cleanup_zombie_regions(z), NEW a \in Used
  PROVE  Stays(a)
<1>1. a \in DOMAIN page_table /\ a \notin UnmappedPages \cup HolePages
  BY UsedMapped
<1>2. call'.pc = "cleanup" /\ HolePages' = {}
  <2>1. call'.pc = "cleanup"
    BY DEF cleanup_zombie_regions, IInv, CallInv, CallShape
  <2> QED
    BY <2>1 DEF HolePages
<1>3. CASE completed(z.event)
  <2>1. a \notin Span(z.ptr, z.size)
    BY <1>3, ZombieSpan DEF completed, OrderInv, UsesMapped, Used
  <2>2. UnmappedPages' \subseteq UnmappedPages \cup Span(z.ptr, z.size)
    <3>1. unmapped_regions' = insert_unmapped_region(unmapped_regions, z.ptr, z.size)
      BY <1>3 DEF cleanup_zombie_regions
    <3>2. TypeInv /\ z.ptr \in Int /\ z.size \in Nat
      BY ZombieSpan, ZombieTyped DEF IInv
    <3> QED
      BY <3>1, <3>2, HoleInsertPages
  <2>3. \/ UNCHANGED page_table
        \/ page_table' = Without(page_table, Span(z.ptr, z.size))
    BY <1>3 DEF cleanup_zombie_regions
  <2>4. a \in DOMAIN page_table' /\ page_table'[a] = page_table[a]
    BY <1>1, <2>1, <2>3 DEF Without
  <2> QED
    BY <1>1, <1>2, <2>1, <2>2, <2>4 DEF Stays
<1>4. CASE ~completed(z.event)
  <2>1. UNCHANGED <<unmapped_regions, page_table>>
    BY <1>4 DEF cleanup_zombie_regions
  <2> QED
    BY <1>1, <1>2, <2>1 DEF Stays, UnmappedPages
<1> QED
  BY <1>3, <1>4

LEMMA TakeUnmappedStays ==
  ASSUME IInv, OrderInv, take_unmapped_region, NEW a \in Used
  PROVE  Stays(a)
<1>1. /\ a \in DOMAIN page_table /\ a \in RootPages \ (UnmappedPages \cup HolePages)
      /\ UNCHANGED page_table
      /\ call.pc = "hole" /\ TypeInv
      /\ call.size \in Nat \ {0}
  <2>1. call.pc = "hole" /\ TypeInv /\ UNCHANGED page_table
    BY DEF take_unmapped_region, device_vars, IInv
  <2>2. call.size \in Nat \ {0}
    BY <2>1, Sizes DEF IInv, InCall
  <2> QED
    BY <2>1, <2>2, UsedMapped
<1>2. ASSUME NEW p \in DOMAIN unmapped_regions,
             p \in Int, unmapped_regions[p] \in Nat, unmapped_regions[p] >= call.size,
             LET n == unmapped_regions[p]
                 u == Without(unmapped_regions, {p})
             IN  unmapped_regions' =
                   IF n > call.size THEN With(u, p + call.size, n - call.size) ELSE u,
             Opened(p)
      PROVE  Stays(a)
  <2> DEFINE n == unmapped_regions[p]
             u == Without(unmapped_regions, {p})
  <2>1. HolePages' = Span(p, call.size)
    BY <1>1, <1>2, OpenedAt
  <2>2. Span(p, call.size) \subseteq Span(p, n) /\ Span(p, n) \subseteq UnmappedPages
    BY <1>1, <1>2 DEF Span, UnmappedPages
  <2>3. /\ DOMAIN u \subseteq DOMAIN unmapped_regions
        /\ \A q \in DOMAIN u : u[q] = unmapped_regions[q]
    BY DEF Without
  <2>4. \A q \in DOMAIN unmapped_regions' :
          \/ q \in DOMAIN unmapped_regions /\ unmapped_regions'[q] = unmapped_regions[q]
          \/ q = p + call.size /\ unmapped_regions'[q] = n - call.size
    <3>1. \/ unmapped_regions' = With(u, p + call.size, n - call.size)
          \/ unmapped_regions' = u
      BY <1>2
    <3> HIDE DEF u, n
    <3>2. DOMAIN With(u, p + call.size, n - call.size) = DOMAIN u \cup {p + call.size}
      BY WithDomain
    <3>3. With(u, p + call.size, n - call.size)[p + call.size] = n - call.size
      BY WithNew
    <3>4. \A q \in DOMAIN u : q # p + call.size => With(u, p + call.size, n - call.size)[q] = u[q]
      BY WithOld
    <3> QED
      BY <2>3, <3>1, <3>2, <3>3, <3>4
  <2>5. Span(p + call.size, n - call.size) \subseteq Span(p, n)
    BY <1>1, <1>2 DEF Span
  <2>6. UnmappedPages' \subseteq UnmappedPages
    <3> SUFFICES ASSUME NEW q \in DOMAIN unmapped_regions', NEW x \in Span(q, unmapped_regions'[q])
                 PROVE  x \in UnmappedPages
      BY DEF UnmappedPages
    <3>1. CASE q \in DOMAIN unmapped_regions /\ unmapped_regions'[q] = unmapped_regions[q]
      BY <3>1 DEF UnmappedPages
    <3>2. CASE q = p + call.size /\ unmapped_regions'[q] = n - call.size
      BY <2>2, <2>5, <3>2
    <3> QED
      BY <2>4, <3>1, <3>2
  <2> QED
    BY <1>1, <2>1, <2>2, <2>6 DEF Stays
<1>3. ASSUME NEW base \in VaBase \ roots, base \in Int, call.size <= VaSize,
             unmapped_regions' =
               insert_unmapped_region(unmapped_regions, base + call.size,
                                      VaSize - call.size),
             Opened(base)
      PROVE  Stays(a)
  <2>1. HolePages' = Span(base, call.size)
    BY <1>1, <1>3, OpenedAt
  <2>2. UnmappedPages' \subseteq UnmappedPages \cup Span(base + call.size, VaSize - call.size)
    <3>1. base + call.size \in Int /\ VaSize - call.size \in Nat
      BY <1>1, <1>3, PoolAssumption
    <3> QED
      BY <1>1, <1>3, <3>1, HoleInsertPages
  <2>3. Span(base, call.size) \cup Span(base + call.size, VaSize - call.size)
          \subseteq Span(base, VaSize)
    BY <1>1, <1>3, PoolAssumption DEF Span
  <2>4. RootPages \cap Span(base, VaSize) = {}
    <3> SUFFICES ASSUME NEW b \in roots, NEW x \in Span(b, VaSize), x \in Span(base, VaSize)
                 PROVE  FALSE
      BY DEF RootPages
    <3>1. b \in VaBase /\ b \in Int /\ b # base /\ VaSize \in Nat
      BY <1>1, PoolAssumption DEF TypeInv
    <3> QED
      BY <1>3, <3>1, PoolAssumption, InSpan
  <2> QED
    BY <1>1, <2>1, <2>2, <2>3, <2>4 DEF Stays
<1>4. ASSUME Return, UNCHANGED unmapped_regions
      PROVE  Stays(a)
  BY <1>1, <1>4, ReturnNone DEF Stays, UnmappedPages
<1> QED
  BY <1>2, <1>3, <1>4, TakeUnmappedChoice

(* Creating pages, and giving them back.                                    *)
LEMMA CreateStays ==
  ASSUME IInv, OrderInv, create_new_page \/ rollback_new_pages, NEW a \in Used
  PROVE  Stays(a)
<1>1. /\ a \in DOMAIN page_table /\ a \notin UnmappedPages \cup HolePages
      /\ call.pc = "create"
      /\ call.dst \in Int /\ call.size \in Nat /\ TypeInv
  <2>1. call.pc = "create"
    BY DEF create_new_page, rollback_new_pages
  <2> QED
    BY <2>1, UsedMapped, GrowingTypes DEF Growing, IInv
<1>2. HolePages = Span(call.dst, call.size)
  BY <1>1 DEF HolePages
<1>3. CASE create_new_page
  <2>1. UNCHANGED unmapped_regions
    BY <1>3 DEF create_new_page
  <2>2. a \in DOMAIN page_table' /\ page_table'[a] = page_table[a]
    <3>1. \/ UNCHANGED page_table
          \/ \E h : /\ call.next \notin DOMAIN page_table
                    /\ page_table' = With(page_table, call.next, h)
      BY <1>3 DEF create_new_page
    <3> QED
      BY <1>1, <3>1 DEF With
  <2>3. HolePages' \subseteq HolePages
    <3>1. Return \/ call' = [call EXCEPT !.next = @ + 1]
      BY <1>3 DEF create_new_page
    <3>2. ASSUME call' = [call EXCEPT !.next = @ + 1]
          PROVE  HolePages' = Span(call.dst, call.size)
      <4>1. call'.pc = "create" /\ call'.dst = call.dst /\ call'.size = call.size
        BY <1>1, <3>2 DEF IInv, CallInv, CallShape
      <4> QED
        BY <4>1 DEF HolePages
    <3> QED
      BY <1>2, <3>1, <3>2, ReturnNone
  <2> QED
    BY <1>1, <2>1, <2>2, <2>3 DEF Stays, UnmappedPages
<1>4. CASE rollback_new_pages
  <2>1. /\ HolePages' = {}
        /\ unmapped_regions' = insert_unmapped_region(unmapped_regions, call.dst, call.size)
    BY <1>4, ReturnNone DEF rollback_new_pages
  <2>2. UnmappedPages' \subseteq UnmappedPages \cup HolePages
    BY <1>1, <1>2, <2>1, HoleInsertPages
  <2>3. PICK B \in SUBSET Created : page_table' = Without(page_table, B)
    BY <1>1, <1>4 DEF rollback_new_pages, Undo, Created
  <2>4. a \in DOMAIN page_table' /\ page_table'[a] = page_table[a]
    BY <1>1, <2>3, CreatedInHole DEF Without
  <2> QED
    BY <1>1, <2>1, <2>2, <2>4 DEF Stays
<1> QED
  BY <1>3, <1>4

(* Filling the hole, and leaving it.                                        *)
LEMMA GrowStays ==
  ASSUME IInv, BackInv, OrderInv, NEW a \in Used,
         \/ insert_new_pages \/ no_new_pages \/ harvest_free_region \/ remap_regions
         \/ \E k \in DOMAIN call.moves \cup {call.next} : remap_fails(k)
  PROVE  Stays(a)
<1>1. a \in DOMAIN page_table /\ a \notin UnmappedPages \cup HolePages
  BY UsedMapped
<1>2. UNCHANGED unmapped_regions
  BY DEF insert_new_pages, no_new_pages, harvest_free_region, remap_regions, remap_fails
<1>3. Growing
  BY DEF insert_new_pages, no_new_pages, harvest_free_region, remap_regions, remap_fails, Growing
<1>4. a \in DOMAIN page_table' /\ page_table'[a] = page_table[a]
  <2>1. CASE insert_new_pages \/ no_new_pages \/ harvest_free_region
    BY <1>1, <2>1 DEF insert_new_pages, no_new_pages, harvest_free_region, device_vars
  <2>2. CASE remap_regions
    BY <1>1, <2>2, DoubleMappedKeeps DEF remap_regions
  <2>3. ASSUME NEW k, remap_fails(k)
        PROVE  a \in DOMAIN page_table' /\ page_table'[a] = page_table[a]
    BY <1>1, <2>3, DoubleMappedKeeps DEF remap_fails
  <2> QED
    BY <2>1, <2>2, <2>3
<1>5. HolePages' \subseteq HolePages
  <2>1. CASE insert_new_pages \/ no_new_pages
    <3>1. /\ call.pc = "create"
          /\ call'.pc \in {"take", "harvest"}
          /\ call'.dst = call.dst /\ call'.goal = call.goal /\ call'.size = call.size
      BY <2>1 DEF insert_new_pages, no_new_pages, IInv, CallInv, CallShape
    <3>2. HolePages = Span(call.dst, call.size)
      BY <3>1 DEF HolePages
    <3>3. HolePages' \subseteq Span(call.goal, call.size - (call.goal - call.dst))
      BY <3>1 DEF HolePages
    <3> QED
      BY <1>3, <3>2, <3>3, GrowingTypes DEF Span
  <2>2. CASE harvest_free_region
    <3>1. \/ Return
          \/ /\ call'.pc = "harvest" /\ call'.size = call.size
             /\ call'.dst = call.dst /\ call'.goal = call.goal
      BY <2>2, HarvestStep
    <3>2. call.pc = "harvest"
      BY <2>2 DEF harvest_free_region
    <3> QED
      BY <3>1, <3>2, ReturnNone DEF HolePages
  <2>3. CASE remap_regions
    <3>1. call'.pc = "take"
      BY <2>3 DEF remap_regions, IInv, CallInv, CallShape
    <3> QED
      BY <3>1 DEF HolePages
  <2>4. CASE \E k \in DOMAIN call.moves \cup {call.next} : remap_fails(k)
    BY <2>4, ReturnNone DEF remap_fails
  <2> QED
    BY <2>1, <2>2, <2>3, <2>4
<1> QED
  BY <1>1, <1>2, <1>4, <1>5 DEF Stays, UnmappedPages

LEMMA CallStepStays ==
  ASSUME IInv, BackInv, OrderInv, CallStep
  PROVE  \A a \in Used : Stays(a)
<1> SUFFICES ASSUME NEW a \in Used
             PROVE  Stays(a)
  OBVIOUS
<1>1. CASE find_best_fit \/ creation_fails \/ hand_out_defragmented
  <2>1. UNCHANGED <<page_table, unmapped_regions>>
    BY <1>1 DEF find_best_fit, creation_fails, hand_out_defragmented, device_vars
  <2>2. HolePages' = {}
    <3>1. Return \/ call' = [call EXCEPT !.pc = "hole"]
      BY <1>1 DEF find_best_fit, HandOut, creation_fails, hand_out_defragmented
    <3>2. ASSUME call' = [call EXCEPT !.pc = "hole"]
          PROVE  call'.pc = "hole"
      BY <3>2 DEF IInv, CallInv, CallShape
    <3> QED
      BY <3>1, <3>2, ReturnNone DEF HolePages
  <2> QED
    BY <2>1, <2>2, UsedMapped DEF Stays, UnmappedPages
<1> QED
  BY <1>1, CleanupStays, TakeUnmappedStays, CreateStays, GrowStays DEF CallStep

(* A new zombie is the front of a free region, whose event follows every    *)
(* kernel that uses its pages.                                              *)
LEMMA ZombiesFollow ==
  ASSUME IInv, BackInv, OrderInv, CallStep,
         NEW z \in zombie_regions', NEW o \in DOMAIN ops, NEW a \in DOMAIN ops[o].uses,
         a \in Span(z.ptr, z.size)
  PROVE  z.event \in DOMAIN ops /\ o \in ops[z.event].after
<1>1. CASE z \in zombie_regions
  BY <1>1 DEF OrderInv, UsesMapped
<1>2. CASE \E p \in DOMAIN free_regions, take \in Nat \ {0} :
             /\ take <= free_regions[p].size
             /\ z = [ptr |-> p, size |-> take, event |-> free_regions[p].id]
  <2>1. PICK p \in DOMAIN free_regions, take \in Nat \ {0} :
             /\ take <= free_regions[p].size
             /\ z = [ptr |-> p, size |-> take, event |-> free_regions[p].id]
    BY <1>2
  <2>2. z.ptr = p /\ z.size = take /\ z.event = free_regions[p].id
    BY <2>1
  <2>3. a \in Span(p, free_regions[p].size)
    BY <2>1, <2>2, FreeTyped DEF IInv, Span
  <2>4. page_table[a] = ops[o].uses[a]
    BY DEF OrderInv, UsesMapped
  <2>5. page_table[a] \in Touches(o)
    BY <2>4 DEF Touches, Range
  <2>6. Behind(page_table[a], free_regions[p].id)
    BY <2>3 DEF OrderInv, UsersOrdered, FreeOrdered
  <2> QED
    BY <2>2, <2>5, <2>6 DEF Behind
<1>3. CASE harvest_free_region
  <2>1. \E p \in DOMAIN free_regions, take \in Nat \ {0} :
          /\ take <= free_regions[p].size
          /\ \/ zombie_regions' = zombie_regions
                  \cup {[ptr |-> p, size |-> take, event |-> free_regions[p].id]}
             \/ UNCHANGED zombie_regions
    BY <1>3, HarvestStep
  <2> QED
    BY <1>1, <1>2, <2>1
<1>4. CASE ~harvest_free_region
  <2>1. zombie_regions' \subseteq zombie_regions
    BY <1>4 DEF CallStep, cleanup_zombie_regions, find_best_fit, take_unmapped_region,
       create_new_page, rollback_new_pages, creation_fails, insert_new_pages, no_new_pages,
       remap_regions, remap_fails, hand_out_defragmented
  <2> QED
    BY <1>1, <2>1
<1> QED
  BY <1>3, <1>4

LEMMA CallStepMapped ==
  ASSUME IInv, BackInv, OrderInv, CallStep
  PROVE  UsesMapped'
<1>1. OpsGrow
  BY CallStepGrows
<1>2. RootPages \subseteq RootPages'
  <2>1. CASE take_unmapped_region
    BY <2>1 DEF take_unmapped_region, RootPages
  <2>2. CASE ~take_unmapped_region
    <3>1. UNCHANGED roots
      BY <2>2 DEF CallStep, cleanup_zombie_regions, find_best_fit,
         create_new_page, rollback_new_pages, creation_fails, insert_new_pages, no_new_pages,
         harvest_free_region, remap_regions, remap_fails, hand_out_defragmented
    <3> QED
      BY <3>1 DEF RootPages
  <2> QED
    BY <2>1, <2>2
<1> SUFFICES ASSUME NEW o \in DOMAIN ops', NEW a \in DOMAIN ops'[o].uses
             PROVE  /\ a \in DOMAIN page_table' /\ page_table'[a] = ops'[o].uses[a]
                    /\ a \in RootPages' \ (UnmappedPages' \cup HolePages')
                    /\ \A z \in zombie_regions' :
                         a \in Span(z.ptr, z.size) =>
                           z.event \in DOMAIN ops' /\ o \in ops'[z.event].after
  BY DEF UsesMapped
<1>3. o \in DOMAIN ops /\ ops'[o] = ops[o] /\ a \in DOMAIN ops[o].uses /\ a \in Used
  BY <1>1 DEF OpsGrow, Used
<1>4. page_table[a] = ops[o].uses[a] /\ a \in RootPages
  BY <1>3 DEF OrderInv, UsesMapped
<1>5. Stays(a)
  BY <1>3, CallStepStays
<1>6. \A z \in zombie_regions' :
        a \in Span(z.ptr, z.size) => z.event \in DOMAIN ops /\ o \in ops[z.event].after
  BY <1>3, ZombiesFollow
<1> QED
  BY <1>1, <1>2, <1>3, <1>4, <1>5, <1>6 DEF OpsGrow, Stays

(* New pages and remapped pages become regions of the caller's stream, and  *)
(* the region a call has chosen keeps it.                                   *)
LEMMA CallStepOwn ==
  ASSUME IInv, BackInv, OrderInv, CallStep, (CallInv)'
  PROVE  OwnRegion'
<1> SUFFICES ASSUME call'.pc = "take"
             PROVE  free_regions'[call'.ptr].stream = call'.stream
  BY DEF OwnRegion
<1>1. TypeInv /\ CallShape /\ call'.ptr \in DOMAIN free_regions'
  BY DEF IInv, CallInv, RegionFound
<1>2. CASE insert_new_pages
  <2>1. /\ free_region_insert(call.dst, call.goal - call.dst, call.stream)
        /\ call'.ptr = MergedLo(call.dst, call.goal - call.dst, call.stream)
        /\ call'.stream = call.stream
    BY <1>1, <1>2 DEF insert_new_pages, CallShape
  <2> QED
    BY <1>1, <2>1, WithNew DEF free_region_insert
<1>3. CASE remap_regions
  <2> DEFINE n == call.next - call.goal
             lo == MergedLo(call.goal, n, call.stream)
  <2>1. /\ call.pc = "harvest"
        /\ free_region_insert(call.goal, n, call.stream)
        /\ call'.ptr = MinPtr(call.ptr, lo)
        /\ call'.stream = call.stream
    BY <1>1, <1>3 DEF remap_regions, CallShape
  <2>2. free_regions'[lo].stream = call.stream
    BY <2>1, WithNew DEF free_region_insert
  <2>3. call.ptr # NoPtr => free_regions[call.ptr].stream = call.stream
    BY <2>1 DEF IInv, CallInv
  <2>4. \A q \in DOMAIN free_regions' : q = lo \/ free_regions'[q] = free_regions[q]
    BY <1>1, <1>3, <2>1, RemapTyped, FreeInsert DEF Kept
  <2> QED
    BY <1>1, <2>1, <2>2, <2>3, <2>4 DEF MinPtr
<1>4. ASSUME ~insert_new_pages, ~remap_regions
      PROVE  call'.pc # "take"
  <2>1. CASE \/ \E z \in call.scan : cleanup_zombie_regions(z)
             \/ create_new_page \/ no_new_pages
    BY <1>1, <2>1, ReturnNone DEF CallShape, cleanup_zombie_regions, create_new_page,
       no_new_pages
  <2>2. CASE find_best_fit
    <3>1. Return \/ call' = [call EXCEPT !.pc = "hole"]
      BY <2>2 DEF find_best_fit, HandOut
    <3> QED
      BY <1>1, <3>1, ReturnNone DEF CallShape
  <2>3. CASE take_unmapped_region
    <3>1. Return \/ \E dst \in Int : Opened(dst)
      BY <2>3, TakeUnmappedChoice
    <3> QED
      BY <2>3, <3>1, ReturnNone, OpenedAt DEF take_unmapped_region
  <2>4. CASE harvest_free_region
    BY <2>4, HarvestStep, ReturnNone
  <2>5. CASE \/ rollback_new_pages \/ creation_fails \/ hand_out_defragmented
             \/ \E k \in DOMAIN call.moves \cup {call.next} : remap_fails(k)
    BY <2>5, ReturnNone DEF rollback_new_pages, creation_fails, hand_out_defragmented,
       HandOut, remap_fails
  <2> QED
    BY <1>4, <2>1, <2>2, <2>3, <2>4, <2>5 DEF CallStep
<1> QED
  BY <1>2, <1>3, <1>4

LEMMA CallStepOrder ==
  ASSUME IInv, BackInv, OrderInv, CallStep, IInv'
  PROVE  OrderInv'
  BY CallStepGrows, CallStepOrdered, CallStepMapped, CallStepOwn, NoRaceGrows
     DEF OrderInv, IInv

-----------------------------------------------------------------------------
(* The steps of callers and of the device.                                 *)

LEMMA MallocOrder ==
  ASSUME IInv, OrderInv, NEW s \in Stream, NEW n \in Request, malloc_internal(s, n)
  PROVE  OrderInv'
<1>1. /\ call'.pc = "cleanup"
      /\ UNCHANGED <<ops, before, page_table, physical, roots, free_regions,
                     malloc_regions, unmapped_regions, zombie_regions, free_num>>
  BY DEF malloc_internal, NoCall, device_vars
<1>2. call.pc = "idle"
  BY DEF malloc_internal
<1>3. Created' = {} /\ Sources' = {} /\ HolePages' = {}
  BY <1>1 DEF Created, Sources, HolePages
<1>4. OpsTyped' /\ NoRace'
  BY <1>1 DEF OrderInv, OpsTyped, NoRace, Touches
<1>5. UsersOrdered'
  BY <1>1, <1>3 DEF OrderInv, UsersOrdered, MallocOrdered, FreeOrdered, CallOrdered,
     Precede, Behind, Touches
<1>6. UsesMapped'
  BY <1>1, <1>3 DEF OrderInv, UsesMapped, RootPages, UnmappedPages
<1>7. OwnRegion'
  BY <1>1 DEF OwnRegion
<1> QED
  BY <1>4, <1>5, <1>6, <1>7 DEF OrderInv

(* The event of a free follows whatever its stream was given to do.         *)
LEMMA FreeOrder ==
  ASSUME IInv, BackInv, OrderInv, NEW p \in DOMAIN malloc_regions, free_internal(p)
  PROVE  OrderInv'
<1> DEFINE n == malloc_regions[p].size
           s == malloc_regions[p].stream
<1>1. /\ call.pc = "idle" /\ free_region_insert(p, n, s) /\ RecordFree(s)
      /\ malloc_regions' = Without(malloc_regions, {p})
      /\ UNCHANGED <<page_table, physical, roots, unmapped_regions, zombie_regions, call>>
  BY DEF free_internal, free_region_insert
<1>2. /\ p \in Int /\ n \in Nat \ {0} /\ s \in AllStreams /\ TypeInv /\ OpsTyped
  BY MallocTyped DEF IInv, OrderInv, AllStreams
<1> HIDE DEF n
<1>3. OpsGrow /\ OpsTyped'
  BY <1>1, <1>2, RecordGrows
<1>4. NoRace'
  BY <1>3, NoRaceGrows DEF OrderInv
<1>5. FreeOrdered'
  <2>1. \A x \in Span(p, n) : Precede(page_table'[x], s)
    BY <1>1 DEF OrderInv, UsersOrdered, MallocOrdered, n
  <2> QED
    BY <1>1, <1>2, <2>1, InsertOrdered
<1>6. MallocOrdered'
  <2> SUFFICES ASSUME NEW q \in DOMAIN malloc_regions', NEW x \in Span(q, malloc_regions'[q].size)
               PROVE  Precede(page_table[x], malloc_regions[q].stream)'
    BY DEF MallocOrdered
  <2>1. q \in DOMAIN malloc_regions /\ malloc_regions'[q] = malloc_regions[q]
    BY <1>1 DEF Without
  <2>2. malloc_regions[q].stream \in AllStreams /\ Precede(page_table[x], malloc_regions[q].stream)
    BY <1>2, <2>1, MallocTyped DEF AllStreams, OrderInv, UsersOrdered, MallocOrdered
  <2> QED
    BY <1>1, <1>2, <1>3, <2>1, <2>2, OrderGrows
<1>7. Created' = {} /\ Sources' = {} /\ HolePages' = HolePages
  BY <1>1 DEF Created, Sources, HolePages
<1>8. UsesMapped'
  <2>1. \A o \in DOMAIN ops' : \A a \in DOMAIN ops'[o].uses :
          o \in DOMAIN ops /\ ops'[o] = ops[o]
    BY <1>3 DEF OpsGrow
  <2>2. UnmappedPages' = UnmappedPages /\ RootPages' = RootPages
    BY <1>1 DEF UnmappedPages, RootPages
  <2> QED
    BY <1>1, <1>3, <1>7, <2>1, <2>2 DEF OrderInv, UsesMapped, OpsGrow
<1>9. OwnRegion'
  BY <1>1 DEF OwnRegion
<1> QED
  BY <1>3, <1>4, <1>5, <1>6, <1>7, <1>8, <1>9 DEF OrderInv, UsersOrdered, CallOrdered

(* A kernel is launched on the pages of one allocation, which nobody else   *)
(* has, behind everything else that touches them.                           *)
LEMMA LaunchOrder ==
  ASSUME IInv, BackInv, OrderInv, NEW p \in DOMAIN malloc_regions, NEW k \in Kernel,
         Launch(p, k)
  PROVE  OrderInv'
<1> DEFINE n == malloc_regions[p].size
           s == malloc_regions[p].stream
           uses == [a \in Span(p, n) |-> page_table[a]]
           new == [uses |-> uses, after |-> before[s]]
<1>1. /\ k \notin DOMAIN ops
      /\ ops' = With(ops, k, new)
      /\ before' = [before EXCEPT ![s] = @ \cup {k}]
      /\ UNCHANGED <<page_table, physical, pool_vars>>
  BY DEF Launch, enqueue
<1>2. s \in AllStreams /\ TypeInv /\ OpsTyped
  BY MallocTyped DEF IInv, OrderInv, AllStreams
<1>3. /\ DOMAIN ops' = DOMAIN ops \cup {k} /\ ops'[k] = new
      /\ \A o \in DOMAIN ops : ops'[o] = ops[o]
  BY <1>1 DEF With
<1>4. /\ new.uses = uses /\ new.after = before[s]
      /\ new = [uses |-> new.uses, after |-> new.after]
      /\ DOMAIN uses = Span(p, n)
      /\ \A a \in Span(p, n) : uses[a] = page_table[a]
  OBVIOUS
<1>5. /\ before[s] \subseteq DOMAIN ops
      /\ \A t \in AllStreams : before'[t] = IF t = s THEN before[t] \cup {k} ELSE before[t]
      /\ before' \in [AllStreams -> SUBSET DOMAIN ops']
  BY <1>1, <1>2, <1>3 DEF OpsTyped
<1> HIDE DEF new, uses
<1>6. \A h \in Range(new.uses) : \E a \in Span(p, n) : h = page_table[a]
  BY <1>4 DEF Range
<1>7. \A a \in Span(p, n) :
        /\ a \in MallocPages /\ a \in DOMAIN page_table /\ a \in DOMAIN active_pages
        /\ page_table[a] = active_pages[a] /\ page_table[a] \in physical
  BY DEF MallocPages, BackInv, Backed, Held, Range
<1>8. Range(new.uses) \subseteq physical
  BY <1>6, <1>7
<1>9. UNCHANGED <<roots, free_regions, malloc_regions, unmapped_regions, zombie_regions,
                  free_num, call>>
  BY <1>1 DEF pool_vars
<1>10. OpsTyped'
  <2>1. ASSUME NEW o \in DOMAIN ops'
        PROVE  /\ ops'[o] = [uses |-> ops'[o].uses, after |-> ops'[o].after]
               /\ ops'[o].after \subseteq DOMAIN ops'
               /\ Range(ops'[o].uses) \subseteq physical'
    BY <1>1, <1>2, <1>3, <1>4, <1>5, <1>8 DEF OpsTyped, Touches
  <2>2. DOMAIN ops' \subseteq Kernel \cup 0 .. free_num' - 1
    BY <1>2, <1>3, <1>9 DEF OpsTyped
  <2> QED
    BY <1>5, <2>1, <2>2 DEF OpsTyped, Touches
<1>11. NoRace'
  <2>1. ASSUME NEW o \in DOMAIN ops, NEW h, h \in Touches(o), h \in Range(new.uses)
        PROVE  o \in before[s]
    BY <1>6, <2>1 DEF OrderInv, UsersOrdered, MallocOrdered, Precede
  <2> SUFFICES ASSUME NEW o \in DOMAIN ops', NEW q \in DOMAIN ops', o # q,
                      NEW h, h \in Range(ops'[o].uses), h \in Range(ops'[q].uses)
               PROVE  o \in ops'[q].after \/ q \in ops'[o].after
    BY DEF NoRace, Touches
  <2>2. CASE o = k
    BY <1>3, <1>4, <2>1, <2>2 DEF Touches
  <2>3. CASE q = k
    BY <1>3, <1>4, <2>1, <2>3 DEF Touches
  <2>4. CASE o # k /\ q # k
    BY <1>3, <2>4 DEF OrderInv, NoRace, Touches
  <2> QED
    BY <2>2, <2>3, <2>4
<1>12. ASSUME NEW x \in Held, page_table[x] \in Range(new.uses)
       PROVE  x \in Span(p, n)
  BY <1>6, <1>7, <1>12 DEF BackInv, Backed, IsInjective
<1>13. UsersOrdered'
  <2>1. \A h : h \notin Range(new.uses) =>
          /\ \A t \in AllStreams : Precede(h, t) => Precede(h, t)'
          /\ \A e : Behind(h, e) => Behind(h, e)'
          /\ Untouched(h) => Untouched(h)'
    BY <1>3, <1>5 DEF Precede, Behind, Untouched, Touches
  <2>2. \A h : Precede(h, s) => \A t : t = s => Precede(h, t)'
    BY <1>2, <1>3, <1>5 DEF Precede, Touches
  <2>3. MallocOrdered'
    <3> SUFFICES ASSUME NEW q \in DOMAIN malloc_regions, NEW x \in Span(q, malloc_regions[q].size)
                 PROVE  Precede(page_table[x], malloc_regions[q].stream)'
      BY <1>9 DEF MallocOrdered
    <3>1. /\ Precede(page_table[x], malloc_regions[q].stream)
          /\ x \in Held /\ malloc_regions[q].stream \in AllStreams
      BY <1>2, MallocTyped DEF OrderInv, UsersOrdered, MallocOrdered, Held, MallocPages, AllStreams
    <3>2. CASE page_table[x] \notin Range(new.uses)
      BY <1>1, <1>9, <2>1, <3>1, <3>2
    <3>3. CASE page_table[x] \in Range(new.uses)
      <4>1. q = p
        BY <1>12, <3>1, <3>3, MallocUnique
      <4> QED
        BY <1>1, <1>9, <2>2, <3>1, <4>1
    <3> QED
      BY <3>2, <3>3
  <2>4. \A x \in FreePages \cup Created \cup Sources : page_table[x] \notin Range(new.uses)
    <3>1. (FreePages \cup Created \cup Sources) \cap MallocPages = {}
      BY CreatedInHole, PageLayout DEF BackInv, Created
    <3> QED
      BY <1>7, <1>12, <3>1 DEF Held
  <2>5. FreeOrdered'
    <3> SUFFICES ASSUME NEW q \in DOMAIN free_regions, NEW x \in Span(q, free_regions[q].size)
                 PROVE  /\ Precede(page_table[x], free_regions[q].stream)'
                        /\ Behind(page_table[x], free_regions[q].id)'
      BY <1>9 DEF FreeOrdered
    <3>1. /\ Precede(page_table[x], free_regions[q].stream)
          /\ Behind(page_table[x], free_regions[q].id)
          /\ x \in FreePages /\ free_regions[q].stream \in AllStreams
      BY <1>2, FreeTyped DEF OrderInv, UsersOrdered, FreeOrdered, FreePages, FreeRegion
    <3> QED
      BY <1>1, <1>9, <2>1, <2>4, <3>1
  <2>6. CallOrdered'
    <3>1. Created' = Created /\ Sources' = Sources
      BY <1>9 DEF Created, Sources
    <3>2. Sources # {} => call.stream \in AllStreams
      BY GrowingTypes DEF Sources, Growing, AllStreams
    <3> QED
      BY <1>1, <1>9, <2>1, <2>4, <3>1, <3>2 DEF OrderInv, UsersOrdered, CallOrdered
  <2> QED
    BY <2>3, <2>5, <2>6 DEF UsersOrdered
<1>14. UsesMapped'
  <2>1. UnmappedPages' = UnmappedPages /\ RootPages' = RootPages /\ HolePages' = HolePages
    BY <1>9 DEF UnmappedPages, RootPages, HolePages
  <2> SUFFICES ASSUME NEW o \in DOMAIN ops', NEW a \in DOMAIN ops'[o].uses
               PROVE  /\ a \in DOMAIN page_table /\ page_table[a] = ops'[o].uses[a]
                      /\ a \in RootPages \ (UnmappedPages \cup HolePages)
                      /\ \A z \in zombie_regions :
                           a \in Span(z.ptr, z.size) =>
                             z.event \in DOMAIN ops' /\ o \in ops'[z.event].after
    BY <1>1, <1>9, <2>1 DEF UsesMapped
  <2>2. CASE o = k
    <3>1. a \in Span(p, n) /\ ops'[o].uses[a] = page_table[a]
      BY <1>3, <1>4, <2>2
    <3>2. a \in RootPages /\ a \notin UnmappedPages \cup HolePages \cup ZombiePages
      BY <1>7, <3>1, PageLayout
    <3> QED
      BY <1>7, <3>1, <3>2 DEF ZombiePages
  <2>3. CASE o # k
    <3>1. o \in DOMAIN ops /\ ops'[o] = ops[o]
      BY <1>3, <2>3
    <3> QED
      BY <1>3, <3>1 DEF OrderInv, UsesMapped
  <2> QED
    BY <2>2, <2>3
<1>15. OwnRegion'
  BY <1>9 DEF OwnRegion, OrderInv
<1> QED
  BY <1>10, <1>11, <1>13, <1>14, <1>15 DEF OrderInv

(* What an operation waits for shrinks only by the operation that retires,  *)
(* which waited for nothing.                                                *)
LEMMA RetireOrder ==
  ASSUME IInv, OrderInv, NEW id \in DOMAIN ops, Device(id)
  PROVE  OrderInv'
<1>1. /\ ops[id].after = {}
      /\ ops' = [o \in DOMAIN ops \ {id} |-> [ops[o] EXCEPT !.after = @ \ {id}]]
      /\ before' = [t \in DOMAIN before |-> before[t] \ {id}]
      /\ UNCHANGED <<page_table, physical>>
      /\ UNCHANGED <<roots, free_regions, malloc_regions, unmapped_regions,
                     zombie_regions, free_num, call>>
  BY DEF Device, Retire, pool_vars
<1>2. OpsTyped
  BY DEF OrderInv
<1>3. DOMAIN ops' = DOMAIN ops \ {id}
  BY <1>1
<1>4. ASSUME NEW o \in DOMAIN ops'
      PROVE  /\ o \in DOMAIN ops /\ o # id
             /\ ops'[o] = [uses |-> ops[o].uses, after |-> ops[o].after \ {id}]
             /\ ops'[o].uses = ops[o].uses /\ ops'[o].after = ops[o].after \ {id}
  <2>1. ops[o] = [uses |-> ops[o].uses, after |-> ops[o].after]
    BY <1>2, <1>3 DEF OpsTyped
  <2>2. ops'[o] = [ops[o] EXCEPT !.after = @ \ {id}]
    BY <1>1, <1>3
  <2> QED
    BY <1>3, <2>1, <2>2
<1>5. /\ before' \in [AllStreams -> SUBSET DOMAIN ops']
      /\ \A t \in AllStreams : before'[t] = before[t] \ {id}
  BY <1>1, <1>2, <1>3 DEF OpsTyped
<1>6. OpsTyped'
  <2>1. ASSUME NEW o \in DOMAIN ops'
        PROVE  /\ ops'[o] = [uses |-> ops'[o].uses, after |-> ops'[o].after]
               /\ ops'[o].after \subseteq DOMAIN ops'
               /\ Range(ops'[o].uses) \subseteq physical'
    <3>1. ops[o].after \subseteq DOMAIN ops /\ Range(ops[o].uses) \subseteq physical
      BY <1>2, <1>4 DEF OpsTyped, Touches
    <3> QED
      BY <1>1, <1>3, <1>4, <3>1
  <2>2. DOMAIN ops' \subseteq Kernel \cup 0 .. free_num' - 1
    BY <1>1, <1>2, <1>3 DEF OpsTyped
  <2> QED
    BY <1>5, <2>1, <2>2 DEF OpsTyped, Touches
<1>7. NoRace'
  <2> SUFFICES ASSUME NEW o \in DOMAIN ops', NEW q \in DOMAIN ops', o # q,
                      Range(ops'[o].uses) \cap Range(ops'[q].uses) # {}
               PROVE  o \in ops'[q].after \/ q \in ops'[o].after
    BY DEF NoRace, Touches
  <2>1. o \in ops[q].after \/ q \in ops[o].after
    BY <1>4 DEF OrderInv, NoRace, Touches
  <2> QED
    BY <1>4, <2>1
<1>8. /\ \A h : \A t \in AllStreams : Precede(h, t) => Precede(h, t)'
      /\ \A h, e : Behind(h, e) => Behind(h, e)'
      /\ \A h : Untouched(h) => Untouched(h)'
  <2>1. \A h : \A t \in AllStreams : Precede(h, t) => Precede(h, t)'
    BY <1>4, <1>5 DEF Precede, Touches
  <2>2. \A h : Untouched(h) => Untouched(h)'
    BY <1>4 DEF Untouched, Touches
  <2>3. ASSUME NEW h, NEW e, Behind(h, e), NEW o \in DOMAIN ops', h \in Range(ops'[o].uses)
        PROVE  e \in DOMAIN ops' /\ o \in ops'[e].after
    <3>1. o \in DOMAIN ops /\ h \in Touches(o) /\ o # id
      BY <1>4, <2>3 DEF Touches
    <3>2. e \in DOMAIN ops /\ o \in ops[e].after
      BY <2>3, <3>1 DEF Behind
    <3>3. e # id
      BY <1>1, <3>2
    <3> QED
      BY <1>3, <1>4, <3>1, <3>2, <3>3
  <2> QED
    BY <2>1, <2>2, <2>3 DEF Behind, Touches
<1>9. /\ \A p \in DOMAIN malloc_regions : malloc_regions[p].stream \in AllStreams
      /\ \A p \in DOMAIN free_regions : free_regions[p].stream \in AllStreams
      /\ Sources # {} => call.stream \in AllStreams
  BY MallocTyped, FreeTyped, GrowingTypes DEF IInv, Sources, Growing, AllStreams, FreeRegion
<1>10. MallocOrdered'
  BY <1>1, <1>8, <1>9 DEF OrderInv, UsersOrdered, MallocOrdered
<1>11. FreeOrdered'
  BY <1>1, <1>8, <1>9 DEF OrderInv, UsersOrdered, FreeOrdered
<1>12. CallOrdered'
  <2>1. Created' = Created /\ Sources' = Sources
    BY <1>1 DEF Created, Sources
  <2> QED
    BY <1>1, <1>8, <1>9, <2>1 DEF OrderInv, UsersOrdered, CallOrdered
<1>13. UsesMapped'
  <2>1. UnmappedPages' = UnmappedPages /\ RootPages' = RootPages /\ HolePages' = HolePages
    BY <1>1 DEF UnmappedPages, RootPages, HolePages
  <2>2. ASSUME NEW o \in DOMAIN ops', NEW a \in DOMAIN ops'[o].uses, NEW z \in zombie_regions,
               a \in Span(z.ptr, z.size)
        PROVE  z.event \in DOMAIN ops' /\ o \in ops'[z.event].after
    <3>1. z.event \in DOMAIN ops /\ o \in ops[z.event].after
      BY <1>4, <2>2 DEF OrderInv, UsesMapped
    <3>2. z.event # id
      BY <1>1, <3>1
    <3> QED
      BY <1>3, <1>4, <3>1, <3>2
  <2>3. ASSUME NEW o \in DOMAIN ops', NEW a \in DOMAIN ops'[o].uses
        PROVE  /\ a \in DOMAIN page_table' /\ page_table'[a] = ops'[o].uses[a]
               /\ a \in RootPages' \ (UnmappedPages' \cup HolePages')
    <3>1. o \in DOMAIN ops /\ a \in DOMAIN ops[o].uses /\ ops'[o].uses = ops[o].uses
      BY <1>4, <2>3
    <3>2. /\ a \in DOMAIN page_table /\ page_table[a] = ops[o].uses[a]
          /\ a \in RootPages \ (UnmappedPages \cup HolePages)
      BY <3>1 DEF OrderInv, UsesMapped
    <3> QED
      BY <1>1, <2>1, <3>1, <3>2
  <2>4. UNCHANGED zombie_regions
    BY <1>1
  <2> QED
    BY <2>2, <2>3, <2>4 DEF UsesMapped
<1>14. OwnRegion'
  BY <1>1 DEF OwnRegion, OrderInv
<1> QED
  BY <1>6, <1>7, <1>10, <1>11, <1>12, <1>13, <1>14 DEF OrderInv, UsersOrdered

(* With nothing pending the order is empty.                                 *)
LEMMA Idle ==
  ASSUME DOMAIN ops = {}, \A s \in AllStreams : before[s] = {}, call.pc # "take",
         before \in [AllStreams -> SUBSET DOMAIN ops]
  PROVE  OrderInv
  BY DEF OrderInv, OpsTyped, UsersOrdered, MallocOrdered, FreeOrdered, CallOrdered, UsesMapped,
     NoRace, OwnRegion, Precede, Behind, Untouched

LEMMA InitOrder == Init => OrderInv
<1> SUFFICES ASSUME Init
             PROVE  OrderInv
  OBVIOUS
<1>1. /\ ops = EmptyMap /\ before = [s \in AllStreams |-> {}] /\ call = NoCall
  BY DEF Init
<1>2. DOMAIN ops = {} /\ call.pc = "idle"
  BY <1>1 DEF EmptyMap, NoCall
<1> QED
  BY <1>1, <1>2, Idle

LEMMA DropOrder ==
  ASSUME OrderInv, drop
  PROVE  OrderInv'
<1>1. DOMAIN ops = {} /\ UNCHANGED <<ops, before>> /\ call'.pc = "dropped"
  BY DEF drop, Drained, NoCall
<1>2. before \in [AllStreams -> SUBSET DOMAIN ops]
  BY DEF OrderInv, OpsTyped
<1> QED
  BY <1>1, <1>2 DEF OrderInv, OpsTyped, UsersOrdered, MallocOrdered, FreeOrdered, CallOrdered,
     UsesMapped, NoRace, OwnRegion, Precede, Behind, Untouched

LEMMA StutterOrder ==
  ASSUME OrderInv, UNCHANGED vars
  PROVE  OrderInv'
<1> USE DEF vars, device_vars, pool_vars
<1>1. UsersOrdered'
  <2>1. Created' = Created /\ Sources' = Sources
    BY DEF Created, Sources
  <2> QED
    BY <2>1 DEF OrderInv, UsersOrdered, MallocOrdered, FreeOrdered, CallOrdered, Precede,
       Behind, Untouched, Touches
<1>2. UsesMapped'
  BY DEF OrderInv, UsesMapped, RootPages, UnmappedPages, HolePages
<1> QED
  BY <1>1, <1>2 DEF OrderInv, OpsTyped, NoRace, OwnRegion, Touches

LEMMA NextOrder == IInv /\ BackInv /\ OrderInv /\ [Next]_vars => OrderInv'
<1> SUFFICES ASSUME IInv, BackInv, OrderInv, [Next]_vars
             PROVE  OrderInv'
  OBVIOUS
<1>1. IInv'
  BY NextIInv
<1>2. CASE \E s \in Stream, n \in Request : malloc_internal(s, n)
  BY <1>2, MallocOrder
<1>3. CASE CallStep
  BY <1>1, <1>3, CallStepOrder
<1>4. CASE \E p \in DOMAIN malloc_regions : free_internal(p)
  BY <1>4, FreeOrder
<1>5. CASE \E p \in DOMAIN malloc_regions, k \in Kernel : Launch(p, k)
  BY <1>5, LaunchOrder
<1>6. CASE \E id \in DOMAIN ops : Device(id)
  BY <1>6, RetireOrder
<1>7. CASE drop
  BY <1>7, DropOrder
<1>8. CASE Dropped \/ UNCHANGED vars
  BY <1>8, StutterOrder DEF Dropped
<1> QED
  BY <1>2, <1>3, <1>4, <1>5, <1>6, <1>7, <1>8 DEF Next

-----------------------------------------------------------------------------
(* Theorems.                                                               *)

PoolInv == IInv /\ BackInv /\ OrderInv

(* The layout, the backing and the order of the pool's pages are an         *)
(* inductive invariant together.                                            *)
THEOREM OrderInvariant == Spec => []PoolInv
<1>1. Init => PoolInv
  BY InitIInv, InitBack, InitOrder DEF PoolInv
<1>2. PoolInv /\ [Next]_vars => PoolInv'
  BY NextIInv, NextBack, NextOrder DEF PoolInv
<1> QED
  BY <1>1, <1>2, PTL DEF Spec

(* A kernel in flight finds at each of its addresses the page that was      *)
(* there at its launch, for any number of streams, kernels and events: the  *)
(* old addresses of remapped pages are unmapped only once the last kernel   *)
(* that uses them has retired.                                              *)
THEOREM KernelsKeepPages == Spec => []NoFault
<1>1. PoolInv => NoFault
  BY DEF PoolInv, OrderInv, UsesMapped, NoFault
<1> QED
  BY <1>1, OrderInvariant, PTL

(* Two pending kernels that touch one physical page are ordered by streams  *)
(* and events, whatever was freed, reused, harvested and remapped between   *)
(* their launches, though nothing waits on the host.                        *)
THEOREM KernelsNeverRace == Spec => []NoRace
<1>1. PoolInv => NoRace
  BY DEF PoolInv, OrderInv
<1> QED
  BY <1>1, OrderInvariant, PTL

-----------------------------------------------------------------------------
(* No page gets lost when regions are merged and split.                     *)

LEMMA FreeUnique ==
  ASSUME IInv, NEW p \in DOMAIN free_regions, NEW q \in DOMAIN free_regions, NEW x,
         x \in Span(p, free_regions[p].size), x \in Span(q, free_regions[q].size)
  PROVE  p = q
<1> DEFINE c == Claim("free", p, free_regions[p].size, 0)
           d == Claim("free", q, free_regions[q].size, 0)
<1>1. /\ x \in Int /\ In(x, c) /\ In(x, d)
      /\ c \in Claims /\ d \in Claims
  BY FreePage DEF Claims
<1>2. c = d
  <2> HIDE DEF c, d
  <2> QED
    BY <1>1 DEF IInv, Layout, Disjoint
<1> QED
  BY <1>2, ClaimEq

LEMMA FreeFirst ==
  ASSUME IInv, NEW p \in DOMAIN free_regions
  PROVE  /\ p \in Nat /\ free_regions[p].size \in Nat \ {0}
         /\ p \in Span(p, free_regions[p].size)
         /\ p + free_regions[p].size - 1 \in Span(p, free_regions[p].size)
<1>1. p \in Nat /\ free_regions[p].size \in Nat \ {0}
  BY BasesNat, FreeTyped DEF IInv
<1> QED
  BY <1>1 DEF Span

(* The region that free_region_insert makes holds the pages inserted and    *)
(* those of the regions it absorbs; the other regions stay.                 *)
LEMMA FreeInsertCovers ==
  ASSUME IInv, NEW p \in Int, NEW n \in Nat \ {0}, NEW s \in AllStreams,
         free_region_insert(p, n, s), Span(p, n) \cap FreePages = {}
  PROVE  LET lo == MergedLo(p, n, s)
             whole == Span(lo, MergedHi(p, n, s) - lo)
         IN  /\ Span(p, n) \subseteq whole
             /\ \A q \in DOMAIN free_regions :
                  \/ Span(q, free_regions[q].size) \subseteq whole
                  \/ /\ q # lo /\ q \in DOMAIN free_regions'
                     /\ free_regions'[q] = free_regions[q]
<1> DEFINE lo == MergedLo(p, n, s)
           hi == MergedHi(p, n, s)
           ab == Absorbed(p, n, s)
<1>1. /\ lo \in Int /\ hi \in Int /\ lo <= p /\ p + n <= hi
      /\ lo # p => /\ lo \in DOMAIN free_regions
                   /\ lo + free_regions[lo].size = p
                   /\ free_regions[lo].stream = s
  BY Merged DEF IInv
<1>2. Span(p, n) \subseteq Span(lo, hi - lo)
  <2> HIDE DEF lo, hi
  <2> QED
    BY <1>1 DEF Span
<1>3. ASSUME NEW q \in ab
      PROVE  Span(q, free_regions[q].size) \subseteq Span(lo, hi - lo)
  <2>1. /\ q \in DOMAIN free_regions /\ free_regions[q].stream = s
        /\ q = p + n \/ (q < p /\ q + free_regions[q].size = p)
    BY DEF Absorbed
  <2>2. q \in Int /\ free_regions[q].size \in Nat \ {0}
    BY <2>1, FreeTyped DEF IInv
  <2>3. CASE q = p + n
    <3>1. hi = q + free_regions[q].size
      BY <2>3 DEF MergedHi
    <3> HIDE DEF lo, hi
    <3> QED
      BY <1>1, <2>2, <2>3, <3>1 DEF Span
  <2>4. CASE q < p /\ q + free_regions[q].size = p
    <3>1. lo \in DOMAIN free_regions /\ lo < p /\ lo + free_regions[lo].size = p
      <4>1. TypeInv
        BY DEF IInv
      <4> QED
        BY <2>1, <2>4, <4>1, Merged
    <3>2. p - 1 \in Span(q, free_regions[q].size) /\ p - 1 \in Span(lo, free_regions[lo].size)
      <4>1. free_regions[lo].size \in Nat
        BY <3>1, FreeFirst
      <4> HIDE DEF lo
      <4> QED
        BY <1>1, <2>2, <2>4, <3>1, <4>1 DEF Span
    <3>3. q = lo
      BY <2>1, <3>1, <3>2, FreeUnique
    <3> HIDE DEF lo, hi
    <3> QED
      BY <1>1, <2>2, <2>4, <3>3 DEF Span
  <2> QED
    BY <2>1, <2>3, <2>4
<1>4. ASSUME NEW q \in DOMAIN free_regions \ ab
      PROVE  q # lo /\ q \in DOMAIN free_regions' /\ free_regions'[q] = free_regions[q]
  <2>1. q # lo
    <3>1. lo # p => lo \in ab
      <4>1. lo # p => lo < p
        <5> HIDE DEF lo
        <5> QED
          BY <1>1
      <4> QED
        BY <1>1, <4>1 DEF Absorbed
    <3>2. p \notin DOMAIN free_regions
      <4>1. p \in Span(p, n)
        BY DEF Span
      <4>2. p \in DOMAIN free_regions => p \in FreePages
        BY FreeFirst DEF FreePages
      <4> QED
        BY <4>1, <4>2
    <3> HIDE DEF lo, ab
    <3> QED
      BY <3>1, <3>2
  <2>2. free_regions' = With(Without(free_regions, ab), lo,
                             [size |-> hi - lo, stream |-> s, id |-> free_num])
    BY DEF free_region_insert
  <2>3. q \in DOMAIN Without(free_regions, ab) /\ Without(free_regions, ab)[q] = free_regions[q]
    BY WithoutDomain, WithoutOld
  <2> DEFINE g == Without(free_regions, ab)
             v == [size |-> hi - lo, stream |-> s, id |-> free_num]
  <2>4. DOMAIN With(g, lo, v) = DOMAIN g \cup {lo}
    BY WithDomain
  <2>5. With(g, lo, v)[q] = g[q]
    BY <2>1, <2>3, WithOld
  <2> QED
    BY <2>1, <2>2, <2>3, <2>4, <2>5
<1> QED
  BY <1>2, <1>3, <1>4

(* As sets of pages.                                                        *)
LEMMA FreeInserted ==
  ASSUME IInv, NEW p \in Int, NEW n \in Nat \ {0}, NEW s \in AllStreams,
         free_region_insert(p, n, s), Span(p, n) \cap FreePages = {}
  PROVE  FreePages' = FreePages \cup Span(p, n)
<1> DEFINE lo == MergedLo(p, n, s)
           hi == MergedHi(p, n, s)
<1>1. TypeInv
  BY DEF IInv
<1>2. FreePages' \subseteq FreePages \cup Span(p, n)
  BY <1>1, FreeInsertPages DEF FreePages
<1>3. lo \in DOMAIN free_regions' /\ free_regions'[lo].size = hi - lo
  BY <1>1, FreeInsert
<1>4. Span(lo, hi - lo) \subseteq FreePages'
  BY <1>3 DEF FreePages
<1>5. /\ Span(p, n) \subseteq Span(lo, hi - lo)
      /\ \A q \in DOMAIN free_regions :
           \/ Span(q, free_regions[q].size) \subseteq Span(lo, hi - lo)
           \/ q \in DOMAIN free_regions' /\ free_regions'[q] = free_regions[q]
  BY FreeInsertCovers
<1> HIDE DEF lo, hi
<1>6. FreePages \subseteq FreePages'
  BY <1>4, <1>5 DEF FreePages
<1> QED
  BY <1>2, <1>4, <1>5, <1>6

(* A cut leaves the other regions, and the rest of the region cut.          *)
LEMMA CutFrontCovers ==
  ASSUME IInv, NEW f, DOMAIN f = DOMAIN free_regions,
         \A q \in DOMAIN f : f[q].size = free_regions[q].size,
         f \in [DOMAIN f -> FreeRegion(free_num)],
         NEW p \in DOMAIN f, NEW n \in Nat \ {0}, n <= f[p].size,
         free_regions' = CutFront(f, p, n)
  PROVE  /\ \A q \in DOMAIN free_regions \ {p} :
              q \in DOMAIN free_regions' /\ free_regions'[q] = f[q]
         /\ \A x \in Span(p, free_regions[p].size) :
              \/ x \in Span(p, n)
              \/ /\ p + n \in DOMAIN free_regions'
                 /\ p + n \notin DOMAIN free_regions \ {p}
                 /\ x \in Span(p + n, free_regions'[p + n].size)
<1>1. /\ TypeInv /\ p \in DOMAIN free_regions /\ p \in Nat
      /\ f[p].size = free_regions[p].size /\ free_regions[p].size \in Nat
      /\ f[p] \in FreeRegion(free_num)
      /\ DOMAIN f \subseteq Int
  BY FreeFirst, BasesNat DEF IInv
<1>2. ASSUME NEW q \in DOMAIN free_regions \ {p}
      PROVE  q # p + n \/ f[p].size <= n
  <2> SUFFICES ASSUME q = p + n, f[p].size > n
               PROVE  FALSE
    BY <1>1
  <2>1. q \in Span(q, free_regions[q].size) /\ q \in Span(p, free_regions[p].size)
    BY <1>1, FreeFirst DEF Span
  <2> QED
    BY <1>1, <2>1, FreeUnique
<1>3. \A q \in DOMAIN f \ {p} :
        q # p + n \/ f[p].size <= n =>
          q \in DOMAIN free_regions' /\ free_regions'[q] = f[q]
  <2>1. n \in Nat
    OBVIOUS
  <2> QED
    BY <1>1, <2>1, CutFrontMap, Z3T(30)
<1>4. ASSUME NEW x \in Span(p, free_regions[p].size), x \notin Span(p, n)
      PROVE  /\ p + n \in DOMAIN free_regions'
             /\ p + n \notin DOMAIN free_regions \ {p}
             /\ x \in Span(p + n, free_regions'[p + n].size)
  <2>1. x \in Int /\ p + n <= x /\ x < p + free_regions[p].size
    BY <1>1, <1>4 DEF Span
  <2>2. f[p].size > n
    BY <1>1, <2>1
  <2> DEFINE v == [f[p] EXCEPT !.size = @ - n]
  <2>3. free_regions' = With(Without(f, {p}), p + n, v)
    BY <2>2 DEF CutFront
  <2>4. p + n \in DOMAIN free_regions' /\ free_regions'[p + n] = v
    <3> DEFINE g == Without(f, {p})
    <3>1. DOMAIN With(g, p + n, v) = DOMAIN g \cup {p + n}
      BY WithDomain
    <3>2. With(g, p + n, v)[p + n] = v
      BY WithNew
    <3> QED
      BY <2>3, <3>1, <3>2
  <2>5. v.size = f[p].size - n
    BY <1>1 DEF FreeRegion
  <2>6. x \in Span(p + n, f[p].size - n)
    BY <1>1, <2>1 DEF Span
  <2> HIDE DEF v
  <2>7. p + n \notin DOMAIN free_regions \ {p}
    BY <1>1, <1>2, <2>2
  <2> QED
    BY <2>4, <2>5, <2>6, <2>7
<1> QED
  BY <1>2, <1>3, <1>4

-----------------------------------------------------------------------------
(***************************************************************************)
(* Harvesting never runs out of free regions.                              *)
(*                                                                         *)
(* The shortfall is computed once, from all free regions.  Then the pages  *)
(* created for it merge with neighbours and some of the regions counted    *)
(* become part of the region to hand out, others are cut.  What holds      *)
(* throughout is that the regions not yet used have the pages still        *)
(* missing (HarvestInv).                                                   *)
(***************************************************************************)

(* The pages of the free regions that the call has not harvested and that   *)
(* its own new pages have not merged with.                                  *)
Others ==
  UNION {Span(p, free_regions[p].size) : p \in DOMAIN free_regions \ {call.ptr}}

(* What is still to be harvested never exceeds what can be.                 *)
HarvestInv ==
  /\ call.pc = "create" => call.goal = call.dst + Shortfall
  /\ call.pc = "harvest" => call.left <= Cardinality(Others)

LEMMA CardinalityUnion ==
  ASSUME NEW S, NEW T, NEW U, IsFiniteSet(S), IsFiniteSet(T), U \subseteq S \cup T
  PROVE  /\ IsFiniteSet(U)
         /\ Cardinality(S) \in Nat /\ Cardinality(T) \in Nat /\ Cardinality(U) \in Nat
         /\ Cardinality(U) <= Cardinality(S) + Cardinality(T)
<1>1. IsFiniteSet(S \cup T) /\ IsFiniteSet(S \cap T)
  BY FS_Union, FS_Subset
<1>2. Cardinality(S \cup T) = Cardinality(S) + Cardinality(T) - Cardinality(S \cap T)
  BY FS_Union
<1>3. IsFiniteSet(U) /\ Cardinality(U) <= Cardinality(S \cup T)
  BY <1>1, FS_Subset
<1>4. /\ Cardinality(S) \in Nat /\ Cardinality(T) \in Nat /\ Cardinality(U) \in Nat
      /\ Cardinality(S \cap T) \in Nat /\ Cardinality(S \cup T) \in Nat
  BY <1>1, <1>3, FS_CardinalityType
<1> QED
  BY <1>2, <1>3, <1>4

LEMMA SpanCardinality ==
  ASSUME NEW p \in Int, NEW n \in Nat
  PROVE  IsFiniteSet(Span(p, n)) /\ Cardinality(Span(p, n)) = n
<1>1. p + n - 1 \in Int
  OBVIOUS
<1>2. /\ IsFiniteSet(p .. (p + n - 1))
      /\ Cardinality(p .. (p + n - 1)) = IF p > p + n - 1 THEN 0 ELSE p + n - 1 - p + 1
  BY <1>1, FS_Interval
<1> QED
  BY <1>2 DEF Span

LEMMA PagesFinite ==
  ASSUME IInv
  PROVE  IsFiniteSet(FreePages) /\ IsFiniteSet(MallocPages)
  BY RootPagesFinite, PageLayout, FS_Subset DEF IInv

LEMMA TakeUnmappedSuffices ==
  ASSUME IInv, take_unmapped_region
  PROVE  HarvestInv'
<1>1. call.pc = "hole" /\ UNCHANGED free_regions
  BY DEF take_unmapped_region
<1>2. CASE \E dst \in Int : Opened(dst)
  <2>1. PICK dst \in Int : Opened(dst)
    BY <1>2
  <2>2. call'.pc = "create" /\ call'.dst = dst /\ call'.size = call.size
    BY <1>1, <2>1, OpenedAt
  <2>3. call'.goal = dst + Shortfall
    BY <2>1 DEF Opened, IInv, CallInv, CallShape
  <2>4. Shortfall' = Shortfall
    BY <1>1, <2>2 DEF Shortfall, FreePages
  <2> QED
    BY <2>2, <2>3, <2>4 DEF HarvestInv
<1>3. CASE Return
  BY <1>3, ReturnNone DEF HarvestInv
<1> QED
  BY <1>2, <1>3, TakeUnmappedChoice

LEMMA CreatePageSuffices ==
  ASSUME IInv, HarvestInv, create_new_page
  PROVE  HarvestInv'
<1>1. call.pc = "create" /\ UNCHANGED free_regions
  BY DEF create_new_page
<1>2. CASE call' = [call EXCEPT !.next = @ + 1]
  <2>1. /\ call'.pc = "create" /\ call'.dst = call.dst /\ call'.goal = call.goal
        /\ call'.size = call.size
    BY <1>1, <1>2 DEF IInv, CallInv, CallShape
  <2>2. Shortfall' = Shortfall
    BY <1>1, <2>1 DEF Shortfall, FreePages
  <2> QED
    BY <1>1, <2>1, <2>2 DEF HarvestInv
<1>3. CASE Return
  BY <1>3, ReturnNone DEF HarvestInv
<1> QED
  BY <1>2, <1>3 DEF create_new_page

(* The shortfall and the free pages make up the request.                    *)
LEMMA ShortfallMakesUp ==
  ASSUME IInv, HarvestInv, call.pc = "create"
  PROVE  /\ IsFiniteSet(FreePages) /\ Cardinality(FreePages) \in Nat
         /\ call.size <= (call.goal - call.dst) + Cardinality(FreePages)
         /\ call.goal > call.dst =>
              call.size = (call.goal - call.dst) + Cardinality(FreePages)
<1>1. IsFiniteSet(FreePages) /\ Cardinality(FreePages) \in Nat
  BY FreePagesFinite, FS_CardinalityType DEF IInv
<1>2. call.size \in Nat /\ call.dst \in Int /\ call.goal \in Int
  BY GrowingTypes DEF Growing
<1>3. call.goal = call.dst + Shortfall
  BY DEF HarvestInv
<1> QED
  BY <1>1, <1>2, <1>3 DEF Shortfall

LEMMA NoNewPagesSuffices ==
  ASSUME IInv, HarvestInv, no_new_pages
  PROVE  HarvestInv'
<1>1. /\ call.pc = "create" /\ call.goal = call.dst /\ UNCHANGED free_regions
      /\ call'.pc = "harvest" /\ call'.left = call.size /\ call'.ptr = call.ptr
  BY DEF no_new_pages, IInv, CallInv, CallShape
<1>2. call.ptr \notin DOMAIN free_regions
  <2>1. call.ptr = -1
    BY <1>1 DEF IInv, CallInv, NoPtr
  <2> QED
    BY <2>1, BasesNat DEF IInv
<1>3. Others' = FreePages
  BY <1>1, <1>2 DEF Others, FreePages
<1>4. call.size <= Cardinality(FreePages)
  <2>1. call.goal \in Int /\ call.dst \in Int
    BY <1>1, GrowingTypes DEF Growing
  <2> QED
    BY <1>1, <2>1, ShortfallMakesUp
<1> QED
  BY <1>1, <1>3, <1>4 DEF HarvestInv

LEMMA InsertNewPagesSuffices ==
  ASSUME IInv, HarvestInv, insert_new_pages
  PROVE  HarvestInv'
<1> DEFINE n == call.goal - call.dst
           s == call.stream
           lo == MergedLo(call.dst, n, s)
           hi == MergedHi(call.dst, n, s)
           got == hi - lo
           whole == Span(lo, got)
<1>1. /\ call.pc = "create" /\ call.next = call.goal /\ call.goal > call.dst
      /\ free_region_insert(call.dst, n, s)
  BY DEF insert_new_pages
<1>2. /\ call'.pc = IF call.size > got THEN "harvest" ELSE "take"
      /\ call.size > got => call'.left = call.size - got
      /\ call'.ptr = lo
  <2>1. call.size \in Nat \ {0} /\ lo \in Int /\ hi \in Int
    <3>1. call.dst \in Int /\ n \in Nat \ {0} /\ s \in AllStreams /\ TypeInv
      BY <1>1, GrowingTypes DEF Growing, AllStreams, IInv
    <3> QED
      BY <1>1, <3>1, GrowingTypes, Merged DEF Growing
  <2>2. call' = [call EXCEPT
                   !.pc = IF (IF call.size > got THEN call.size - got ELSE 0) = 0
                          THEN "take" ELSE "harvest",
                   !.ptr = lo,
                   !.left = IF call.size > got THEN call.size - got ELSE 0]
    BY DEF insert_new_pages
  <2> HIDE DEF lo, hi
  <2>3. (IF call.size > got THEN call.size - got ELSE 0) = 0 <=> ~(call.size > got)
    BY <2>1
  <2> QED
    BY <2>2, <2>3 DEF IInv, CallInv, CallShape
<1>3. /\ call.dst \in Int /\ n \in Nat \ {0} /\ s \in AllStreams /\ TypeInv
      /\ call.size \in Nat
  BY <1>1, GrowingTypes DEF Growing, AllStreams, IInv
<1>4. lo \in Int /\ hi \in Int /\ lo <= call.dst /\ call.dst + n <= hi
  BY <1>3, Merged
<1>5. Span(call.dst, n) \cap FreePages = {}
  <2>1. Span(call.dst, n) = Created
    BY <1>1 DEF Created
  <2> QED
    BY <1>1, <2>1, CreatedInHole, PageLayout
<1>6. FreePages \cup Span(call.dst, n) \subseteq Others' \cup whole
  <2>1. /\ Span(call.dst, n) \subseteq whole
        /\ \A q \in DOMAIN free_regions :
             \/ Span(q, free_regions[q].size) \subseteq whole
             \/ /\ q # lo /\ q \in DOMAIN free_regions'
                /\ free_regions'[q] = free_regions[q]
    <3> HIDE DEF n, s
    <3> QED
      BY <1>1, <1>3, <1>5, FreeInsertCovers
  <2> HIDE DEF whole, lo, n
  <2> QED
    BY <1>2, <2>1 DEF Others, FreePages
<1>7. IsFiniteSet(Others')
  <2>1. Others' \subseteq FreePages'
    BY DEF Others, FreePages
  <2>2. FreePages' = FreePages \cup Span(call.dst, n)
    <3> HIDE DEF n, s
    <3> QED
      BY <1>1, <1>3, <1>5, FreeInserted
  <2>3. IsFiniteSet(FreePages \cup Span(call.dst, n))
    BY <1>1, <1>3, ShortfallMakesUp, SpanCardinality, FS_Union
  <2> QED
    BY <2>1, <2>2, <2>3, FS_Subset
<1>8. /\ IsFiniteSet(FreePages) /\ Cardinality(FreePages) \in Nat
      /\ call.size = n + Cardinality(FreePages)
  BY <1>1, ShortfallMakesUp
<1>9. got \in Nat
  <2> HIDE DEF lo, hi, n
  <2> QED
    BY <1>3, <1>4
<1>10. /\ IsFiniteSet(whole) /\ Cardinality(whole) = got
       /\ IsFiniteSet(Span(call.dst, n)) /\ Cardinality(Span(call.dst, n)) = n
  <2> HIDE DEF lo, hi, n
  <2> QED
    BY <1>3, <1>4, <1>9, SpanCardinality
<1>11. Cardinality(FreePages \cup Span(call.dst, n)) = Cardinality(FreePages) + n
  <2>1. Cardinality(FreePages \cap Span(call.dst, n)) = Cardinality({})
    <3>1. FreePages \cap Span(call.dst, n) = {}
      BY <1>5
    <3> QED
      BY <3>1
  <2>2. Cardinality(FreePages \cup Span(call.dst, n))
          = Cardinality(FreePages) + Cardinality(Span(call.dst, n))
              - Cardinality(FreePages \cap Span(call.dst, n))
    BY <1>8, <1>10, FS_Union
  <2>3. Cardinality({}) = 0
    BY FS_EmptySet
  <2> HIDE DEF n
  <2> QED
    BY <1>3, <1>8, <1>10, <2>1, <2>2, <2>3
<1>12. /\ Cardinality(Others') \in Nat
       /\ Cardinality(FreePages \cup Span(call.dst, n)) <= Cardinality(Others') + got
  <2> HIDE DEF whole, n, got
  <2> QED
    BY <1>6, <1>7, <1>10, CardinalityUnion
<1> HIDE DEF n, lo, hi, got, whole
<1>13. call.size - got <= Cardinality(Others')
  BY <1>3, <1>8, <1>9, <1>11, <1>12
<1> QED
  BY <1>2, <1>13 DEF HarvestInv

LEMMA HarvestStepSuffices ==
  ASSUME IInv, HarvestInv, harvest_free_region
  PROVE  HarvestInv'
<1>1. call.pc = "harvest"
  BY DEF harvest_free_region
<1>2. PICK p \in DOMAIN free_regions, take \in Nat \ {0} :
        /\ p # call.ptr /\ take <= free_regions[p].size
        /\ \/ /\ free_regions' = CutFront(free_regions, p, take)
              /\ call'.pc = "harvest"
              /\ call'.left = call.left - take /\ call'.ptr = call.ptr
           \/ Return
  BY HarvestStep
<1>3. CASE Return
  BY <1>3, ReturnNone DEF HarvestInv
<1>4. CASE /\ free_regions' = CutFront(free_regions, p, take)
           /\ call'.pc = "harvest"
           /\ call'.left = call.left - take /\ call'.ptr = call.ptr
  <2>1. /\ \A q \in DOMAIN free_regions \ {p} :
             q \in DOMAIN free_regions' /\ free_regions'[q] = free_regions[q]
        /\ \A x \in Span(p, free_regions[p].size) :
             \/ x \in Span(p, take)
             \/ /\ p + take \in DOMAIN free_regions'
                /\ p + take \notin DOMAIN free_regions \ {p}
                /\ x \in Span(p + take, free_regions'[p + take].size)
    <3>1. free_regions \in [DOMAIN free_regions -> FreeRegion(free_num)]
      BY DEF IInv, TypeInv
    <3> QED
      BY <1>2, <1>4, <3>1, CutFrontCovers
  <2>2. p + take # call.ptr \/ p + take \in DOMAIN free_regions \ {p}
    <3>1. p \in Nat
      BY FreeFirst
    <3>2. call.ptr = -1 \/ call.ptr \in DOMAIN free_regions
      BY <1>1 DEF IInv, CallInv, NoPtr
    <3> QED
      BY <1>2, <3>1, <3>2
  <2>3. Others \subseteq Others' \cup Span(p, take)
    BY <1>4, <2>1, <2>2 DEF Others
  <2>4. Others' \subseteq FreePages
    <3>1. Others' \subseteq FreePages'
      BY DEF Others, FreePages
    <3>2. \A q \in DOMAIN free_regions' : \A x \in Span(q, free_regions'[q].size) :
            \E r \in DOMAIN free_regions :
              /\ free_regions'[q].stream = free_regions[r].stream
              /\ free_regions'[q].id = free_regions[r].id
              /\ x \in Span(r, free_regions[r].size)
              /\ r = p => ~(x \in Span(p, take))
      <4>1. free_regions \in [DOMAIN free_regions -> FreeRegion(free_num)] /\ TypeInv
            /\ take \in Nat
        BY DEF IInv, TypeInv
      <4> QED
        BY <1>4, <4>1, CutFrontPages, Z3T(30)
    <3> QED
      BY <3>1, <3>2 DEF FreePages
  <2>5. IsFiniteSet(Others') /\ IsFiniteSet(Span(p, take)) /\ Cardinality(Span(p, take)) = take
    <3>1. IsFiniteSet(FreePages)
      BY FreePagesFinite DEF IInv
    <3>2. p \in Int /\ take \in Nat
      BY FreeFirst
    <3> QED
      BY <2>4, <3>1, <3>2, FS_Subset, SpanCardinality
  <2>6. /\ Cardinality(Others) \in Nat /\ Cardinality(Others') \in Nat
        /\ Cardinality(Others) <= Cardinality(Others') + take
    BY <2>3, <2>5, CardinalityUnion
  <2>7. call.left \in Nat /\ call.left <= Cardinality(Others)
    BY <1>1 DEF HarvestInv, IInv, CallInv
  <2>8. call'.left <= Cardinality(Others')
    BY <1>4, <2>6, <2>7
  <2> QED
    BY <1>4, <2>8 DEF HarvestInv
<1> QED
  BY <1>2, <1>3, <1>4

LEMMA NextSuffices == IInv /\ HarvestInv /\ [Next]_vars => HarvestInv'
<1> SUFFICES ASSUME IInv, HarvestInv, [Next]_vars
             PROVE  HarvestInv'
  OBVIOUS
<1>1. CASE UNCHANGED pool_vars
  BY <1>1 DEF HarvestInv, Others, Shortfall, FreePages, pool_vars
<1>2. CASE call'.pc \notin {"create", "harvest"}
  BY <1>2 DEF HarvestInv
<1>3. ASSUME NEW s \in Stream, NEW n \in Request, malloc_internal(s, n)
      PROVE  call'.pc = "cleanup"
  BY <1>3 DEF malloc_internal, NoCall
<1>4. ASSUME NEW z \in call.scan, cleanup_zombie_regions(z)
      PROVE  call'.pc = "cleanup"
  BY <1>4 DEF cleanup_zombie_regions, IInv, CallInv, CallShape
<1>5. ASSUME NEW p \in DOMAIN malloc_regions, free_internal(p)
      PROVE  call'.pc = "idle"
  BY <1>5 DEF free_internal
<1>6. ASSUME find_best_fit
      PROVE  call'.pc \in {"idle", "hole"}
  <2>1. call' = NoCall \/ call' = [call EXCEPT !.pc = "hole"]
    BY <1>6 DEF find_best_fit, HandOut, Return
  <2> QED
    BY <2>1 DEF NoCall, IInv, CallInv, CallShape
<1>7. ASSUME \/ rollback_new_pages \/ creation_fails \/ hand_out_defragmented
             \/ \E k \in DOMAIN call.moves \cup {call.next} : remap_fails(k)
      PROVE  call'.pc = "idle"
  <2>1. Return
    BY <1>7 DEF rollback_new_pages, creation_fails, hand_out_defragmented, HandOut, remap_fails
  <2> QED
    BY <2>1, ReturnNone
<1>8. ASSUME remap_regions
      PROVE  call'.pc = "take"
  BY <1>8 DEF remap_regions, IInv, CallInv, CallShape
<1>9. ASSUME drop
      PROVE  call'.pc = "dropped"
  BY <1>9 DEF drop, NoCall
<1>10. ASSUME \/ \E p \in DOMAIN malloc_regions, k \in Kernel : Launch(p, k)
              \/ \E id \in DOMAIN ops : Device(id)
              \/ Dropped
              \/ UNCHANGED vars
       PROVE  UNCHANGED pool_vars
  BY <1>10 DEF Launch, Device, Dropped, vars
<1> QED
  BY <1>1, <1>2, <1>3, <1>4, <1>5, <1>6, <1>7, <1>8, <1>9, <1>10, TakeUnmappedSuffices,
     CreatePageSuffices, NoNewPagesSuffices, InsertNewPagesSuffices, HarvestStepSuffices
     DEF Next, CallStep

(* Whatever a call still lacks, the regions it has not used yet have.       *)
THEOREM HarvestInvariant == Spec => [](IInv /\ HarvestInv)
<1>1. Init => IInv /\ HarvestInv
  <2>1. Init => call.pc = "idle"
    BY DEF Init, NoCall
  <2> QED
    BY <2>1, InitIInv DEF HarvestInv
<1>2. IInv /\ HarvestInv /\ [Next]_vars => (IInv /\ HarvestInv)'
  BY NextIInv, NextSuffices
<1> QED
  BY <1>1, <1>2, PTL DEF Spec

(* The regions left to harvest always have the pages that a call still      *)
(* lacks: the shortfall it computed before it merged its new pages with a   *)
(* neighbour and before other regions were cut was large enough.            *)
THEOREM HarvestNeverStarves == Spec => []HarvestSuffices
<1>1. IInv /\ HarvestInv => HarvestSuffices
  <2> SUFFICES ASSUME IInv, HarvestInv, call.pc = "harvest", call.left > 0, Harvestable = {}
               PROVE  FALSE
    BY DEF HarvestSuffices
  <2>1. Others = {}
    BY DEF Others, Harvestable
  <2>2. call.left \in Nat /\ call.left <= Cardinality({})
    BY <2>1 DEF HarvestInv, IInv, CallInv
  <2> QED
    BY <2>2, FS_EmptySet
<1> QED
  BY <1>1, HarvestInvariant, PTL

-----------------------------------------------------------------------------
(***************************************************************************)
(* Nothing leaks if the driver only ever runs out of memory.               *)
(*                                                                         *)
(* With other faults pages do leak (creation_fails, remap_fails, and the   *)
(* failing wait of harvest_free_region): the hypothesis excludes exactly   *)
(* these.  The lemmas show that an address of the hole is never mapped     *)
(* already, so the driver has no other reason to refuse a mapping either.  *)
(***************************************************************************)

OnlyOutOfMemory == Faults \subseteq {"oom"}

(* No hole begins where another ends.                                       *)
HolesApart ==
  \A p \in DOMAIN unmapped_regions : p + unmapped_regions[p] \notin DOMAIN unmapped_regions

(* Only the pages of regions and those that the call has in its hands are   *)
(* backed; every physical page is one of their backings; and the driver     *)
(* maps only them and the zombies.                                          *)
NothingStray ==
  /\ DOMAIN active_pages = Held
  /\ physical = Range(active_pages)
  /\ DOMAIN page_table = DOMAIN active_pages \cup ZombiePages

LEMMA HolesInserted ==
  ASSUME TypeInv, HolesApart, NEW p \in Int, NEW n \in Nat,
         unmapped_regions' = insert_unmapped_region(unmapped_regions, p, n)
  PROVE  HolesApart'
<1> DEFINE u == unmapped_regions
           prev == EndingAt(u, p)
           next == BeginningAt(u, p + n)
           lo == IF prev = {} THEN p ELSE CHOOSE q \in prev : TRUE
           hi == IF next = {} THEN p + n ELSE p + n + u[p + n]
           rest == Without(u, prev \cup next)
<1>1. CASE n = 0
  <2>1. unmapped_regions' = unmapped_regions
    BY <1>1 DEF insert_unmapped_region
  <2> QED
    BY <2>1 DEF HolesApart
<1>2. CASE n # 0
  <2>1. u' = With(rest, lo, hi - lo)
    BY <1>2 DEF insert_unmapped_region
  <2>2. /\ DOMAIN u \subseteq Int
        /\ \A q \in DOMAIN u : u[q] \in Nat \ {0} /\ q + u[q] \notin DOMAIN u
    BY DEF TypeInv, HolesApart
  <2>3. prev = {q \in DOMAIN u : q < p /\ q + u[q] = p} /\ next = {q \in DOMAIN u : q = p + n}
    BY DEF EndingAt, BeginningAt
  <2>4. \/ lo = p /\ prev = {}
        \/ lo \in prev
    OBVIOUS
  <2>5. \/ hi = p + n /\ p + n \notin DOMAIN u
        \/ p + n \in DOMAIN u /\ hi = p + n + u[p + n]
    BY <2>3
  <2>6. /\ DOMAIN rest = DOMAIN u \ (prev \cup next)
        /\ \A q \in DOMAIN rest : rest[q] = u[q]
    BY WithoutDomain, WithoutOld
  <2>7. /\ DOMAIN u' = DOMAIN rest \cup {lo}
        /\ u'[lo] = hi - lo
        /\ \A q \in DOMAIN rest : q # lo => u'[q] = rest[q]
    <3>1. DOMAIN With(rest, lo, hi - lo) = DOMAIN rest \cup {lo}
      BY WithDomain
    <3>2. With(rest, lo, hi - lo)[lo] = hi - lo
      BY WithNew
    <3>3. \A q \in DOMAIN rest : q # lo => With(rest, lo, hi - lo)[q] = rest[q]
      BY WithOld
    <3> QED
      BY <2>1, <3>1, <3>2, <3>3
  <2>8. /\ lo \in Int /\ hi \in Int /\ lo <= p /\ p + n <= hi
        /\ hi \notin DOMAIN u
        /\ \A q \in DOMAIN u : q + u[q] = lo => q \in prev
    <3> HIDE DEF u, prev, next, lo, hi
    <3> QED
      BY <1>2, <2>2, <2>3, <2>4, <2>5
  <2> HIDE DEF u, prev, next, lo, hi, rest
  <2>9. ASSUME NEW q \in DOMAIN u'
        PROVE  q + u'[q] \notin DOMAIN u'
    <3>1. CASE q = lo
      BY <1>2, <2>6, <2>7, <2>8, <3>1
    <3>2. CASE q # lo /\ q \in DOMAIN rest /\ u'[q] = u[q]
      BY <2>2, <2>6, <2>7, <2>8, <3>2
    <3> QED
      BY <2>6, <2>7, <3>1, <3>2
  <2> QED
    BY <2>9 DEF HolesApart, u
<1> QED
  BY <1>1, <1>2

LEMMA HoleUnique ==
  ASSUME IInv, NEW p \in DOMAIN unmapped_regions, NEW q \in DOMAIN unmapped_regions, NEW x,
         x \in Span(p, unmapped_regions[p]), x \in Span(q, unmapped_regions[q])
  PROVE  p = q
<1> DEFINE c == Claim("unmapped", p, unmapped_regions[p], 0)
           d == Claim("unmapped", q, unmapped_regions[q], 0)
<1>1. /\ x \in Int /\ In(x, c) /\ In(x, d)
      /\ c \in Claims /\ d \in Claims
  BY UnmappedPage DEF Claims
<1>2. c = d
  <2> HIDE DEF c, d
  <2> QED
    BY <1>1 DEF IInv, Layout, Disjoint
<1> QED
  BY <1>2, ClaimEq

LEMMA HoleCut ==
  ASSUME IInv, HolesApart, NEW p \in DOMAIN unmapped_regions, NEW n \in Nat \ {0},
         n <= unmapped_regions[p],
         unmapped_regions' =
           IF unmapped_regions[p] > n
           THEN With(Without(unmapped_regions, {p}), p + n, unmapped_regions[p] - n)
           ELSE Without(unmapped_regions, {p})
  PROVE  HolesApart'
<1> DEFINE u == unmapped_regions
           rest == Without(u, {p})
<1>1. /\ DOMAIN u \subseteq Int
      /\ \A q \in DOMAIN u : u[q] \in Nat \ {0} /\ q + u[q] \notin DOMAIN u
  BY DEF IInv, TypeInv, HolesApart
<1>2. DOMAIN rest = DOMAIN u \ {p} /\ \A q \in DOMAIN rest : rest[q] = u[q]
  BY DEF Without
<1>3. CASE u[p] > n
  <2> DEFINE m == u[p] - n
  <2>1. /\ DOMAIN u' = DOMAIN rest \cup {p + n}
        /\ u'[p + n] = m
        /\ \A q \in DOMAIN rest : q # p + n => u'[q] = rest[q]
    <3>1. DOMAIN With(rest, p + n, m) = DOMAIN rest \cup {p + n}
      BY WithDomain
    <3>2. With(rest, p + n, m)[p + n] = m
      BY WithNew
    <3>3. \A q \in DOMAIN rest : q # p + n => With(rest, p + n, m)[q] = rest[q]
      BY WithOld
    <3> QED
      BY <1>3, <3>1, <3>2, <3>3
  <2>2. \A q \in DOMAIN u \ {p} : q + u[q] # p + n
    <3> SUFFICES ASSUME NEW q \in DOMAIN u \ {p}, q + u[q] = p + n
                 PROVE  FALSE
      OBVIOUS
    <3>1. q \in Int /\ p \in Int /\ u[q] \in Nat \ {0} /\ u[p] \in Nat
      BY <1>1
    <3>2. p + n - 1 \in Span(q, u[q]) /\ p + n - 1 \in Span(p, u[p])
      <4> HIDE DEF u
      <4> QED
        BY <1>3, <3>1 DEF Span
    <3> QED
      BY <3>2, HoleUnique
  <2> HIDE DEF u, rest
  <2>3. ASSUME NEW q \in DOMAIN u'
        PROVE  q + u'[q] \notin DOMAIN u'
    <3>1. CASE q = p + n
      <4>1. q + u'[q] = p + u[p]
        BY <1>1, <2>1, <3>1 DEF u
      <4>2. p + u[p] \notin DOMAIN u /\ p + u[p] # p + n
        BY <1>1, <1>3 DEF u
      <4> QED
        BY <1>2, <2>1, <4>1, <4>2
    <3>2. CASE q \in DOMAIN rest /\ u'[q] = u[q]
      BY <1>1, <1>2, <2>1, <2>2, <3>2
    <3> QED
      BY <1>2, <2>1, <3>1, <3>2
  <2> QED
    BY <2>3 DEF HolesApart, u
<1>4. CASE ~(u[p] > n)
  <2>1. u' = rest
    BY <1>4
  <2> HIDE DEF u, rest
  <2> QED
    BY <1>1, <1>2, <2>1 DEF HolesApart, u
<1> QED
  BY <1>3, <1>4

(* Neighbouring holes are merged whatever happens.                          *)
LEMMA NextHolesApart == IInv /\ HolesApart /\ [Next]_vars => HolesApart'
<1> SUFFICES ASSUME IInv, HolesApart, [Next]_vars
             PROVE  HolesApart'
  OBVIOUS
<1>1. CASE UNCHANGED unmapped_regions
  BY <1>1 DEF HolesApart
<1>2. TypeInv
  BY DEF IInv
<1>3. ASSUME NEW z \in call.scan, cleanup_zombie_regions(z)
      PROVE  HolesApart'
  <2>1. z \in zombie_regions
    BY DEF IInv, CallInv
  <2>2. z.ptr \in Int /\ z.size \in Nat
    BY <1>2, <2>1, ZombieTyped
  <2>3. \/ UNCHANGED unmapped_regions
        \/ unmapped_regions' = insert_unmapped_region(unmapped_regions, z.ptr, z.size)
    BY <1>3 DEF cleanup_zombie_regions
  <2> QED
    BY <1>1, <1>2, <2>2, <2>3, HolesInserted
<1>4. ASSUME take_unmapped_region
      PROVE  HolesApart'
  <2>1. call.size \in Nat \ {0}
    BY <1>4, Sizes DEF take_unmapped_region, InCall
  <2>2. ASSUME NEW p \in DOMAIN unmapped_regions, unmapped_regions[p] >= call.size,
               LET n == unmapped_regions[p]
                   u == Without(unmapped_regions, {p})
               IN  unmapped_regions' =
                     IF n > call.size THEN With(u, p + call.size, n - call.size) ELSE u
        PROVE  HolesApart'
    <3>1. call.size <= unmapped_regions[p]
      BY <2>1, <2>2 DEF IInv, TypeInv
    <3> QED
      BY <2>1, <2>2, <3>1, HoleCut
  <2>3. ASSUME NEW base \in VaBase, base \in Int, call.size <= VaSize,
               unmapped_regions' = insert_unmapped_region(unmapped_regions, base + call.size,
                                                          VaSize - call.size)
        PROVE  HolesApart'
    <3>1. base + call.size \in Int /\ VaSize - call.size \in Nat
      BY <2>1, <2>3, PoolAssumption
    <3> QED
      BY <1>2, <2>3, <3>1, HolesInserted
  <2> QED
    BY <1>1, <1>4, <2>2, <2>3, TakeUnmappedChoice
<1>5. ASSUME rollback_new_pages
      PROVE  HolesApart'
  <2>1. /\ call.pc = "create"
        /\ unmapped_regions' = insert_unmapped_region(unmapped_regions, call.dst, call.size)
    BY <1>5 DEF rollback_new_pages
  <2>2. call.dst \in Int /\ call.size \in Nat
    BY <2>1, GrowingTypes DEF Growing
  <2> QED
    BY <1>2, <2>1, <2>2, HolesInserted
<1>6. ASSUME drop
      PROVE  HolesApart'
  BY <1>6 DEF drop, EmptyMap, HolesApart
<1>7. ASSUME \/ \E s \in Stream, n \in Request : malloc_internal(s, n)
             \/ find_best_fit \/ create_new_page \/ creation_fails \/ insert_new_pages
             \/ no_new_pages \/ harvest_free_region \/ remap_regions
             \/ \E k \in DOMAIN call.moves \cup {call.next} : remap_fails(k)
             \/ hand_out_defragmented
      PROVE  UNCHANGED unmapped_regions
  BY <1>7 DEF malloc_internal, find_best_fit, create_new_page, creation_fails,
     insert_new_pages, no_new_pages, harvest_free_region, remap_regions, remap_fails,
     hand_out_defragmented
<1>8. ASSUME \/ \E p \in DOMAIN malloc_regions : free_internal(p)
             \/ \E p \in DOMAIN malloc_regions, k \in Kernel : Launch(p, k)
             \/ \E id \in DOMAIN ops : Device(id)
             \/ Dropped
             \/ UNCHANGED vars
      PROVE  UNCHANGED unmapped_regions
  BY <1>8 DEF free_internal, Launch, Device, Dropped, vars, pool_vars
<1> QED
  BY <1>1, <1>3, <1>4, <1>5, <1>6, <1>7, <1>8 DEF Next, CallStep

LEMMA KeptStray ==
  ASSUME NothingStray, Held' = Held,
         UNCHANGED <<page_table, physical, active_pages, zombie_regions>>
  PROVE  NothingStray'
  BY DEF NothingStray, ZombiePages

LEMMA MallocStray ==
  ASSUME NothingStray, NEW s \in Stream, NEW n \in Request, malloc_internal(s, n)
  PROVE  NothingStray'
<1>1. /\ call.pc = "idle" /\ call'.pc = "cleanup"
      /\ UNCHANGED <<page_table, physical, active_pages, free_regions, malloc_regions,
                     zombie_regions>>
  BY DEF malloc_internal, NoCall, device_vars
<1>2. Held' = Held
  BY <1>1 DEF Held, FreePages, MallocPages, Created, Sources
<1> QED
  BY <1>1, <1>2, KeptStray

LEMMA CleanupStray ==
  ASSUME OnlyOutOfMemory, IInv, NothingStray, NEW z \in call.scan, cleanup_zombie_regions(z)
  PROVE  NothingStray'
<1>1. /\ call.pc = "cleanup" /\ call'.pc = "cleanup"
      /\ UNCHANGED <<physical, active_pages, free_regions, malloc_regions>>
  BY DEF cleanup_zombie_regions, IInv, CallInv, CallShape
<1>2. Held' = Held /\ Held = FreePages \cup MallocPages
  BY <1>1 DEF Held, FreePages, MallocPages, Created, Sources
<1>3. CASE /\ zombie_regions' = zombie_regions \ {z}
           /\ page_table' = Without(page_table, Span(z.ptr, z.size))
  <2>1. z \in zombie_regions /\ Span(z.ptr, z.size) \subseteq ZombiePages
    BY ZombieSpan
  <2>2. Held \cap Span(z.ptr, z.size) = {}
    BY <1>2, <2>1, PageLayout
  <2>3. ASSUME NEW y \in zombie_regions, NEW x \in Span(y.ptr, y.size),
               x \in Span(z.ptr, z.size)
        PROVE  y = z
    <3> DEFINE c == Claim("zombie", y.ptr, y.size, y.event)
               d == Claim("zombie", z.ptr, z.size, z.event)
    <3>1. /\ x \in Int /\ In(x, c) /\ In(x, d) /\ c \in Claims /\ d \in Claims
      BY <2>1, <2>3, ZombiePage DEF Claims
    <3>2. c = d
      <4> HIDE DEF c, d
      <4> QED
        BY <3>1 DEF IInv, Layout, Disjoint
    <3>3. y.ptr = z.ptr /\ y.size = z.size /\ y.event = z.event
      BY <3>2, ClaimEq
    <3>4. /\ y = [ptr |-> y.ptr, size |-> y.size, event |-> y.event]
          /\ z = [ptr |-> z.ptr, size |-> z.size, event |-> z.event]
      BY <2>1, ZombieTyped DEF IInv
    <3> QED
      BY <3>3, <3>4
  <2>4. ZombiePages' = ZombiePages \ Span(z.ptr, z.size)
    BY <1>3, <2>1, <2>3 DEF ZombiePages
  <2>5. DOMAIN page_table' = DOMAIN page_table \ Span(z.ptr, z.size)
    BY <1>3 DEF Without
  <2> QED
    BY <1>1, <1>2, <2>2, <2>4, <2>5 DEF NothingStray
<1>4. CASE UNCHANGED <<zombie_regions, page_table>>
  BY <1>1, <1>2, <1>4, KeptStray
<1>5. "unmap" \notin Faults
  BY DEF OnlyOutOfMemory
<1> QED
  BY <1>3, <1>4, <1>5 DEF cleanup_zombie_regions

(* HandOut turns free pages into allocated ones and loses none.             *)
LEMMA HandOutKeeps ==
  ASSUME IInv, InCall, NEW f, DOMAIN f = DOMAIN free_regions,
         \A q \in DOMAIN f : f[q].size = free_regions[q].size,
         f \in [DOMAIN f -> FreeRegion(free_num)],
         NEW p \in DOMAIN f, f[p].size >= call.size, HandOut(f, p)
  PROVE  FreePages \cup MallocPages \subseteq FreePages' \cup MallocPages'
<1>1. call.size \in Nat \ {0} /\ call.size <= f[p].size
  BY Sizes, FreeFirst
<1>2. /\ \A q \in DOMAIN free_regions \ {p} :
           q \in DOMAIN free_regions' /\ free_regions'[q] = f[q]
      /\ \A x \in Span(p, free_regions[p].size) :
           \/ x \in Span(p, call.size)
           \/ /\ p + call.size \in DOMAIN free_regions'
              /\ x \in Span(p + call.size, free_regions'[p + call.size].size)
  <2>1. free_regions' = CutFront(f, p, call.size)
    BY DEF HandOut
  <2> QED
    BY <1>1, <2>1, CutFrontCovers
<1>3. /\ p \in DOMAIN malloc_regions' /\ malloc_regions'[p].size = call.size
      /\ \A q \in DOMAIN malloc_regions \ {p} :
           q \in DOMAIN malloc_regions' /\ malloc_regions'[q] = malloc_regions[q]
  <2> DEFINE r == [size |-> call.size, stream |-> call.stream]
  <2>1. malloc_regions' = With(malloc_regions, p, r) /\ r.size = call.size
    BY DEF HandOut
  <2> HIDE DEF r
  <2> QED
    BY <2>1 DEF With
<1>4. p \notin DOMAIN malloc_regions
  <2>1. p \in FreePages
    BY FreeFirst DEF FreePages
  <2>2. p \in DOMAIN malloc_regions => p \in MallocPages
    <3>1. TypeInv
      BY DEF IInv
    <3>2. p \in DOMAIN malloc_regions => p \in Span(p, malloc_regions[p].size)
      BY <3>1, MallocTyped DEF Span
    <3> QED
      BY <3>2 DEF MallocPages
  <2> QED
    BY <2>1, <2>2, PageLayout
<1>5. Span(p, call.size) \subseteq MallocPages'
  BY <1>3 DEF MallocPages
<1>6. MallocPages \subseteq MallocPages'
  BY <1>3, <1>4 DEF MallocPages
<1>7. FreePages \subseteq FreePages' \cup Span(p, call.size)
  BY <1>2 DEF FreePages
<1> QED
  BY <1>5, <1>6, <1>7

LEMMA HandOutStray ==
  ASSUME IInv, NothingStray, InCall, ~Growing,
         NEW f, DOMAIN f = DOMAIN free_regions,
         \A q \in DOMAIN f : f[q].size = free_regions[q].size,
         f \in [DOMAIN f -> FreeRegion(free_num)],
         NEW p \in DOMAIN f, f[p].size >= call.size, HandOut(f, p),
         UNCHANGED <<device_vars, active_pages, zombie_regions>>
  PROVE  NothingStray'
<1>1. Created' = {} /\ Sources' = {} /\ Created = {} /\ Sources = {}
  BY ReturnNone, NoneUnderway DEF HandOut, Growing
<1>2. FreePages' \cup MallocPages' \subseteq FreePages \cup MallocPages
  BY HandOutPages
<1>3. FreePages \cup MallocPages \subseteq FreePages' \cup MallocPages'
  BY HandOutKeeps
<1>4. Held' = Held
  BY <1>1, <1>2, <1>3 DEF Held
<1> QED
  BY <1>4, KeptStray DEF device_vars

LEMMA FindBestFitStray ==
  ASSUME IInv, NothingStray, find_best_fit
  PROVE  NothingStray'
<1>1. /\ call.pc = "cleanup" /\ InCall /\ ~Growing
      /\ UNCHANGED <<device_vars, active_pages, zombie_regions>>
  BY DEF find_best_fit, InCall, Growing
<1>2. CASE /\ call' = [call EXCEPT !.pc = "hole"]
           /\ UNCHANGED <<free_regions, malloc_regions>>
  <2>1. call'.pc = "hole"
    BY <1>2 DEF IInv, CallInv, CallShape
  <2>2. Held' = Held
    BY <1>1, <1>2, <2>1 DEF Held, FreePages, MallocPages, Created, Sources
  <2> QED
    BY <1>1, <2>2, KeptStray DEF device_vars
<1>3. ASSUME NEW p \in DOMAIN free_regions, NEW f, DOMAIN f = DOMAIN free_regions,
             free_regions[p].size >= call.size,
             \A q \in DOMAIN f : f[q].size = free_regions[q].size,
             f \in [DOMAIN f -> FreeRegion(free_num)],
             HandOut(f, p)
      PROVE  NothingStray'
  BY <1>1, <1>3, HandOutStray
<1> QED
  BY <1>2, <1>3, BestFitChoice

LEMMA TakeUnmappedStray ==
  ASSUME IInv, NothingStray, take_unmapped_region
  PROVE  NothingStray'
<1>1. /\ call.pc = "hole"
      /\ UNCHANGED <<page_table, physical, active_pages, free_regions, malloc_regions,
                     zombie_regions>>
  BY DEF take_unmapped_region, device_vars
<1>2. Created' = {} /\ Sources' = {}
  BY <1>1, OpenedAt, ReturnNone, TakeUnmappedChoice, PoolAssumption
<1>3. Held' = Held
  BY <1>1, <1>2 DEF Held, FreePages, MallocPages, Created, Sources
<1> QED
  BY <1>1, <1>3, KeptStray

(* The driver maps no address of the hole.                                  *)
LEMMA HoleUnmapped ==
  ASSUME IInv, BackInv, NothingStray
  PROVE  (HolePages \ Created) \cap DOMAIN page_table = {}
<1>1. HolePages \cap (FreePages \cup MallocPages \cup ZombiePages) = {}
  BY PageLayout
<1>2. Sources \subseteq ZombiePages
  BY DEF BackInv
<1> QED
  BY <1>1, <1>2 DEF NothingStray, Held

LEMMA CreatePageStray ==
  ASSUME OnlyOutOfMemory, IInv, BackInv, NothingStray, create_new_page
  PROVE  NothingStray'
<1> DEFINE n == call.next
<1>1. /\ call.pc = "create" /\ n < call.goal
      /\ UNCHANGED <<free_regions, malloc_regions, zombie_regions>>
  BY DEF create_new_page
<1>2. /\ n \in Int /\ call.dst \in Int /\ call.goal \in Int /\ call.size \in Nat
      /\ call.dst <= n /\ call.goal <= call.dst + call.size
  BY <1>1, GrowingTypes, CreatedInHole DEF Growing
<1>3. Created = Span(call.dst, n - call.dst) /\ HolePages = Span(call.dst, call.size)
  BY <1>1 DEF Created, HolePages
<1> HIDE DEF n
<1>4. n \in HolePages \ Created
  BY <1>1, <1>2, <1>3, SMTT(30) DEF Span
<1>5. n \notin DOMAIN page_table /\ n \notin DOMAIN active_pages
  BY <1>4, HoleUnmapped DEF NothingStray
<1>6. ~MapFails(n)
  BY <1>5 DEF MapFails, OnlyOutOfMemory
<1>7. PICK h : /\ physical' = physical \cup {h}
               /\ page_table' = With(page_table, n, h)
               /\ active_pages' = With(active_pages, n, h)
               /\ call' = [call EXCEPT !.next = @ + 1]
  BY <1>6 DEF create_new_page, n
<1>8. call'.pc = "create" /\ call'.next = n + 1 /\ call'.dst = call.dst
  BY <1>1, <1>7 DEF IInv, CallInv, CallShape, n
<1>9. Created' = Created \cup {n}
  <2>1. Created' = Span(call'.dst, call'.next - call'.dst)
    BY <1>8 DEF Created
  <2> QED
    BY <1>2, <1>3, <1>8, <2>1, SMTT(30) DEF Span
<1>10. Held' = Held \cup {n}
  <2>1. Sources = {} /\ Sources' = {}
    BY <1>1, <1>8 DEF Sources
  <2> QED
    BY <1>1, <1>9, <2>1 DEF Held, FreePages, MallocPages
<1>11. /\ DOMAIN page_table' = DOMAIN page_table \cup {n}
       /\ DOMAIN active_pages' = DOMAIN active_pages \cup {n}
       /\ active_pages'[n] = h
       /\ \A a \in DOMAIN active_pages : active_pages'[a] = active_pages[a]
  BY <1>5, <1>7 DEF With
<1>12. Range(active_pages') = Range(active_pages) \cup {h}
  BY <1>11 DEF Range
<1>13. ZombiePages' = ZombiePages
  BY <1>1 DEF ZombiePages
<1> QED
  BY <1>7, <1>10, <1>11, <1>12, <1>13 DEF NothingStray

LEMMA RollbackStray ==
  ASSUME OnlyOutOfMemory, IInv, BackInv, NothingStray, rollback_new_pages
  PROVE  NothingStray'
<1>1. /\ call.pc = "create" /\ Return /\ Undo(Created)
      /\ UNCHANGED <<free_regions, malloc_regions, zombie_regions>>
  BY DEF rollback_new_pages, Created
<1>2. Created' = {} /\ Sources' = {} /\ Sources = {}
  BY <1>1, ReturnNone DEF Sources
<1>3. /\ page_table' = Without(page_table, Created)
      /\ active_pages' = Without(active_pages, Created)
      /\ physical' = physical \ {active_pages[a] : a \in Created}
  BY <1>1 DEF Undo, OnlyOutOfMemory
<1>4. /\ DOMAIN page_table' = DOMAIN page_table \ Created
      /\ DOMAIN active_pages' = DOMAIN active_pages \ Created
      /\ \A a \in DOMAIN active_pages \ Created : active_pages'[a] = active_pages[a]
  BY <1>3 DEF Without
<1>5. Created \cap (FreePages \cup MallocPages \cup ZombiePages) = {}
  BY <1>1, CreatedInHole, PageLayout
<1>6. Held' = FreePages \cup MallocPages /\ ZombiePages' = ZombiePages
  BY <1>1, <1>2 DEF Held, FreePages, MallocPages, ZombiePages
<1>7. Created \subseteq DOMAIN active_pages
      /\ \A a, b \in DOMAIN active_pages : active_pages[a] = active_pages[b] => a = b
  BY DEF BackInv, Backed, Held, IsInjective
<1>8. Range(active_pages') = Range(active_pages) \ {active_pages[a] : a \in Created}
  BY <1>4, <1>7 DEF Range
<1> QED
  BY <1>2, <1>3, <1>4, <1>5, <1>6, <1>8 DEF NothingStray, Held

LEMMA InsertNewPagesStray ==
  ASSUME IInv, NothingStray, insert_new_pages
  PROVE  NothingStray'
<1> DEFINE n == call.goal - call.dst
<1>1. /\ call.pc = "create" /\ call.next = call.goal /\ call.goal > call.dst
      /\ free_region_insert(call.dst, n, call.stream)
      /\ call'.pc \in {"take", "harvest"} /\ call'.moves = call.moves
      /\ UNCHANGED <<page_table, physical, active_pages, malloc_regions, zombie_regions>>
  BY DEF insert_new_pages, IInv, CallInv, CallShape
<1>2. /\ call.dst \in Int /\ n \in Nat \ {0} /\ call.stream \in AllStreams
  BY <1>1, GrowingTypes DEF Growing, AllStreams
<1>3. Created' = {} /\ Sources' = {} /\ Sources = {}
  BY <1>1 DEF Created, Sources, Range, IInv, CallInv
<1>4. Span(call.dst, n) = Created
  BY <1>1 DEF Created
<1>5. Span(call.dst, n) \cap FreePages = {}
  BY <1>1, <1>4, CreatedInHole, PageLayout
<1>6. FreePages' = FreePages \cup Created
  <2> HIDE DEF n
  <2> QED
    BY <1>1, <1>2, <1>4, <1>5, FreeInserted
<1>7. Held' = Held
  BY <1>1, <1>3, <1>6 DEF Held, MallocPages
<1> QED
  BY <1>1, <1>7, KeptStray

LEMMA NoNewPagesStray ==
  ASSUME IInv, NothingStray, no_new_pages
  PROVE  NothingStray'
<1>1. /\ call.pc = "create" /\ call.goal = call.dst
      /\ call'.pc = "harvest" /\ call'.moves = call.moves
      /\ UNCHANGED <<page_table, physical, active_pages, free_regions, malloc_regions,
                     zombie_regions>>
  BY DEF no_new_pages, device_vars, IInv, CallInv, CallShape
<1>2. Created' = {} /\ Sources' = {} /\ Sources = {}
  BY <1>1 DEF Created, Sources, Range, IInv, CallInv
<1>3. Created = {}
  <2>1. call.dst \in Int /\ call.next = call.dst
    BY <1>1, GrowingTypes DEF Growing, IInv, CallInv
  <2> QED
    BY <1>1, <2>1 DEF Created, Span
<1>4. Held' = Held
  BY <1>1, <1>2, <1>3 DEF Held, FreePages, MallocPages
<1> QED
  BY <1>1, <1>4, KeptStray

(* The pages harvested from region p leave it and become a zombie.          *)
LEMMA HarvestPages ==
  ASSUME IInv, NEW p \in DOMAIN free_regions, NEW take \in Nat \ {0},
         take <= free_regions[p].size,
         free_regions' = CutFront(free_regions, p, take),
         zombie_regions' = zombie_regions
           \cup {[ptr |-> p, size |-> take, event |-> free_regions[p].id]}
  PROVE  /\ FreePages' \cup Span(p, take) = FreePages
         /\ ZombiePages' = ZombiePages \cup Span(p, take)
<1>1. /\ p \in Nat /\ free_regions[p].size \in Nat /\ TypeInv
      /\ free_regions \in [DOMAIN free_regions -> FreeRegion(free_num)]
  BY FreeFirst DEF IInv, TypeInv
<1>2. FreePages' \cup Span(p, take) = FreePages
  <2>1. Span(p, take) \subseteq FreePages
    <3>1. Span(p, take) \subseteq Span(p, free_regions[p].size)
      BY <1>1 DEF Span
    <3> QED
      BY <3>1 DEF FreePages
  <2>2. FreePages' \subseteq FreePages
    <3>1. take \in Nat
      OBVIOUS
    <3>2. \A q \in DOMAIN free_regions' : \A x \in Span(q, free_regions'[q].size) :
            \E s \in DOMAIN free_regions :
              /\ free_regions'[q].stream = free_regions[s].stream
              /\ free_regions'[q].id = free_regions[s].id
              /\ x \in Span(s, free_regions[s].size)
              /\ s = p => ~(x \in Span(p, take))
      BY <1>1, <3>1, CutFrontPages, Z3T(30)
    <3> QED
      BY <3>2 DEF FreePages
  <2>3. FreePages \subseteq FreePages' \cup Span(p, take)
    <3>1. /\ \A q \in DOMAIN free_regions \ {p} :
               q \in DOMAIN free_regions' /\ free_regions'[q] = free_regions[q]
          /\ \A x \in Span(p, free_regions[p].size) :
               \/ x \in Span(p, take)
               \/ /\ p + take \in DOMAIN free_regions'
                  /\ x \in Span(p + take, free_regions'[p + take].size)
      BY <1>1, CutFrontCovers
    <3> QED
      BY <3>1 DEF FreePages
  <2> QED
    BY <2>1, <2>2, <2>3
<1>3. ZombiePages' = ZombiePages \cup Span(p, take)
  <2> DEFINE z == [ptr |-> p, size |-> take, event |-> free_regions[p].id]
  <2>1. z.ptr = p /\ z.size = take /\ zombie_regions' = zombie_regions \cup {z}
    OBVIOUS
  <2> HIDE DEF z
  <2> QED
    BY <2>1 DEF ZombiePages
<1> QED
  BY <1>2, <1>3

LEMMA HarvestStray ==
  ASSUME OnlyOutOfMemory, IInv, NothingStray, harvest_free_region
  PROVE  NothingStray'
<1>1. /\ call.pc = "harvest"
      /\ UNCHANGED <<page_table, physical, active_pages, malloc_regions>>
  BY DEF harvest_free_region
<1>2. PICK p \in DOMAIN free_regions, take \in Nat \ {0} :
        /\ take <= free_regions[p].size
        /\ zombie_regions' = zombie_regions
             \cup {[ptr |-> p, size |-> take, event |-> free_regions[p].id]}
        /\ free_regions' = CutFront(free_regions, p, take)
        /\ call'.pc = "harvest"
        /\ DOMAIN call'.moves = DOMAIN call.moves \cup Span(call.next, take)
        /\ \A d \in Span(call.next, take) :
             d \in Int /\ call'.moves[d] = p + (d - call.next)
        /\ \A d \in DOMAIN call.moves : call'.moves[d] = call.moves[d]
  BY HarvestStep DEF OnlyOutOfMemory
<1>3. /\ p \in Nat /\ free_regions[p].size \in Nat /\ call.next \in Int
  BY <1>1, FreeFirst, GrowingTypes DEF Growing
<1>4. /\ FreePages' \cup Span(p, take) = FreePages
      /\ ZombiePages' = ZombiePages \cup Span(p, take)
  BY <1>2, HarvestPages
<1>5. Sources' = Sources \cup Span(p, take)
  <2>1. /\ Sources = {call.moves[d] : d \in DOMAIN call.moves}
        /\ Sources' = {call'.moves[d] : d \in DOMAIN call'.moves}
    BY <1>1, <1>2 DEF Sources, Range
  <2>2. {call'.moves[d] : d \in Span(call.next, take)} = Span(p, take)
    <3>1. \A d \in Span(call.next, take) : call'.moves[d] \in Span(p, take)
      BY <1>2, <1>3, InSpan
    <3>2. ASSUME NEW x \in Span(p, take)
          PROVE  \E d \in Span(call.next, take) : call'.moves[d] = x
      <4>1. x \in Int /\ p <= x /\ x < p + take
        BY <1>3, InSpan
      <4> DEFINE d == call.next + (x - p)
      <4>2. d \in Span(call.next, take) /\ p + (d - call.next) = x
        BY <1>3, <4>1 DEF Span
      <4> HIDE DEF d
      <4>3. call'.moves[d] = x
        BY <1>2, <4>2
      <4> QED
        BY <4>2, <4>3
    <3> QED
      BY <3>1, <3>2
  <2> QED
    BY <1>2, <2>1, <2>2
<1>6. Held' = Held
  <2>1. Created = {} /\ Created' = {}
    BY <1>1, <1>2 DEF Created
  <2> QED
    BY <1>1, <1>4, <1>5, <2>1 DEF Held, MallocPages
<1> QED
  BY <1>1, <1>4, <1>6 DEF NothingStray, Held

LEMMA RemapStray ==
  ASSUME IInv, BackInv, NothingStray, remap_regions
  PROVE  NothingStray'
<1> DEFINE D == DOMAIN call.moves
           n == call.next - call.goal
<1>1. /\ call.pc = "harvest" /\ call.left = 0
      /\ D \cap DOMAIN page_table = {}
      /\ active_pages' = Remapped(D)
      /\ page_table' = DoubleMapped(D)
      /\ free_region_insert(call.goal, n, call.stream)
      /\ UNCHANGED <<physical, malloc_regions, zombie_regions>>
  BY DEF remap_regions
<1>2. call'.pc = "take"
  BY DEF remap_regions, IInv, CallInv, CallShape
<1>3. /\ call.goal \in Int /\ n \in Nat \ {0} /\ call.stream \in AllStreams
      /\ Span(call.goal, n) = D
  BY RemapTyped
<1>4. FreePages' = FreePages \cup D
  <2>1. Span(call.goal, n) \cap FreePages = {}
    BY <1>1, <1>3, MovesInHolePages, PageLayout
  <2>2. FreePages' = FreePages \cup Span(call.goal, n)
    <3> HIDE DEF n
    <3> QED
      BY <1>1, <1>3, <2>1, FreeInserted
  <2> QED
    BY <1>3, <2>2
<1>5. Sources = {call.moves[d] : d \in D} /\ Sources \subseteq ZombiePages
  BY <1>1 DEF Sources, Range, BackInv
<1>6. Held = FreePages \cup MallocPages \cup Sources
      /\ Held' = FreePages \cup D \cup MallocPages
  BY <1>1, <1>2, <1>4 DEF Held, MallocPages, Created, Sources
<1>7. Sources \cap (FreePages \cup MallocPages) = {}
  BY <1>5, PageLayout
<1>8. /\ DOMAIN active_pages' = (DOMAIN active_pages \ Sources) \cup D
      /\ \A a \in D : active_pages'[a] = active_pages[call.moves[a]]
      /\ \A a \in DOMAIN active_pages \ Sources : a \notin D => active_pages'[a] = active_pages[a]
      /\ DOMAIN page_table' = DOMAIN page_table \cup D
  BY <1>1, <1>5 DEF Remapped, DoubleMapped
<1>9. D \cap DOMAIN active_pages = {} /\ Sources \subseteq DOMAIN active_pages
  BY <1>1, <1>6 DEF NothingStray
<1> HIDE DEF D
<1>10. Range(active_pages') = Range(active_pages)
  <2>1. \A a \in DOMAIN active_pages' : active_pages'[a] \in Range(active_pages)
    BY <1>5, <1>8, <1>9 DEF Range
  <2>2. \A a \in DOMAIN active_pages : active_pages[a] \in Range(active_pages')
    BY <1>5, <1>8, <1>9 DEF Range
  <2> QED
    BY <2>1, <2>2 DEF Range
<1>11. ZombiePages' = ZombiePages
  BY <1>1 DEF ZombiePages
<1> QED
  BY <1>1, <1>5, <1>6, <1>7, <1>8, <1>10, <1>11 DEF NothingStray

(* The other ways to fail do not happen.                                    *)
LEMMA NoOtherFailure ==
  ASSUME OnlyOutOfMemory, IInv, BackInv, NothingStray
  PROVE  ~creation_fails /\ \A k \in DOMAIN call.moves \cup {call.next} : ~remap_fails(k)
<1>1. ~creation_fails
  BY DEF creation_fails, OnlyOutOfMemory
<1>2. ASSUME NEW k, remap_fails(k)
      PROVE  FALSE
  <2>1. call.pc = "harvest" /\ call.left = 0 /\ k \in DOMAIN call.moves /\ MapFails(k)
    BY <1>2 DEF remap_fails, OnlyOutOfMemory
  <2>2. k \in HolePages \ Created
    BY <2>1, MovesInHolePages DEF Created
  <2>3. k \notin DOMAIN page_table
    BY <2>2, HoleUnmapped
  <2> QED
    BY <2>1, <2>3 DEF MapFails, OnlyOutOfMemory
<1> QED
  BY <1>1, <1>2

LEMMA TakeStray ==
  ASSUME IInv, NothingStray, hand_out_defragmented
  PROVE  NothingStray'
<1>1. /\ call.ptr \in DOMAIN free_regions /\ free_regions[call.ptr].size >= call.size
      /\ InCall /\ ~Growing /\ UNCHANGED <<device_vars, active_pages, zombie_regions>>
  BY DEF hand_out_defragmented, IInv, CallInv, RegionFound, InCall, Growing
<1>2. free_regions \in [DOMAIN free_regions -> FreeRegion(free_num)]
  BY DEF IInv, TypeInv
<1> QED
  BY <1>1, <1>2, HandOutStray DEF hand_out_defragmented

LEMMA FreeStray ==
  ASSUME IInv, NothingStray, NEW p \in DOMAIN malloc_regions, free_internal(p)
  PROVE  NothingStray'
<1> DEFINE n == malloc_regions[p].size
           s == malloc_regions[p].stream
<1>1. /\ call.pc = "idle" /\ call' = call
      /\ free_region_insert(p, n, s)
      /\ malloc_regions' = Without(malloc_regions, {p})
      /\ UNCHANGED <<page_table, physical, active_pages, zombie_regions>>
  BY DEF free_internal
<1>2. p \in Int /\ n \in Nat \ {0} /\ s \in AllStreams
  BY MallocTyped DEF IInv, AllStreams
<1>3. Span(p, n) \subseteq MallocPages
  BY DEF MallocPages
<1>4. Span(p, n) \cap FreePages = {}
  BY <1>3, PageLayout
<1>5. FreePages' = FreePages \cup Span(p, n)
  <2> HIDE DEF n, s
  <2> QED
    BY <1>1, <1>2, <1>4, FreeInserted
<1>6. MallocPages' \cup Span(p, n) = MallocPages
  BY <1>1, <1>3 DEF MallocPages, Without
<1>7. Held' = Held
  BY <1>1, <1>5, <1>6 DEF Held, Created, Sources
<1> QED
  BY <1>1, <1>7, KeptStray

LEMMA DropStray ==
  ASSUME IInv, NothingStray, drop
  PROVE  NothingStray'
<1>1. call.pc = "idle" /\ call'.pc = "dropped"
  BY DEF drop, NoCall
<1>2. /\ DOMAIN free_regions' = {} /\ DOMAIN malloc_regions' = {}
      /\ DOMAIN active_pages' = {} /\ zombie_regions' = {}
      /\ physical' = physical \ Range(active_pages)
      /\ DOMAIN page_table' = DOMAIN page_table \ (DOMAIN active_pages \cup ZombiePages)
  BY DEF drop, EmptyMap, Without, ZombiePages
<1>3. Held' = {} /\ ZombiePages' = {}
  BY <1>1, <1>2 DEF Held, FreePages, MallocPages, Created, Sources, ZombiePages
<1>4. Range(active_pages') = {}
  BY <1>2 DEF Range
<1> QED
  BY <1>2, <1>3, <1>4 DEF NothingStray

LEMMA InitStray == Init => NothingStray /\ HolesApart
<1> SUFFICES ASSUME Init
             PROVE  NothingStray /\ HolesApart
  OBVIOUS
<1> DEFINE pages(base) ==
             CHOOSE m \in [Span(base, InitialPages) -> Handle] : IsInjective(m)
<1>1. PICK base \in VaBase :
        /\ active_pages = pages(base) /\ page_table = pages(base)
        /\ physical = Range(pages(base))
        /\ free_regions = [p \in IF InitialPages > 0 THEN {base} ELSE {} |->
                            [size |-> InitialPages, stream |-> InitStream, id |-> 0]]
        /\ unmapped_regions = [p \in IF InitialPages < VaSize
                                     THEN {base + InitialPages} ELSE {} |->
                                 VaSize - InitialPages]
        /\ malloc_regions = EmptyMap
        /\ zombie_regions = {}
        /\ call = NoCall
  BY DEF Init
<1>2. DOMAIN pages(base) = Span(base, InitialPages)
  <2>1. pages(base) \in [Span(base, InitialPages) -> Handle]
    BY PreallocationAssumption
  <2> QED
    BY <2>1
<1> HIDE DEF pages
<1>3. Created = {} /\ Sources = {}
  BY <1>1 DEF Created, Sources, NoCall
<1>4. MallocPages = {} /\ ZombiePages = {}
  BY <1>1 DEF MallocPages, ZombiePages, EmptyMap
<1>5. FreePages = Span(base, InitialPages)
  <2>1. base \in Int /\ InitialPages \in Nat
    BY PoolAssumption
  <2>2. CASE InitialPages > 0
    <3>1. DOMAIN free_regions = {base} /\ free_regions[base].size = InitialPages
      BY <1>1, <2>2
    <3> QED
      BY <3>1 DEF FreePages
  <2>3. CASE ~(InitialPages > 0)
    <3>1. DOMAIN free_regions = {}
      BY <1>1, <2>3
    <3>2. Span(base, InitialPages) = {}
      BY <2>1, <2>3 DEF Span
    <3> QED
      BY <3>1, <3>2 DEF FreePages
  <2> QED
    BY <2>2, <2>3
<1>6. HolesApart
  <2>1. base \in Int /\ InitialPages \in Int /\ VaSize \in Int
    BY PoolAssumption
  <2> QED
    BY <1>1, <2>1 DEF HolesApart
<1> QED
  BY <1>1, <1>2, <1>3, <1>4, <1>5, <1>6 DEF NothingStray, Held

LEMMA StutterStray ==
  ASSUME NothingStray, UNCHANGED <<page_table, physical, pool_vars>>
  PROVE  NothingStray'
  BY DEF NothingStray, Held, FreePages, MallocPages, ZombiePages, Created, Sources,
         pool_vars

LEMMA NextStray ==
  OnlyOutOfMemory /\ IInv /\ BackInv /\ NothingStray /\ [Next]_vars => NothingStray'
<1> SUFFICES ASSUME OnlyOutOfMemory, IInv, BackInv, NothingStray, [Next]_vars
             PROVE  NothingStray'
  OBVIOUS
<1>1. CASE \E s \in Stream, n \in Request : malloc_internal(s, n)
  BY <1>1, MallocStray
<1>2. CASE CallStep
  BY <1>2, CleanupStray, FindBestFitStray, TakeUnmappedStray, CreatePageStray,
     RollbackStray, InsertNewPagesStray, NoNewPagesStray, HarvestStray, RemapStray,
     NoOtherFailure, TakeStray DEF CallStep
<1>3. CASE \E p \in DOMAIN malloc_regions : free_internal(p)
  BY <1>3, FreeStray
<1>4. CASE drop
  BY <1>4, DropStray
<1>5. CASE UNCHANGED <<page_table, physical, pool_vars>>
  BY <1>5, StutterStray
<1>6. ASSUME \/ \E p \in DOMAIN malloc_regions, k \in Kernel : Launch(p, k)
             \/ \E id \in DOMAIN ops : Device(id)
             \/ Dropped
             \/ UNCHANGED vars
      PROVE  UNCHANGED <<page_table, physical, pool_vars>>
  BY <1>6 DEF Launch, Device, Retire, Dropped, vars, device_vars
<1> QED
  BY <1>1, <1>2, <1>3, <1>4, <1>5, <1>6 DEF Next

(* Together the parts are inductive.                                        *)
LeakInv == IInv /\ BackInv /\ HarvestInv /\ NothingStray /\ HolesApart

(* They hold of every behaviour in which driver calls fail, if they do,     *)
(* only for want of memory.                                                 *)
THEOREM LeakInvariant ==
  ASSUME OnlyOutOfMemory
  PROVE  Spec => []LeakInv
<1>1. Init => LeakInv
  <2>1. Init => HarvestInv
    <3>1. Init => call.pc = "idle"
      BY DEF Init, NoCall
    <3> QED
      BY <3>1 DEF HarvestInv
  <2> QED
    BY <2>1, InitIInv, InitBack, InitStray DEF LeakInv
<1>2. LeakInv /\ [Next]_vars => LeakInv'
  BY NextIInv, NextBack, NextSuffices, NextStray, NextHolesApart DEF LeakInv
<1> QED
  BY <1>1, <1>2, PTL DEF Spec

(* If the driver only ever runs out of memory, then between calls every     *)
(* physical page backs a page of a region, the driver maps only those and   *)
(* the zombies, and no two holes touch: whatever was merged, split,         *)
(* remapped or rolled back half-way.                                        *)
THEOREM CallsLeakNothing ==
  ASSUME Faults \subseteq {"oom"}
  PROVE  Spec => []NothingLeaks
<1>1. LeakInv => NothingLeaks
  <2> SUFFICES ASSUME LeakInv, call.pc \in {"idle", "dropped"}
               PROVE  NothingLeaks
    BY DEF NothingLeaks
  <2>1. Created = {} /\ Sources = {}
    BY DEF Created, Sources
  <2> QED
    BY <2>1 DEF LeakInv, NothingStray, HolesApart, Held, NothingLeaks
<1> QED
  BY <1>1, LeakInvariant, PTL DEF OnlyOutOfMemory

(* A call that creates a page has created less than its shortfall so far:   *)
(* its page is live once the request is granted.                            *)
LEMMA CreatesLive ==
  ASSUME LeakInv, create_new_page, physical' # physical
  PROVE  Cardinality(physical') <= Cardinality(MallocPages) + call.size
<1>1. call.pc = "create" /\ call.next < call.goal
  BY DEF create_new_page
<1>2. /\ call.size \in Nat /\ call.dst \in Int /\ call.goal \in Int /\ call.next \in Int
      /\ call.dst <= call.next
  BY <1>1, GrowingTypes, CreatedInHole DEF Growing, LeakInv
<1>3. /\ IsFiniteSet(FreePages) /\ Cardinality(FreePages) \in Nat
      /\ call.size = (call.goal - call.dst) + Cardinality(FreePages)
  BY <1>1, <1>2, ShortfallMakesUp DEF LeakInv
<1>4. IsFiniteSet(MallocPages)
  BY PagesFinite DEF LeakInv
<1>5. /\ IsFiniteSet(Created)
      /\ Cardinality(Created) = call.next - call.dst
  <2>1. Created = Span(call.dst, call.next - call.dst)
    BY <1>1 DEF Created
  <2>2. call.next - call.dst \in Nat
    BY <1>2
  <2> QED
    BY <1>2, <2>1, <2>2, SpanCardinality
<1>6. /\ IsFiniteSet(MallocPages \cup FreePages)
      /\ Cardinality(MallocPages) \in Nat
      /\ Cardinality(MallocPages \cup FreePages) \in Nat
      /\ Cardinality(MallocPages \cup FreePages)
           <= Cardinality(MallocPages) + Cardinality(FreePages)
  BY <1>3, <1>4, CardinalityUnion
<1>7. Held = MallocPages \cup FreePages \cup Created
  BY <1>1 DEF Held, Sources
<1>8. /\ IsFiniteSet(Held) /\ Cardinality(Held) \in Nat
      /\ Cardinality(Held)
           <= Cardinality(MallocPages) + Cardinality(FreePages) + (call.next - call.dst)
  <2>1. /\ IsFiniteSet(Held) /\ Cardinality(Held) \in Nat
        /\ Cardinality(Held)
             <= Cardinality(MallocPages \cup FreePages) + Cardinality(Created)
    BY <1>5, <1>6, <1>7, CardinalityUnion
  <2> QED
    BY <1>2, <1>3, <1>5, <1>6, <2>1
<1>9. IsFiniteSet(physical) /\ Cardinality(physical) \in Nat
      /\ Cardinality(physical) <= Cardinality(Held)
  <2>1. DOMAIN active_pages = Held /\ physical = Range(active_pages)
    BY DEF LeakInv, NothingStray
  <2> DEFINE backing == [a \in Held |-> active_pages[a]]
  <2>2. backing \in Surjection(Held, physical)
    BY <2>1 DEF Surjection, Range
  <2> HIDE DEF backing
  <2>3. IsFiniteSet(physical) /\ Cardinality(physical) <= Cardinality(Held)
    BY <1>8, <2>2, FS_Surjection
  <2> QED
    BY <2>3, FS_CardinalityType
<1>10. Cardinality(physical') = Cardinality(physical) + 1
  <2>1. PICK h \in Unused : physical' = physical \cup {h}
    BY DEF create_new_page
  <2>2. h \notin physical
    BY <2>1 DEF Unused
  <2> QED
    BY <1>9, <2>1, <2>2, FS_AddElement
<1> QED
  BY <1>1, <1>2, <1>3, <1>6, <1>8, <1>9, <1>10

(* Physical pages are created only up to what is live once the request is   *)
(* granted: a call creates its shortfall and no more.                       *)
THEOREM CreatesMinimum ==
  ASSUME Faults \subseteq {"oom"}
  PROVE  Spec => MinUse
<1>1. LeakInv /\ [Next]_vars =>
        [\A h \in physical' \ physical :
           Cardinality(physical') <= Cardinality(MallocPages) + call.size]_vars
  <2> SUFFICES ASSUME LeakInv, [Next]_vars, NEW h \in physical' \ physical
               PROVE  Cardinality(physical') <= Cardinality(MallocPages) + call.size
    OBVIOUS
  <2>1. CASE create_new_page
    BY <2>1, CreatesLive
  <2>2. ASSUME ~create_new_page
        PROVE  physical' \subseteq physical
    <3>1. ASSUME CallStep
          PROVE  physical' \subseteq physical
      BY <2>2, <3>1 DEF CallStep, cleanup_zombie_regions, find_best_fit,
         take_unmapped_region, rollback_new_pages, Undo, creation_fails, insert_new_pages,
         no_new_pages, harvest_free_region, remap_regions, remap_fails,
         hand_out_defragmented, device_vars
    <3>2. ASSUME \/ \E s \in Stream, n \in Request : malloc_internal(s, n)
                 \/ \E p \in DOMAIN malloc_regions : free_internal(p)
                 \/ drop
          PROVE  physical' \subseteq physical
      BY <3>2 DEF malloc_internal, free_internal, drop, device_vars
    <3>3. ASSUME \/ \E p \in DOMAIN malloc_regions, k \in Kernel : Launch(p, k)
                 \/ \E id \in DOMAIN ops : Device(id)
                 \/ Dropped
                 \/ UNCHANGED vars
          PROVE  physical' \subseteq physical
      BY <3>3 DEF Launch, Device, Retire, Dropped, vars, device_vars
    <3> QED
      BY <3>1, <3>2, <3>3 DEF Next
  <2> QED
    BY <2>1, <2>2
<1> QED
  BY <1>1, LeakInvariant, PTL DEF OnlyOutOfMemory, Spec, MinUse

-----------------------------------------------------------------------------
(***************************************************************************)
(* Addresses.  Every address of a region or of the hole of the call stays  *)
(* one (Known), except for the end of a hole when the new pages joined a   *)
(* free region in front of it.  That the call then has made new pages at   *)
(* all is not in IInv: NewPages says it.                                   *)
(***************************************************************************)

Known == FreePages \cup MallocPages \cup UnmappedPages \cup ZombiePages \cup HolePages

NewPages == call.pc = "harvest" /\ call.ptr # NoPtr => call.dst < call.goal

KeptInv == LeakInv /\ NewPages

LEMMA NextNewPages == IInv /\ NewPages /\ [Next]_vars => NewPages'
<1> SUFFICES ASSUME IInv, NewPages, [Next]_vars
             PROVE  NewPages'
  OBVIOUS
<1>1. CASE call'.pc # "harvest" \/ UNCHANGED call
  BY <1>1 DEF NewPages
<1>2. ASSUME insert_new_pages
      PROVE  NewPages'
  <2>1. /\ call.pc = "create" /\ call.goal > call.dst
        /\ call'.goal = call.goal /\ call'.dst = call.dst
    BY <1>2 DEF insert_new_pages, IInv, CallInv, CallShape
  <2>2. call.goal \in Int /\ call.dst \in Int
    BY <2>1, GrowingTypes DEF Growing
  <2> QED
    BY <2>1, <2>2 DEF NewPages
<1>3. ASSUME no_new_pages
      PROVE  NewPages'
  <2>1. call'.ptr = NoPtr
    BY <1>3 DEF no_new_pages, IInv, CallInv, CallShape
  <2> QED
    BY <2>1 DEF NewPages
<1>4. ASSUME harvest_free_region
      PROVE  NewPages'
  <2>1. \/ /\ call.pc = "harvest" /\ call'.ptr = call.ptr
           /\ call'.dst = call.dst /\ call'.goal = call.goal
        \/ Return
    BY <1>4, HarvestStep DEF harvest_free_region
  <2> QED
    BY <2>1, ReturnNone DEF NewPages
<1>5. ASSUME \/ \E z \in call.scan : cleanup_zombie_regions(z)
             \/ find_best_fit \/ take_unmapped_region \/ create_new_page
             \/ rollback_new_pages \/ creation_fails \/ remap_regions
             \/ \E k \in DOMAIN call.moves \cup {call.next} : remap_fails(k)
             \/ hand_out_defragmented
      PROVE  call'.pc # "harvest"
  <2>1. CASE Return
    BY <2>1, ReturnNone
  <2>2. CASE \E z \in call.scan : cleanup_zombie_regions(z)
    BY <2>2 DEF cleanup_zombie_regions, IInv, CallInv, CallShape
  <2>3. CASE find_best_fit
    <3>1. CASE call' = [call EXCEPT !.pc = "hole"]
      BY <3>1 DEF IInv, CallInv, CallShape
    <3> QED
      BY <2>1, <2>3, <3>1 DEF find_best_fit, HandOut
  <2>4. CASE take_unmapped_region
    <3>1. CASE \E dst \in Int : Opened(dst)
      BY <2>4, <3>1, OpenedAt DEF take_unmapped_region
    <3> QED
      BY <2>1, <2>4, <3>1, TakeUnmappedChoice
  <2>5. CASE create_new_page \/ remap_regions
    <3>1. CASE call' = [call EXCEPT !.next = @ + 1] /\ call.pc = "create"
      BY <3>1 DEF IInv, CallInv, CallShape
    <3>2. CASE remap_regions
      BY <3>2 DEF remap_regions, IInv, CallInv, CallShape
    <3> QED
      BY <2>1, <2>5, <3>1, <3>2 DEF create_new_page
  <2> QED
    BY <1>5, <2>1, <2>2, <2>3, <2>4, <2>5 DEF rollback_new_pages, creation_fails,
       remap_fails, hand_out_defragmented, HandOut
<1>6. ASSUME \/ \E s \in Stream, n \in Request : malloc_internal(s, n)
             \/ drop
      PROVE  call'.pc # "harvest"
  BY <1>6 DEF malloc_internal, drop, NoCall
<1>7. ASSUME \/ \E p \in DOMAIN malloc_regions : free_internal(p)
             \/ \E p \in DOMAIN malloc_regions, k \in Kernel : Launch(p, k)
             \/ \E id \in DOMAIN ops : Device(id)
             \/ Dropped
             \/ UNCHANGED vars
      PROVE  UNCHANGED call
  BY <1>7 DEF free_internal, Launch, Device, Dropped, vars, pool_vars
<1> QED
  BY <1>1, <1>2, <1>3, <1>4, <1>5, <1>6, <1>7 DEF Next, CallStep

(* A hole given back is covered by the holes that are left.                 *)
LEMMA HoleInserted ==
  ASSUME IInv, NEW p \in Int, NEW n \in Nat, Span(p, n) \cap UnmappedPages = {},
         unmapped_regions' = insert_unmapped_region(unmapped_regions, p, n)
  PROVE  UnmappedPages \cup Span(p, n) \subseteq UnmappedPages'
<1> DEFINE u == unmapped_regions
           prev == EndingAt(u, p)
           next == BeginningAt(u, p + n)
           lo == IF prev = {} THEN p ELSE CHOOSE q \in prev : TRUE
           hi == IF next = {} THEN p + n ELSE p + n + u[p + n]
           rest == Without(u, prev \cup next)
<1>1. CASE n = 0
  <2>1. unmapped_regions' = unmapped_regions
    BY <1>1 DEF insert_unmapped_region
  <2>2. Span(p, n) = {}
    BY <1>1 DEF Span
  <2> QED
    BY <2>1, <2>2 DEF UnmappedPages
<1>2. CASE n # 0
  <2>1. u' = With(rest, lo, hi - lo)
    BY <1>2 DEF insert_unmapped_region
  <2>2. \A q \in DOMAIN u : q \in Int /\ u[q] \in Nat \ {0}
    BY DEF IInv, TypeInv
  <2>3. prev = {q \in DOMAIN u : q < p /\ q + u[q] = p} /\ next = {q \in DOMAIN u : q = p + n}
    BY DEF EndingAt, BeginningAt
  <2>4. \/ lo = p /\ prev = {}
        \/ lo \in prev
    OBVIOUS
  <2>5. \/ hi = p + n /\ next = {}
        \/ p + n \in DOMAIN u /\ hi = p + n + u[p + n]
    BY <2>3
  <2>6. /\ DOMAIN rest = DOMAIN u \ (prev \cup next)
        /\ \A q \in DOMAIN rest : rest[q] = u[q]
    BY DEF Without
  <2>7. /\ lo \in DOMAIN u' /\ u'[lo] = hi - lo
        /\ \A q \in DOMAIN rest : q # lo => q \in DOMAIN u' /\ u'[q] = rest[q]
    <3>1. DOMAIN With(rest, lo, hi - lo) = DOMAIN rest \cup {lo}
      BY WithDomain
    <3>2. With(rest, lo, hi - lo)[lo] = hi - lo
      BY WithNew
    <3>3. \A q \in DOMAIN rest : q # lo => With(rest, lo, hi - lo)[q] = rest[q]
      BY WithOld
    <3> QED
      BY <2>1, <3>1, <3>2, <3>3
  <2>8. p \notin DOMAIN u
    <3>1. p \in DOMAIN u => p \in Span(p, u[p]) /\ p \in Span(p, n)
      BY <1>2, <2>2 DEF Span
    <3> QED
      BY <3>1 DEF UnmappedPages
  <2>9. \A q \in prev : q = lo
    <3> SUFFICES ASSUME NEW q \in prev
                 PROVE  q = lo
      OBVIOUS
    <3>1. /\ q \in DOMAIN u /\ lo \in DOMAIN u
          /\ p - 1 \in Span(q, u[q]) /\ p - 1 \in Span(lo, u[lo])
      BY <2>2, <2>3, <2>4 DEF Span
    <3> QED
      BY <3>1, HoleUnique
  <2>10. lo \in Int /\ hi \in Int /\ lo <= p /\ p + n <= hi
    <3> HIDE DEF u, prev, next, lo, hi
    <3> QED
      BY <1>2, <2>2, <2>3, <2>4, <2>5
  <2>11. Span(p, n) \subseteq Span(lo, hi - lo)
    <3> HIDE DEF lo, hi
    <3> QED
      BY <2>10 DEF Span
  <2>12. ASSUME NEW q \in prev \cup next
         PROVE  Span(q, u[q]) \subseteq Span(lo, hi - lo)
    <3>1. CASE q \in prev
      <4>1. q = lo /\ q + u[q] = p
        BY <2>3, <2>9, <3>1
      <4> HIDE DEF u, prev, next, lo, hi
      <4> QED
        BY <2>2, <2>3, <2>10, <3>1, <4>1 DEF Span
    <3>2. CASE q \in next
      <4>1. q = p + n /\ hi = p + n + u[q] /\ q \in DOMAIN u
        BY <2>3, <2>5, <3>2
      <4> HIDE DEF u, prev, next, lo, hi
      <4> QED
        BY <2>2, <2>10, <4>1 DEF Span
    <3> QED
      BY <3>1, <3>2
  <2>13. ASSUME NEW q \in DOMAIN u \ (prev \cup next)
         PROVE  q \in DOMAIN u' /\ u'[q] = u[q]
    <3>1. q # lo
      BY <2>4, <2>8
    <3> QED
      BY <2>6, <2>7, <3>1
  <2> HIDE DEF prev, next, lo, hi, rest
  <2>14. Span(lo, hi - lo) \subseteq UnmappedPages'
    BY <2>7 DEF UnmappedPages
  <2>15. \A q \in DOMAIN u : Span(q, u[q]) \subseteq UnmappedPages'
    BY <2>12, <2>13, <2>14 DEF UnmappedPages
  <2> QED
    BY <2>11, <2>14, <2>15 DEF UnmappedPages
<1> QED
  BY <1>1, <1>2

(* The hole opened in front of a larger one, and the rest, cover it.        *)
LEMMA HoleOpened ==
  ASSUME IInv, NEW p \in DOMAIN unmapped_regions, NEW n \in Nat \ {0},
         n <= unmapped_regions[p],
         unmapped_regions' =
           IF unmapped_regions[p] > n
           THEN With(Without(unmapped_regions, {p}), p + n, unmapped_regions[p] - n)
           ELSE Without(unmapped_regions, {p})
  PROVE  UnmappedPages \subseteq UnmappedPages' \cup Span(p, n)
<1> DEFINE u == unmapped_regions
           rest == Without(u, {p})
<1>1. \A q \in DOMAIN u : q \in Int /\ u[q] \in Nat \ {0}
  BY DEF IInv, TypeInv
<1>2. DOMAIN rest = DOMAIN u \ {p} /\ \A q \in DOMAIN rest : rest[q] = u[q]
  BY DEF Without
<1>3. CASE u[p] > n
  <2> DEFINE m == u[p] - n
  <2>1. /\ p + n \in DOMAIN u' /\ u'[p + n] = m
        /\ \A q \in DOMAIN rest : q # p + n => q \in DOMAIN u' /\ u'[q] = rest[q]
    <3>1. DOMAIN With(rest, p + n, m) = DOMAIN rest \cup {p + n}
      BY WithDomain
    <3>2. With(rest, p + n, m)[p + n] = m
      BY WithNew
    <3>3. \A q \in DOMAIN rest : q # p + n => With(rest, p + n, m)[q] = rest[q]
      BY WithOld
    <3> QED
      BY <1>3, <3>1, <3>2, <3>3
  <2>2. p + n \notin DOMAIN rest
    <3> SUFFICES ASSUME p + n \in DOMAIN u, p + n # p
                 PROVE  FALSE
      BY <1>2
    <3>1. p + n \in Span(p + n, u[p + n]) /\ p + n \in Span(p, u[p])
      BY <1>1, <1>3 DEF Span
    <3> QED
      BY <3>1, HoleUnique
  <2>3. Span(p, u[p]) \subseteq Span(p, n) \cup Span(p + n, m)
    BY <1>1, <1>3 DEF Span
  <2> HIDE DEF rest, m
  <2>4. Span(p + n, m) \subseteq UnmappedPages'
    BY <2>1 DEF UnmappedPages
  <2>5. \A q \in DOMAIN u : q # p => Span(q, u[q]) \subseteq UnmappedPages'
    BY <1>2, <2>1, <2>2 DEF UnmappedPages
  <2>6. \A q \in DOMAIN u : Span(q, u[q]) \subseteq UnmappedPages' \cup Span(p, n)
    BY <2>3, <2>4, <2>5
  <2> QED
    BY <2>6 DEF UnmappedPages
<1>4. CASE ~(u[p] > n)
  <2>1. u' = rest /\ u[p] = n
    BY <1>1, <1>4
  <2> HIDE DEF rest
  <2> QED
    BY <1>2, <2>1 DEF UnmappedPages
<1> QED
  BY <1>3, <1>4

(* No address of a chunk, old or new, drops out of Known in this step.      *)
Keeps == RootPages' \subseteq RootPages \cup Known' /\ Known \subseteq Known'

LEMMA SameRoots ==
  ASSUME UNCHANGED roots, Known \subseteq Known'
  PROVE  Keeps
  BY DEF Keeps, RootPages

LEMMA CleanupKeeps ==
  ASSUME IInv, NEW z \in call.scan, cleanup_zombie_regions(z)
  PROVE  Keeps
<1>1. /\ call.pc = "cleanup" /\ call'.pc = "cleanup"
      /\ UNCHANGED <<roots, free_regions, malloc_regions>>
  BY DEF cleanup_zombie_regions, IInv, CallInv, CallShape
<1>2. /\ FreePages' = FreePages /\ MallocPages' = MallocPages
      /\ HolePages' = {} /\ HolePages = {}
  BY <1>1 DEF FreePages, MallocPages, HolePages
<1>3. CASE /\ zombie_regions' = zombie_regions \ {z}
           /\ unmapped_regions' = insert_unmapped_region(unmapped_regions, z.ptr, z.size)
  <2>1. z \in zombie_regions /\ Span(z.ptr, z.size) \subseteq ZombiePages
    BY ZombieSpan
  <2>2. z.ptr \in Int /\ z.size \in Nat
    BY <2>1, ZombieTyped DEF IInv
  <2>3. Span(z.ptr, z.size) \cap UnmappedPages = {}
    BY <2>1, PageLayout
  <2>4. UnmappedPages \cup Span(z.ptr, z.size) \subseteq UnmappedPages'
    BY <1>3, <2>2, <2>3, HoleInserted
  <2>5. ZombiePages \subseteq ZombiePages' \cup Span(z.ptr, z.size)
    BY <1>3 DEF ZombiePages
  <2> QED
    BY <1>1, <1>2, <2>4, <2>5, SameRoots DEF Known
<1>4. CASE UNCHANGED <<zombie_regions, unmapped_regions>>
  <2>1. ZombiePages' = ZombiePages /\ UnmappedPages' = UnmappedPages
    BY <1>4 DEF ZombiePages, UnmappedPages
  <2> QED
    BY <1>1, <1>2, <2>1, SameRoots DEF Known
<1> QED
  BY <1>3, <1>4 DEF cleanup_zombie_regions

(* Steps that only move pages between free and allocated regions.           *)
LEMMA MovedKeeps ==
  ASSUME HolePages = {}, FreePages \cup MallocPages \subseteq FreePages' \cup MallocPages',
         UNCHANGED <<roots, unmapped_regions, zombie_regions>>
  PROVE  Keeps
<1>1. UnmappedPages' = UnmappedPages /\ ZombiePages' = ZombiePages
  BY DEF UnmappedPages, ZombiePages
<1> QED
  BY <1>1, SameRoots DEF Known

LEMMA FindBestFitKeeps ==
  ASSUME IInv, find_best_fit
  PROVE  Keeps
<1>1. /\ InCall /\ HolePages = {}
      /\ UNCHANGED <<roots, unmapped_regions, zombie_regions>>
  BY DEF find_best_fit, InCall, HolePages
<1>2. ASSUME NEW p \in DOMAIN free_regions, NEW f, DOMAIN f = DOMAIN free_regions,
             free_regions[p].size >= call.size,
             \A q \in DOMAIN f : f[q].size = free_regions[q].size,
             f \in [DOMAIN f -> FreeRegion(free_num)],
             HandOut(f, p)
      PROVE  FreePages \cup MallocPages \subseteq FreePages' \cup MallocPages'
  BY <1>1, <1>2, HandOutKeeps
<1>3. ASSUME UNCHANGED <<free_regions, malloc_regions>>
      PROVE  FreePages \cup MallocPages \subseteq FreePages' \cup MallocPages'
  BY <1>3 DEF FreePages, MallocPages
<1>4. FreePages \cup MallocPages \subseteq FreePages' \cup MallocPages'
  BY <1>2, <1>3, BestFitChoice
<1> QED
  BY <1>1, <1>4, MovedKeeps

LEMMA TakeUnmappedKeeps ==
  ASSUME IInv, take_unmapped_region
  PROVE  Keeps
<1>1. /\ call.pc = "hole" /\ HolePages = {}
      /\ UNCHANGED <<free_regions, malloc_regions, zombie_regions>>
  BY DEF take_unmapped_region, HolePages
<1>2. /\ FreePages' = FreePages /\ MallocPages' = MallocPages
      /\ ZombiePages' = ZombiePages
  BY <1>1 DEF FreePages, MallocPages, ZombiePages
<1>3. call.size \in Nat \ {0}
  BY <1>1, Sizes DEF InCall
<1>4. ASSUME NEW p \in DOMAIN unmapped_regions, p \in Int, unmapped_regions[p] \in Nat,
             unmapped_regions[p] >= call.size,
             LET n == unmapped_regions[p]
                 u == Without(unmapped_regions, {p})
             IN  unmapped_regions' =
                   IF n > call.size THEN With(u, p + call.size, n - call.size) ELSE u,
             Opened(p), UNCHANGED roots
      PROVE  Keeps
  <2>1. UnmappedPages \subseteq UnmappedPages' \cup Span(p, call.size)
    <3>1. call.size <= unmapped_regions[p]
      BY <1>3, <1>4
    <3> QED
      BY <1>3, <1>4, <3>1, HoleOpened
  <2>2. HolePages' = Span(p, call.size)
    BY <1>1, <1>4, OpenedAt
  <2> QED
    BY <1>1, <1>2, <1>4, <2>1, <2>2, SameRoots DEF Known
<1>5. ASSUME NEW base \in VaBase \ roots, base \in Int, call.size <= VaSize,
             roots' = roots \cup {base},
             unmapped_regions' =
               insert_unmapped_region(unmapped_regions, base + call.size,
                                      VaSize - call.size),
             Opened(base)
      PROVE  Keeps
  <2>1. HolePages' = Span(base, call.size)
    BY <1>1, <1>5, OpenedAt
  <2>2. base + call.size \in Int /\ VaSize - call.size \in Nat /\ VaSize \in Nat
    BY <1>3, <1>5, PoolAssumption
  <2>3. Span(base, VaSize)
          = Span(base, call.size) \cup Span(base + call.size, VaSize - call.size)
    BY <1>3, <1>5, <2>2 DEF Span
  <2>4. Span(base, VaSize) \cap RootPages = {}
    <3> SUFFICES ASSUME NEW b \in roots, NEW x \in Span(b, VaSize), x \in Span(base, VaSize)
                 PROVE  FALSE
      BY DEF RootPages
    <3>1. b \in VaBase /\ b \in Int /\ b # base
      BY <1>5, PoolAssumption DEF IInv, TypeInv
    <3>2. b + VaSize <= base \/ base + VaSize <= b
      BY <1>5, <3>1, PoolAssumption
    <3> QED
      BY <1>5, <2>2, <3>1, <3>2 DEF Span
  <2>5. Span(base + call.size, VaSize - call.size) \cap UnmappedPages = {}
    BY <2>3, <2>4, PageLayout
  <2>6. UnmappedPages \cup Span(base + call.size, VaSize - call.size) \subseteq UnmappedPages'
    BY <1>5, <2>2, <2>5, HoleInserted
  <2>7. RootPages' = RootPages \cup Span(base, VaSize)
    BY <1>5 DEF RootPages
  <2> QED
    BY <1>1, <1>2, <2>1, <2>3, <2>6, <2>7 DEF Known, Keeps
<1>6. ASSUME Return, UNCHANGED <<roots, unmapped_regions>>
      PROVE  Keeps
  <2>1. UnmappedPages' = UnmappedPages
    BY <1>6 DEF UnmappedPages
  <2> QED
    BY <1>1, <1>2, <1>6, <2>1, SameRoots DEF Known
<1> QED
  BY <1>4, <1>5, <1>6, TakeUnmappedChoice

LEMMA CreatePageKeeps ==
  ASSUME OnlyOutOfMemory, IInv, BackInv, NothingStray, create_new_page
  PROVE  Keeps
<1>1. /\ call.pc = "create" /\ call.next < call.goal
      /\ UNCHANGED <<roots, free_regions, malloc_regions, unmapped_regions, zombie_regions>>
  BY DEF create_new_page
<1>2. call.next \in HolePages \ Created
  <2>1. /\ call.next \in Int /\ call.dst \in Int /\ call.goal \in Int /\ call.size \in Nat
        /\ call.dst <= call.next /\ call.goal <= call.dst + call.size
    BY <1>1, GrowingTypes, CreatedInHole DEF Growing
  <2>2. Created = Span(call.dst, call.next - call.dst) /\ HolePages = Span(call.dst, call.size)
    BY <1>1 DEF Created, HolePages
  <2> QED
    BY <1>1, <2>1, <2>2, SMTT(30) DEF Span
<1>3. ~MapFails(call.next)
  BY <1>2, HoleUnmapped DEF MapFails, OnlyOutOfMemory
<1>4. call' = [call EXCEPT !.next = @ + 1]
  BY <1>3 DEF create_new_page
<1>5. call'.pc = "create" /\ call'.dst = call.dst /\ call'.size = call.size
  BY <1>1, <1>4 DEF IInv, CallInv, CallShape
<1>6. HolePages' = HolePages
  BY <1>1, <1>5 DEF HolePages
<1>7. Known' = Known
  BY <1>1, <1>6 DEF Known, FreePages, MallocPages, UnmappedPages, ZombiePages
<1> QED
  BY <1>1, <1>7, SameRoots

LEMMA RollbackKeeps ==
  ASSUME IInv, rollback_new_pages
  PROVE  Keeps
<1>1. /\ call.pc = "create"
      /\ unmapped_regions' = insert_unmapped_region(unmapped_regions, call.dst, call.size)
      /\ UNCHANGED <<roots, free_regions, malloc_regions, zombie_regions>>
  BY DEF rollback_new_pages
<1>2. HolePages = Span(call.dst, call.size) /\ call.dst \in Int /\ call.size \in Nat
  BY <1>1, GrowingTypes DEF HolePages, Growing
<1>3. HolePages \cap UnmappedPages = {}
  BY PageLayout
<1>4. UnmappedPages \cup HolePages \subseteq UnmappedPages'
  BY <1>1, <1>2, <1>3, HoleInserted
<1>5. /\ FreePages' = FreePages /\ MallocPages' = MallocPages
      /\ ZombiePages' = ZombiePages
  BY <1>1 DEF FreePages, MallocPages, ZombiePages
<1> QED
  BY <1>1, <1>4, <1>5, SameRoots DEF Known

(* All of the hole becomes free or stays the hole, unless the new pages     *)
(* joined a region in front of it and together they are large enough.       *)
LEMMA InsertNewPagesKeeps ==
  ASSUME IInv, insert_new_pages
  PROVE  \/ Keeps
         \/ call.goal > call.dst /\ call'.pc = "take" /\ call'.ptr < call.dst
<1> DEFINE dst == call.dst
           n == call.goal - dst
           lo == MergedLo(dst, n, call.stream)
           hi == MergedHi(dst, n, call.stream)
           left == IF call.size > hi - lo THEN call.size - (hi - lo) ELSE 0
<1>1. /\ call.pc = "create" /\ call.goal > dst
      /\ free_region_insert(dst, n, call.stream)
      /\ UNCHANGED <<roots, malloc_regions, unmapped_regions, zombie_regions>>
  BY DEF insert_new_pages
<1>2. /\ call'.pc = (IF left = 0 THEN "take" ELSE "harvest") /\ call'.ptr = lo
      /\ call'.dst = dst /\ call'.goal = call.goal /\ call'.size = call.size
  BY DEF insert_new_pages, IInv, CallInv, CallShape
<1>3. /\ dst \in Int /\ call.goal \in Int /\ call.size \in Nat /\ n \in Nat \ {0}
      /\ n <= call.size /\ call.stream \in AllStreams
  BY <1>1, GrowingTypes DEF Growing, AllStreams
<1>4. HolePages = Span(dst, call.size)
  BY <1>1 DEF HolePages
<1>5. Span(dst, n) \subseteq HolePages
  <2> HIDE DEF dst, n
  <2> QED
    BY <1>3, <1>4 DEF Span
<1>6. FreePages' = FreePages \cup Span(dst, n)
  <2>1. Span(dst, n) \cap FreePages = {}
    BY <1>5, PageLayout
  <2> HIDE DEF dst, n
  <2> QED
    BY <1>1, <1>3, <2>1, FreeInserted
<1>7. /\ MallocPages' = MallocPages /\ UnmappedPages' = UnmappedPages
      /\ ZombiePages' = ZombiePages
  BY <1>1 DEF MallocPages, UnmappedPages, ZombiePages
<1>8. /\ lo \in Int /\ lo <= dst /\ hi \in Int
      /\ dst + n \notin DOMAIN free_regions => hi = dst + n
  <2>1. TypeInv
    BY DEF IInv
  <2> HIDE DEF n, dst
  <2> QED
    BY <1>3, <2>1, Merged
<1>9. CASE HolePages \subseteq Span(dst, n) \cup HolePages'
  BY <1>1, <1>6, <1>7, <1>9, SameRoots DEF Known
<1>10. CASE left # 0
  <2>1. HolePages' = Span(call.goal, call.size - n)
    BY <1>2, <1>10 DEF HolePages
  <2>2. Span(dst, call.size) \subseteq Span(dst, n) \cup Span(call.goal, call.size - n)
    BY <1>3 DEF Span
  <2> QED
    BY <1>4, <1>9, <2>1, <2>2
<1>11. CASE left = 0 /\ lo = dst
  <2>1. n = call.size
    <3> SUFFICES ASSUME n < call.size
                 PROVE  FALSE
      BY <1>3
    <3>1. dst + n \in HolePages
      <4> HIDE DEF n, dst
      <4> QED
        BY <1>3, <1>4 DEF Span
    <3>2. dst + n \notin DOMAIN free_regions
      <4>1. dst + n \notin FreePages
        BY <3>1, PageLayout
      <4>2. ASSUME NEW q \in DOMAIN free_regions
            PROVE  q \in FreePages
        BY FreeFirst DEF FreePages
      <4> QED
        BY <4>1, <4>2
    <3>3. hi - lo = n
      <4> HIDE DEF n, dst, lo, hi
      <4> QED
        BY <1>3, <1>8, <1>11, <3>2
    <3> HIDE DEF n, hi, lo
    <3> QED
      BY <1>3, <1>11, <3>3
  <2> QED
    BY <1>4, <1>9, <2>1
<1>12. CASE left = 0 /\ lo # dst
  <2> HIDE DEF lo, left
  <2> QED
    BY <1>1, <1>2, <1>3, <1>8, <1>12
<1> QED
  BY <1>10, <1>11, <1>12

LEMMA NoNewPagesKeeps ==
  ASSUME IInv, no_new_pages
  PROVE  Keeps
<1>1. /\ call.pc = "create" /\ call.goal = call.dst
      /\ call'.pc = "harvest" /\ call'.dst = call.dst /\ call'.goal = call.goal
      /\ call'.size = call.size
      /\ UNCHANGED <<roots, free_regions, malloc_regions, unmapped_regions, zombie_regions>>
  BY DEF no_new_pages, IInv, CallInv, CallShape
<1>2. HolePages = Span(call.dst, call.size)
      /\ HolePages' = Span(call.dst, call.size - (call.dst - call.dst))
  BY <1>1 DEF HolePages
<1>3. call.size - (call.dst - call.dst) = call.size
  BY <1>1, GrowingTypes DEF Growing
<1>4. Known' = Known
  BY <1>1, <1>2, <1>3 DEF Known, FreePages, MallocPages, UnmappedPages, ZombiePages
<1> QED
  BY <1>1, <1>4, SameRoots

LEMMA HarvestKeeps ==
  ASSUME OnlyOutOfMemory, IInv, harvest_free_region
  PROVE  Keeps
<1>1. /\ call.pc = "harvest"
      /\ UNCHANGED <<roots, malloc_regions, unmapped_regions>>
  BY DEF harvest_free_region
<1>2. PICK p \in DOMAIN free_regions, take \in Nat \ {0} :
        /\ take <= free_regions[p].size
        /\ zombie_regions' = zombie_regions
             \cup {[ptr |-> p, size |-> take, event |-> free_regions[p].id]}
        /\ free_regions' = CutFront(free_regions, p, take)
        /\ call'.pc = "harvest"
        /\ call'.size = call.size /\ call'.dst = call.dst /\ call'.goal = call.goal
  BY HarvestStep DEF OnlyOutOfMemory
<1>3. /\ FreePages' \cup Span(p, take) = FreePages
      /\ ZombiePages' = ZombiePages \cup Span(p, take)
  BY <1>2, HarvestPages
<1>4. HolePages' = HolePages
  BY <1>1, <1>2 DEF HolePages
<1> QED
  BY <1>1, <1>3, <1>4, SameRoots DEF Known, MallocPages, UnmappedPages

(* What is remapped fills the hole, unless the new pages joined a region in *)
(* front of it.                                                             *)
LEMMA RemapKeeps ==
  ASSUME IInv, NewPages, remap_regions
  PROVE  \/ Keeps
         \/ call.goal > call.dst /\ call'.pc = "take" /\ call'.ptr < call.dst
<1> DEFINE n == call.next - call.goal
           lo == MergedLo(call.goal, n, call.stream)
<1>1. /\ call.pc = "harvest" /\ call.left = 0
      /\ free_region_insert(call.goal, n, call.stream)
      /\ call'.pc = "take" /\ call'.ptr = MinPtr(call.ptr, lo)
      /\ UNCHANGED <<roots, malloc_regions, unmapped_regions, zombie_regions>>
  BY DEF remap_regions, IInv, CallInv, CallShape
<1>2. /\ call.goal \in Int /\ n \in Nat \ {0} /\ call.stream \in AllStreams
      /\ Span(call.goal, n) = DOMAIN call.moves
  BY RemapTyped
<1>3. FreePages' = FreePages \cup Span(call.goal, n)
  <2>1. Span(call.goal, n) \cap FreePages = {}
    BY <1>1, <1>2, MovesInHolePages, PageLayout
  <2> HIDE DEF n
  <2> QED
    BY <1>1, <1>2, <2>1, FreeInserted
<1>4. /\ MallocPages' = MallocPages /\ UnmappedPages' = UnmappedPages
      /\ ZombiePages' = ZombiePages
  BY <1>1 DEF MallocPages, UnmappedPages, ZombiePages
<1>5. /\ call.dst \in Int /\ call.next \in Int /\ call.size \in Nat
      /\ HolePages = Span(call.goal, call.size - (call.goal - call.dst))
  BY <1>1, GrowingTypes DEF Growing, HolePages
<1>6. CASE call.next = call.dst + call.size
  <2>1. call.size - (call.goal - call.dst) = n
    BY <1>2, <1>5, <1>6
  <2> QED
    BY <1>1, <1>3, <1>4, <1>5, <2>1, SameRoots DEF Known
<1>7. CASE call.ptr = NoPtr
  <2>1. call.next + call.left = call.dst + call.size
    BY <1>1, <1>7 DEF IInv, CallInv
  <2> QED
    BY <1>1, <1>5, <1>6, <2>1
<1>8. CASE call.ptr # NoPtr
  <2>1. /\ call.ptr \in DOMAIN free_regions /\ call.ptr <= call.dst
        /\ call.ptr + free_regions[call.ptr].size = call.goal
        /\ free_regions[call.ptr].size + (call.next - call.goal) + call.left = call.size
    BY <1>1, <1>8 DEF IInv, CallInv
  <2>2. call.ptr \in Int /\ free_regions[call.ptr].size \in Nat
    BY <2>1, FreeTyped DEF IInv
  <2>3. call.ptr = call.dst => call.next = call.dst + call.size
    BY <1>1, <1>2, <1>5, <2>1, <2>2
  <2>4. lo \in Int
    <3>1. TypeInv
      BY DEF IInv
    <3> HIDE DEF n
    <3> QED
      BY <1>2, <3>1, Merged
  <2>5. call.ptr < call.dst => call'.ptr < call.dst
    <3> HIDE DEF lo
    <3> QED
      BY <1>1, <1>5, <1>8, <2>2, <2>4 DEF MinPtr
  <2>6. call.goal > call.dst
    BY <1>1, <1>2, <1>5, <1>8 DEF NewPages
  <2> QED
    BY <1>1, <1>5, <1>6, <2>1, <2>2, <2>3, <2>5, <2>6
<1> QED
  BY <1>7, <1>8

LEMMA TakeKeeps ==
  ASSUME IInv, hand_out_defragmented
  PROVE  Keeps
<1>1. /\ call.ptr \in DOMAIN free_regions /\ free_regions[call.ptr].size >= call.size
      /\ InCall /\ HolePages = {}
      /\ UNCHANGED <<roots, unmapped_regions, zombie_regions>>
  BY DEF hand_out_defragmented, IInv, CallInv, RegionFound, InCall, HolePages
<1>2. free_regions \in [DOMAIN free_regions -> FreeRegion(free_num)]
  BY DEF IInv, TypeInv
<1>3. FreePages \cup MallocPages \subseteq FreePages' \cup MallocPages'
  BY <1>1, <1>2, HandOutKeeps DEF hand_out_defragmented
<1> QED
  BY <1>1, <1>3, MovedKeeps

LEMMA FreeKeeps ==
  ASSUME IInv, NEW p \in DOMAIN malloc_regions, free_internal(p)
  PROVE  Keeps
<1> DEFINE n == malloc_regions[p].size
           s == malloc_regions[p].stream
<1>1. /\ call.pc = "idle"
      /\ free_region_insert(p, n, s)
      /\ malloc_regions' = Without(malloc_regions, {p})
      /\ UNCHANGED <<roots, unmapped_regions, zombie_regions>>
  BY DEF free_internal
<1>2. p \in Int /\ n \in Nat \ {0} /\ s \in AllStreams
  BY MallocTyped DEF IInv, AllStreams
<1>3. Span(p, n) \cap FreePages = {}
  <2>1. Span(p, n) \subseteq MallocPages
    BY DEF MallocPages
  <2> QED
    BY <2>1, PageLayout
<1>4. FreePages' = FreePages \cup Span(p, n)
  <2> HIDE DEF n, s
  <2> QED
    BY <1>1, <1>2, <1>3, FreeInserted
<1>5. MallocPages \subseteq MallocPages' \cup Span(p, n)
  BY <1>1 DEF MallocPages, Without
<1>6. HolePages = {}
  BY <1>1 DEF HolePages
<1> QED
  BY <1>1, <1>4, <1>5, <1>6, MovedKeeps

LEMMA StutterKeeps ==
  ASSUME UNCHANGED pool_vars
  PROVE  Keeps
<1>1. UNCHANGED <<roots, free_regions, malloc_regions, unmapped_regions, zombie_regions, call>>
  BY DEF pool_vars
<1>2. Known' = Known
  BY <1>1 DEF Known, FreePages, MallocPages, UnmappedPages, ZombiePages, HolePages
<1> QED
  BY <1>1, <1>2, SameRoots

LEMMA MallocKeeps ==
  ASSUME NEW s \in Stream, NEW n \in Request, malloc_internal(s, n)
  PROVE  Keeps
<1>1. /\ call.pc = "idle"
      /\ UNCHANGED <<roots, free_regions, malloc_regions, unmapped_regions, zombie_regions>>
  BY DEF malloc_internal
<1> QED
  BY <1>1, MovedKeeps DEF HolePages, FreePages, MallocPages

(* If the driver only ever runs out of memory, a step loses addresses of a  *)
(* chunk only as the one way of AddressesKept says.                         *)
THEOREM AddressesStay ==
  ASSUME Faults \subseteq {"oom"}
  PROVE  Spec => AddressesKept
<1> DEFINE Joined ==
             call.goal > call.dst /\ call'.pc = "take" /\ call'.ptr < call.dst
<1>1. Init => KeptInv
  <2>1. Init => call.pc = "idle"
    BY DEF Init, NoCall
  <2>2. Init => HarvestInv /\ NewPages
    BY <2>1 DEF HarvestInv, NewPages
  <2> QED
    BY <2>2, InitIInv, InitBack, InitStray DEF KeptInv, LeakInv
<1>2. KeptInv /\ [Next]_vars => KeptInv'
  BY NextIInv, NextBack, NextSuffices, NextStray, NextHolesApart, NextNewPages
     DEF KeptInv, LeakInv, OnlyOutOfMemory
<1>3. KeptInv /\ [Next]_vars => [LostPages' \subseteq LostPages \/ Joined]_vars
  <2> SUFFICES ASSUME KeptInv, [Next]_vars
               PROVE  LostPages' \subseteq LostPages \/ Joined
    OBVIOUS
  <2>1. CASE Keeps
    BY <2>1 DEF Keeps, LostPages, Known
  <2>2. CASE \E s \in Stream, n \in Request : malloc_internal(s, n)
    BY <2>1, <2>2, MallocKeeps
  <2>3. CASE CallStep
    <3>1. OnlyOutOfMemory /\ IInv /\ BackInv /\ NothingStray /\ NewPages
      BY DEF KeptInv, LeakInv, OnlyOutOfMemory
    <3>2. Keeps \/ Joined
      BY <2>3, <3>1, CleanupKeeps, FindBestFitKeeps, TakeUnmappedKeeps, CreatePageKeeps,
         RollbackKeeps, InsertNewPagesKeeps, NoNewPagesKeeps, HarvestKeeps, RemapKeeps,
         NoOtherFailure, TakeKeeps DEF CallStep
    <3> QED
      BY <2>1, <3>2
  <2>4. CASE \E p \in DOMAIN malloc_regions : free_internal(p)
    BY <2>1, <2>4, FreeKeeps DEF KeptInv, LeakInv
  <2>5. CASE drop
    <3>1. LostPages' = {}
      BY <2>5 DEF drop, LostPages, RootPages
    <3> QED
      BY <3>1
  <2>6. ASSUME \/ \E p \in DOMAIN malloc_regions, k \in Kernel : Launch(p, k)
               \/ \E id \in DOMAIN ops : Device(id)
               \/ Dropped
               \/ UNCHANGED vars
        PROVE  UNCHANGED pool_vars
    BY <2>6 DEF Launch, Device, Dropped, vars
  <2> QED
    BY <2>1, <2>2, <2>3, <2>4, <2>5, <2>6, StutterKeeps DEF Next
<1> QED
  BY <1>1, <1>2, <1>3, PTL DEF Spec, AddressesKept

=============================================================================
