------------------------- MODULE DeviceMemoryProofs -------------------------
(***************************************************************************)
(* Proofs about device memory for any number of threads, buffers, streams  *)
(* and pages.                                                              *)
(*                                                                         *)
(* The manager's steps are steps of StreamAllocator, whose invariants they *)
(* therefore keep.  Ownership adds what the buffers, the two tables of     *)
(* records and the allocator say of each other; from it, a free always     *)
(* finds its record, so that a destructor panics, and the lock is poisoned, *)
(* only after CUDA has refused.  Counted adds that the guards of a stream  *)
(* are finitely many and as many as its strong count.                      *)
(***************************************************************************)
EXTENDS DeviceMemory, FiniteSetTheorems, TLAPS

-----------------------------------------------------------------------------
(* The abstract allocator, by itself: it never shares a page and never lets *)
(* two kernels race on one, for any streams, pages, allocations and pending *)
(* kernels.  Ordered is not inductive by itself.  A launch is safe because  *)
(* every pending kernel on the owner's pages already precedes the stream's  *)
(* next kernel (OwnerIsLast), which a launch preserves because no other     *)
(* owner has these pages (Exclusive).                                       *)

IInv == TypeOK /\ Exclusive /\ Ordered /\ OwnerIsLast

LEMMA InitIInv == Init => IInv
  BY DEF Init, IInv, TypeOK, Exclusive, Ordered, OwnerIsLast

LEMMA AllocateIInv ==
  ASSUME IInv, NEW p \in Pointer, NEW s \in Stream, NEW n,
         NEW b \in [0 .. n - 1 -> Page], Allocate(p, s, b)
  PROVE  IInv'
<1> USE DEF IInv, Allocate, Available, PagesOf
<1>1. Range(b) \subseteq Page
  BY DEF Range
<1>2. TypeOK'
  BY <1>1 DEF TypeOK
<1>3. Exclusive'
  BY DEF Exclusive
<1>4. Ordered'
  BY DEF Ordered
<1>5. OwnerIsLast'
  BY DEF OwnerIsLast
<1> QED
  BY <1>2, <1>3, <1>4, <1>5

LEMMA ReleaseIInv ==
  ASSUME IInv, NEW p \in DOMAIN owned, Release(p)
  PROVE  IInv'
  BY DEF IInv, Release, PagesOf, TypeOK, Exclusive, Ordered, OwnerIsLast

LEMMA LaunchIInv ==
  ASSUME IInv, NEW p \in DOMAIN owned, NEW k \in Kernel, Launch(p, k)
  PROVE  IInv'
<1> USE DEF IInv, Launch, PagesOf
<1> DEFINE s == owned[p].stream
<1>1. s \in Stream /\ order[s] \subseteq DOMAIN pending
  BY DEF TypeOK
<1>2. order' = [t \in Stream |-> IF t = s THEN order[t] \cup {k} ELSE order[t]]
  BY DEF TypeOK
<1>3. TypeOK'
  BY <1>1, <1>2 DEF TypeOK
<1>4. Exclusive'
  BY DEF Exclusive
<1>5. Ordered'
  BY <1>1 DEF Ordered, OwnerIsLast
<1>6. ASSUME NEW q \in DOMAIN owned', NEW j \in DOMAIN pending',
             pending'[j].pages \cap PagesOf(q)' # {}
      PROVE  j \in order'[owned'[q].stream]
  <2>1. owned'[q] = owned[q] /\ owned[q].stream \in Stream
    BY DEF TypeOK
  <2>2. CASE j = k
    <3>1. pending'[k].pages = PagesOf(p)
      OBVIOUS
    <3>2. q = p
      BY <1>6, <2>2, <3>1 DEF Exclusive
    <3> QED
      BY <1>1, <1>2, <2>1, <2>2, <3>2
  <2>3. CASE j # k
    <3>1. j \in DOMAIN pending /\ pending'[j] = pending[j]
      BY <2>3
    <3>2. j \in order[owned[q].stream]
      BY <1>6, <3>1 DEF OwnerIsLast
    <3> QED
      BY <1>2, <2>1, <3>2
  <2> QED
    BY <2>2, <2>3
<1>7. OwnerIsLast'
  BY <1>6 DEF OwnerIsLast
<1> QED
  BY <1>3, <1>4, <1>5, <1>7

LEMMA RetireIInv ==
  ASSUME IInv, NEW k \in DOMAIN pending, Retire(k)
  PROVE  IInv'
<1> USE DEF IInv, Retire, PagesOf
<1>1. ASSUME NEW j \in DOMAIN pending'
      PROVE  /\ j \in DOMAIN pending \ {k}
             /\ pending'[j] = [pages |-> pending[j].pages,
                               after |-> pending[j].after \ {k}]
             /\ pending'[j].pages = pending[j].pages
             /\ pending'[j].after = pending[j].after \ {k}
  <2>1. j \in DOMAIN pending \ {k}
    OBVIOUS
  <2>2. pending'[j] = [pending[j] EXCEPT !.after = @ \ {k}]
    BY <2>1
  <2>3. pending[j] = [pages |-> pending[j].pages, after |-> pending[j].after]
    BY <2>1 DEF TypeOK
  <2> QED
    BY <2>1, <2>2, <2>3
<1>2. DOMAIN pending' = DOMAIN pending \ {k}
  OBVIOUS
<1>3. TypeOK'
  <2>1. ASSUME NEW j \in DOMAIN pending'
        PROVE  /\ pending'[j] = [pages |-> pending'[j].pages,
                                 after |-> pending'[j].after]
               /\ pending'[j].pages \subseteq Page
               /\ pending'[j].after \subseteq DOMAIN pending'
    <3>1. pending[j].pages \subseteq Page /\ pending[j].after \subseteq DOMAIN pending
      BY <1>1 DEF TypeOK
    <3> QED
      BY <1>1, <1>2, <3>1
  <2>2. order' \in [Stream -> SUBSET DOMAIN pending']
    BY <1>2 DEF TypeOK
  <2> QED
    BY <1>2, <2>1, <2>2 DEF TypeOK
<1>4. Exclusive'
  BY DEF Exclusive
<1>5. Ordered'
  <2>1. SUFFICES ASSUME NEW i \in DOMAIN pending', NEW j \in DOMAIN pending', i # j
                 PROVE  \/ i \in pending'[j].after
                        \/ j \in pending'[i].after
                        \/ pending'[i].pages \cap pending'[j].pages = {}
    BY DEF Ordered
  <2>2. \/ i \in pending[j].after
        \/ j \in pending[i].after
        \/ pending[i].pages \cap pending[j].pages = {}
    BY <1>1, <2>1 DEF Ordered
  <2>3. /\ pending'[i].pages = pending[i].pages
        /\ pending'[i].after = pending[i].after \ {k}
        /\ pending'[j].pages = pending[j].pages
        /\ pending'[j].after = pending[j].after \ {k}
        /\ i # k /\ j # k
    BY <1>1
  <2> QED
    BY <2>2, <2>3
<1>6. OwnerIsLast'
  BY <1>1 DEF OwnerIsLast, TypeOK
<1> QED
  BY <1>3, <1>4, <1>5, <1>6

LEMMA SynchronizeIInv ==
  ASSUME IInv, NEW s \in Stream, NEW K \in SUBSET DOMAIN pending, Synchronize(s, K)
  PROVE  IInv'
<1> USE DEF IInv, Synchronize, PagesOf
<1>1. order' = [t \in Stream |-> IF t = s THEN order[t] \cup K ELSE order[t]]
  BY DEF TypeOK
<1>2. TypeOK'
  BY <1>1 DEF TypeOK
<1>3. Exclusive' /\ Ordered'
  BY DEF Exclusive, Ordered
<1>4. OwnerIsLast'
  BY <1>1 DEF OwnerIsLast, TypeOK
<1> QED
  BY <1>2, <1>3, <1>4

LEMMA CloseIInv == IInv /\ Close => IInv'
  BY DEF IInv, Close, PagesOf, TypeOK, Exclusive, Ordered, OwnerIsLast

LEMMA NextIInv == IInv /\ [Next]_vars => IInv'
<1> SUFFICES ASSUME IInv, [Next]_vars PROVE IInv'
  OBVIOUS
<1>1. CASE \E p \in Pointer, s \in Stream, n \in Size :
             \E b \in [0 .. n - 1 -> Page] : Allocate(p, s, b)
  BY <1>1, AllocateIInv
<1>2. CASE \E p \in DOMAIN owned : Release(p)
  BY <1>2, ReleaseIInv
<1>3. CASE \E p \in DOMAIN owned, k \in Kernel : Launch(p, k)
  BY <1>3, LaunchIInv
<1>4. CASE \E k \in DOMAIN pending : Retire(k)
  BY <1>4, RetireIInv
<1>5. CASE \E s \in Stream : \E K \in SUBSET DOMAIN pending : Synchronize(s, K)
  BY <1>5, SynchronizeIInv
<1>6. CASE Close
  BY <1>6, CloseIInv
<1>7. CASE UNCHANGED vars
  BY <1>7 DEF vars, IInv, PagesOf, TypeOK, Exclusive, Ordered, OwnerIsLast
<1> QED
  BY <1>1, <1>2, <1>3, <1>4, <1>5, <1>6, <1>7 DEF Next

(* The allocator's state is always well formed and all four invariants hold *)
(* together.                                                                *)
THEOREM InductiveInvariant == Spec => []IInv
  BY InitIInv, NextIInv, PTL DEF Spec

(* Pending kernels that touch one page never run concurrently.              *)
THEOREM KernelsOrdered == Spec => []Ordered
  BY InductiveInvariant, PTL DEF IInv

-----------------------------------------------------------------------------
(* The memory manager over it.                                              *)

(* Threads, streams, guards and buffers are what the Rust types say.        *)
MemoryTypes ==
  /\ contexts \in [Thread -> SUBSET Stream]
  /\ guard \in [Thread -> Stream \cup {None}]
  /\ status \in [Thread -> {"running", "unwinding", "dead"}]
  /\ DOMAIN refs = Stream
  /\ life \in [Stream -> {"none", "live", "destroyed"}]
  /\ idle \subseteq Stream
  /\ \A b \in DOMAIN buffers :
       buffers[b] = [thread |-> buffers[b].thread, ptr |-> buffers[b].ptr]

(* Buffers, records and allocations match; one to one while the lock can be *)
(* taken.                                                                   *)
Ownership ==
  /\ \A b, c \in DOMAIN buffers : buffers[b].ptr = buffers[c].ptr => b = c
  /\ \A b \in DOMAIN buffers :
       buffers[b].ptr \in DOMAIN allocated_ptrs \cup DOMAIN malloc_regions
  /\ DOMAIN allocated_ptrs \cup DOMAIN malloc_regions \subseteq DOMAIN owned
  /\ ~poisoned => \A p \in DOMAIN allocated_ptrs \cup DOMAIN malloc_regions :
                   \E b \in DOMAIN buffers : buffers[b].ptr = p
  /\ DOMAIN allocated_ptrs \cap DOMAIN malloc_regions = {}
  /\ \A p \in DOMAIN allocated_ptrs : allocated_ptrs[p].stream = owned[p].stream
  /\ \A p \in DOMAIN malloc_regions :
       /\ malloc_regions[p].stream = owned[p].stream
       /\ malloc_regions[p].size = page_size * Cardinality(PagesOf(p))

(* The holders of a guard of stream s.                                      *)
InContexts(s) == {t \in Thread : s \in contexts[t]}
Small(s) == {p \in DOMAIN allocated_ptrs : allocated_ptrs[p].stream = s}
Pooled(s) == {p \in DOMAIN malloc_regions : malloc_regions[p].stream = s}
Leaving(s) == {t \in Thread : guard[t] = s}

Finite ==
  \A s \in Stream : /\ IsFiniteSet(InContexts(s)) /\ IsFiniteSet(Small(s))
                    /\ IsFiniteSet(Pooled(s)) /\ IsFiniteSet(Leaving(s))

(* Sizes are natural numbers, the bytes and pages counted are finitely many *)
(* and the peak was not missed.                                             *)
Sized ==
  /\ \A p \in DOMAIN allocated_ptrs : allocated_ptrs[p].size \in Nat
  /\ IsFiniteSet(SmallBytes) /\ IsFiniteSet(PoolPages)
  /\ current_size \in Nat /\ high \in Nat /\ current_size <= high
  /\ Accounted

MemoryInv ==
  /\ IInv
  /\ MemoryTypes /\ Ownership /\ FaultsContained
  /\ Finite /\ StreamLifetime
  /\ Sized

-----------------------------------------------------------------------------
(* Sizes and pages.                                                         *)

LEMMA Quotient ==
  ASSUME NEW m \in Nat \ {0}, NEW k \in Int
  PROVE  (m * k) \div m = k
<1> DEFINE q == (m * k) \div m
<1>1. q \in Int /\ m * q <= m * k /\ m * k < m * q + m
  BY SMT
<1>2. ~(q < k) /\ ~(k < q)
  BY <1>1, SMT
<1> QED
  BY <1>1, <1>2

LEMMA RoundedUp ==
  ASSUME NEW size \in Nat
  PROVE  LET n == next_multiple_of(size) \div page_size
         IN  n \in Nat /\ next_multiple_of(size) = page_size * n
<1> DEFINE k == (size + page_size - 1) \div page_size
<1>1. page_size \in Nat \ {0} /\ k \in Nat
  BY PageAssumption, SMT
<1>2. (page_size * k) \div page_size = k
  BY <1>1, Quotient
<1> QED
  BY <1>1, <1>2 DEF next_multiple_of

LEMMA PagesCounted ==
  ASSUME NEW n \in Nat, NEW b, DOMAIN b = 0 .. n - 1, IsInjective(b)
  PROVE  IsFiniteSet(Range(b)) /\ Cardinality(Range(b)) = n
<1> DEFINE S == 0 .. n - 1
<1>1. IsFiniteSet(S) /\ Cardinality(S) = n
  BY FS_Interval, SMT
<1>2. Range(b) = {b[x] : x \in S}
  BY DEF Range
<1>3. DEFINE f == [x \in S |-> b[x]]
<1>4. f \in Surjection(S, Range(b)) /\ f \in Injection(S, Range(b))
  BY <1>2 DEF Surjection, Injection, IsInjective
<1> QED
  BY <1>1, <1>4, FS_Surjection

-----------------------------------------------------------------------------
(* Every step of the manager is one of the allocator's, or changes nothing  *)
(* that the allocator keeps.                                                *)

LEMMA Untouched == ASSUME IInv, UNCHANGED vars PROVE IInv'
  BY NextIInv

LEMMA MallocIInv ==
  ASSUME IInv, NEW p \in Pointer, NEW s \in Stream, NEW size \in Length,
         malloc_small(p, s, size) \/ malloc_pool(p, s, size)
  PROVE  IInv'
<1>1. CASE malloc_small(p, s, size)
  <2>1. PICK g \in Page \ PoolPage : Allocate(p, s, [i \in {0} |-> g])
    BY <1>1 DEF malloc_small
  <2>2. [i \in {0} |-> g] \in [0 .. 1 - 1 -> Page]
    OBVIOUS
  <2> QED
    BY <2>1, <2>2, AllocateIInv
<1>2. CASE malloc_pool(p, s, size)
  <2> DEFINE n == next_multiple_of(size) \div page_size
  <2>1. PICK b \in [0 .. n - 1 -> PoolPage] : Allocate(p, s, b)
    BY <1>2 DEF malloc_pool
  <2>2. b \in [0 .. n - 1 -> Page]
    BY PageAssumption
  <2> HIDE DEF n
  <2> QED
    BY <2>1, <2>2, AllocateIInv
<1> QED
  BY <1>1, <1>2

LEMMA DropBufferIInv ==
  ASSUME IInv, NEW t \in Thread, NEW b \in Buffer, DropBuffer(t, b)
  PROVE  IInv'
<1> DEFINE p == buffers[b].ptr
<1>1. CASE free_small(t, p) \/ free_pool(t, p)
  <2>1. Release(p) /\ p \in DOMAIN owned
    BY <1>1 DEF free_small, free_pool, Release
  <2> QED
    BY <2>1, ReleaseIInv
<1>2. CASE free_small_fails(t, p) \/ free_pool_panics(t, p) \/ free_fails(t, p)
  BY <1>2, Untouched DEF free_small_fails, free_pool_panics, free_fails
<1> QED
  BY <1>1, <1>2 DEF DropBuffer

LEMMA MemoryIInv == IInv /\ [MemoryNext]_allvars => IInv'
<1> SUFFICES ASSUME IInv, [MemoryNext]_allvars PROVE IInv'
  OBVIOUS
<1>1. CASE Device
  BY <1>1, RetireIInv, SynchronizeIInv DEF Device
<1>2. CASE UNCHANGED allvars
  BY <1>2, Untouched DEF allvars
<1>3. ASSUME NEW t \in Thread, NEW b \in Buffer, NEW s \in Stream, NEW n \in Length,
             with_capacity_on(t, b, s, n)
      PROVE  IInv'
  <2>1. \/ UNCHANGED vars
        \/ \E p \in Pointer : malloc_small(p, s, n) \/ malloc_pool(p, s, n)
    BY <1>3 DEF with_capacity_on, malloc_fails
  <2> QED
    BY <2>1, MallocIInv, Untouched
<1>4. ASSUME NEW t \in Thread, NEW b \in Buffer, DropBuffer(t, b)
      PROVE  IInv'
  BY <1>4, DropBufferIInv
<1>5. ASSUME NEW t \in Thread, NEW b \in Buffer, NEW k \in Kernel, LaunchOn(t, b, k)
      PROVE  IInv'
  <2>1. Launch(buffers[b].ptr, k) /\ buffers[b].ptr \in DOMAIN owned
    BY <1>5 DEF LaunchOn, Launch
  <2> QED
    BY <2>1, LaunchIInv
<1>6. CASE \E t \in Thread : \E s \in Stream : NewContext(t, s) \/ DropContext(t, s)
  BY <1>6, Untouched DEF NewContext, DropContext
<1>7. CASE \E t, u \in Thread, s \in Stream : CloneContext(t, u, s)
  BY <1>7, Untouched DEF CloneContext
<1>8. CASE \E t \in Thread : \/ \E b, c \in Buffer : as_buffer(t, b, c)
                             \/ \E u \in Thread, b \in Buffer : SendBuffer(t, u, b)
                             \/ DropGuard(t) \/ Unwound(t) \/ reset_peak(t)
  BY <1>8, Untouched DEF as_buffer, SendBuffer, DropGuard, Unwound, reset_peak
<1> QED
  BY <1>1, <1>2, <1>3, <1>4, <1>5, <1>6, <1>7, <1>8 DEF MemoryNext

-----------------------------------------------------------------------------
(* Ownership, and with it what a fault can do.                              *)

Owns == IInv /\ MemoryTypes /\ Ownership /\ FaultsContained

(* Steps of contexts, guards, kernels and statistics.                       *)
LEMMA OwnershipKept ==
  ASSUME Ownership, UNCHANGED <<allocated_ptrs, malloc_regions, owned, buffers>>,
         poisoned => poisoned'
  PROVE  Ownership'
  BY DEF Ownership, PagesOf

LEMMA GuardsTypes ==
  ASSUME MemoryTypes, NEW cloned, NEW dropped, Guards(cloned, dropped)
  PROVE  life' \in [Stream -> {"none", "live", "destroyed"}] /\ DOMAIN refs' = Stream
  BY DEF MemoryTypes, Guards

LEMMA ContextsOwn ==
  ASSUME Owns, NEW t \in Thread, NEW u \in Thread, NEW s \in Stream,
         NewContext(t, s) \/ CloneContext(t, u, s) \/ DropContext(t, s)
  PROVE  (MemoryTypes /\ Ownership /\ FaultsContained)'
<1> USE DEF Owns, MemoryTypes
<1>1. Ownership' /\ FaultsContained'
  <2>1. UNCHANGED <<vars, records, lock, buffers, aborted>>
    BY DEF NewContext, CloneContext, DropContext
  <2>2. UNCHANGED <<allocated_ptrs, malloc_regions, owned, buffers>>
    BY <2>1 DEF records, vars
  <2> QED
    BY <2>1, <2>2, OwnershipKept DEF FaultsContained, Leaked, lock
<1>2. CASE NewContext(t, s)
  BY <1>1, <1>2 DEF NewContext, records
<1>3. CASE CloneContext(t, u, s)
  <2>1. life' \in [Stream -> {"none", "live", "destroyed"}] /\ DOMAIN refs' = Stream
    BY <1>3, GuardsTypes DEF CloneContext
  <2> QED
    BY <1>1, <1>3, <2>1 DEF CloneContext, records
<1>4. CASE DropContext(t, s)
  <2>1. life' \in [Stream -> {"none", "live", "destroyed"}] /\ DOMAIN refs' = Stream
    BY <1>4, GuardsTypes DEF DropContext
  <2> QED
    BY <1>1, <1>4, <2>1 DEF DropContext, records
<1> QED
  BY <1>2, <1>3, <1>4

LEMMA DropGuardOwn ==
  ASSUME Owns, NEW t \in Thread, DropGuard(t)
  PROVE  (MemoryTypes /\ Ownership /\ FaultsContained)'
<1>1. UNCHANGED <<owned, records, lock, buffers, contexts, status, aborted>>
  BY DEF DropGuard, vars
<1>2. Ownership' /\ FaultsContained'
  BY <1>1, OwnershipKept DEF Owns, records, lock, FaultsContained, Leaked
<1>3. life' \in [Stream -> {"none", "live", "destroyed"}] /\ DOMAIN refs' = Stream
  BY GuardsTypes DEF DropGuard, Owns
<1> QED
  BY <1>1, <1>2, <1>3 DEF Owns, MemoryTypes, records, DropGuard

LEMMA QuietOwn ==
  ASSUME Owns,
         \/ Device \/ UNCHANGED allvars
         \/ \E t \in Thread : \/ Unwound(t) \/ reset_peak(t)
                             \/ \E b \in Buffer, k \in Kernel : LaunchOn(t, b, k)
  PROVE  (MemoryTypes /\ Ownership /\ FaultsContained)'
<1>1. UNCHANGED <<records, lock, buffers, contexts, guard, arcs, aborted, owned>>
  BY DEF Device, Unwound, reset_peak, LaunchOn, allvars, Retire, Synchronize, Launch, vars
<1>2. status' \in [Thread -> {"running", "unwinding", "dead"}]
  BY DEF Owns, MemoryTypes, Device, Unwound, reset_peak, LaunchOn, allvars
<1>3. Ownership' /\ FaultsContained'
  BY <1>1, OwnershipKept DEF Owns, records, lock, FaultsContained, Leaked
<1> QED
  BY <1>1, <1>2, <1>3 DEF Owns, MemoryTypes, records, arcs

(* A buffer changes its name or its thread, its allocation stays.           *)
LEMMA BuffersMoved ==
  ASSUME Owns, NEW t \in Thread, NEW u \in Thread, NEW b \in Buffer, NEW c \in Buffer,
         as_buffer(t, b, c) \/ SendBuffer(t, u, b)
  PROVE  (MemoryTypes /\ Ownership /\ FaultsContained)'
<1>1. /\ UNCHANGED <<records, lock, contexts, guard, arcs, status, aborted, owned>>
      /\ b \in DOMAIN buffers
  BY DEF as_buffer, SendBuffer, OwnBuffers, vars
<1>2. CASE as_buffer(t, b, c)
  <2>1. /\ c \notin DOMAIN buffers
        /\ DOMAIN buffers' = (DOMAIN buffers \ {b}) \cup {c}
        /\ \A d \in DOMAIN buffers' :
             buffers'[d] = IF d = c THEN buffers[b] ELSE buffers[d]
    BY <1>2 DEF as_buffer, With, Without
  <2>2. MemoryTypes'
    BY <1>1, <2>1 DEF Owns, MemoryTypes, records, arcs
  <2>3. Ownership'
    <3> USE DEF Owns, Ownership, records, lock
    <3>1. ASSUME ~poisoned', NEW p \in DOMAIN allocated_ptrs' \cup DOMAIN malloc_regions'
          PROVE  \E d \in DOMAIN buffers' : buffers'[d].ptr = p
      <4>1. PICK d \in DOMAIN buffers : buffers[d].ptr = p
        BY <1>1, <3>1
      <4>2. CASE d = b
        BY <2>1, <4>1, <4>2
      <4>3. CASE d # b
        BY <2>1, <4>1, <4>3
      <4> QED
        BY <4>2, <4>3
    <3>2. \A d, e \in DOMAIN buffers' : buffers'[d].ptr = buffers'[e].ptr => d = e
      BY <1>1, <2>1
    <3>3. \A d \in DOMAIN buffers' :
            buffers'[d].ptr \in DOMAIN allocated_ptrs' \cup DOMAIN malloc_regions'
      BY <1>1, <2>1
    <3> QED
      BY <1>1, <3>1, <3>2, <3>3 DEF PagesOf
  <2> QED
    BY <1>1, <2>2, <2>3 DEF Owns, FaultsContained, Leaked, records, lock
<1>3. CASE SendBuffer(t, u, b)
  <2>1. /\ DOMAIN buffers' = DOMAIN buffers
        /\ \A d \in DOMAIN buffers' :
             /\ buffers'[d] = IF d = b THEN [thread |-> u, ptr |-> buffers[b].ptr]
                                       ELSE buffers[d]
             /\ buffers'[d].ptr = buffers[d].ptr
    <3>1. buffers[b] = [thread |-> buffers[b].thread, ptr |-> buffers[b].ptr]
      BY <1>1 DEF Owns, MemoryTypes
    <3>2. [buffers[b] EXCEPT !.thread = u] = [thread |-> u, ptr |-> buffers[b].ptr]
      BY <3>1
    <3> QED
      BY <1>1, <1>3, <3>2 DEF SendBuffer
  <2>2. MemoryTypes'
    BY <1>1, <2>1 DEF Owns, MemoryTypes, records, arcs
  <2>3. Ownership'
    BY <1>1, <2>1 DEF Owns, Ownership, PagesOf, records, lock
  <2> QED
    BY <1>1, <2>2, <2>3 DEF Owns, FaultsContained, Leaked, records, lock
<1> QED
  BY <1>2, <1>3

(* A new allocation, its record and its buffer.                             *)
LEMMA MallocOwn ==
  ASSUME Owns, NEW t \in Thread, NEW b \in Buffer, NEW s \in Stream,
         NEW size \in Length, NEW p \in Pointer, b \notin DOMAIN buffers,
         malloc_small(p, s, size) \/ malloc_pool(p, s, size),
         buffers' = With(buffers, b, [thread |-> t, ptr |-> p]),
         UNCHANGED <<contexts, guard, lock, status, aborted>>
  PROVE  (MemoryTypes /\ Ownership /\ FaultsContained)'
<1> USE DEF Owns
<1>1. PICK pages :
        /\ Allocate(p, s, pages)
        /\ malloc_pool(p, s, size) =>
             \E n \in Nat : /\ next_multiple_of(size) = page_size * n
                            /\ n = next_multiple_of(size) \div page_size
                            /\ DOMAIN pages = 0 .. n - 1
  <2>1. CASE malloc_small(p, s, size) /\ ~malloc_pool(p, s, size)
    BY <2>1 DEF malloc_small
  <2>2. CASE malloc_pool(p, s, size)
    <3> DEFINE n == next_multiple_of(size) \div page_size
    <3>1. size \in Nat
      BY PageAssumption
    <3>2. n \in Nat /\ next_multiple_of(size) = page_size * n
      BY <3>1, RoundedUp
    <3>3. PICK f \in [0 .. n - 1 -> PoolPage] : Allocate(p, s, f)
      BY <2>2 DEF malloc_pool
    <3> HIDE DEF n
    <3>4. DOMAIN f = 0 .. n - 1
      BY <3>3
    <3> QED
      BY <3>2, <3>3, <3>4 DEF n
  <2> QED
    BY <2>1, <2>2
<1>2. /\ p \notin DOMAIN owned
      /\ DOMAIN owned' = DOMAIN owned \cup {p}
      /\ owned'[p] = [stream |-> s, pages |-> pages]
      /\ \A q \in DOMAIN owned : owned'[q] = owned[q]
      /\ IsInjective(pages)
  BY <1>1 DEF Allocate
<1>3. /\ PagesOf(p)' = Range(pages)
      /\ \A q \in DOMAIN owned : PagesOf(q)' = PagesOf(q)
  BY <1>2 DEF PagesOf
<1>4. /\ DOMAIN buffers' = DOMAIN buffers \cup {b}
      /\ buffers'[b] = [thread |-> t, ptr |-> p]
      /\ \A c \in DOMAIN buffers : buffers'[c] = buffers[c]
  BY DEF With
<1>5. p \notin DOMAIN allocated_ptrs \cup DOMAIN malloc_regions
  BY <1>2 DEF Ownership
<1>6. \/ /\ DOMAIN allocated_ptrs' = DOMAIN allocated_ptrs \cup {p}
         /\ allocated_ptrs'[p].stream = s
         /\ \A q \in DOMAIN allocated_ptrs : allocated_ptrs'[q] = allocated_ptrs[q]
         /\ UNCHANGED malloc_regions
      \/ /\ DOMAIN malloc_regions' = DOMAIN malloc_regions \cup {p}
         /\ malloc_regions'[p].stream = s
         /\ malloc_regions'[p].size = page_size * Cardinality(Range(pages))
         /\ \A q \in DOMAIN malloc_regions : malloc_regions'[q] = malloc_regions[q]
         /\ UNCHANGED allocated_ptrs
  <2>1. CASE malloc_small(p, s, size)
    BY <1>5, <2>1 DEF malloc_small, With
  <2>2. CASE malloc_pool(p, s, size)
    <3>1. PICK n \in Nat : /\ next_multiple_of(size) = page_size * n
                           /\ DOMAIN pages = 0 .. n - 1
      BY <1>1, <2>2
    <3>2. Cardinality(Range(pages)) = n
      BY <1>2, <3>1, PagesCounted
    <3>3. /\ malloc_regions' = With(malloc_regions, p, [size |-> page_size * n, stream |-> s])
          /\ UNCHANGED allocated_ptrs
      BY <2>2, <3>1 DEF malloc_pool
    <3> QED
      BY <1>5, <3>2, <3>3 DEF With
  <2> QED
    BY <2>1, <2>2
<1>7. Ownership'
  <2>1. \A c, d \in DOMAIN buffers' : buffers'[c].ptr = buffers'[d].ptr => c = d
    BY <1>4, <1>5 DEF Ownership
  <2>2. \A c \in DOMAIN buffers' :
          buffers'[c].ptr \in DOMAIN allocated_ptrs' \cup DOMAIN malloc_regions'
    BY <1>4, <1>6 DEF Ownership
  <2>3. /\ DOMAIN allocated_ptrs' \cup DOMAIN malloc_regions' \subseteq DOMAIN owned'
        /\ ~poisoned' => \A q \in DOMAIN allocated_ptrs' \cup DOMAIN malloc_regions' :
                          \E c \in DOMAIN buffers' : buffers'[c].ptr = q
    BY <1>2, <1>4, <1>6 DEF Ownership, lock
  <2>4. DOMAIN allocated_ptrs' \cap DOMAIN malloc_regions' = {}
    BY <1>5, <1>6 DEF Ownership
  <2>5. \A q \in DOMAIN allocated_ptrs' : allocated_ptrs'[q].stream = owned'[q].stream
    BY <1>2, <1>5, <1>6 DEF Ownership
  <2>6. ASSUME NEW q \in DOMAIN malloc_regions'
        PROVE  /\ malloc_regions'[q].stream = owned'[q].stream
               /\ malloc_regions'[q].size = page_size * Cardinality(PagesOf(q)')
    <3>1. CASE q = p
      BY <1>2, <1>3, <1>5, <1>6, <3>1
    <3>2. CASE q # p
      BY <1>2, <1>3, <1>6, <3>2 DEF Ownership
    <3> QED
      BY <3>1, <3>2
  <2> QED
    BY <2>1, <2>2, <2>3, <2>4, <2>5, <2>6 DEF Ownership
<1>8. /\ idle' \subseteq Stream /\ DOMAIN refs' = Stream
      /\ life' \in [Stream -> {"none", "live", "destroyed"}]
  BY GuardsTypes DEF malloc_small, malloc_pool, Defragment, MemoryTypes
<1>9. MemoryTypes'
  BY <1>4, <1>8 DEF MemoryTypes
<1>10. Leaked' = Leaked
  BY <1>2, <1>5, <1>6 DEF Leaked
<1> QED
  BY <1>7, <1>9, <1>10 DEF FaultsContained, lock

LEMMA PanicTypes ==
  ASSUME MemoryTypes, NEW t, Panic(t)
  PROVE  status' \in [Thread -> {"running", "unwinding", "dead"}]
  BY DEF MemoryTypes, Panic

(* A request that fails leaves the records and the buffers alone.           *)
LEMMA WithCapacityOwn ==
  ASSUME Owns, NEW t \in Thread, NEW b \in Buffer, NEW s \in Stream,
         NEW size \in Length, with_capacity_on(t, b, s, size)
  PROVE  (MemoryTypes /\ Ownership /\ FaultsContained)'
<1>1. ~aborted /\ status[t] = "running" /\ UNCHANGED <<contexts, guard>>
  BY DEF with_capacity_on, Ready
<1>2. ASSUME Panic(t), UNCHANGED <<owned, allocated_ptrs, malloc_regions, buffers>>,
             UNCHANGED lock \/ PanicInside(t),
             idle' \subseteq Stream, DOMAIN refs' = Stream,
             life' \in [Stream -> {"none", "live", "destroyed"}]
      PROVE  (MemoryTypes /\ Ownership /\ FaultsContained)'
  <2>1. ~aborted'
    BY <1>1, <1>2 DEF Panic
  <2>2. poisoned => poisoned'
    <3>1. CASE UNCHANGED lock
      BY <3>1 DEF lock
    <3>2. CASE PanicInside(t)
      BY <1>1, <3>2 DEF PanicInside
    <3> QED
      BY <1>2, <3>1, <3>2
  <2>3. Ownership'
    BY <1>2, <2>2, OwnershipKept DEF Owns
  <2>4. MemoryTypes'
    BY <1>1, <1>2, PanicTypes DEF Owns, MemoryTypes
  <2>5. Leaked' = Leaked
    BY <1>2 DEF Leaked
  <2>6. FaultsContained'
    BY <1>2, <2>1, <2>5 DEF Owns, FaultsContained, PanicInside, lock
  <2> QED
    BY <2>3, <2>4, <2>6
<1>3. CASE Panic(t) /\ UNCHANGED <<vars, records, sizes, lock, buffers, arcs>>
  BY <1>2, <1>3 DEF vars, records, arcs, Owns, MemoryTypes
<1>4. CASE /\ malloc_fails(s, size) /\ UNCHANGED buffers
           /\ PanicInside(t) \/ (Panic(t) /\ UNCHANGED lock)
  <2>1. /\ idle' \subseteq Stream /\ DOMAIN refs' = Stream
        /\ life' \in [Stream -> {"none", "live", "destroyed"}]
    BY <1>4, GuardsTypes DEF Owns, malloc_fails, Defragment, MemoryTypes, arcs
  <2> QED
    BY <1>2, <1>4, <2>1 DEF malloc_fails, vars, PanicInside
<1>5. CASE \E p \in Pointer :
             /\ malloc_small(p, s, size) \/ malloc_pool(p, s, size)
             /\ buffers' = With(buffers, b, [thread |-> t, ptr |-> p])
             /\ UNCHANGED <<lock, status, aborted>>
  <2>1. b \notin DOMAIN buffers
    BY DEF with_capacity_on
  <2> QED
    BY <1>1, <1>5, <2>1, MallocOwn
<1> QED
  BY <1>3, <1>4, <1>5 DEF with_capacity_on

(* The record is found, because a buffer has one; if CUDA refuses to free,  *)
(* the memory is what is left behind.                                       *)
LEMMA DropBufferCases ==
  ASSUME Owns, NEW t \in Thread, NEW b \in Buffer, DropBuffer(t, b)
  PROVE  LET p == buffers[b].ptr
         IN  /\ b \in DOMAIN buffers /\ ~aborted /\ guard[t] = None
             /\ UNCHANGED contexts
             /\ p \in DOMAIN allocated_ptrs \cup DOMAIN malloc_regions
             /\ \/ /\ ~poisoned
                   /\ \/ free_small(t, p) \/ free_small_fails(t, p)
                      \/ free_pool(t, p) \/ free_pool_panics(t, p)
                \/ poisoned /\ free_fails(t, p)
  BY DEF DropBuffer, Ready, OwnBuffers, Owns, Ownership, free_fails

LEMMA DropBufferOwn ==
  ASSUME Owns, NEW t \in Thread, NEW b \in Buffer, DropBuffer(t, b)
  PROVE  (MemoryTypes /\ Ownership /\ FaultsContained)'
<1> DEFINE p == buffers[b].ptr
<1> USE DEF Owns
<1>1. /\ b \in DOMAIN buffers /\ ~aborted
      /\ UNCHANGED contexts
      /\ p \in DOMAIN allocated_ptrs \cup DOMAIN malloc_regions
      /\ p \in DOMAIN owned
      /\ \/ /\ ~poisoned
            /\ \/ free_small(t, p) \/ free_small_fails(t, p)
               \/ free_pool(t, p) \/ free_pool_panics(t, p)
         \/ poisoned /\ free_fails(t, p)
  BY DropBufferCases DEF Ownership
<1>2. /\ DOMAIN buffers' = DOMAIN buffers \ {b}
      /\ \A c \in DOMAIN buffers' : buffers'[c] = buffers[c]
  BY DEF DropBuffer, Without
<1>3. \A c, d \in DOMAIN buffers' : buffers'[c].ptr = buffers'[d].ptr => c = d
  BY <1>2 DEF Ownership
<1>4. CASE poisoned /\ free_fails(t, p)
  <2>1. UNCHANGED <<owned, records, guard, arcs, poisoned, refused>> /\ Panic(t)
    BY <1>4 DEF free_fails, vars, lock
  <2>2. Ownership'
    BY <1>2, <1>3, <1>4, <2>1 DEF Ownership, records, PagesOf
  <2>3. MemoryTypes'
    BY <1>1, <1>2, <2>1, PanicTypes DEF MemoryTypes, records, arcs
  <2>4. FaultsContained'
    BY <1>4, <2>1 DEF FaultsContained
  <2> QED
    BY <2>2, <2>3, <2>4
<1>5. CASE /\ ~poisoned
           /\ \/ free_small(t, p) \/ free_small_fails(t, p)
              \/ free_pool(t, p) \/ free_pool_panics(t, p)
  <2>1. \/ /\ p \in DOMAIN allocated_ptrs
           /\ DOMAIN allocated_ptrs' = DOMAIN allocated_ptrs \ {p}
           /\ \A q \in DOMAIN allocated_ptrs' : allocated_ptrs'[q] = allocated_ptrs[q]
           /\ UNCHANGED malloc_regions
        \/ /\ p \in DOMAIN malloc_regions
           /\ DOMAIN malloc_regions' = DOMAIN malloc_regions \ {p}
           /\ \A q \in DOMAIN malloc_regions' : malloc_regions'[q] = malloc_regions[q]
           /\ UNCHANGED allocated_ptrs
    BY <1>5 DEF free_small, free_small_fails, free_pool, free_pool_panics, Without
  <2>2. /\ DOMAIN owned' = DOMAIN owned \/ DOMAIN owned' = DOMAIN owned \ {p}
        /\ free_small(t, p) \/ free_pool(t, p) => DOMAIN owned' = DOMAIN owned \ {p}
        /\ \A q \in DOMAIN owned' : owned'[q] = owned[q] /\ PagesOf(q)' = PagesOf(q)
    BY <1>5 DEF free_small, free_small_fails, free_pool, free_pool_panics, Release,
       PagesOf, vars
  <2>3. Ownership'
    <3>1. \A c \in DOMAIN buffers' :
            buffers'[c].ptr \in DOMAIN allocated_ptrs' \cup DOMAIN malloc_regions'
      BY <1>1, <1>2, <2>1 DEF Ownership
    <3>2. ASSUME NEW q \in DOMAIN allocated_ptrs' \cup DOMAIN malloc_regions'
          PROVE  q \in DOMAIN owned' /\ \E c \in DOMAIN buffers' : buffers'[c].ptr = q
      <4>1. q # p /\ q \in DOMAIN allocated_ptrs \cup DOMAIN malloc_regions
        BY <2>1 DEF Ownership
      <4>2. q \in DOMAIN owned /\ \E c \in DOMAIN buffers : buffers[c].ptr = q
        BY <1>5, <4>1 DEF Ownership
      <4> QED
        BY <1>2, <2>2, <4>1, <4>2
    <3>3. DOMAIN allocated_ptrs' \cap DOMAIN malloc_regions' = {}
      BY <2>1 DEF Ownership
    <3>4. \A q \in DOMAIN allocated_ptrs' : allocated_ptrs'[q].stream = owned'[q].stream
      BY <2>1, <2>2, <3>2 DEF Ownership
    <3>5. \A q \in DOMAIN malloc_regions' :
            /\ malloc_regions'[q].stream = owned'[q].stream
            /\ malloc_regions'[q].size = page_size * Cardinality(PagesOf(q)')
      BY <2>1, <2>2, <3>2 DEF Ownership
    <3> QED
      BY <1>3, <3>1, <3>2, <3>3, <3>4, <3>5 DEF Ownership
  <2>4. FaultsContained'
    <3>1. CASE free_small_fails(t, p) \/ free_pool_panics(t, p)
      BY <3>1 DEF free_small_fails, free_pool_panics, PanicInside, FaultsContained
    <3>2. CASE free_small(t, p) \/ free_pool(t, p)
      <4>1. Leaked' \subseteq Leaked /\ UNCHANGED <<poisoned, refused, aborted>>
        BY <2>1, <2>2, <3>2 DEF Leaked, free_small, free_pool, lock
      <4> QED
        BY <4>1 DEF FaultsContained
    <3> QED
      BY <1>5, <3>1, <3>2
  <2>5. MemoryTypes'
    <3>1. /\ \A q \in DOMAIN allocated_ptrs : allocated_ptrs[q].stream \in Stream
          /\ \A q \in DOMAIN malloc_regions : malloc_regions[q].stream \in Stream
      BY DEF Ownership, IInv, TypeOK
    <3>2. CASE free_small(t, p)
      BY <1>1, <1>2, <3>1, <3>2 DEF free_small, MemoryTypes, arcs
    <3>3. CASE free_small_fails(t, p)
      BY <1>1, <1>2, <3>3, GuardsTypes, PanicTypes DEF free_small_fails, MemoryTypes
    <3>4. CASE free_pool(t, p)
      BY <1>1, <1>2, <3>1, <3>4, GuardsTypes DEF free_pool, MemoryTypes
    <3>5. CASE free_pool_panics(t, p)
      <4>1. /\ idle' \subseteq Stream /\ UNCHANGED guard
            /\ status' \in [Thread -> {"running", "unwinding", "dead"}]
            /\ DOMAIN refs' = Stream /\ life' \in [Stream -> {"none", "live", "destroyed"}]
        BY <3>5, GuardsTypes, PanicTypes DEF free_pool_panics, PanicInside, MemoryTypes
      <4> QED
        BY <1>1, <1>2, <4>1 DEF MemoryTypes
    <3> QED
      BY <1>5, <3>2, <3>3, <3>4, <3>5
  <2> QED
    BY <2>3, <2>4, <2>5
<1> QED
  BY <1>1, <1>4, <1>5

LEMMA OwnsNext == Owns /\ [MemoryNext]_allvars => Owns'
<1> SUFFICES ASSUME Owns, [MemoryNext]_allvars
             PROVE  (MemoryTypes /\ Ownership /\ FaultsContained)'
  BY MemoryIInv DEF Owns
<1>1. CASE Device \/ UNCHANGED allvars
  BY <1>1, QuietOwn
<1>2. CASE \E t \in Thread :
             \/ \E s \in Stream : NewContext(t, s) \/ DropContext(t, s)
             \/ \E u \in Thread, s \in Stream : CloneContext(t, u, s)
  BY <1>2, ContextsOwn
<1>3. CASE \E t \in Thread : \E b \in Buffer, s \in Stream, n \in Length :
             with_capacity_on(t, b, s, n)
  BY <1>3, WithCapacityOwn
<1>4. CASE \E t \in Thread : \E b \in Buffer : DropBuffer(t, b)
  BY <1>4, DropBufferOwn
<1>5. CASE \E t \in Thread :
             \/ \E b, c \in Buffer : as_buffer(t, b, c)
             \/ \E u \in Thread, b \in Buffer : SendBuffer(t, u, b)
  BY <1>5, BuffersMoved
<1>6. CASE \E t \in Thread :
             \/ Unwound(t) \/ reset_peak(t)
             \/ \E b \in Buffer, k \in Kernel : LaunchOn(t, b, k)
  BY <1>6, QuietOwn
<1>7. CASE \E t \in Thread : DropGuard(t)
  BY <1>7, DropGuardOwn
<1> QED
  BY <1>1, <1>2, <1>3, <1>4, <1>5, <1>6, <1>7 DEF MemoryNext

LEMMA OwnsInit == MemoryInit => Owns
<1> SUFFICES ASSUME MemoryInit PROVE Owns
  OBVIOUS
<1>1. IInv
  BY InitIInv DEF MemoryInit
<1>2. MemoryTypes
  BY DEF MemoryTypes, MemoryInit, EmptyMap
<1>3. Ownership /\ FaultsContained
  BY DEF Ownership, FaultsContained, Leaked, MemoryInit, Init, EmptyMap
<1> QED
  BY <1>1, <1>2, <1>3 DEF Owns

LEMMA BuffersOwnHolds == Owns => BuffersOwn
<1> SUFFICES ASSUME Owns PROVE BuffersOwn
  OBVIOUS
<1> DEFINE ptrs == [b \in DOMAIN buffers |-> buffers[b].ptr]
           recorded == DOMAIN allocated_ptrs \cup DOMAIN malloc_regions
<1>1. IsInjective(ptrs)
  BY DEF Owns, Ownership, IsInjective
<1>2. /\ Range(ptrs) \subseteq recorded /\ recorded \subseteq DOMAIN owned
      /\ ~poisoned => recorded \subseteq Range(ptrs)
  BY DEF Owns, Ownership, Range
<1>3. /\ DOMAIN allocated_ptrs \cap DOMAIN malloc_regions = {}
      /\ \A p \in DOMAIN malloc_regions :
           /\ malloc_regions[p].stream = owned[p].stream
           /\ malloc_regions[p].size = page_size * Cardinality(PagesOf(p))
      /\ \A p \in DOMAIN allocated_ptrs : allocated_ptrs[p].stream = owned[p].stream
  BY DEF Owns, Ownership
<1> HIDE DEF ptrs, recorded
<1> QED
  BY <1>1, <1>2, <1>3 DEF BuffersOwn, ptrs, recorded

-----------------------------------------------------------------------------
(* The guards of a stream.                                                  *)

Counted == Finite /\ StreamLifetime

LEMMA HoldersCount ==
  ASSUME Finite, NEW s \in Stream
  PROVE  /\ Holders(s) \in Nat
         /\ Holders(s) = Cardinality(InContexts(s)) + Cardinality(Small(s))
                           + Cardinality(Pooled(s)) + In(idle)[s]
                           + Cardinality(Leaving(s))
         /\ \A t \in Thread : s \in contexts[t] => Holders(s) > 0
         /\ \A p \in DOMAIN malloc_regions :
              malloc_regions[p].stream = s => Holders(s) > 0
<1>1. Holders(s) = Cardinality(InContexts(s)) + Cardinality(Small(s))
                     + Cardinality(Pooled(s)) + In(idle)[s]
                     + Cardinality(Leaving(s))
  BY DEF Holders, InContexts, Small, Pooled, Leaving
<1>2. /\ Cardinality(InContexts(s)) \in Nat /\ Cardinality(Small(s)) \in Nat
      /\ Cardinality(Pooled(s)) \in Nat /\ Cardinality(Leaving(s)) \in Nat
  BY FS_CardinalityType DEF Finite
<1>3. In(idle)[s] \in {0, 1}
  BY DEF In
<1>4. ASSUME NEW t \in Thread, s \in contexts[t]
      PROVE  Cardinality(InContexts(s)) > 0
  <2>1. InContexts(s) # {}
    BY <1>4 DEF InContexts
  <2> QED
    BY <1>2, <2>1, FS_EmptySet DEF Finite
<1>5. ASSUME NEW p \in DOMAIN malloc_regions, malloc_regions[p].stream = s
      PROVE  Cardinality(Pooled(s)) > 0
  <2>1. Pooled(s) # {}
    BY <1>5 DEF Pooled
  <2> QED
    BY <1>2, <2>1, FS_EmptySet DEF Finite
<1> QED
  BY <1>1, <1>2, <1>3, <1>4, <1>5

LEMMA HoldersCountNext ==
  ASSUME Finite', NEW s \in Stream
  PROVE  /\ Holders(s)' \in Nat
         /\ Holders(s)' = Cardinality(InContexts(s)') + Cardinality(Small(s)')
                            + Cardinality(Pooled(s)') + In(idle')[s]
                            + Cardinality(Leaving(s)')
<1>1. Holders(s)' = Cardinality(InContexts(s)') + Cardinality(Small(s)')
                      + Cardinality(Pooled(s)') + In(idle')[s]
                      + Cardinality(Leaving(s)')
  BY DEF Holders, InContexts, Small, Pooled, Leaving, In
<1>2. /\ Cardinality(InContexts(s)') \in Nat /\ Cardinality(Small(s)') \in Nat
      /\ Cardinality(Pooled(s)') \in Nat /\ Cardinality(Leaving(s)') \in Nat
  BY FS_CardinalityType DEF Finite
<1>3. In(idle')[s] \in {0, 1}
  BY DEF In
<1> QED
  BY <1>1, <1>2, <1>3

(* A count that moves with the holders keeps the handle alive exactly as    *)
(* long as there is one.                                                    *)
LEMMA GuardsLifetime ==
  ASSUME Counted, Finite', NEW cloned, NEW dropped, Guards(cloned, dropped),
         \A s \in Stream :
           /\ cloned[s] \in Nat /\ dropped[s] \in Nat
           /\ Holders(s)' = Holders(s) + cloned[s] - dropped[s]
           /\ cloned[s] > 0 => Holders(s) > 0
  PROVE  Counted'
<1>1. SUFFICES ASSUME NEW s \in Stream
               PROVE  refs'[s] = Holders(s)' /\ (life'[s] = "live" <=> Holders(s)' > 0)
  BY DEF Counted, StreamLifetime
<1>2. Holders(s) \in Nat /\ Holders(s)' \in Nat
  BY HoldersCount, HoldersCountNext DEF Counted
<1>3. refs[s] = Holders(s) /\ (life[s] = "live" <=> Holders(s) > 0)
  BY DEF Counted, StreamLifetime
<1>4. refs'[s] = refs[s] + cloned[s] - dropped[s]
  BY DEF Guards
<1>5. life'[s] = IF life[s] = "live" /\ refs'[s] = 0 THEN "destroyed" ELSE life[s]
  BY DEF Guards
<1> QED
  BY <1>2, <1>3, <1>4, <1>5

LEMMA CountedKept ==
  ASSUME Counted,
         UNCHANGED <<contexts, allocated_ptrs, malloc_regions, idle, guard, arcs>>
  PROVE  Counted'
  BY DEF Counted, Finite, StreamLifetime, Holders, InContexts, Small, Pooled,
         Leaving, arcs, In

LEMMA OneMore ==
  ASSUME NEW S, IsFiniteSet(S), NEW x, x \notin S
  PROVE  IsFiniteSet(S \cup {x}) /\ Cardinality(S \cup {x}) = Cardinality(S) + 1
  BY FS_AddElement

LEMMA OneLess ==
  ASSUME NEW S, IsFiniteSet(S), NEW x \in S
  PROVE  IsFiniteSet(S \ {x}) /\ Cardinality(S \ {x}) = Cardinality(S) - 1
  BY FS_RemoveElement

(* A family of sets indexed by streams, of which one gains or loses x.      *)
LEMMA FamilyGains ==
  ASSUME NEW S, NEW T, IsFiniteSet(S), NEW s \in Stream, NEW c, NEW x,
         s = c => x \notin S, T = IF s = c THEN S \cup {x} ELSE S
  PROVE  IsFiniteSet(T) /\ Cardinality(T) = Cardinality(S) + One(c)[s]
<1>1. Cardinality(S) \in Nat
  BY FS_CardinalityType
<1> QED
  BY <1>1, OneMore DEF One

LEMMA FamilyLoses ==
  ASSUME NEW S, NEW T, IsFiniteSet(S), NEW s \in Stream, NEW c, NEW x,
         s = c => x \in S, T = IF s = c THEN S \ {x} ELSE S
  PROVE  IsFiniteSet(T) /\ Cardinality(T) = Cardinality(S) - One(c)[s]
<1>1. Cardinality(S) \in Nat
  BY FS_CardinalityType
<1> QED
  BY <1>1, OneLess DEF One

LEMMA HoldersChange ==
  ASSUME Finite, Finite', NEW s \in Stream
  PROVE  /\ Holders(s) \in Nat /\ Holders(s)' \in Nat
         /\ Cardinality(InContexts(s)) \in Nat /\ Cardinality(Small(s)) \in Nat
         /\ Cardinality(Pooled(s)) \in Nat /\ Cardinality(Leaving(s)) \in Nat
         /\ In(idle)[s] \in {0, 1} /\ In(idle')[s] \in {0, 1}
         /\ \A c : One(c)[s] = IF s = c THEN 1 ELSE 0
         /\ Holders(s)' =
              Holders(s) + (Cardinality(InContexts(s)') - Cardinality(InContexts(s)))
                         + (Cardinality(Small(s)') - Cardinality(Small(s)))
                         + (Cardinality(Pooled(s)') - Cardinality(Pooled(s)))
                         + (Cardinality(Leaving(s)') - Cardinality(Leaving(s)))
                         + (In(idle')[s] - In(idle)[s])
<1>1. /\ Cardinality(InContexts(s)) \in Nat /\ Cardinality(Small(s)) \in Nat
      /\ Cardinality(Pooled(s)) \in Nat /\ Cardinality(Leaving(s)) \in Nat
      /\ Cardinality(InContexts(s)') \in Nat /\ Cardinality(Small(s)') \in Nat
      /\ Cardinality(Pooled(s)') \in Nat /\ Cardinality(Leaving(s)') \in Nat
      /\ In(idle)[s] \in {0, 1} /\ In(idle')[s] \in {0, 1}
      /\ \A c : One(c)[s] = IF s = c THEN 1 ELSE 0
  BY FS_CardinalityType DEF Finite, In, One
<1> QED
  BY <1>1, HoldersCount, HoldersCountNext

LEMMA NewContextCounted ==
  ASSUME MemoryTypes, Counted, NEW t \in Thread, NEW c \in Stream, NewContext(t, c)
  PROVE  Counted'
<1>1. UNCHANGED <<allocated_ptrs, malloc_regions, idle, guard>>
  BY DEF NewContext, records
<1>2. Holders(c) = 0 /\ t \notin InContexts(c)
  <2>1. life[c] = "none" /\ Holders(c) \in Nat /\ ~(Holders(c) > 0)
    BY HoldersCount DEF Counted, StreamLifetime, NewContext
  <2>2. c \notin contexts[t]
    BY <2>1, HoldersCount DEF Counted
  <2> QED
    BY <2>1, <2>2 DEF InContexts
<1>3. \A s \in Stream :
        /\ Small(s)' = Small(s) /\ Pooled(s)' = Pooled(s) /\ Leaving(s)' = Leaving(s)
        /\ InContexts(s)' = IF s = c THEN InContexts(s) \cup {t} ELSE InContexts(s)
  BY <1>1 DEF NewContext, MemoryTypes, Small, Pooled, Leaving, InContexts
<1>4. ASSUME NEW s \in Stream
      PROVE  /\ IsFiniteSet(InContexts(s)')
             /\ Cardinality(InContexts(s)') = Cardinality(InContexts(s)) + One(c)[s]
  <2>1. IsFiniteSet(InContexts(s))
    BY DEF Counted, Finite
  <2> QED
    BY <1>2, <1>3, <2>1, FamilyGains
<1>5. Finite'
  BY <1>3, <1>4 DEF Counted, Finite
<1>6. ASSUME NEW s \in Stream
      PROVE  Holders(s)' = Holders(s) + One(c)[s]
  <2>1. In(idle')[s] = In(idle)[s]
    BY <1>1
  <2> QED
    BY <1>3, <1>4, <1>5, <2>1, HoldersChange DEF Counted
<1>7. ASSUME NEW s \in Stream
      PROVE  refs'[s] = Holders(s)' /\ (life'[s] = "live" <=> Holders(s)' > 0)
  <2>1. Holders(s) \in Nat /\ refs[s] = Holders(s) /\ (life[s] = "live" <=> Holders(s) > 0)
    BY HoldersCount DEF Counted, StreamLifetime
  <2>2. CASE s = c
    <3>1. life'[s] = "live"
      BY <2>2 DEF NewContext, MemoryTypes
    <3>2. refs'[s] = 1
      BY <2>2 DEF NewContext, MemoryTypes
    <3> QED
      BY <1>2, <1>6, <2>2, <3>1, <3>2 DEF One
  <2>3. CASE s # c
    BY <1>6, <2>1, <2>3 DEF NewContext, MemoryTypes, One
  <2> QED
    BY <2>2, <2>3
<1> QED
  BY <1>5, <1>7 DEF Counted, StreamLifetime

(* A context is cloned for a thread or dropped.                             *)
LEMMA CloneContextCounted ==
  ASSUME MemoryTypes, Counted, NEW t \in Thread, NEW u \in Thread, NEW c \in Stream,
         CloneContext(t, u, c)
  PROVE  Counted'
<1>1. UNCHANGED <<allocated_ptrs, malloc_regions, idle, guard>>
  BY DEF CloneContext, records
<1>2. \A s \in Stream :
        /\ Small(s)' = Small(s) /\ Pooled(s)' = Pooled(s) /\ Leaving(s)' = Leaving(s)
        /\ InContexts(s)' = IF s = c THEN InContexts(s) \cup {u} ELSE InContexts(s)
        /\ s = c => u \notin InContexts(s)
  BY <1>1 DEF CloneContext, MemoryTypes, Small, Pooled, Leaving, InContexts
<1>3. ASSUME NEW s \in Stream
      PROVE  /\ IsFiniteSet(InContexts(s)')
             /\ Cardinality(InContexts(s)') = Cardinality(InContexts(s)) + One(c)[s]
  <2>1. IsFiniteSet(InContexts(s))
    BY DEF Counted, Finite
  <2> QED
    BY <1>2, <2>1, FamilyGains
<1>4. Finite'
  BY <1>2, <1>3 DEF Counted, Finite
<1>5. ASSUME NEW s \in Stream
      PROVE  /\ One(c)[s] \in Nat /\ In({})[s] \in Nat
             /\ Holders(s)' = Holders(s) + One(c)[s] - In({})[s]
             /\ One(c)[s] > 0 => Holders(s) > 0
  <2>1. In(idle')[s] = In(idle)[s] /\ In({})[s] = 0
    BY <1>1 DEF In
  <2>2. s = c => Holders(s) > 0
    BY HoldersCount DEF Counted, CloneContext
  <2> QED
    BY <1>2, <1>3, <1>4, <2>1, <2>2, HoldersChange DEF Counted
<1> QED
  BY <1>4, <1>5, GuardsLifetime DEF CloneContext

LEMMA DropContextCounted ==
  ASSUME MemoryTypes, Counted, NEW t \in Thread, NEW c \in Stream, DropContext(t, c)
  PROVE  Counted'
<1>1. UNCHANGED <<allocated_ptrs, malloc_regions, idle, guard>>
  BY DEF DropContext, records
<1>2. \A s \in Stream :
        /\ Small(s)' = Small(s) /\ Pooled(s)' = Pooled(s) /\ Leaving(s)' = Leaving(s)
        /\ InContexts(s)' = IF s = c THEN InContexts(s) \ {t} ELSE InContexts(s)
        /\ s = c => t \in InContexts(s)
  BY <1>1 DEF DropContext, MemoryTypes, Small, Pooled, Leaving, InContexts
<1>3. ASSUME NEW s \in Stream
      PROVE  /\ IsFiniteSet(InContexts(s)')
             /\ Cardinality(InContexts(s)') = Cardinality(InContexts(s)) - One(c)[s]
  <2>1. IsFiniteSet(InContexts(s))
    BY DEF Counted, Finite
  <2> QED
    BY <1>2, <2>1, FamilyLoses
<1>4. Finite'
  BY <1>2, <1>3 DEF Counted, Finite
<1>5. ASSUME NEW s \in Stream
      PROVE  /\ In({})[s] \in Nat /\ One(c)[s] \in Nat
             /\ Holders(s)' = Holders(s) + In({})[s] - One(c)[s]
             /\ In({})[s] > 0 => Holders(s) > 0
  <2>1. In(idle')[s] = In(idle)[s] /\ In({})[s] = 0
    BY <1>1 DEF In
  <2> QED
    BY <1>2, <1>3, <1>4, <2>1, HoldersChange DEF Counted
<1> QED
  BY <1>4, <1>5, GuardsLifetime DEF DropContext

(* d_free drops the guard it took out of the lock.                          *)
LEMMA DropGuardCounted ==
  ASSUME MemoryTypes, Counted, NEW t \in Thread, DropGuard(t)
  PROVE  Counted'
<1> DEFINE c == guard[t]
<1>1. UNCHANGED <<allocated_ptrs, malloc_regions, idle, contexts>> /\ c \in Stream
  BY DEF DropGuard, records, MemoryTypes
<1>2. \A s \in Stream :
        /\ Small(s)' = Small(s) /\ Pooled(s)' = Pooled(s)
        /\ InContexts(s)' = InContexts(s)
        /\ Leaving(s)' = IF s = c THEN Leaving(s) \ {t} ELSE Leaving(s)
        /\ s = c => t \in Leaving(s)
  BY <1>1, NoneAssumption DEF DropGuard, MemoryTypes, Small, Pooled, Leaving, InContexts
<1>3. ASSUME NEW s \in Stream
      PROVE  /\ IsFiniteSet(Leaving(s)')
             /\ Cardinality(Leaving(s)') = Cardinality(Leaving(s)) - One(c)[s]
  <2>1. IsFiniteSet(Leaving(s))
    BY DEF Counted, Finite
  <2> QED
    BY <1>2, <2>1, FamilyLoses, SMTT(30)
<1>4. Finite'
  BY <1>2, <1>3 DEF Counted, Finite
<1>5. ASSUME NEW s \in Stream
      PROVE  /\ In({})[s] \in Nat /\ One(c)[s] \in Nat
             /\ Holders(s)' = Holders(s) + In({})[s] - One(c)[s]
             /\ In({})[s] > 0 => Holders(s) > 0
  <2>1. In(idle')[s] = In(idle)[s] /\ In({})[s] = 0
    BY <1>1 DEF In
  <2> QED
    BY <1>2, <1>3, <1>4, <2>1, HoldersChange DEF Counted
<1> QED
  BY <1>4, <1>5, GuardsLifetime DEF DropGuard

LEMMA Rearranged ==
  ASSUME NEW h \in Nat, NEW i \in {0, 1}, NEW m \in {0, 1}, NEW d \in {0, 1},
         NEW k \in {0, 1}
  PROVE  /\ h + k + ((i + m - d) - i) = h + (k + m) - d
         /\ h - k + ((i - d) - i) = h + 0 - (k + d)
  BY SMT

(* Defragmentation moves the pool's own guards, and clones those of the     *)
(* caller's stream, which a context keeps alive.                            *)
LEMMA DefragmentCounted ==
  ASSUME Counted, Finite', NEW t \in Thread, NEW c \in Stream, c \in contexts[t],
         NEW cloned, Defragment(c, cloned),
         \A s \in Stream :
           /\ cloned[s] \in {0, 1} /\ (s # c => cloned[s] = 0)
           /\ Holders(s)' = Holders(s) + cloned[s] + (In(idle')[s] - In(idle)[s])
  PROVE  Counted'
<1> DEFINE more == [x \in Stream |-> cloned[x] + In(idle' \ idle)[x]]
           dropped == In(idle \ idle')
<1>1. ASSUME NEW s \in Stream
      PROVE  /\ more[s] \in Nat /\ dropped[s] \in Nat
             /\ Holders(s)' = Holders(s) + more[s] - dropped[s]
             /\ more[s] > 0 => Holders(s) > 0
  <2>1. /\ more[s] = cloned[s] + In(idle' \ idle)[s]
        /\ In(idle' \ idle)[s] \in {0, 1} /\ dropped[s] \in {0, 1}
        /\ In(idle')[s] \in {0, 1} /\ In(idle)[s] \in {0, 1}
        /\ In(idle')[s] = In(idle)[s] + In(idle' \ idle)[s] - dropped[s]
    BY DEF In
  <2>2. (s = c => Holders(s) > 0) /\ Holders(s) \in Nat
    BY HoldersCount DEF Counted
  <2>3. s # c => In(idle' \ idle)[s] = 0
    BY DEF Defragment, In
  <2>4. /\ cloned[s] \in {0, 1} /\ (s # c => cloned[s] = 0)
        /\ Holders(s)' = Holders(s) + cloned[s] + (In(idle')[s] - In(idle)[s])
    OBVIOUS
  <2> HIDE DEF more, dropped
  <2>5. /\ more[s] \in Nat /\ dropped[s] \in Nat
        /\ Holders(s)' = Holders(s) + more[s] - dropped[s]
        /\ more[s] > 0 => cloned[s] = 1 \/ In(idle' \ idle)[s] = 1
    <3>1. cloned[s] + In(idle' \ idle)[s] \in Nat /\ dropped[s] \in Nat
      BY <2>1, <2>4
    <3>2. Holders(s) + cloned[s] + ((In(idle)[s] + In(idle' \ idle)[s] - dropped[s]) - In(idle)[s])
             = Holders(s) + (cloned[s] + In(idle' \ idle)[s]) - dropped[s]
      BY <2>1, <2>2, <2>4, Rearranged
    <3>3. cloned[s] + In(idle' \ idle)[s] > 0 => cloned[s] = 1 \/ In(idle' \ idle)[s] = 1
      BY <2>1, <2>4
    <3> QED
      BY <2>1, <2>4, <3>1, <3>2, <3>3
  <2> QED
    BY <2>2, <2>3, <2>4, <2>5
<1>2. Guards(more, dropped)
  BY DEF Defragment
<1> HIDE DEF more, dropped
<1> QED
  BY <1>1, <1>2, GuardsLifetime

(* A record takes a guard of the caller's stream.                           *)
LEMMA MallocCounted ==
  ASSUME Owns, Counted, NEW t \in Thread, NEW c \in Stream, NEW size, NEW p,
         c \in contexts[t], malloc_small(p, c, size) \/ malloc_pool(p, c, size),
         UNCHANGED <<contexts, guard>>
  PROVE  Counted'
<1>1. p \notin DOMAIN allocated_ptrs \cup DOMAIN malloc_regions
  BY DEF Owns, Ownership, malloc_small, malloc_pool, Allocate
<1>2. \A s \in Stream : InContexts(s)' = InContexts(s) /\ Leaving(s)' = Leaving(s)
  BY DEF InContexts, Leaving
<1>3. CASE malloc_small(p, c, size)
  <2>1. \A s \in Stream :
          /\ Pooled(s)' = Pooled(s) /\ In(idle')[s] = In(idle)[s]
          /\ Small(s)' = IF s = c THEN Small(s) \cup {p} ELSE Small(s)
          /\ s = c => p \notin Small(s)
    BY <1>1, <1>3 DEF malloc_small, With, Small, Pooled
  <2>2. ASSUME NEW s \in Stream
        PROVE  /\ IsFiniteSet(Small(s)')
               /\ Cardinality(Small(s)') = Cardinality(Small(s)) + One(c)[s]
    <3>1. IsFiniteSet(Small(s))
      BY DEF Counted, Finite
    <3> QED
      BY <2>1, <3>1, FamilyGains
  <2>3. Finite'
    BY <1>2, <2>1, <2>2 DEF Counted, Finite
  <2>4. ASSUME NEW s \in Stream
        PROVE  /\ One(c)[s] \in Nat /\ In({})[s] \in Nat
               /\ Holders(s)' = Holders(s) + One(c)[s] - In({})[s]
               /\ One(c)[s] > 0 => Holders(s) > 0
    <3>1. In({})[s] = 0
      BY DEF In
    <3>2. s = c => Holders(s) > 0
      BY HoldersCount DEF Counted
    <3> QED
      BY <1>2, <2>1, <2>2, <2>3, <3>1, <3>2, HoldersChange DEF Counted
  <2> QED
    BY <1>3, <2>3, <2>4, GuardsLifetime DEF malloc_small
<1>4. CASE malloc_pool(p, c, size)
  <2>1. \A s \in Stream :
          /\ Small(s)' = Small(s)
          /\ Pooled(s)' = IF s = c THEN Pooled(s) \cup {p} ELSE Pooled(s)
          /\ s = c => p \notin Pooled(s)
    BY <1>1, <1>4 DEF malloc_pool, With, Small, Pooled
  <2>2. ASSUME NEW s \in Stream
        PROVE  /\ IsFiniteSet(Pooled(s)')
               /\ Cardinality(Pooled(s)') = Cardinality(Pooled(s)) + One(c)[s]
    <3>1. IsFiniteSet(Pooled(s))
      BY DEF Counted, Finite
    <3> QED
      BY <2>1, <3>1, FamilyGains
  <2>3. Finite'
    BY <1>2, <2>1, <2>2 DEF Counted, Finite
  <2>4. ASSUME NEW s \in Stream
        PROVE  /\ One(c)[s] \in {0, 1} /\ (s # c => One(c)[s] = 0)
               /\ Holders(s)' = Holders(s) + One(c)[s] + (In(idle')[s] - In(idle)[s])
    BY <1>2, <2>1, <2>2, <2>3, HoldersChange DEF Counted
  <2>5. Defragment(c, One(c))
    BY <1>4 DEF malloc_pool
  <2> QED
    BY <2>3, <2>4, <2>5, DefragmentCounted
<1> QED
  BY <1>3, <1>4

LEMMA WithCapacityCounted ==
  ASSUME Owns, Counted, NEW t \in Thread, NEW b \in Buffer, NEW c \in Stream,
         NEW size \in Length, with_capacity_on(t, b, c, size)
  PROVE  Counted'
<1>1. c \in contexts[t] /\ UNCHANGED <<contexts, guard>>
  BY DEF with_capacity_on
<1>2. CASE UNCHANGED <<records, arcs>>
  BY <1>1, <1>2, CountedKept DEF records
<1>3. CASE \E p \in Pointer : malloc_small(p, c, size) \/ malloc_pool(p, c, size)
  BY <1>1, <1>3, MallocCounted
<1>4. CASE Defragment(c, In({})) /\ UNCHANGED <<allocated_ptrs, malloc_regions>>
  <2>1. \A s \in Stream : /\ InContexts(s)' = InContexts(s) /\ Leaving(s)' = Leaving(s)
                          /\ Small(s)' = Small(s) /\ Pooled(s)' = Pooled(s)
    BY <1>1, <1>4 DEF InContexts, Leaving, Small, Pooled
  <2>2. Finite'
    BY <2>1 DEF Counted, Finite
  <2>3. ASSUME NEW s \in Stream
        PROVE  /\ In({})[s] \in {0, 1} /\ (s # c => In({})[s] = 0)
               /\ Holders(s)' = Holders(s) + In({})[s] + (In(idle')[s] - In(idle)[s])
    <3>1. In({})[s] = 0
      BY DEF In
    <3> QED
      BY <2>1, <2>2, <3>1, HoldersChange DEF Counted
  <2> QED
    BY <1>1, <1>4, <2>2, <2>3, DefragmentCounted
<1> QED
  BY <1>2, <1>3, <1>4 DEF with_capacity_on, malloc_fails, records

(* The guard of a record goes to the thread that frees, or with the record. *)
LEMMA DropBufferCounted ==
  ASSUME Owns, Counted, NEW t \in Thread, NEW b \in Buffer, DropBuffer(t, b)
  PROVE  Counted'
<1> DEFINE p == buffers[b].ptr
<1>1. /\ guard[t] = None /\ UNCHANGED contexts
      /\ \/ free_small(t, p) \/ free_small_fails(t, p)
         \/ free_pool(t, p) \/ free_pool_panics(t, p) \/ free_fails(t, p)
  BY DropBufferCases
<1>2. \A s \in Stream : InContexts(s)' = InContexts(s)
  BY <1>1 DEF InContexts
<1>3. /\ \A q \in DOMAIN allocated_ptrs : allocated_ptrs[q].stream \in Stream
      /\ \A q \in DOMAIN malloc_regions : malloc_regions[q].stream \in Stream
  BY DEF Owns, Ownership, IInv, TypeOK
<1>4. CASE free_small(t, p)
  <2> DEFINE c == allocated_ptrs[p].stream
  <2>1. c \in Stream /\ UNCHANGED arcs
    BY <1>3, <1>4 DEF free_small
  <2>2. \A s \in Stream :
          /\ Pooled(s)' = Pooled(s) /\ In(idle')[s] = In(idle)[s]
          /\ Small(s)' = IF s = c THEN Small(s) \ {p} ELSE Small(s)
          /\ s = c => p \in Small(s)
    BY <1>4 DEF free_small, Without, Small, Pooled
  <2>3. \A s \in Stream :
          /\ Leaving(s)' = IF s = c THEN Leaving(s) \cup {t} ELSE Leaving(s)
          /\ s = c => t \notin Leaving(s)
    BY <1>1, <1>4, NoneAssumption DEF free_small, Leaving, Owns, MemoryTypes
  <2> HIDE DEF c
  <2>4. ASSUME NEW s \in Stream
        PROVE  /\ IsFiniteSet(Small(s)') /\ IsFiniteSet(Leaving(s)')
               /\ Cardinality(Small(s)') = Cardinality(Small(s)) - One(c)[s]
               /\ Cardinality(Leaving(s)') = Cardinality(Leaving(s)) + One(c)[s]
    <3>1. IsFiniteSet(Small(s)) /\ IsFiniteSet(Leaving(s))
      BY DEF Counted, Finite
    <3>2. IsFiniteSet(Small(s)') /\ Cardinality(Small(s)') = Cardinality(Small(s)) - One(c)[s]
      BY <2>2, <3>1, FamilyLoses
    <3>3. IsFiniteSet(Leaving(s)')
            /\ Cardinality(Leaving(s)') = Cardinality(Leaving(s)) + One(c)[s]
      BY <2>3, <3>1, FamilyGains
    <3> QED
      BY <3>2, <3>3
  <2>5. Finite'
    BY <1>2, <2>2, <2>4 DEF Counted, Finite
  <2>6. \A s \in Stream : Holders(s)' = Holders(s)
    BY <1>2, <2>2, <2>4, <2>5, HoldersChange DEF Counted
  <2> QED
    BY <2>1, <2>5, <2>6 DEF Counted, StreamLifetime, arcs
<1>5. CASE free_small_fails(t, p)
  <2> DEFINE c == allocated_ptrs[p].stream
  <2>1. \A s \in Stream :
          /\ Pooled(s)' = Pooled(s) /\ In(idle')[s] = In(idle)[s]
          /\ Leaving(s)' = Leaving(s)
          /\ Small(s)' = IF s = c THEN Small(s) \ {p} ELSE Small(s)
          /\ s = c => p \in Small(s)
    BY <1>5 DEF free_small_fails, Without, Small, Pooled, Leaving
  <2>2. Guards(In({}), One(c))
    BY <1>5 DEF free_small_fails
  <2> HIDE DEF c
  <2>3. ASSUME NEW s \in Stream
        PROVE  /\ IsFiniteSet(Small(s)')
               /\ Cardinality(Small(s)') = Cardinality(Small(s)) - One(c)[s]
    <3>1. IsFiniteSet(Small(s))
      BY DEF Counted, Finite
    <3> QED
      BY <2>1, <3>1, FamilyLoses
  <2>4. Finite'
    BY <1>2, <2>1, <2>3 DEF Counted, Finite
  <2>5. ASSUME NEW s \in Stream
        PROVE  /\ In({})[s] \in Nat /\ One(c)[s] \in Nat
               /\ Holders(s)' = Holders(s) + In({})[s] - One(c)[s]
               /\ In({})[s] > 0 => Holders(s) > 0
    <3>1. In({})[s] = 0
      BY DEF In
    <3> QED
      BY <1>2, <2>1, <2>3, <2>4, <3>1, HoldersChange DEF Counted
  <2> QED
    BY <2>2, <2>4, <2>5, GuardsLifetime
<1>6. CASE free_pool(t, p)
  <2> DEFINE c == malloc_regions[p].stream
  <2>1. /\ c \in Stream /\ p \in DOMAIN malloc_regions /\ idle' = idle \cup {c}
        /\ Guards(In(idle' \ idle), In({}))
    BY <1>3, <1>6 DEF free_pool
  <2>2. \A s \in Stream :
          /\ Small(s)' = Small(s)
          /\ Pooled(s)' = IF s = c THEN Pooled(s) \ {p} ELSE Pooled(s)
          /\ s = c => p \in Pooled(s)
    BY <1>6 DEF free_pool, Without, Small, Pooled
  <2>3. \A s \in Stream :
          /\ Leaving(s)' = IF s = c THEN Leaving(s) \cup {t} ELSE Leaving(s)
          /\ s = c => t \notin Leaving(s)
    BY <1>1, <1>6, NoneAssumption DEF free_pool, Leaving, Owns, MemoryTypes
  <2>4. \A s \in Stream : s = c => Holders(s) > 0
    BY <2>1, HoldersCount DEF Counted
  <2> HIDE DEF c
  <2>5. ASSUME NEW s \in Stream
        PROVE  /\ IsFiniteSet(Pooled(s)') /\ IsFiniteSet(Leaving(s)')
               /\ Cardinality(Pooled(s)') = Cardinality(Pooled(s)) - One(c)[s]
               /\ Cardinality(Leaving(s)') = Cardinality(Leaving(s)) + One(c)[s]
    <3>1. IsFiniteSet(Pooled(s)) /\ IsFiniteSet(Leaving(s))
      BY DEF Counted, Finite
    <3>2. IsFiniteSet(Pooled(s)') /\ Cardinality(Pooled(s)') = Cardinality(Pooled(s)) - One(c)[s]
      BY <2>2, <3>1, FamilyLoses
    <3>3. IsFiniteSet(Leaving(s)')
            /\ Cardinality(Leaving(s)') = Cardinality(Leaving(s)) + One(c)[s]
      BY <2>3, <3>1, FamilyGains
    <3> QED
      BY <3>2, <3>3
  <2>6. Finite'
    BY <1>2, <2>2, <2>5 DEF Counted, Finite
  <2>7. ASSUME NEW s \in Stream
        PROVE  /\ In(idle' \ idle)[s] \in Nat /\ In({})[s] \in Nat
               /\ Holders(s)' = Holders(s) + In(idle' \ idle)[s] - In({})[s]
               /\ In(idle' \ idle)[s] > 0 => Holders(s) > 0
    <3>1. /\ In({})[s] = 0 /\ In(idle' \ idle)[s] \in {0, 1}
          /\ In(idle')[s] = In(idle)[s] + In(idle' \ idle)[s]
          /\ In(idle' \ idle)[s] > 0 => s = c
      BY <2>1 DEF In
    <3>2. /\ Holders(s)' = Holders(s) + (In(idle')[s] - In(idle)[s])
          /\ Holders(s) \in Nat /\ In(idle)[s] \in {0, 1}
      BY <1>2, <2>2, <2>5, <2>6, HoldersChange DEF Counted
    <3> QED
      BY <2>4, <3>1, <3>2
  <2> QED
    BY <2>1, <2>6, <2>7, GuardsLifetime
<1>7. CASE free_pool_panics(t, p)
  <2> DEFINE c == malloc_regions[p].stream
             dropped == [x \in Stream |-> One(c)[x] + In(idle \ idle')[x]]
  <2>1. /\ c \in Stream /\ p \in DOMAIN malloc_regions
        /\ idle' \in {idle, idle \ {c}} /\ UNCHANGED guard
        /\ Guards(In({}), dropped)
    BY <1>3, <1>7 DEF free_pool_panics
  <2>2. \A s \in Stream :
          /\ Small(s)' = Small(s) /\ Leaving(s)' = Leaving(s)
          /\ Pooled(s)' = IF s = c THEN Pooled(s) \ {p} ELSE Pooled(s)
          /\ s = c => p \in Pooled(s)
    BY <1>7, <2>1 DEF free_pool_panics, Without, Small, Pooled, Leaving
  <2>3. \A s \in Stream : dropped[s] = One(c)[s] + In(idle \ idle')[s]
    OBVIOUS
  <2> HIDE DEF c, dropped
  <2>4. ASSUME NEW s \in Stream
        PROVE  /\ IsFiniteSet(Pooled(s)')
               /\ Cardinality(Pooled(s)') = Cardinality(Pooled(s)) - One(c)[s]
    <3>1. IsFiniteSet(Pooled(s))
      BY DEF Counted, Finite
    <3> QED
      BY <2>2, <3>1, FamilyLoses
  <2>5. Finite'
    BY <1>2, <2>2, <2>4 DEF Counted, Finite
  <2>6. ASSUME NEW s \in Stream
        PROVE  /\ In({})[s] \in Nat /\ dropped[s] \in Nat
               /\ Holders(s)' = Holders(s) + In({})[s] - dropped[s]
               /\ In({})[s] > 0 => Holders(s) > 0
    <3>1. /\ In({})[s] = 0 /\ In(idle \ idle')[s] \in {0, 1}
          /\ In(idle')[s] = In(idle)[s] - In(idle \ idle')[s]
          /\ One(c)[s] \in {0, 1}
      BY <2>1 DEF In, One
    <3>2. /\ Holders(s)' = Holders(s) - One(c)[s] + (In(idle')[s] - In(idle)[s])
          /\ Holders(s) \in Nat /\ In(idle)[s] \in {0, 1}
      BY <1>2, <2>2, <2>4, <2>5, <3>1, HoldersChange DEF Counted
    <3>3. One(c)[s] + In(idle \ idle')[s] \in Nat
      BY <3>1
    <3>4. Holders(s) - One(c)[s] + ((In(idle)[s] - In(idle \ idle')[s]) - In(idle)[s])
             = Holders(s) + 0 - (One(c)[s] + In(idle \ idle')[s])
      BY <3>1, <3>2, Rearranged
    <3>5. dropped[s] = One(c)[s] + In(idle \ idle')[s]
      BY <2>3
    <3>6. dropped[s] \in Nat
      BY <3>3, <3>5
    <3>7. Holders(s)' = Holders(s) + 0 - (One(c)[s] + In(idle \ idle')[s])
      BY <3>1, <3>2, <3>4
    <3>8. Holders(s)' = Holders(s) + In({})[s] - dropped[s]
      BY <3>1, <3>5, <3>7
    <3> QED
      BY <3>1, <3>6, <3>8
  <2> QED
    BY <2>1, <2>5, <2>6, GuardsLifetime
<1>8. CASE free_fails(t, p)
  BY <1>1, <1>8, CountedKept DEF free_fails, records
<1> QED
  BY <1>1, <1>4, <1>5, <1>6, <1>7, <1>8

LEMMA CountedInit == MemoryInit => Counted
<1> SUFFICES ASSUME MemoryInit PROVE Counted
  OBVIOUS
<1>1. \A s \in Stream : /\ InContexts(s) = {} /\ Small(s) = {} /\ Pooled(s) = {}
                        /\ Leaving(s) = {} /\ In(idle)[s] = 0
                        /\ refs[s] = 0 /\ life[s] = "none"
  BY NoneAssumption DEF MemoryInit, EmptyMap, InContexts, Small, Pooled, Leaving, In
<1>2. Finite
  BY <1>1, FS_EmptySet DEF Finite
<1>3. \A s \in Stream : Holders(s) = 0
  <2>1. SUFFICES ASSUME NEW s \in Stream PROVE Holders(s) = 0
    OBVIOUS
  <2>2. Cardinality({}) = 0
    BY FS_EmptySet
  <2> QED
    BY <1>1, <1>2, <2>2, HoldersCount
<1> QED
  BY <1>1, <1>2, <1>3 DEF Counted, StreamLifetime

LEMMA CountedNext == Owns /\ Counted /\ [MemoryNext]_allvars => Counted'
<1> SUFFICES ASSUME Owns, Counted, [MemoryNext]_allvars PROVE Counted'
  OBVIOUS
<1>1. CASE Device \/ UNCHANGED allvars
  BY <1>1, CountedKept DEF Device, allvars, records
<1>2. CASE \E t \in Thread : \E s \in Stream : NewContext(t, s) \/ DropContext(t, s)
  BY <1>2, NewContextCounted, DropContextCounted DEF Owns
<1>3. CASE \E t \in Thread : \E u \in Thread, s \in Stream : CloneContext(t, u, s)
  BY <1>3, CloneContextCounted DEF Owns
<1>4. CASE \E t \in Thread : \E b \in Buffer, s \in Stream, n \in Length :
             with_capacity_on(t, b, s, n)
  BY <1>4, WithCapacityCounted
<1>5. CASE \E t \in Thread : \E b \in Buffer : DropBuffer(t, b)
  BY <1>5, DropBufferCounted
<1>6. CASE \E t \in Thread :
             \/ \E b, c \in Buffer : as_buffer(t, b, c)
             \/ \E u \in Thread, b \in Buffer : SendBuffer(t, u, b)
             \/ Unwound(t) \/ reset_peak(t)
             \/ \E b \in Buffer, k \in Kernel : LaunchOn(t, b, k)
  BY <1>6, CountedKept DEF as_buffer, SendBuffer, Unwound, reset_peak, LaunchOn, records
<1>7. CASE \E t \in Thread : DropGuard(t)
  BY <1>7, DropGuardCounted DEF Owns
<1> QED
  BY <1>1, <1>2, <1>3, <1>4, <1>5, <1>6, <1>7 DEF MemoryNext

-----------------------------------------------------------------------------
(* The sizes.                                                               *)

LEMMA Larger ==
  ASSUME NEW a \in Int, NEW b \in Int
  PROVE  Max({a, b}) = IF b > a THEN b ELSE a
<1> DEFINE m == IF b > a THEN b ELSE a
<1>1. m \in {a, b} /\ \A y \in {a, b} : m >= y
  OBVIOUS
<1>2. \A x \in {a, b} : (\A y \in {a, b} : x >= y) => x = m
  OBVIOUS
<1> QED
  BY <1>1, <1>2 DEF Max

LEMMA BytesCounted ==
  ASSUME NEW p, NEW n \in Nat
  PROVE  IsFiniteSet({p} \X (1 .. n)) /\ Cardinality({p} \X (1 .. n)) = n
<1> DEFINE f == [i \in 1 .. n |-> <<p, i>>]
<1>1. IsFiniteSet(1 .. n) /\ Cardinality(1 .. n) = n
  BY FS_Interval, SMT
<1>2. /\ f \in [1 .. n -> {p} \X (1 .. n)]
      /\ \A y \in {p} \X (1 .. n) : \E i \in 1 .. n : f[i] = y
      /\ \A i, j \in 1 .. n : f[i] = f[j] => i = j
  OBVIOUS
<1>3. f \in Surjection(1 .. n, {p} \X (1 .. n)) /\ f \in Injection(1 .. n, {p} \X (1 .. n))
  BY <1>2 DEF Surjection, Injection, IsInjective
<1> QED
  BY <1>1, <1>3, FS_Surjection

LEMMA DisjointUnion ==
  ASSUME NEW S, NEW T, IsFiniteSet(S), IsFiniteSet(T), S \cap T = {}
  PROVE  /\ IsFiniteSet(S \cup T)
         /\ Cardinality(S \cup T) = Cardinality(S) + Cardinality(T)
<1>1. Cardinality(S) \in Nat /\ Cardinality(T) \in Nat /\ Cardinality(S \cap T) = 0
  BY FS_CardinalityType, FS_EmptySet
<1>2. /\ IsFiniteSet(S \cup T)
      /\ Cardinality(S \cup T) = Cardinality(S) + Cardinality(T) - Cardinality(S \cap T)
  BY FS_Union
<1> QED
  BY <1>1, <1>2

LEMMA DisjointRest ==
  ASSUME NEW S, NEW T, IsFiniteSet(S), T \subseteq S
  PROVE  /\ IsFiniteSet(S \ T) /\ IsFiniteSet(T)
         /\ Cardinality(S) = Cardinality(S \ T) + Cardinality(T)
<1>1. IsFiniteSet(S \ T) /\ IsFiniteSet(T)
  BY FS_Subset
<1>2. S = (S \ T) \cup T /\ (S \ T) \cap T = {}
  OBVIOUS
<1> QED
  BY <1>1, <1>2, DisjointUnion

LEMMA Distributes ==
  ASSUME NEW m \in Int, NEW a \in Int, NEW b \in Int
  PROVE  m * (a + b) = m * a + m * b
  BY SMT

LEMMA SizedKept ==
  ASSUME Sized, UNCHANGED <<allocated_ptrs, malloc_regions, owned, sizes>>,
         ~poisoned' /\ ~aborted' => ~poisoned /\ ~aborted
  PROVE  Sized'
  BY DEF Sized, Accounted, SmallBytes, PoolPages, PagesOf, sizes

LEMMA GrowSized ==
  ASSUME Sized, NEW tracked \in Nat, NEW size, Grow(tracked, size)
  PROVE  /\ current_size' \in Nat /\ high' \in Nat /\ current_size' <= high'
         /\ current_size' = current_size + tracked
         /\ max_used_size' = high'
<1>1. current_size' = current_size + tracked /\ current_size' \in Nat
  BY DEF Sized, Grow
<1>2. high' = IF current_size' > high THEN current_size' ELSE high
  BY <1>1, Larger DEF Sized, Grow
<1> QED
  BY <1>1, <1>2 DEF Sized, Accounted, Grow

LEMMA ShrinkSized ==
  ASSUME Sized, NEW tracked \in Nat, tracked <= current_size, Shrink(tracked)
  PROVE  /\ current_size' \in Nat /\ high' \in Nat /\ current_size' <= high'
         /\ current_size' = current_size - tracked
         /\ max_used_size' = high'
<1>1. current_size' = current_size - tracked /\ current_size' \in Nat
  BY DEF Sized, Shrink
<1>2. high' = high
  BY <1>1, Larger DEF Sized, Shrink
<1> QED
  BY <1>1, <1>2 DEF Sized, Accounted, Shrink

LEMMA MallocSized ==
  ASSUME Owns, Sized, ~poisoned, ~aborted, NEW s, NEW size \in Length, NEW p \in Pointer,
         malloc_small(p, s, size) \/ malloc_pool(p, s, size)
  PROVE  Sized'
<1>0. size \in Nat /\ page_size \in Nat \ {0}
  BY PageAssumption
<1>1. /\ p \notin DOMAIN owned
      /\ p \notin DOMAIN allocated_ptrs \cup DOMAIN malloc_regions
  BY DEF malloc_small, malloc_pool, Allocate, Owns, Ownership
<1>2. CASE malloc_small(p, s, size)
  <2>1. /\ DOMAIN allocated_ptrs' = DOMAIN allocated_ptrs \cup {p}
        /\ allocated_ptrs'[p].size = size
        /\ \A q \in DOMAIN allocated_ptrs : allocated_ptrs'[q] = allocated_ptrs[q]
        /\ UNCHANGED malloc_regions /\ Grow(size, size)
    BY <1>1, <1>2 DEF malloc_small, With
  <2>2. SmallBytes' = SmallBytes \cup ({p} \X (1 .. size))
    BY <1>1, <2>1 DEF SmallBytes
  <2>3. SmallBytes \cap ({p} \X (1 .. size)) = {}
    BY <1>1 DEF SmallBytes
  <2>4. /\ IsFiniteSet(SmallBytes')
        /\ Cardinality(SmallBytes') = Cardinality(SmallBytes) + size
    <3>1. /\ IsFiniteSet({p} \X (1 .. size))
          /\ Cardinality({p} \X (1 .. size)) = size
      BY <1>0, BytesCounted
    <3> QED
      BY <2>2, <2>3, <3>1, DisjointUnion DEF Sized
  <2>5. PoolPages' = PoolPages
    <3>1. \A q \in DOMAIN malloc_regions : PagesOf(q)' = PagesOf(q)
      BY <1>2 DEF malloc_small, Allocate, PagesOf, Owns, Ownership
    <3> QED
      BY <2>1, <3>1 DEF PoolPages
  <2>6. Cardinality(SmallBytes) \in Nat /\ Cardinality(PoolPages) \in Nat
    BY FS_CardinalityType DEF Sized
  <2>7. page_size * Cardinality(PoolPages) \in Nat
    BY <1>0, <2>6
  <2> QED
    BY <1>0, <2>1, <2>4, <2>5, <2>6, <2>7, GrowSized DEF Sized, Accounted
<1>3. CASE malloc_pool(p, s, size)
  <2> DEFINE n == next_multiple_of(size) \div page_size
  <2>1. n \in Nat /\ next_multiple_of(size) = page_size * n
    BY <1>0, RoundedUp
  <2>2. PICK b \in [0 .. n - 1 -> PoolPage] : Allocate(p, s, b)
    BY <1>3 DEF malloc_pool
  <2>3. /\ DOMAIN malloc_regions' = DOMAIN malloc_regions \cup {p}
        /\ UNCHANGED allocated_ptrs /\ Grow(page_size * n, size)
    BY <1>3, <2>1 DEF malloc_pool, With
  <2> HIDE DEF n
  <2>4. /\ PagesOf(p)' = Range(b)
        /\ \A q \in DOMAIN malloc_regions : PagesOf(q)' = PagesOf(q)
        /\ \A q \in DOMAIN malloc_regions : PagesOf(q) \cap Range(b) = {}
    BY <1>1, <2>2 DEF Allocate, Available, PagesOf, Owns, Ownership
  <2>5. PoolPages' = PoolPages \cup Range(b) /\ PoolPages \cap Range(b) = {}
    BY <2>3, <2>4 DEF PoolPages
  <2>6. Cardinality(Range(b)) = n /\ IsFiniteSet(Range(b))
    <3>1. DOMAIN b = 0 .. n - 1 /\ IsInjective(b)
      BY <2>2 DEF Allocate
    <3> QED
      BY <2>1, <3>1, PagesCounted
  <2>7. /\ IsFiniteSet(PoolPages')
        /\ Cardinality(PoolPages') = Cardinality(PoolPages) + n
    BY <2>5, <2>6, DisjointUnion DEF Sized
  <2>8. Cardinality(SmallBytes) \in Nat /\ Cardinality(PoolPages) \in Nat
    BY FS_CardinalityType DEF Sized
  <2>9. page_size * Cardinality(PoolPages') = page_size * Cardinality(PoolPages) + page_size * n
    BY <1>0, <2>1, <2>7, <2>8, Distributes
  <2>10. page_size * Cardinality(PoolPages) \in Nat /\ page_size * n \in Nat
    BY <1>0, <2>1, <2>8
  <2>11. SmallBytes' = SmallBytes
    BY <2>3 DEF SmallBytes
  <2> QED
    BY <2>3, <2>7, <2>8, <2>9, <2>10, <2>11, GrowSized DEF Sized, Accounted
<1> QED
  BY <1>2, <1>3

(* While the lock can be taken.                                             *)
LEMMA FreeSized ==
  ASSUME Owns, Sized, ~poisoned, ~aborted, NEW t \in Thread, NEW p,
         free_small(t, p) \/ free_small_fails(t, p) \/ free_pool(t, p)
  PROVE  Sized'
<1>2. /\ page_size \in Nat
      /\ Cardinality(SmallBytes) \in Nat /\ Cardinality(PoolPages) \in Nat
      /\ page_size * Cardinality(PoolPages) \in Nat
  <2>1. /\ page_size \in Nat
        /\ Cardinality(SmallBytes) \in Nat /\ Cardinality(PoolPages) \in Nat
    BY PageAssumption, FS_CardinalityType DEF Sized
  <2> QED
    BY <2>1
<1>3. \A q \in DOMAIN malloc_regions : q # p \/ ~free_pool(t, p) => PagesOf(q)' = PagesOf(q)
  BY DEF free_small, free_small_fails, free_pool, Release, PagesOf, Owns, Ownership, vars
<1>4. CASE free_small(t, p) \/ free_small_fails(t, p)
  <2> DEFINE size == allocated_ptrs[p].size
             X == {p} \X (1 .. size)
  <2>1. /\ p \in DOMAIN allocated_ptrs
        /\ DOMAIN allocated_ptrs' = DOMAIN allocated_ptrs \ {p}
        /\ \A q \in DOMAIN allocated_ptrs' : allocated_ptrs'[q] = allocated_ptrs[q]
        /\ UNCHANGED malloc_regions /\ Shrink(size)
    BY <1>4 DEF free_small, free_small_fails, Without
  <2>2. size \in Nat
    BY <2>1 DEF Sized
  <2>3. SmallBytes' = SmallBytes \ X /\ X \subseteq SmallBytes
    BY <2>1 DEF SmallBytes
  <2>4. IsFiniteSet(X) /\ Cardinality(X) = size
    BY <2>2, BytesCounted
  <2>5. /\ IsFiniteSet(SmallBytes')
        /\ Cardinality(SmallBytes) = Cardinality(SmallBytes') + size
    BY <2>3, <2>4, DisjointRest DEF Sized
  <2>6. p \notin DOMAIN malloc_regions
    BY <2>1 DEF Owns, Ownership
  <2>7. PoolPages' = PoolPages
    <3>1. \A q \in DOMAIN malloc_regions : PagesOf(q)' = PagesOf(q)
      BY <1>3, <2>6
    <3> QED
      BY <2>1, <3>1 DEF PoolPages
  <2>8. Cardinality(SmallBytes') \in Nat
    BY <2>5, FS_CardinalityType
  <2>9. size <= current_size
    BY <1>2, <2>2, <2>5, <2>8 DEF Sized, Accounted
  <2> HIDE DEF size, X
  <2> QED
    BY <1>2, <2>1, <2>2, <2>5, <2>7, <2>8, <2>9, ShrinkSized DEF Sized, Accounted
<1>5. CASE free_pool(t, p)
  <2>1. /\ p \in DOMAIN malloc_regions
        /\ DOMAIN malloc_regions' = DOMAIN malloc_regions \ {p}
        /\ UNCHANGED allocated_ptrs /\ Shrink(malloc_regions[p].size)
    BY <1>5 DEF free_pool, Without
  <2>2. \A q \in DOMAIN malloc_regions' :
          PagesOf(q)' = PagesOf(q) /\ PagesOf(q) \cap PagesOf(p) = {}
    BY <1>3, <2>1 DEF Owns, Ownership, IInv, Exclusive
  <2>3. PoolPages' = PoolPages \ PagesOf(p) /\ PagesOf(p) \subseteq PoolPages
    BY <2>1, <2>2 DEF PoolPages
  <2> DEFINE n == Cardinality(PagesOf(p))
  <2>4. /\ IsFiniteSet(PoolPages') /\ IsFiniteSet(PagesOf(p))
        /\ Cardinality(PoolPages) = Cardinality(PoolPages') + n
    BY <2>3, DisjointRest DEF Sized
  <2>5. n \in Nat /\ Cardinality(PoolPages') \in Nat
    BY <2>4, FS_CardinalityType
  <2>6. malloc_regions[p].size = page_size * n
    BY <2>1 DEF Owns, Ownership
  <2> HIDE DEF n
  <2>7. page_size * Cardinality(PoolPages) = page_size * Cardinality(PoolPages') + page_size * n
    BY <1>2, <2>4, <2>5, Distributes
  <2>8. page_size * Cardinality(PoolPages') \in Nat /\ page_size * n \in Nat
    BY <1>2, <2>5
  <2>9. page_size * n <= current_size
    BY <1>2, <2>7, <2>8 DEF Sized, Accounted
  <2>10. SmallBytes' = SmallBytes
    BY <2>1 DEF SmallBytes
  <2> QED
    BY <1>2, <2>1, <2>4, <2>6, <2>7, <2>8, <2>9, <2>10, ShrinkSized DEF Sized, Accounted
<1> QED
  BY <1>4, <1>5

(* A panic inside the lock forgets a record and not its size, and nobody    *)
(* reads the sizes any more.                                                *)
LEMMA PanicSized ==
  ASSUME Owns, Sized, NEW t \in Thread, NEW p, free_pool_panics(t, p)
  PROVE  Sized'
<1>1. poisoned' \/ aborted'
  BY DEF free_pool_panics, PanicInside, Panic
<1>2. UNCHANGED <<owned, allocated_ptrs, sizes>>
  BY DEF free_pool_panics, vars
<1>3. DOMAIN malloc_regions' \subseteq DOMAIN malloc_regions
  BY DEF free_pool_panics, Without
<1>4. SmallBytes' = SmallBytes /\ PoolPages' \subseteq PoolPages
  BY <1>2, <1>3 DEF SmallBytes, PoolPages, PagesOf
<1>5. IsFiniteSet(PoolPages')
  BY <1>4, FS_Subset DEF Sized
<1> QED
  BY <1>1, <1>2, <1>4, <1>5 DEF Sized, Accounted, sizes

LEMMA DropBufferSized ==
  ASSUME Owns, Sized, NEW t \in Thread, NEW b \in Buffer, DropBuffer(t, b)
  PROVE  Sized'
<1> DEFINE p == buffers[b].ptr
<1>1. CASE poisoned /\ free_fails(t, p)
  BY <1>1, SizedKept DEF free_fails, vars, records, lock
<1>2. CASE ~poisoned
  BY <1>2, DropBufferCases, FreeSized, PanicSized
<1> QED
  BY <1>1, <1>2, DropBufferCases

LEMMA SizedNext == Owns /\ Sized /\ [MemoryNext]_allvars => Sized'
<1> SUFFICES ASSUME Owns, Sized, [MemoryNext]_allvars PROVE Sized'
  OBVIOUS
<1>1. CASE \/ Device \/ UNCHANGED allvars
           \/ \E t \in Thread :
                \/ \E s \in Stream : NewContext(t, s) \/ DropContext(t, s)
                \/ \E u \in Thread, s \in Stream : CloneContext(t, u, s)
                \/ \E b, c \in Buffer : as_buffer(t, b, c)
                \/ \E u \in Thread, b \in Buffer : SendBuffer(t, u, b)
                \/ \E b \in Buffer, k \in Kernel : LaunchOn(t, b, k)
                \/ DropGuard(t) \/ Unwound(t)
  <2>1. UNCHANGED <<records, owned, sizes, poisoned, aborted>>
    BY <1>1 DEF lock, Device, Retire, Synchronize, allvars, vars, NewContext, DropContext,
       CloneContext, as_buffer, SendBuffer, LaunchOn, Launch, DropGuard, Unwound
  <2> QED
    BY <2>1, SizedKept DEF records
<1>2. ASSUME NEW t \in Thread, NEW b \in Buffer, NEW s \in Stream, NEW n \in Length,
             with_capacity_on(t, b, s, n)
      PROVE  Sized'
  <2>1. ~aborted
    BY <1>2 DEF with_capacity_on, Ready
  <2>2. CASE UNCHANGED <<vars, records, sizes, lock, buffers, arcs>>
    BY <2>1, <2>2, SizedKept DEF vars, records, lock
  <2>3. CASE ~poisoned /\ malloc_fails(s, n)
    BY <2>1, <2>3, SizedKept DEF malloc_fails, vars
  <2>4. CASE /\ ~poisoned
             /\ \E p \in Pointer : malloc_small(p, s, n) \/ malloc_pool(p, s, n)
    BY <2>1, <2>4, MallocSized
  <2> QED
    BY <1>2, <2>2, <2>3, <2>4 DEF with_capacity_on
<1>3. CASE \E t \in Thread : \E b \in Buffer : DropBuffer(t, b)
  BY <1>3, DropBufferSized
<1>4. CASE \E t \in Thread : reset_peak(t)
  BY <1>4 DEF reset_peak, lock, Sized, Accounted, SmallBytes, PoolPages, PagesOf, vars, records
<1> QED
  BY <1>1, <1>2, <1>3, <1>4 DEF MemoryNext

LEMMA SizedInit == MemoryInit => Sized
<1> SUFFICES ASSUME MemoryInit PROVE Sized
  OBVIOUS
<1>1. SmallBytes = {} /\ PoolPages = {}
  BY DEF MemoryInit, EmptyMap, SmallBytes, PoolPages
<1>2. IsFiniteSet({}) /\ Cardinality({}) = 0 /\ page_size * 0 = 0
  BY FS_EmptySet, PageAssumption
<1> QED
  BY <1>1, <1>2 DEF MemoryInit, EmptyMap, Sized, Accounted

-----------------------------------------------------------------------------
(* In every reachable state of the manager, its allocator's invariants, the *)
(* match of buffers, records and allocations, and the counts of the guards  *)
(* hold together.                                                           *)
THEOREM MemoryInvariant == MemorySpec => []MemoryInv
<1>1. MemoryInit => Owns /\ Counted /\ Sized
  BY OwnsInit, CountedInit, SizedInit
<1>2. Owns /\ Counted /\ Sized /\ [MemoryNext]_allvars => Owns' /\ Counted' /\ Sized'
  BY OwnsNext, CountedNext, SizedNext
<1>3. Owns /\ Counted /\ Sized => MemoryInv
  BY DEF Owns, Counted, MemoryInv
<1> QED
  BY <1>1, <1>2, <1>3, PTL DEF MemorySpec

(* Kernels that threads launch on their buffers never race on a page.       *)
THEOREM ManagedOrdered == MemorySpec => []Ordered
<1>1. MemoryInv => Ordered
  BY DEF MemoryInv, IInv
<1> QED
  BY <1>1, MemoryInvariant, PTL

(* Every buffer has one allocation and one record of it, with its stream    *)
(* and its size in whole pages, across sends, reinterpretations, failed     *)
(* frees and panics, also inside the lock: nothing is freed twice or by a   *)
(* thread that does not own it.                                             *)
THEOREM OneOwner == MemorySpec => []BuffersOwn
<1>1. MemoryInv => BuffersOwn
  BY BuffersOwnHolds DEF MemoryInv, Owns
<1> QED
  BY <1>1, MemoryInvariant, PTL

(* The strong count of a stream is the number of its guards, and its handle *)
(* is alive exactly as long as one is left: no free meets a destroyed       *)
(* stream, and no stream outlives its last holder.                          *)
THEOREM StreamsOutliveMemory == MemorySpec => []StreamLifetime
<1>1. MemoryInv => StreamLifetime
  BY DEF MemoryInv
<1> QED
  BY <1>1, MemoryInvariant, PTL

(* Unless CUDA refuses a free or an event or gives a null pointer, panics   *)
(* neither poison the manager's lock nor abort the process nor lose memory. *)
THEOREM FaultsStayLocal == MemorySpec => []FaultsContained
<1>1. MemoryInv => FaultsContained
  BY DEF MemoryInv
<1> QED
  BY <1>1, MemoryInvariant, PTL

(* MemTracker's figures are exact as long as it can read them: the current  *)
(* size is what live records occupy, and the peak is its maximum since the  *)
(* last reset.                                                              *)
THEOREM SizesAccounted == MemorySpec => []Accounted
<1>1. MemoryInv => Accounted
  BY DEF MemoryInv, Sized
<1> QED
  BY <1>1, MemoryInvariant, PTL

=============================================================================
