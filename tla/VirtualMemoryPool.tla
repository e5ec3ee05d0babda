-------------------------- MODULE VirtualMemoryPool --------------------------
(***************************************************************************)
(* The virtual memory pool (VPMM) of openvm-cuda-common.  It serves device *)
(* allocations from regions of virtual addresses, reuses a freed region    *)
(* under the order of streams and events, and when no region is large      *)
(* enough it remaps the pages of free regions behind a hole of unmapped    *)
(* addresses; the old addresses stay mapped as zombies until the event of  *)
(* their last use completes.                                               *)
(*                                                                         *)
(* Addresses and sizes count pages.  A call of malloc_internal holds the   *)
(* mutex of the memory manager from "cleanup" to its return: no other call *)
(* on the pool interleaves, while the device retires work and other        *)
(* threads launch kernels between its steps.                               *)
(***************************************************************************)
EXTENDS CudaDevice

CONSTANTS
  VaSize,        \* pages in one reserved chunk of addresses (va_size)
  VaBase,        \* where the driver can place such chunks
  InitialPages,  \* pages mapped at start-up (initial_pages)
  Request,       \* sizes, in pages, that callers ask for
  MaxEvents,     \* bound: events recorded in a behaviour
  Faults         \* driver calls that may fail, by name

Span(p, n) == p .. (p + n - 1)

ASSUME PoolAssumption ==
  /\ VaSize \in Nat \ {0}
  /\ VaBase \subseteq Nat /\ IsFiniteSet(VaBase)
  /\ \A a, b \in VaBase : a # b => a + VaSize <= b \/ b + VaSize <= a
  /\ InitialPages \in 0 .. VaSize
  /\ Request \subseteq Nat \ {0}
  /\ MaxEvents \in Nat
  /\ Faults \subseteq {"oom", "create", "map", "access", "wait", "unmap"}

(* Preallocation succeeds: with too few physical pages "new" panics.        *)
ASSUME PreallocationAssumption ==
  \A base \in VaBase :
    \E m \in [Span(base, InitialPages) -> Handle] : IsInjective(m)

VARIABLES
  roots,             \* bases of the reserved chunks
  active_pages,      \* page address -> physical page, the current address only
  free_regions,      \* base -> [size, stream, id]; the event is number id
  malloc_regions,    \* base -> [size, stream]
  unmapped_regions,  \* base -> size
  zombie_regions,    \* set of [ptr, size, event]
  free_num,          \* number of events recorded by free_region_insert
  call               \* the call that holds the mutex

pool_vars == <<roots, active_pages, free_regions, malloc_regions,
               unmapped_regions, zombie_regions, free_num, call>>
vars == <<device_vars, pool_vars>>

(* The sentinel CUdeviceptr::MAX.                                           *)
NoPtr == -1
MinPtr(p, q) == IF p = NoPtr \/ q < p THEN q ELSE p

NoCall ==
  [pc |-> "idle", stream |-> InitStream, size |-> 0, scan |-> {}, dst |-> 0,
   goal |-> 0, next |-> 0, ptr |-> NoPtr, left |-> 0, moves |-> EmptyMap]

Init ==
  \E base \in VaBase :
    LET pages == CHOOSE m \in [Span(base, InitialPages) -> Handle] : IsInjective(m)
        some  == InitialPages > 0
    IN /\ roots = {base}
       /\ active_pages = pages
       /\ page_table = pages
       /\ physical = Range(pages)
       /\ free_regions = [p \in IF some THEN {base} ELSE {} |->
                            [size |-> InitialPages, stream |-> InitStream, id |-> 0]]
       /\ unmapped_regions = [p \in IF InitialPages < VaSize
                                    THEN {base + InitialPages} ELSE {} |->
                                VaSize - InitialPages]
       /\ free_num = IF some THEN 1 ELSE 0
       /\ malloc_regions = EmptyMap
       /\ zombie_regions = {}
       /\ ops = EmptyMap
       /\ before = [s \in AllStreams |-> {}]
       /\ call = NoCall

Return == call' = NoCall

-----------------------------------------------------------------------------
(* Regions.                                                                *)

FreePages == UNION {Span(p, free_regions[p].size) : p \in DOMAIN free_regions}

(* The holes of u that end at p, and those that begin at p.                 *)
EndingAt(u, p) == {q \in DOMAIN u : q < p /\ q + u[q] = p}
BeginningAt(u, p) == {q \in DOMAIN u : q = p}

(* insert_unmapped_region, on the map u of holes.                           *)
insert_unmapped_region(u, p, n) ==
  LET prev == EndingAt(u, p)
      next == BeginningAt(u, p + n)
      lo   == IF prev = {} THEN p ELSE CHOOSE q \in prev : TRUE
      hi   == IF next = {} THEN p + n ELSE p + n + u[p + n]
  IN  IF n = 0 THEN u ELSE With(Without(u, prev \cup next), lo, hi - lo)

(* free_region_insert coalesces (p, n) with the neighbours of the same      *)
(* stream: the bases it absorbs, and the bounds of the merged region.       *)
Absorbed(p, n, s) ==
  {q \in DOMAIN free_regions :
     /\ free_regions[q].stream = s
     /\ q = p + n \/ (q < p /\ q + free_regions[q].size = p)}

MergedLo(p, n, s) ==
  IF \E q \in Absorbed(p, n, s) : q < p
  THEN CHOOSE q \in Absorbed(p, n, s) : q < p
  ELSE p

MergedHi(p, n, s) ==
  IF p + n \in Absorbed(p, n, s) THEN p + n + free_regions[p + n].size ELSE p + n

(* A new event, recorded on the stream of the region, and its number.       *)
RecordFree_OtherStream(s) ==
  record_on(free_num, InitStream) /\ free_num' = free_num + 1
RecordFree(s) == record_on(free_num, s) /\ free_num' = free_num + 1

free_region_insert(p, n, s) ==
  /\ RecordFree(s)
  /\ LET lo == MergedLo(p, n, s)
     IN  free_regions' =
           With(Without(free_regions, Absorbed(p, n, s)), lo,
                [size |-> MergedHi(p, n, s) - lo, stream |-> s, id |-> free_num])

(* f after the first n pages of region p are taken out of it; the untouched *)
(* tail keeps its event and its age (reinsert_split_free_region).           *)
CutFront_KeepsSize(f, p, n) ==
  IF f[p].size > n THEN With(Without(f, {p}), p + n, f[p]) ELSE Without(f, {p})
CutFront(f, p, n) ==
  IF f[p].size > n
  THEN With(Without(f, {p}), p + n, [f[p] EXCEPT !.size = @ - n])
  ELSE Without(f, {p})

(* The end of malloc_internal: region p of f becomes the allocation.        *)
HandOut(f, p) ==
  /\ free_regions' = CutFront(f, p, call.size)
  /\ malloc_regions' =
       With(malloc_regions, p, [size |-> call.size, stream |-> call.stream])
  /\ Return

-----------------------------------------------------------------------------
(* malloc_internal.                                                        *)

malloc_internal(s, n) ==
  /\ call.pc = "idle"
  /\ free_num + 2 <= MaxEvents
  /\ call' = [NoCall EXCEPT !.pc = "cleanup", !.stream = s, !.size = n,
                            !.scan = zombie_regions]
  /\ UNCHANGED <<device_vars, roots, active_pages, free_regions, malloc_regions,
                 unmapped_regions, zombie_regions, free_num>>

(* One turn of the loop of cleanup_zombie_regions.  A failed unmapping is   *)
(* only logged.                                                             *)
cleanup_zombie_regions(z) ==
  /\ call.pc = "cleanup"
  /\ z \in call.scan
  /\ call' = [call EXCEPT !.scan = @ \ {z}]
  /\ IF completed(z.event)
     THEN /\ zombie_regions' = zombie_regions \ {z}
          /\ unmapped_regions' =
               insert_unmapped_region(unmapped_regions, z.ptr, z.size)
          /\ \/ page_table' = Without(page_table, Span(z.ptr, z.size))
             \/ "unmap" \in Faults /\ UNCHANGED page_table
     ELSE UNCHANGED <<zombie_regions, unmapped_regions, page_table>>
  /\ UNCHANGED <<ops, before, physical, roots, active_pages, free_regions,
                 malloc_regions, free_num>>

(* The smallest of the candidate regions, the lowest address among equals.  *)
BestFit(C, size) ==
  CHOOSE p \in C :
    \A q \in C : size[p] < size[q] \/ (size[p] = size[q] /\ p <= q)

FreeSize == [p \in DOMAIN free_regions |-> free_regions[p].size]

Fitting == {p \in DOMAIN free_regions : free_regions[p].size >= call.size}
OwnFit == {p \in Fitting : free_regions[p].stream = call.stream}
CompletedFit_Unchecked == Fitting
CompletedFit == {p \in Fitting : completed(free_regions[p].id)}

(* find_best_fit: a region of the same stream may still be in use there; a  *)
(* region of another stream is taken over only once its event completed.    *)
find_best_fit ==
  /\ call.pc = "cleanup"
  /\ call.scan = {}
  /\ \/ /\ OwnFit # {}
        /\ HandOut(free_regions, BestFit(OwnFit, FreeSize))
     \/ /\ OwnFit = {}
        /\ CompletedFit # {}
        /\ LET p == BestFit(CompletedFit, FreeSize)
           IN  HandOut([free_regions EXCEPT ![p].stream = call.stream], p)
     \/ /\ OwnFit = {}
        /\ CompletedFit = {}
        /\ call' = [call EXCEPT !.pc = "hole"]
        /\ UNCHANGED <<free_regions, malloc_regions>>
  /\ UNCHANGED <<device_vars, roots, active_pages, unmapped_regions,
                 zombie_regions, free_num>>

-----------------------------------------------------------------------------
(* defragment_or_create_new_pages.                                         *)

Holes == {p \in DOMAIN unmapped_regions : unmapped_regions[p] >= call.size}

(* The pages that all free regions together are short of.                   *)
Shortfall_Whole == call.size
Shortfall_CountsAllPages ==
  IF call.size > Cardinality(DOMAIN active_pages)
  THEN call.size - Cardinality(DOMAIN active_pages) ELSE 0
Shortfall ==
  IF call.size > Cardinality(FreePages) THEN call.size - Cardinality(FreePages) ELSE 0

Opened(dst) ==
  call' = [call EXCEPT !.pc = "create", !.dst = dst, !.next = dst,
                       !.goal = dst + Shortfall]

(* take_unmapped_region: the best fitting hole, else a new chunk.           *)
take_unmapped_region ==
  /\ call.pc = "hole"
  /\ \/ /\ call.size <= VaSize
        /\ Holes # {}
        /\ LET p == BestFit(Holes, unmapped_regions)
               n == unmapped_regions[p]
               u == Without(unmapped_regions, {p})
           IN /\ unmapped_regions' =
                   IF n > call.size THEN With(u, p + call.size, n - call.size) ELSE u
              /\ Opened(p)
        /\ UNCHANGED roots
     \/ /\ call.size <= VaSize
        /\ Holes = {}
        /\ \E base \in VaBase \ roots :
             /\ roots' = roots \cup {base}
             /\ unmapped_regions' =
                  insert_unmapped_region(unmapped_regions, base + call.size,
                                         VaSize - call.size)
             /\ Opened(base)
     \/ /\ call.size > VaSize \/ (Holes = {} /\ VaBase \subseteq roots)
        /\ Return
        /\ UNCHANGED <<roots, unmapped_regions>>
  /\ UNCHANGED <<device_vars, active_pages, free_regions, malloc_regions,
                 zombie_regions, free_num>>

Unused == Handle \ physical
MapFails(a) == a \in DOMAIN page_table \/ "map" \in Faults

(* Creates one physical page and maps it at the next address of the hole.   *)
create_new_page ==
  /\ call.pc = "create"
  /\ call.next < call.goal
  /\ Unused # {}
  /\ LET h == CHOOSE h \in Unused : TRUE
     IN /\ physical' = physical \cup {h}
        /\ \/ /\ call.next \notin DOMAIN page_table
              /\ page_table' = With(page_table, call.next, h)
              /\ active_pages' = With(active_pages, call.next, h)
              /\ call' = [call EXCEPT !.next = @ + 1]
           \/ /\ MapFails(call.next)
              /\ Return
              /\ UNCHANGED <<page_table, active_pages>>
  /\ UNCHANGED <<ops, before, roots, free_regions, malloc_regions,
                 unmapped_regions, zombie_regions, free_num>>

(* Pages made at the addresses in A are unmapped and released; a failed     *)
(* unmapping is only logged.                                                *)
Undo_KeepsPhysical(A) ==
  /\ page_table' = Without(page_table, A)
  /\ active_pages' = Without(active_pages, A)
  /\ UNCHANGED physical
Undo_KeepsActive(A) ==
  /\ page_table' = Without(page_table, A)
  /\ physical' = physical \ {active_pages[a] : a \in A}
  /\ UNCHANGED active_pages
Undo(A) ==
  /\ \E B \in SUBSET A :
       /\ B = A \/ "unmap" \in Faults
       /\ page_table' = Without(page_table, B)
  /\ active_pages' = Without(active_pages, A)
  /\ physical' = physical \ {active_pages[a] : a \in A}

(* Returns the addresses that were filled so far, and not the whole hole.   *)
rollback_new_pages_Filled ==
  /\ call.pc = "create"
  /\ call.next < call.goal
  /\ Unused = {} \/ "oom" \in Faults
  /\ Undo(Span(call.dst, call.next - call.dst))
  /\ unmapped_regions' =
       insert_unmapped_region(unmapped_regions, call.dst, call.next - call.dst)
  /\ Return
  /\ UNCHANGED <<ops, before, roots, free_regions, malloc_regions,
                 zombie_regions, free_num>>
(* vpmm_create_physical runs out of memory: rollback_new_pages undoes the   *)
(* pages created so far and returns the whole hole.                         *)
rollback_new_pages ==
  /\ call.pc = "create"
  /\ call.next < call.goal
  /\ Unused = {} \/ "oom" \in Faults
  /\ Undo(Span(call.dst, call.next - call.dst))
  /\ unmapped_regions' = insert_unmapped_region(unmapped_regions, call.dst, call.size)
  /\ Return
  /\ UNCHANGED <<ops, before, roots, free_regions, malloc_regions,
                 zombie_regions, free_num>>

(* Another driver error ends the call: neither the hole nor the pages made  *)
(* so far are given back.                                                   *)
creation_fails ==
  /\ call.pc = "create"
  /\ \/ call.next < call.goal /\ "create" \in Faults
     \/ call.next = call.goal /\ call.goal > call.dst /\ "access" \in Faults
  /\ Return
  /\ UNCHANGED <<device_vars, roots, active_pages, free_regions, malloc_regions,
                 unmapped_regions, zombie_regions, free_num>>

(* The new pages become a free region of the caller's stream.               *)
insert_new_pages ==
  /\ call.pc = "create"
  /\ call.next = call.goal
  /\ call.goal > call.dst
  /\ LET n    == call.goal - call.dst
         s    == call.stream
         lo   == MergedLo(call.dst, n, s)
         got  == MergedHi(call.dst, n, s) - lo
         left == IF call.size > got THEN call.size - got ELSE 0
     IN /\ free_region_insert(call.dst, n, s)
        /\ call' = [call EXCEPT !.pc = IF left = 0 THEN "take" ELSE "harvest",
                                !.ptr = lo, !.left = left]
  /\ UNCHANGED <<page_table, physical, roots, active_pages, malloc_regions,
                 unmapped_regions, zombie_regions>>

no_new_pages ==
  /\ call.pc = "create"
  /\ call.goal = call.dst
  /\ call' = [call EXCEPT !.pc = "harvest", !.left = call.size]
  /\ UNCHANGED <<device_vars, roots, active_pages, free_regions, malloc_regions,
                 unmapped_regions, zombie_regions, free_num>>

(* ordered_free_regions: the caller's stream first, then the oldest.        *)
Harvestable_All == DOMAIN free_regions
Harvestable_Completed ==
  {p \in DOMAIN free_regions \ {call.ptr} : completed(free_regions[p].id)}
Harvestable == DOMAIN free_regions \ {call.ptr}

NextHarvest ==
  LET other(p) == free_regions[p].stream # call.stream
      first(p, q) == IF other(p) = other(q)
                     THEN free_regions[p].id <= free_regions[q].id
                     ELSE other(q)
  IN  CHOOSE p \in Harvestable : \A q \in Harvestable : first(p, q)

(* The caller's stream must wait for the last use of region r.              *)
NeedsWait_Never(r) == FALSE
NeedsWait(r) == r.stream # call.stream /\ ~completed(r.id)

(* One free region gives up its first pages; they are to be remapped at the *)
(* next addresses of the hole, and their old addresses become a zombie.     *)
harvest_free_region ==
  /\ call.pc = "harvest"
  /\ call.left > 0
  /\ Harvestable # {}
  /\ LET p    == NextHarvest
         r    == free_regions[p]
         take == IF call.left < r.size THEN call.left ELSE r.size
         into == Span(call.next, take)
     IN \/ /\ IF NeedsWait(r)
              THEN wait(call.stream, r.id)
              ELSE UNCHANGED before
           /\ zombie_regions' =
                zombie_regions \cup {[ptr |-> p, size |-> take, event |-> r.id]}
           /\ free_regions' = CutFront(free_regions, p, take)
           /\ call' = [call EXCEPT
                !.left  = @ - take,
                !.next  = @ + take,
                !.moves = [d \in DOMAIN @ \cup into |->
                             IF d \in into THEN p + (d - call.next) ELSE @[d]]]
        \/ /\ "wait" \in Faults
           /\ NeedsWait(r)
           /\ free_regions' = Without(free_regions, {p})
           /\ Return
           /\ UNCHANGED <<before, zombie_regions>>
  /\ UNCHANGED <<ops, page_table, physical, roots, active_pages, malloc_regions,
                 unmapped_regions, free_num>>

(* The pages d of the hole in D take over the physical pages at moves[d].   *)
Remapped(D) ==
  [a \in (DOMAIN active_pages \ {call.moves[d] : d \in D}) \cup D |->
     active_pages[IF a \in D THEN call.moves[a] ELSE a]]

DoubleMapped(D) ==
  [a \in DOMAIN page_table \cup D |->
     IF a \in D THEN active_pages[call.moves[a]] ELSE page_table[a]]

(* remap_regions, up to its last driver call.                               *)
remap_regions ==
  /\ call.pc = "harvest"
  /\ call.left = 0
  /\ LET D  == DOMAIN call.moves
         n  == call.next - call.goal
         lo == MergedLo(call.goal, n, call.stream)
     IN /\ D \cap DOMAIN page_table = {}
        /\ active_pages' = Remapped(D)
        /\ page_table' = DoubleMapped(D)
        /\ free_region_insert(call.goal, n, call.stream)
        /\ call' = [call EXCEPT !.pc = "take", !.ptr = MinPtr(@, lo)]
  /\ UNCHANGED <<physical, roots, malloc_regions, unmapped_regions,
                 zombie_regions>>

(* vpmm_map fails at page k, whose old address was already forgotten, or    *)
(* vpmm_set_access fails after the last page (k is one past it).            *)
remap_fails(k) ==
  /\ call.pc = "harvest"
  /\ call.left = 0
  /\ LET D    == DOMAIN call.moves
         done == {d \in D : d < k}
         gone == {call.moves[d] : d \in {d \in D : d <= k}}
     IN /\ \/ k \in D /\ MapFails(k)
           \/ k = call.next /\ "access" \in Faults
        /\ done \cap DOMAIN page_table = {}
        /\ active_pages' = [a \in DOMAIN Remapped(done) \ gone |-> Remapped(done)[a]]
        /\ page_table' = DoubleMapped(done)
  /\ Return
  /\ UNCHANGED <<ops, before, physical, roots, free_regions, malloc_regions,
                 unmapped_regions, zombie_regions, free_num>>

hand_out_defragmented ==
  /\ call.pc = "take"
  /\ HandOut(free_regions, call.ptr)
  /\ UNCHANGED <<device_vars, roots, active_pages, unmapped_regions,
                 zombie_regions, free_num>>

-----------------------------------------------------------------------------
(* free_internal: the event is recorded on the stream of the allocation.    *)
free_internal(p) ==
  /\ call.pc = "idle"
  /\ p \in DOMAIN malloc_regions
  /\ free_num < MaxEvents
  /\ free_region_insert(p, malloc_regions[p].size, malloc_regions[p].stream)
  /\ malloc_regions' = Without(malloc_regions, {p})
  /\ UNCHANGED <<page_table, physical, roots, active_pages, unmapped_regions,
                 zombie_regions, call>>

(* The owner of an allocation launches a kernel over it, on the stream it   *)
(* was allocated on (DeviceBuffer's contract); this takes no lock.          *)
Launch(p, k) ==
  /\ call.pc # "dropped"
  /\ p \in DOMAIN malloc_regions
  /\ k \notin DOMAIN ops
  /\ enqueue(k, malloc_regions[p].stream,
             [a \in Span(p, malloc_regions[p].size) |-> page_table[a]])
  /\ UNCHANGED <<page_table, physical, pool_vars>>

(* Drop synchronizes the device, unmaps zombies and pages, and releases all. *)
drop ==
  /\ call.pc = "idle"
  /\ Drained
  /\ page_table' =
       Without(page_table, DOMAIN active_pages
                             \cup UNION {Span(z.ptr, z.size) : z \in zombie_regions})
  /\ physical' = physical \ Range(active_pages)
  /\ roots' = {}
  /\ active_pages' = EmptyMap
  /\ free_regions' = EmptyMap
  /\ malloc_regions' = EmptyMap
  /\ unmapped_regions' = EmptyMap
  /\ zombie_regions' = {}
  /\ call' = [NoCall EXCEPT !.pc = "dropped"]
  /\ UNCHANGED <<ops, before, free_num>>

Dropped == call.pc = "dropped" /\ UNCHANGED vars

(* The device retires a kernel, or an event marker.                         *)
Device(id) == Retire(id) /\ UNCHANGED pool_vars

CallStep ==
  \/ \E z \in call.scan : cleanup_zombie_regions(z)
  \/ find_best_fit
  \/ take_unmapped_region
  \/ create_new_page
  \/ rollback_new_pages
  \/ creation_fails
  \/ insert_new_pages
  \/ no_new_pages
  \/ harvest_free_region
  \/ remap_regions
  \/ \E k \in DOMAIN call.moves \cup {call.next} : remap_fails(k)
  \/ hand_out_defragmented

Next ==
  \/ \E s \in Stream, n \in Request : malloc_internal(s, n)
  \/ CallStep
  \/ \E p \in DOMAIN malloc_regions : free_internal(p)
  \/ \E p \in DOMAIN malloc_regions, k \in Kernel : Launch(p, k)
  \/ \E id \in DOMAIN ops : Device(id)
  \/ drop
  \/ Dropped

Spec == Init /\ [][Next]_vars

(* The thread that holds the mutex keeps running; the device may stall.     *)
FairSpec == Spec /\ WF_vars(CallStep)

-----------------------------------------------------------------------------
(* Properties.                                                             *)

Address == UNION {Span(b, VaSize) : b \in VaBase}
IsPartial(f, D, R) == DOMAIN f \subseteq D /\ f \in [DOMAIN f -> R]

(* The stages of a call of malloc_internal, and the end of the pool.        *)
Stage == {"idle", "cleanup", "hole", "create", "harvest", "take", "dropped"}

(* Every field keeps its type: regions are never empty, begin in reserved   *)
(* addresses, and carry events that have been recorded.                     *)
TypeOK ==
  /\ roots \subseteq VaBase
  /\ DOMAIN active_pages \subseteq Address
  /\ IsPartial(free_regions, Address,
               [size : Nat \ {0}, stream : AllStreams, id : 0 .. free_num - 1])
  /\ IsPartial(malloc_regions, Address, [size : Request, stream : Stream])
  /\ IsPartial(unmapped_regions, Address, Nat \ {0})
  /\ zombie_regions \subseteq
       [ptr : Address, size : Nat \ {0}, event : 0 .. free_num - 1]
  /\ free_num \in Nat
  /\ call.pc \in Stage

(* The addresses of the hole of the call that no free region covers yet.    *)
HolePages ==
  CASE call.pc = "create"  -> Span(call.dst, call.size)
    [] call.pc = "harvest" -> Span(call.goal, call.size - (call.goal - call.dst))
    [] OTHER -> {}

MallocPages == UNION {Span(p, malloc_regions[p].size) : p \in DOMAIN malloc_regions}
ZombiePages == UNION {Span(z.ptr, z.size) : z \in zombie_regions}
RootPages == UNION {Span(b, VaSize) : b \in roots}

(* All regions: their kind, their base and their size.                      *)
Regions ==
  {<<"free", p, free_regions[p].size>> : p \in DOMAIN free_regions}
    \cup {<<"malloc", p, malloc_regions[p].size>> : p \in DOMAIN malloc_regions}
    \cup {<<"unmapped", p, unmapped_regions[p]>> : p \in DOMAIN unmapped_regions}
    \cup {<<"zombie", z.ptr, z.size, z.event>> : z \in zombie_regions}

(* Regions of one kind or of two kinds never overlap, nor do they overlap   *)
(* the hole a call is filling, and all lie in the reserved chunks: no       *)
(* sequence of splits, merges, remappings, rollbacks and reclaimed zombies  *)
(* hands an address out twice.                                              *)
RegionsDisjoint ==
  /\ \A r, q \in Regions : r # q => Span(r[2], r[3]) \cap Span(q[2], q[3]) = {}
  /\ \A r \in Regions : Span(r[2], r[3]) \subseteq RootPages \ HolePages

(* Every page of a free or allocated region is mapped, to a physical page   *)
(* of its own that is not released: remapping moves pages and never shares  *)
(* one between two regions, even when a driver call fails half-way.         *)
PagesBacked ==
  /\ \A a \in FreePages \cup MallocPages :
       /\ a \in DOMAIN active_pages
       /\ a \in DOMAIN page_table
       /\ page_table[a] = active_pages[a]
  /\ IsInjective(active_pages)
  /\ Range(active_pages) \subseteq physical

(* A kernel in flight finds at each of its addresses, until it retires, the *)
(* page that was there at its launch: the old addresses of remapped pages   *)
(* are unmapped only behind the event of their last use.                    *)
NoFault ==
  \A o \in DOMAIN ops : \A a \in DOMAIN ops[o].uses :
    a \in DOMAIN page_table /\ page_table[a] = ops[o].uses[a]

(* Two pending kernels that touch the same physical page are ordered by     *)
(* streams and events: a page is never reused concurrently with its last    *)
(* owner, though nothing waits on the host.                                 *)
NoRace ==
  \A o, q \in DOMAIN ops :
    \/ o = q
    \/ o \in ops[q].after
    \/ q \in ops[o].after
    \/ Touches(o) \cap Touches(q) = {}

(* The shortfall is computed before the new pages merge with a neighbour    *)
(* and before any region is harvested: harvesting still never runs out of   *)
(* regions.                                                                 *)
HarvestSuffices ==
  call.pc = "harvest" /\ call.left > 0 => Harvestable # {}

(* The region that defragment_or_create_new_pages returns is free (else     *)
(* malloc_internal panics with "BUG") and has the requested size, whatever  *)
(* the new and the remapped pages merged with on the way.                   *)
RegionFound ==
  call.pc = "take" =>
    /\ call.ptr \in DOMAIN free_regions
    /\ free_regions[call.ptr].size >= call.size

(* The MinUse policy of docs/vpmm_spec.md: physical pages are only created  *)
(* up to the pages that are live once the request is granted.               *)
MinUse ==
  [][\A h \in physical' \ physical :
       Cardinality(physical') <= Cardinality(MallocPages) + call.size]_vars

(* Between calls no page leaks: every physical page is the backing of one   *)
(* free or allocated page, and the driver maps only those and the zombies,  *)
(* also after a call that ran out of memory half-way.  Neighbouring holes   *)
(* are merged: a chunk is reserved only if no run of holes is long enough.  *)
NothingLeaks ==
  call.pc \in {"idle", "dropped"} =>
    /\ DOMAIN active_pages = FreePages \cup MallocPages
    /\ physical = Range(active_pages)
    /\ DOMAIN page_table = DOMAIN active_pages \cup ZombiePages
    /\ \A p \in DOMAIN unmapped_regions :
         p + unmapped_regions[p] \notin DOMAIN unmapped_regions

(* Reserved addresses that no region and no running call knows of.          *)
UnmappedPages ==
  UNION {Span(p, unmapped_regions[p]) : p \in DOMAIN unmapped_regions}
LostPages ==
  RootPages
    \ (FreePages \cup MallocPages \cup UnmappedPages \cup ZombiePages \cup HolePages)

(* An address of a chunk is lost only where new pages joined a free region  *)
(* that ends at the hole: the call then remaps fewer pages than its hole    *)
(* has room for, and the end of the hole is left over.  Splits, merges,     *)
(* reclaimed zombies and rollbacks half-way lose none.                      *)
AddressesKept ==
  [][\/ LostPages' \subseteq LostPages
     \/ /\ call.goal > call.dst
        /\ call'.pc = "take" /\ call'.ptr < call.dst]_vars

(* Every call of malloc_internal ends, whatever the device does: it never   *)
(* waits on the host for an event.                                          *)
CallReturns == call.pc # "idle" ~> call.pc \in {"idle", "dropped"}

(* Seen from outside, an allocation is the pages behind it in the driver's  *)
(* page table, and events and their markers only order kernels.             *)
PagesAt(p, n) == [i \in 0 .. n - 1 |-> page_table[p + i]]

Owned ==
  [p \in DOMAIN malloc_regions |->
     [stream |-> malloc_regions[p].stream, pages |-> PagesAt(p, malloc_regions[p].size)]]
Pending ==
  [k \in DOMAIN ops \cap Kernel |->
     [pages |-> Touches(k), after |-> ops[k].after \cap Kernel]]
Order == [s \in Stream |-> before[s] \cap Kernel]

Allocator ==
  INSTANCE StreamAllocator WITH
    Page <- Handle, Pointer <- Address, Size <- Request,
    owned <- Owned, pending <- Pending, order <- Order

(* The pool implements the stream-ordered allocator: allocations own their  *)
(* backing, which no remapping changes, and their kernels are ordered.      *)
ImplementsAllocator == Allocator!Spec

(* docs/vpmm_spec.md:145: active_pages has the current address of every     *)
(* mapped page; Drop relies on it to unmap and release them.                *)
ActivePagesCurrent ==
  call.pc = "idle" =>
    /\ Range(page_table) \subseteq Range(active_pages)
    /\ DOMAIN active_pages \subseteq DOMAIN page_table

=============================================================================
