---------------------------- MODULE DeviceMemory ----------------------------
(***************************************************************************)
(* Host threads that own device memory: DeviceBuffer over the process-wide *)
(* MemoryManager, which serves small requests from CUDA's stream-ordered   *)
(* allocator and large ones from the pool and keeps the sizes that         *)
(* MemTracker reports.  What both allocators do with pages is left to      *)
(* StreamAllocator.  A stream lives as long as somebody holds a StreamGuard *)
(* of it: contexts, records of allocations, free regions of the pool, and  *)
(* calls of d_free that have left the lock.                                *)
(*                                                                         *)
(* A critical section of the manager's mutex is one step.                  *)
(***************************************************************************)
EXTENDS StreamAllocator, FiniteSetsExt, Maps

CONSTANTS
  Thread,     \* host threads
  Buffer,     \* identities of DeviceBuffer values
  Length,     \* requested sizes, in bytes
  page_size,  \* page size of the pool, in bytes
  PoolPage,   \* pages of the pool; the others belong to CUDA's allocator
  None

ASSUME PageAssumption ==
  page_size \in Nat \ {0} /\ Length \subseteq Nat /\ PoolPage \subseteq Page

ASSUME NoneAssumption == None \notin Stream

VARIABLES
  allocated_ptrs,  \* pointer -> [size, stream], small allocations
  malloc_regions,  \* pointer -> [size, stream], allocations of the pool
  idle,            \* streams of which a free region of the pool holds a guard
  current_size, max_used_size,
  poisoned,        \* a thread panicked inside the lock
  refused,         \* history: CUDA refused a free or an event, or gave a null pointer
  buffers,         \* buffer -> [thread, ptr]
  contexts,        \* thread -> streams of its GpuDeviceCtx values
  guard,           \* thread -> stream whose guard d_free is about to drop
  refs, life,      \* stream -> strong count of the Arc, and its handle
  status,          \* thread -> "running" | "unwinding" | "dead"
  aborted,         \* a destructor panicked during unwinding
  high             \* history: the largest current_size since the last reset

sizes == <<current_size, max_used_size, high>>
records == <<allocated_ptrs, malloc_regions, idle>>
arcs == <<refs, life>>
lock == <<poisoned, refused>>
allvars == <<vars, records, sizes, lock, buffers, contexts, guard, arcs,
             status, aborted>>

MemoryInit ==
  /\ Init
  /\ allocated_ptrs = EmptyMap /\ malloc_regions = EmptyMap /\ idle = {}
  /\ current_size = 0 /\ max_used_size = 0 /\ high = 0
  /\ poisoned = FALSE /\ refused = FALSE /\ aborted = FALSE
  /\ buffers = EmptyMap
  /\ contexts = [t \in Thread |-> {}]
  /\ guard = [t \in Thread |-> None]
  /\ refs = [s \in Stream |-> 0] /\ life = [s \in Stream |-> "none"]
  /\ status = [t \in Thread |-> "running"]

One(s) == [x \in Stream |-> IF x = s THEN 1 ELSE 0]
In(S) == [x \in Stream |-> IF x \in S THEN 1 ELSE 0]

(* Clones and drops of guards; the last drop destroys the stream.           *)
Guards(cloned, dropped) ==
  /\ refs' = [s \in Stream |-> refs[s] + cloned[s] - dropped[s]]
  /\ life' = [s \in Stream |->
                IF life[s] = "live" /\ refs'[s] = 0 THEN "destroyed" ELSE life[s]]

(* A panic: it unwinds the thread, or aborts the process if it unwinds.     *)
Panic(t) ==
  /\ status' = [status EXCEPT ![t] = "unwinding"]
  /\ aborted' = (status[t] = "unwinding")

(* A panic with the lock held poisons it, unless it aborts the process.     *)
PanicInside(t) ==
  /\ Panic(t)
  /\ poisoned' = (status[t] # "unwinding")
  /\ refused' = TRUE

OwnBuffers(t) == {b \in DOMAIN buffers : buffers[b].thread = t}
Ready(t) == ~aborted /\ guard[t] = None

NewContext(t, s) ==
  /\ Ready(t) /\ status[t] = "running"
  /\ life[s] = "none"
  /\ life' = [life EXCEPT ![s] = "live"]
  /\ refs' = [refs EXCEPT ![s] = 1]
  /\ contexts' = [contexts EXCEPT ![t] = @ \cup {s}]
  /\ UNCHANGED <<vars, records, sizes, lock, buffers, guard, status, aborted>>

CloneContext(t, u, s) ==
  /\ Ready(t) /\ status[t] = "running" /\ status[u] = "running"
  /\ s \in contexts[t] \ contexts[u]
  /\ contexts' = [contexts EXCEPT ![u] = @ \cup {s}]
  /\ Guards(One(s), In({}))
  /\ UNCHANGED <<vars, records, sizes, lock, buffers, guard, status, aborted>>

DropContext(t, s) ==
  /\ Ready(t) /\ s \in contexts[t]
  /\ contexts' = [contexts EXCEPT ![t] = @ \ {s}]
  /\ Guards(In({}), One(s))
  /\ UNCHANGED <<vars, records, sizes, lock, buffers, guard, status, aborted>>

-----------------------------------------------------------------------------
next_multiple_of(size) == page_size * ((size + page_size - 1) \div page_size)

Grow_Requested(tracked, size) ==
  /\ current_size' = current_size + size
  /\ max_used_size' = IF current_size' > max_used_size THEN current_size' ELSE max_used_size
  /\ high' = Max({high, current_size'})
(* The end of d_malloc_on; size is what was asked for.                      *)
Grow(tracked, size) ==
  /\ current_size' = current_size + tracked
  /\ max_used_size' = IF current_size' > max_used_size THEN current_size' ELSE max_used_size
  /\ high' = Max({high, current_size'})
Shrink(tracked) ==
  /\ current_size' = current_size - tracked
  /\ high' = Max({high, current_size'})
  /\ UNCHANGED max_used_size

malloc_small_RawHandle(p, s, size) ==
  /\ size < page_size
  /\ \E g \in Page \ PoolPage : Allocate(p, s, [i \in {0} |-> g])
  /\ allocated_ptrs' = With(allocated_ptrs, p, [size |-> size, stream |-> s])
  /\ UNCHANGED <<malloc_regions, idle, arcs>>
  /\ Grow(size, size)
(* cudaMallocAsync; the record keeps the stream alive for the free.         *)
malloc_small(p, s, size) ==
  /\ size < page_size
  /\ \E g \in Page \ PoolPage : Allocate(p, s, [i \in {0} |-> g])
  /\ allocated_ptrs' = With(allocated_ptrs, p, [size |-> size, stream |-> s])
  /\ UNCHANGED <<malloc_regions, idle>>
  /\ Guards(One(s), In({}))
  /\ Grow(size, size)

(* malloc_internal for stream s: free regions may have been used up, taken  *)
(* over by s, or created for it.                                            *)
Defragment(s, cloned) ==
  /\ idle' \in SUBSET (idle \cup {s})
  /\ Guards([x \in Stream |-> cloned[x] + In(idle' \ idle)[x]], In(idle \ idle'))

malloc_pool(p, s, size) ==
  LET tracked == next_multiple_of(size)
      n == tracked \div page_size
  IN  /\ size >= page_size
      /\ \E b \in [0 .. n - 1 -> PoolPage] : Allocate(p, s, b)
      /\ malloc_regions' = With(malloc_regions, p, [size |-> tracked, stream |-> s])
      /\ UNCHANGED allocated_ptrs
      /\ Defragment(s, One(s))
      /\ Grow(tracked, size)

(* A request that fails may have been defragmenting.                        *)
malloc_fails(s, size) ==
  /\ \/ size < page_size /\ UNCHANGED <<idle, arcs>>
     \/ size >= page_size /\ Defragment(s, In({}))
  /\ UNCHANGED <<vars, allocated_ptrs, malloc_regions, sizes>>

(* The assertion of d_malloc_on only, which holds the lock.                 *)
with_capacity_on_NoAssert(t, b, s, size) ==
  /\ Ready(t) /\ status[t] = "running"
  /\ s \in contexts[t] /\ b \notin DOMAIN buffers
  /\ \/ /\ size = 0 \/ poisoned
        /\ Panic(t) /\ poisoned' = TRUE
        /\ UNCHANGED <<vars, records, sizes, refused, buffers, arcs>>
     \/ /\ size # 0 /\ ~poisoned /\ malloc_fails(s, size)
        /\ PanicInside(t) \/ (Panic(t) /\ UNCHANGED lock)
        /\ UNCHANGED buffers
     \/ /\ size # 0 /\ ~poisoned
        /\ \E p \in Pointer :
             /\ malloc_small(p, s, size) \/ malloc_pool(p, s, size)
             /\ buffers' = With(buffers, b, [thread |-> t, ptr |-> p])
        /\ UNCHANGED <<lock, status, aborted>>
  /\ UNCHANGED <<contexts, guard>>
(* A zero length panics before the lock is taken; a poisoned lock, or an    *)
(* error of the allocator, after it was released; a null pointer from CUDA, *)
(* or an event of a new free region that cannot be created or recorded,     *)
(* inside.                                                                  *)
with_capacity_on(t, b, s, size) ==
  /\ Ready(t) /\ status[t] = "running"
  /\ s \in contexts[t] /\ b \notin DOMAIN buffers
  /\ \/ /\ size = 0 \/ poisoned
        /\ Panic(t)
        /\ UNCHANGED <<vars, records, sizes, lock, buffers, arcs>>
     \/ /\ size # 0 /\ ~poisoned /\ malloc_fails(s, size)
        /\ PanicInside(t) \/ (Panic(t) /\ UNCHANGED lock)
        /\ UNCHANGED buffers
     \/ /\ size # 0 /\ ~poisoned
        /\ \E p \in Pointer :
             /\ malloc_small(p, s, size) \/ malloc_pool(p, s, size)
             /\ buffers' = With(buffers, b, [thread |-> t, ptr |-> p])
        /\ UNCHANGED <<lock, status, aborted>>
  /\ UNCHANGED <<contexts, guard>>

-----------------------------------------------------------------------------
(* d_free_under_lock of a small allocation; the guard leaves the lock.      *)
free_small(t, p) ==
  /\ p \in DOMAIN allocated_ptrs
  /\ allocated_ptrs' = Without(allocated_ptrs, {p})
  /\ Shrink(allocated_ptrs[p].size)
  /\ Release(p)
  /\ guard' = [guard EXCEPT ![t] = allocated_ptrs[p].stream]
  /\ UNCHANGED <<malloc_regions, idle, arcs, lock, status, aborted>>

(* cudaFreeAsync fails: record and size are gone, the memory is not, and    *)
(* the guard is dropped inside the lock.                                    *)
free_small_fails(t, p) ==
  /\ p \in DOMAIN allocated_ptrs
  /\ allocated_ptrs' = Without(allocated_ptrs, {p})
  /\ Shrink(allocated_ptrs[p].size)
  /\ Guards(In({}), One(allocated_ptrs[p].stream))
  /\ Panic(t)
  /\ refused' = TRUE
  /\ UNCHANGED <<vars, malloc_regions, idle, poisoned, guard>>

(* free_internal; the free region holds a guard of its own.                 *)
free_pool(t, p) ==
  /\ p \in DOMAIN malloc_regions \ DOMAIN allocated_ptrs
  /\ malloc_regions' = Without(malloc_regions, {p})
  /\ idle' = idle \cup {malloc_regions[p].stream}
  /\ Shrink(malloc_regions[p].size)
  /\ Release(p)
  /\ guard' = [guard EXCEPT ![t] = malloc_regions[p].stream]
  /\ Guards(In(idle' \ idle), In({}))
  /\ UNCHANGED <<allocated_ptrs, lock, status, aborted>>

(* free_region_insert cannot create or record its event: the record and the *)
(* neighbours it merged are gone, the memory and its size are not.          *)
free_pool_panics(t, p) ==
  LET s == malloc_regions[p].stream
  IN  /\ p \in DOMAIN malloc_regions \ DOMAIN allocated_ptrs
      /\ malloc_regions' = Without(malloc_regions, {p})
      /\ idle' \in {idle, idle \ {s}}
      /\ Guards(In({}), [x \in Stream |-> One(s)[x] + In(idle \ idle')[x]])
      /\ PanicInside(t)
      /\ UNCHANGED <<vars, allocated_ptrs, sizes, guard>>

(* A pointer that is nobody's, or a poisoned lock.                          *)
free_fails(t, p) ==
  /\ poisoned \/ p \notin DOMAIN allocated_ptrs \cup DOMAIN malloc_regions
  /\ Panic(t)
  /\ UNCHANGED <<vars, records, sizes, lock, guard, arcs>>

DropBuffer(t, b) ==
  /\ Ready(t) /\ b \in OwnBuffers(t)
  /\ buffers' = Without(buffers, {b})
  /\ LET p == buffers[b].ptr
     IN  \/ /\ ~poisoned
            /\ \/ free_small(t, p) \/ free_small_fails(t, p)
               \/ free_pool(t, p) \/ free_pool_panics(t, p)
         \/ free_fails(t, p)
  /\ UNCHANGED contexts

(* d_free after the lock.                                                   *)
DropGuard(t) ==
  /\ ~aborted /\ guard[t] # None
  /\ guard' = [guard EXCEPT ![t] = None]
  /\ Guards(In({}), One(guard[t]))
  /\ UNCHANGED <<vars, records, sizes, lock, buffers, contexts, status, aborted>>

as_buffer_Shared(t, b, c) ==
  /\ Ready(t) /\ status[t] = "running"
  /\ b \in OwnBuffers(t) /\ c \notin DOMAIN buffers
  /\ buffers' = With(buffers, c, buffers[b])
  /\ UNCHANGED <<vars, records, sizes, lock, contexts, guard, arcs, status, aborted>>
(* The memory changes hands, so that it is freed once.                      *)
as_buffer(t, b, c) ==
  /\ Ready(t) /\ status[t] = "running"
  /\ b \in OwnBuffers(t) /\ c \notin DOMAIN buffers
  /\ buffers' = With(Without(buffers, {b}), c, buffers[b])
  /\ UNCHANGED <<vars, records, sizes, lock, contexts, guard, arcs, status, aborted>>

(* DeviceBuffer is Send.                                                    *)
SendBuffer(t, u, b) ==
  /\ Ready(t) /\ status[t] = "running" /\ status[u] = "running" /\ t # u
  /\ b \in OwnBuffers(t)
  /\ buffers' = [buffers EXCEPT ![b].thread = u]
  /\ UNCHANGED <<vars, records, sizes, lock, contexts, guard, arcs, status, aborted>>

(* A panicking thread is gone once its destructors have run.                *)
Unwound(t) ==
  /\ Ready(t) /\ status[t] = "unwinding"
  /\ OwnBuffers(t) = {} /\ contexts[t] = {}
  /\ status' = [status EXCEPT ![t] = "dead"]
  /\ UNCHANGED <<vars, records, sizes, lock, buffers, contexts, guard, arcs, aborted>>

reset_peak(t) ==
  /\ Ready(t) /\ status[t] = "running" /\ ~poisoned
  /\ max_used_size' = current_size
  /\ high' = current_size
  /\ UNCHANGED <<vars, records, current_size, lock, buffers, contexts, guard,
                 arcs, status, aborted>>

(* A kernel or a copy, on the stream the buffer was allocated on.           *)
LaunchOn(t, b, k) ==
  /\ Ready(t) /\ status[t] = "running"
  /\ b \in OwnBuffers(t)
  /\ Launch(buffers[b].ptr, k)
  /\ owned[buffers[b].ptr].stream \in contexts[t]
  /\ UNCHANGED <<records, sizes, lock, buffers, contexts, guard, arcs, status, aborted>>

Device ==
  /\ ~aborted
  /\ \/ \E k \in DOMAIN pending : Retire(k)
     \/ \E s \in Stream : life[s] = "live" /\ \E K \in SUBSET DOMAIN pending : Synchronize(s, K)
  /\ UNCHANGED <<records, sizes, lock, buffers, contexts, guard, arcs, status, aborted>>

MemoryNext ==
  \/ Device
  \/ \E t \in Thread :
       \/ \E s \in Stream : NewContext(t, s) \/ DropContext(t, s)
       \/ \E u \in Thread, s \in Stream : CloneContext(t, u, s)
       \/ \E b \in Buffer, s \in Stream, n \in Length : with_capacity_on(t, b, s, n)
       \/ \E b \in Buffer : DropBuffer(t, b)
       \/ \E b, c \in Buffer : as_buffer(t, b, c)
       \/ \E u \in Thread, b \in Buffer : SendBuffer(t, u, b)
       \/ \E b \in Buffer, k \in Kernel : LaunchOn(t, b, k)
       \/ DropGuard(t) \/ Unwound(t) \/ reset_peak(t)

MemorySpec == MemoryInit /\ [][MemoryNext]_allvars

-----------------------------------------------------------------------------
Leaked == DOMAIN owned \ (DOMAIN allocated_ptrs \cup DOMAIN malloc_regions)

(* A live buffer has its allocation for itself and a record of it, whatever *)
(* threads it was sent to, was reinterpreted or panicked, and while the lock *)
(* can be taken a record has a live buffer: nothing is freed twice, and no  *)
(* thread takes an allocation with it.  A record names the stream and the   *)
(* pages of its allocation.                                                 *)
BuffersOwn ==
  LET ptrs == [b \in DOMAIN buffers |-> buffers[b].ptr]
      recorded == DOMAIN allocated_ptrs \cup DOMAIN malloc_regions
  IN  /\ IsInjective(ptrs)
      /\ Range(ptrs) \subseteq recorded /\ recorded \subseteq DOMAIN owned
      /\ ~poisoned => recorded \subseteq Range(ptrs)
      /\ DOMAIN allocated_ptrs \cap DOMAIN malloc_regions = {}
      /\ \A p \in DOMAIN malloc_regions :
           /\ malloc_regions[p].stream = owned[p].stream
           /\ malloc_regions[p].size = page_size * Cardinality(PagesOf(p))
      /\ \A p \in DOMAIN allocated_ptrs :
           allocated_ptrs[p].stream = owned[p].stream

(* Guards held of stream s.                                                 *)
Holders(s) ==
  Cardinality({t \in Thread : s \in contexts[t]})
    + Cardinality({p \in DOMAIN allocated_ptrs : allocated_ptrs[p].stream = s})
    + Cardinality({p \in DOMAIN malloc_regions : malloc_regions[p].stream = s})
    + In(idle)[s]
    + Cardinality({t \in Thread : guard[t] = s})

(* A stream on which an allocation will be freed, or whose events the pool  *)
(* compares, is never destroyed, though its contexts are long gone; and one *)
(* nobody refers to any more is.                                            *)
StreamLifetime ==
  \A s \in Stream : refs[s] = Holders(s) /\ (life[s] = "live" <=> Holders(s) > 0)

SmallBytes == UNION {{p} \X (1 .. allocated_ptrs[p].size) : p \in DOMAIN allocated_ptrs}
PoolPages == UNION {PagesOf(p) : p \in DOMAIN malloc_regions}

(* As long as somebody can read it, current_size is what the live records   *)
(* occupy, rounded up to pages in the pool; the peak is the largest such    *)
(* value since the last reset ("local maximum memory size ... since the     *)
(* last reset_peak call").                                                  *)
Accounted ==
  /\ ~poisoned /\ ~aborted =>
       current_size = Cardinality(SmallBytes) + page_size * Cardinality(PoolPages)
  /\ max_used_size = high

(* A request of nothing, or one that CUDA or the pool turns down, half-way  *)
(* through defragmentation too, takes only its own thread down: until CUDA  *)
(* refuses a free or an event, the destructors of a panicking thread free   *)
(* all it owns, the process does not abort, the lock is not poisoned and no *)
(* memory is lost.                                                          *)
FaultsContained == ~refused => ~poisoned /\ ~aborted /\ Leaked = {}
=============================================================================
