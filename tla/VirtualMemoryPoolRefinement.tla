-------------------- MODULE VirtualMemoryPoolRefinement ---------------------
(***************************************************************************)
(* The virtual memory pool implements the stream-ordered allocator.        *)
(*                                                                         *)
(* Handing a region out is Allocate, free_internal is Release, a wait that *)
(* harvesting queues is Synchronize, and drop is Close; a launch and the   *)
(* retirement of a kernel are themselves; and the rest, in particular      *)
(* every remapping and every failed driver call, is not seen from outside. *)
(* That a hand-out is an Allocate is where the invariants of the pool are  *)
(* needed: its pages are distinct, no other allocation has them, and their *)
(* users precede the caller's next kernel.                                 *)
(***************************************************************************)
EXTENDS VirtualMemoryPoolSafety

(* The operators of StreamAllocator's own copy of Functions.                *)
LEMMA SameOperators ==
  /\ \A f : Allocator!Range(f) = Range(f)
  /\ \A f : Allocator!IsInjective(f) <=> IsInjective(f)
  BY DEF Allocator!Range, Allocator!IsInjective, Range, IsInjective

-----------------------------------------------------------------------------
(* What a step changes of the allocator's state.                           *)

(* A page table that keeps the pages of an allocation keeps its backing.    *)
LEMMA PagesKept ==
  ASSUME TypeInv, NEW p \in DOMAIN malloc_regions,
         \A a \in MallocPages : page_table'[a] = page_table[a]
  PROVE  /\ PagesAt(p, malloc_regions[p].size)
              = [i \in 0 .. malloc_regions[p].size - 1 |-> page_table'[p + i]]
         /\ \A i \in 0 .. malloc_regions[p].size - 1 : p + i \in Span(p, malloc_regions[p].size)
<1> DEFINE n == malloc_regions[p].size
<1>1. p \in Int /\ n \in Nat
  BY MallocTyped
<1> HIDE DEF n
<1>2. \A i \in 0 .. n - 1 : p + i \in Span(p, n)
  BY <1>1 DEF Span
<1>3. Span(p, n) \subseteq MallocPages
  BY DEF MallocPages, n
<1>4. PagesAt(p, n) = [i \in 0 .. n - 1 |-> page_table'[p + i]]
  BY <1>2, <1>3 DEF PagesAt
<1> QED
  BY <1>2, <1>4 DEF n

LEMMA OwnedKept ==
  ASSUME TypeInv, UNCHANGED malloc_regions,
         \A a \in MallocPages : page_table'[a] = page_table[a]
  PROVE  Owned' = Owned
<1>1. \A p \in DOMAIN malloc_regions :
        PagesAt(p, malloc_regions[p].size)' = PagesAt(p, malloc_regions[p].size)
  BY PagesKept DEF PagesAt
<1> QED
  BY <1>1 DEF Owned

(* Markers and their order are not seen.                                    *)
LEMMA PendingKept ==
  ASSUME OpsGrow
  PROVE  Pending' = Pending
<1>1. DOMAIN ops' \cap Kernel = DOMAIN ops \cap Kernel
  BY DeviceAssumption DEF OpsGrow
<1>2. \A k \in DOMAIN ops \cap Kernel : ops'[k] = ops[k]
  BY DEF OpsGrow
<1> QED
  BY <1>1, <1>2 DEF Pending, Touches

LEMMA OrderKept ==
  ASSUME OpsTyped, NEW s \in AllStreams, NEW A, A \cap Kernel = {},
         before' = [before EXCEPT ![s] = @ \cup A]
  PROVE  Order' = Order
<1>1. \A t \in Stream : before'[t] \cap Kernel = before[t] \cap Kernel
  BY DEF OpsTyped, AllStreams
<1> QED
  BY <1>1 DEF Order

LEMMA RecordKept ==
  ASSUME TypeInv, OpsTyped, NEW s \in AllStreams, RecordFree(s), UNCHANGED physical
  PROVE  Pending' = Pending /\ Order' = Order
<1>1. before' = [before EXCEPT ![s] = @ \cup {free_num}]
  BY DEF RecordFree, record_on, enqueue
<1>2. {free_num} \cap Kernel = {}
  BY DeviceAssumption DEF TypeInv
<1>3. Order' = Order
  BY <1>1, <1>2, OrderKept
<1> QED
  BY <1>3, RecordGrows, PendingKept

Hidden == UNCHANGED <<Owned, Pending, Order>>

-----------------------------------------------------------------------------
(* malloc_internal.                                                        *)

(* A region handed out to the stream its users precede is an allocation.    *)
LEMMA HandOutAllocates ==
  ASSUME IInv, BackInv, OrderInv, InCall, UNCHANGED device_vars,
         NEW p \in DOMAIN free_regions, free_regions[p].size >= call.size,
         malloc_regions' =
           With(malloc_regions, p, [size |-> call.size, stream |-> call.stream]),
         free_regions[p].stream = call.stream \/ completed(free_regions[p].id)
  PROVE  Allocator!Next
<1> DEFINE n == call.size
           s == call.stream
           b == PagesAt(p, n)
<1>1. /\ TypeInv /\ s \in Stream /\ n \in Request /\ n \in Nat \ {0}
      /\ p \in Int /\ free_regions[p].size \in Nat
  BY Sizes, FreeTyped DEF IInv, CallInv
<1>2. /\ \A i \in 0 .. n - 1 : p + i \in Span(p, free_regions[p].size) /\ p + i \in Int
      /\ p \in Span(p, free_regions[p].size)
  <2> HIDE DEF n
  <2>1. free_regions[p].size >= n
    BY DEF n
  <2> QED
    BY <1>1, <2>1 DEF Span
<1>3. Span(p, free_regions[p].size) \subseteq FreePages
  BY DEF FreePages
<1>4. \A i \in 0 .. n - 1 : b[i] = page_table[p + i]
  BY DEF PagesAt
<1>5. DOMAIN b = 0 .. n - 1
  BY DEF PagesAt
<1>6. \A a \in FreePages \cup MallocPages :
        /\ a \in DOMAIN active_pages /\ page_table[a] = active_pages[a]
        /\ page_table[a] \in Handle
  BY DEF BackInv, Backed, Held, Range
<1> HIDE DEF b, n, s
<1>7. b \in [0 .. n - 1 -> Handle]
  <2>1. \A i \in 0 .. n - 1 : b[i] \in Handle
    BY <1>2, <1>3, <1>4, <1>6
  <2>2. b = [i \in 0 .. n - 1 |-> b[i]]
    BY DEF b, PagesAt
  <2> QED
    BY <2>1, <2>2
<1>8. IsInjective(b)
  <2> SUFFICES ASSUME NEW i \in 0 .. n - 1, NEW j \in 0 .. n - 1, b[i] = b[j]
               PROVE  i = j
    BY <1>5 DEF IsInjective
  <2>1. active_pages[p + i] = active_pages[p + j]
        /\ p + i \in DOMAIN active_pages /\ p + j \in DOMAIN active_pages
    BY <1>2, <1>3, <1>4, <1>6
  <2>2. p + i = p + j
    BY <2>1 DEF BackInv, IsInjective
  <2> QED
    BY <1>1, <2>2
<1>9. \A h \in Range(b) : \E a \in Span(p, free_regions[p].size) : h = page_table[a]
  BY <1>2, <1>4, <1>5 DEF Range
<1>10. p \notin DOMAIN malloc_regions
  <2> SUFFICES ASSUME p \in DOMAIN malloc_regions
               PROVE  FALSE
    OBVIOUS
  <2>1. p \in Span(p, malloc_regions[p].size)
    BY <1>1, MallocTyped DEF Span
  <2>2. p \in MallocPages /\ p \in FreePages
    BY <1>2, <1>3, <2>1 DEF MallocPages
  <2> QED
    BY <2>2, PageLayout
<1>11. ASSUME NEW q \in DOMAIN malloc_regions
       PROVE  Range(PagesAt(q, malloc_regions[q].size)) \cap Range(b) = {}
  <2>1. q \in Int /\ malloc_regions[q].size \in Nat
    BY <1>1, MallocTyped
  <2>2. \A h \in Range(PagesAt(q, malloc_regions[q].size)) :
          \E a \in MallocPages : h = page_table[a]
    <3> DEFINE m == malloc_regions[q].size
    <3>1. Span(q, m) \subseteq MallocPages
      BY DEF MallocPages
    <3> HIDE DEF m
    <3>2. \A i \in 0 .. m - 1 : q + i \in Span(q, m)
      BY <2>1 DEF Span, m
    <3>3. \A h \in Range(PagesAt(q, m)) : \E i \in 0 .. m - 1 : h = page_table[q + i]
      BY DEF PagesAt, Range
    <3> QED
      BY <3>1, <3>2, <3>3 DEF m
  <2>3. \A a \in MallocPages, c \in FreePages : page_table[a] # page_table[c]
    BY <1>6, PageLayout DEF BackInv, IsInjective
  <2> QED
    BY <1>3, <1>9, <2>2, <2>3
<1>12. ASSUME NEW k \in DOMAIN ops, NEW h \in Range(b), h \in Touches(k)
       PROVE  k \in before[s]
  <2>1. PICK a \in Span(p, free_regions[p].size) : h = page_table[a]
    BY <1>9
  <2>2. Precede(h, free_regions[p].stream) /\ Behind(h, free_regions[p].id)
    BY <2>1 DEF OrderInv, UsersOrdered, FreeOrdered
  <2>3. ~completed(free_regions[p].id)
    BY <1>12, <2>2 DEF Behind, completed
  <2> QED
    BY <1>12, <2>2, <2>3 DEF Precede, s
<1>13. /\ DOMAIN Owned = DOMAIN malloc_regions
       /\ \A q \in DOMAIN malloc_regions : Owned[q].pages = PagesAt(q, malloc_regions[q].size)
       /\ DOMAIN Pending = DOMAIN ops \cap Kernel
       /\ \A k \in DOMAIN Pending : Pending[k].pages = Touches(k)
       /\ \A t \in Stream : Order[t] = before[t] \cap Kernel
  BY DEF Owned, Pending, Order
<1>14. UNCHANGED <<Pending, Order>>
  BY DEF device_vars, Pending, Order, Touches
<1>15. Owned' = [q \in DOMAIN Owned \cup {p} |->
                   IF q = p THEN [stream |-> s, pages |-> b] ELSE Owned[q]]
  <2>1. /\ DOMAIN malloc_regions' = DOMAIN malloc_regions \cup {p}
        /\ malloc_regions'[p] = [size |-> n, stream |-> s]
        /\ \A q \in DOMAIN malloc_regions : malloc_regions'[q] = malloc_regions[q]
    BY <1>10 DEF With, n, s
  <2>2. UNCHANGED page_table
    BY DEF device_vars
  <2>3. Owned' = [q \in DOMAIN malloc_regions' |->
                    [stream |-> malloc_regions'[q].stream,
                     pages |-> PagesAt(q, malloc_regions'[q].size)]]
    BY <2>2 DEF Owned, PagesAt
  <2>4. \A q \in DOMAIN malloc_regions :
          Owned[q] = [stream |-> malloc_regions[q].stream,
                      pages |-> PagesAt(q, malloc_regions[q].size)]
    BY DEF Owned
  <2>5. malloc_regions'[p].stream = s /\ malloc_regions'[p].size = n
    BY <2>1
  <2> QED
    BY <1>10, <1>13, <2>1, <2>3, <2>4, <2>5 DEF b
<1>16. Allocator!Available(s, Range(b))
  BY <1>1, <1>11, <1>12, <1>13, SameOperators DEF Allocator!Available, Allocator!PagesOf
<1>17. Allocator!Allocate(p, s, b)
  BY <1>8, <1>10, <1>13, <1>14, <1>15, <1>16, SameOperators DEF Allocator!Allocate
<1>18. p \in Address
  BY <1>2, <1>3, PageLayout DEF TypeInv, IInv, Address, RootPages
<1> QED
  BY <1>1, <1>7, <1>17, <1>18 DEF Allocator!Next

(* The steps of a call that change no allocation.                           *)
LEMMA CallStepHidden ==
  ASSUME IInv, BackInv, OrderInv, CallStep, UNCHANGED malloc_regions, Order' = Order
  PROVE  Hidden
<1>1. Owned' = Owned
  BY PagesStay, OwnedKept DEF IInv, BackInv
<1>2. Pending' = Pending
  BY CallStepGrows, PendingKept
<1> QED
  BY <1>1, <1>2 DEF Hidden

LEMMA FindBestFitRefines ==
  ASSUME IInv, BackInv, OrderInv, find_best_fit
  PROVE  Allocator!Next \/ Hidden
<1>1. InCall /\ UNCHANGED device_vars /\ CallStep
  BY DEF find_best_fit, InCall, CallStep
<1>2. CASE UNCHANGED malloc_regions
  <2>1. Order' = Order
    BY <1>1 DEF device_vars, Order
  <2> QED
    BY <1>1, <1>2, <2>1, CallStepHidden
<1>3. CASE \E p \in DOMAIN free_regions :
             /\ free_regions[p].size >= call.size
             /\ malloc_regions' =
                  With(malloc_regions, p, [size |-> call.size, stream |-> call.stream])
             /\ free_regions[p].stream = call.stream \/ completed(free_regions[p].id)
  BY <1>1, <1>3, HandOutAllocates
<1> QED
  BY <1>2, <1>3, BestFitChoice DEF HandOut

LEMMA TakeRefines ==
  ASSUME IInv, BackInv, OrderInv, hand_out_defragmented
  PROVE  Allocator!Next
<1>1. /\ call.pc = "take" /\ InCall /\ UNCHANGED device_vars
      /\ HandOut(free_regions, call.ptr)
  BY DEF hand_out_defragmented, InCall
<1>2. /\ call.ptr \in DOMAIN free_regions /\ free_regions[call.ptr].size >= call.size
      /\ free_regions[call.ptr].stream = call.stream
  BY <1>1 DEF IInv, CallInv, RegionFound, OrderInv, OwnRegion
<1> QED
  BY <1>1, <1>2, HandOutAllocates DEF HandOut

(* Where harvesting makes the caller's stream wait for an event, the        *)
(* allocator synchronizes it with the kernels in front of that event.       *)
LEMMA HarvestRefines ==
  ASSUME IInv, BackInv, OrderInv, harvest_free_region
  PROVE  Allocator!Next \/ Hidden
<1>1. /\ call.pc = "harvest" /\ CallStep
      /\ UNCHANGED <<ops, physical, page_table, malloc_regions>>
  BY DEF harvest_free_region, CallStep
<1>2. call.stream \in Stream /\ TypeInv /\ OpsTyped
  BY <1>1, GrowingTypes DEF Growing, IInv, OrderInv
<1>3. CASE UNCHANGED before
  <2>1. Order' = Order
    BY <1>3 DEF Order
  <2> QED
    BY <1>1, <2>1, CallStepHidden
<1>4. ASSUME NEW e \in Nat, e \in DOMAIN ops, wait(call.stream, e)
      PROVE  Allocator!Next
  <2> DEFINE s == call.stream
             K == ops[e].after \cap Kernel
  <2>1. \A t \in Stream : before'[t] \cap Kernel =
                            IF t = s THEN (before[t] \cap Kernel) \cup K ELSE before[t] \cap Kernel
    BY <1>2, <1>4, DeviceAssumption DEF wait, OpsTyped, AllStreams
  <2> HIDE DEF K
  <2>2. Order' = [Order EXCEPT ![s] = @ \cup K]
    BY <1>2, <2>1 DEF Order
  <2>3. Owned' = Owned /\ Pending' = Pending
    <3>1. Owned' = Owned
      BY <1>1, <1>2, OwnedKept
    <3> QED
      BY <1>1, <3>1 DEF Pending, Touches
  <2>4. K \in SUBSET DOMAIN Pending
    BY <1>2, <1>4 DEF K, OpsTyped, Pending
  <2>5. Allocator!Synchronize(s, K)
    BY <2>2, <2>3 DEF Allocator!Synchronize
  <2> QED
    BY <1>2, <2>4, <2>5 DEF Allocator!Next
<1>5. \/ UNCHANGED before
      \/ \E p \in DOMAIN free_regions :
           free_regions[p].id \in DOMAIN ops /\ wait(call.stream, free_regions[p].id)
  BY HarvestStep DEF NeedsWait, completed
<1>6. \A p \in DOMAIN free_regions : free_regions[p].id \in Nat
  BY <1>2, FreeTyped DEF FreeRegion, TypeInv
<1> QED
  BY <1>3, <1>4, <1>5, <1>6

LEMMA CallStepRefines ==
  ASSUME IInv, BackInv, OrderInv, CallStep
  PROVE  Allocator!Next \/ Hidden
<1>1. CASE insert_new_pages \/ remap_regions
  <2>1. /\ RecordFree(call.stream) /\ UNCHANGED <<physical, malloc_regions>>
        /\ call.stream \in AllStreams
    BY <1>1, InsertTyped, RemapTyped DEF insert_new_pages, remap_regions, free_region_insert
  <2>2. Order' = Order
    BY <2>1, RecordKept DEF IInv, OrderInv
  <2> QED
    BY <2>1, <2>2, CallStepHidden
<1>2. CASE \/ \E z \in call.scan : cleanup_zombie_regions(z)
           \/ take_unmapped_region \/ create_new_page \/ rollback_new_pages
           \/ creation_fails \/ no_new_pages
           \/ \E k \in DOMAIN call.moves \cup {call.next} : remap_fails(k)
  <2>1. UNCHANGED <<before, malloc_regions>>
    BY <1>2 DEF cleanup_zombie_regions, take_unmapped_region, create_new_page,
       rollback_new_pages, creation_fails, no_new_pages, remap_fails, device_vars
  <2>2. Order' = Order
    BY <2>1 DEF Order
  <2> QED
    BY <2>1, <2>2, CallStepHidden
<1> QED
  BY <1>1, <1>2, FindBestFitRefines, TakeRefines, HarvestRefines DEF CallStep

-----------------------------------------------------------------------------
(* Callers and the device.                                                 *)

LEMMA FreeRefines ==
  ASSUME IInv, BackInv, OrderInv, NEW p \in DOMAIN malloc_regions, free_internal(p)
  PROVE  Allocator!Next
<1>1. /\ RecordFree(malloc_regions[p].stream)
      /\ malloc_regions' = Without(malloc_regions, {p})
      /\ UNCHANGED <<page_table, physical>>
  BY DEF free_internal, free_region_insert
<1>2. Pending' = Pending /\ Order' = Order
  BY <1>1, MallocTyped, RecordKept DEF IInv, OrderInv, AllStreams
<1>3. Owned' = [q \in DOMAIN Owned \ {p} |-> Owned[q]]
  BY <1>1 DEF Owned, Without, PagesAt
<1>4. p \in DOMAIN Owned
  BY DEF Owned
<1>5. Allocator!Release(p)
  BY <1>2, <1>3, <1>4 DEF Allocator!Release
<1> QED
  BY <1>4, <1>5 DEF Allocator!Next

(* A kernel touches the pages of the allocation it is launched over.        *)
LEMMA LaunchRefines ==
  ASSUME IInv, BackInv, OrderInv, NEW p \in DOMAIN malloc_regions, NEW k \in Kernel,
         Launch(p, k)
  PROVE  Allocator!Next
<1> DEFINE n == malloc_regions[p].size
           s == malloc_regions[p].stream
           uses == [a \in Span(p, n) |-> page_table[a]]
           new == [uses |-> uses, after |-> before[s]]
<1>1. /\ k \notin DOMAIN ops
      /\ ops' = With(ops, k, new)
      /\ before' = [before EXCEPT ![s] = @ \cup {k}]
      /\ UNCHANGED <<page_table, malloc_regions>>
  BY DEF Launch, enqueue, pool_vars
<1>2. s \in Stream /\ p \in Int /\ n \in Nat /\ TypeInv /\ OpsTyped
  BY MallocTyped DEF IInv, OrderInv
<1>3. Range(uses) = Range(PagesAt(p, n))
  <2> HIDE DEF n
  <2>1. \A a \in Span(p, n) : a - p \in 0 .. n - 1 /\ a = p + (a - p)
    BY <1>2 DEF Span
  <2>2. \A i \in 0 .. n - 1 : p + i \in Span(p, n)
    BY <1>2 DEF Span
  <2>3. /\ DOMAIN PagesAt(p, n) = 0 .. n - 1
        /\ \A i \in 0 .. n - 1 : PagesAt(p, n)[i] = page_table[p + i]
    BY DEF PagesAt
  <2> QED
    BY <2>1, <2>2, <2>3 DEF Range
<1>4. /\ DOMAIN ops' = DOMAIN ops \cup {k} /\ ops'[k] = new
      /\ \A o \in DOMAIN ops : ops'[o] = ops[o]
  BY <1>1 DEF With
<1>5. new.uses = uses /\ new.after = before[s]
  OBVIOUS
<1> HIDE DEF uses, new
<1>6. Owned' = Owned
  BY <1>1, <1>2, OwnedKept
<1>7. p \in DOMAIN Owned /\ Owned[p].pages = PagesAt(p, n) /\ Owned[p].stream = s
  BY DEF Owned
<1>8. k \notin DOMAIN Pending
  BY <1>1 DEF Pending
<1>9. Pending' = [j \in DOMAIN Pending \cup {k} |->
                    IF j = k THEN [pages |-> Range(Owned[p].pages), after |-> Order[s]]
                    ELSE Pending[j]]
  <2>1. Pending' = [j \in DOMAIN ops' \cap Kernel |->
                      [pages |-> Range(ops'[j].uses), after |-> ops'[j].after \cap Kernel]]
    BY DEF Pending, Touches
  <2>2. /\ DOMAIN Pending = DOMAIN ops \cap Kernel
        /\ \A j \in DOMAIN Pending :
             Pending[j] = [pages |-> Range(ops[j].uses), after |-> ops[j].after \cap Kernel]
    BY DEF Pending, Touches
  <2>3. Order[s] = before[s] \cap Kernel
    BY <1>2 DEF Order
  <2>4. DOMAIN ops' \cap Kernel = DOMAIN Pending \cup {k}
    BY <1>4, <2>2
  <2>5. \A j \in DOMAIN Pending : j # k /\ ops'[j] = ops[j]
    BY <1>1, <1>4, <2>2
  <2> QED
    BY <1>3, <1>4, <1>5, <1>7, <2>1, <2>2, <2>3, <2>4, <2>5
<1>10. Order' = [Order EXCEPT ![s] = @ \cup {k}]
  <2>1. \A t \in Stream : before'[t] \cap Kernel =
          IF t = s THEN (before[t] \cap Kernel) \cup {k} ELSE before[t] \cap Kernel
    BY <1>1, <1>2 DEF OpsTyped, AllStreams
  <2> QED
    BY <1>2, <2>1 DEF Order
<1>11. Allocator!Launch(p, k)
  BY <1>6, <1>7, <1>8, <1>9, <1>10, SameOperators DEF Allocator!Launch, Allocator!PagesOf
<1> QED
  BY <1>7, <1>11 DEF Allocator!Next

(* A kernel that retires leaves the order; an event marker that does was    *)
(* not in it.                                                               *)
LEMMA RetireRefines ==
  ASSUME IInv, OrderInv, NEW id \in DOMAIN ops, Device(id)
  PROVE  Allocator!Next \/ Hidden
<1>1. /\ ops[id].after = {}
      /\ ops' = [o \in DOMAIN ops \ {id} |-> [ops[o] EXCEPT !.after = @ \ {id}]]
      /\ before' = [t \in DOMAIN before |-> before[t] \ {id}]
      /\ UNCHANGED <<page_table, malloc_regions>>
  BY DEF Device, Retire, pool_vars
<1>2. OpsTyped /\ TypeInv
  BY DEF OrderInv, IInv
<1>3. Owned' = Owned
  BY <1>1, <1>2, OwnedKept
<1>4. ASSUME NEW o \in DOMAIN ops'
      PROVE  /\ o \in DOMAIN ops /\ o # id
             /\ ops'[o].uses = ops[o].uses /\ ops'[o].after = ops[o].after \ {id}
  <2>1. o \in DOMAIN ops /\ o # id
    BY <1>1
  <2>2. ops[o] = [uses |-> ops[o].uses, after |-> ops[o].after]
    BY <1>2, <2>1 DEF OpsTyped
  <2>3. ops'[o] = [ops[o] EXCEPT !.after = @ \ {id}]
    BY <1>1, <2>1
  <2> QED
    BY <2>1, <2>2, <2>3
<1>5. /\ DOMAIN ops' = DOMAIN ops \ {id}
      /\ \A t \in Stream : before'[t] = before[t] \ {id}
  BY <1>1, <1>2 DEF OpsTyped, AllStreams
<1>6. Pending' = [k \in DOMAIN ops' \cap Kernel |->
                    [pages |-> Range(ops'[k].uses), after |-> ops'[k].after \cap Kernel]]
  BY DEF Pending, Touches
<1>7. /\ DOMAIN Pending = DOMAIN ops \cap Kernel
      /\ \A k \in DOMAIN Pending :
           Pending[k] = [pages |-> Range(ops[k].uses), after |-> ops[k].after \cap Kernel]
  BY DEF Pending, Touches
<1>8. CASE id \in Kernel
  <2>1. id \in DOMAIN Pending /\ Pending[id].after = {}
    BY <1>1, <1>7, <1>8
  <2>2. \A k \in DOMAIN Pending \ {id} :
          [Pending[k] EXCEPT !.after = @ \ {id}] =
            [pages |-> Range(ops'[k].uses), after |-> ops'[k].after \cap Kernel]
    <3> SUFFICES ASSUME NEW k \in DOMAIN Pending \ {id}
                 PROVE  [Pending[k] EXCEPT !.after = @ \ {id}] =
                          [pages |-> Range(ops'[k].uses), after |-> ops'[k].after \cap Kernel]
      OBVIOUS
    <3>1. k \in DOMAIN ops'
      BY <1>5, <1>7
    <3>2. Pending[k] = [pages |-> Range(ops[k].uses), after |-> ops[k].after \cap Kernel]
      BY <1>7
    <3>3. ops'[k].uses = ops[k].uses /\ ops'[k].after = ops[k].after \ {id}
      BY <1>4, <3>1
    <3>4. (ops[k].after \cap Kernel) \ {id} = ops'[k].after \cap Kernel
      BY <3>3
    <3> QED
      BY <3>2, <3>3, <3>4
  <2>3. Pending' = [k \in DOMAIN Pending \ {id} |-> [Pending[k] EXCEPT !.after = @ \ {id}]]
    <3>1. DOMAIN ops' \cap Kernel = DOMAIN Pending \ {id}
      BY <1>5, <1>7
    <3> QED
      BY <1>6, <2>2, <3>1
  <2>4. Order' = [t \in Stream |-> Order[t] \ {id}]
    <3>1. \A t \in Stream : before'[t] \cap Kernel = Order[t] \ {id}
      BY <1>5 DEF Order
    <3> QED
      BY <3>1 DEF Order
  <2>5. Allocator!Retire(id)
    BY <1>3, <2>1, <2>3, <2>4 DEF Allocator!Retire
  <2> QED
    BY <2>1, <2>5 DEF Allocator!Next
<1>9. CASE id \notin Kernel
  <2>1. Pending' = Pending
    <3>1. DOMAIN ops' \cap Kernel = DOMAIN ops \cap Kernel
      BY <1>5, <1>9
    <3>2. \A k \in DOMAIN ops \cap Kernel :
            /\ ops'[k].uses = ops[k].uses
            /\ ops'[k].after \cap Kernel = ops[k].after \cap Kernel
      BY <1>4, <1>9, <3>1
    <3> QED
      BY <3>1, <3>2 DEF Pending, Touches
  <2>2. Order' = Order
    <3>1. \A t \in Stream : before'[t] \cap Kernel = before[t] \cap Kernel
      BY <1>5, <1>9
    <3> QED
      BY <3>1 DEF Order
  <2> QED
    BY <1>3, <2>1, <2>2 DEF Hidden
<1> QED
  BY <1>8, <1>9

LEMMA DropRefines ==
  ASSUME drop
  PROVE  Allocator!Next
<1>1. DOMAIN ops = {} /\ UNCHANGED <<ops, before>> /\ malloc_regions' = EmptyMap
  BY DEF drop, Drained
<1>2. DOMAIN malloc_regions' = {}
  BY <1>1 DEF EmptyMap
<1>3. Pending = [k \in {} |-> k] /\ Pending' = Pending /\ Order' = Order
  BY <1>1 DEF Pending, Order, Touches
<1>4. Owned' = [p \in {} |-> p]
  BY <1>2 DEF Owned
<1>5. Allocator!Close
  BY <1>3, <1>4 DEF Allocator!Close
<1> QED
  BY <1>5 DEF Allocator!Next

LEMMA NextRefines ==
  ASSUME IInv, BackInv, OrderInv, [Next]_vars
  PROVE  [Allocator!Next]_(Allocator!vars)
<1>1. ASSUME Hidden
      PROVE  Allocator!vars' = Allocator!vars
  BY <1>1 DEF Hidden, Allocator!vars
<1>2. CASE \E s \in Stream, n \in Request : malloc_internal(s, n)
  <2>1. UNCHANGED <<ops, before, page_table, malloc_regions>>
    BY <1>2 DEF malloc_internal, device_vars
  <2>2. Hidden
    BY <2>1 DEF Hidden, Owned, Pending, Order, PagesAt, Touches
  <2> QED
    BY <1>1, <2>2
<1>3. CASE CallStep
  BY <1>1, <1>3, CallStepRefines
<1>4. CASE \E p \in DOMAIN malloc_regions : free_internal(p)
  BY <1>4, FreeRefines
<1>5. CASE \E p \in DOMAIN malloc_regions, k \in Kernel : Launch(p, k)
  BY <1>5, LaunchRefines
<1>6. CASE \E id \in DOMAIN ops : Device(id)
  BY <1>1, <1>6, RetireRefines
<1>7. CASE drop
  BY <1>7, DropRefines
<1>8. CASE Dropped \/ UNCHANGED vars
  <2>1. UNCHANGED <<ops, before, page_table, malloc_regions>>
    BY <1>8 DEF Dropped, vars, device_vars, pool_vars
  <2>2. Hidden
    BY <2>1 DEF Hidden, Owned, Pending, Order, PagesAt, Touches
  <2> QED
    BY <1>1, <2>2
<1> QED
  BY <1>2, <1>3, <1>4, <1>5, <1>6, <1>7, <1>8 DEF Next

LEMMA InitRefines == Init => Allocator!Init
<1> SUFFICES ASSUME Init
             PROVE  Allocator!Init
  OBVIOUS
<1>1. DOMAIN malloc_regions = {} /\ DOMAIN ops = {} /\ before = [s \in AllStreams |-> {}]
  BY DEF Init, EmptyMap
<1>2. Owned = [p \in {} |-> p] /\ Pending = [k \in {} |-> k]
  BY <1>1 DEF Owned, Pending
<1>3. Order = [s \in Stream |-> {}]
  BY <1>1 DEF Order, AllStreams
<1> QED
  BY <1>2, <1>3 DEF Allocator!Init

-----------------------------------------------------------------------------
(* Theorems.                                                               *)

(* The pool implements the allocator that StreamAllocator specifies, for    *)
(* any streams, kernels, physical memory, requests and failing driver       *)
(* calls: whatever it reuses, harvests, remaps or loses, its callers see    *)
(* allocations with a backing of their own that never changes, and kernels  *)
(* ordered by the streams alone.                                            *)
THEOREM PoolImplementsAllocator == Spec => ImplementsAllocator
<1>1. Init => Allocator!Init
  BY InitRefines
<1>2. PoolInv /\ [Next]_vars => [Allocator!Next]_(Allocator!vars)
  BY NextRefines DEF PoolInv
<1> QED
  BY <1>1, <1>2, OrderInvariant, PTL DEF Spec, ImplementsAllocator, Allocator!Spec

=============================================================================
