--------------------------- MODULE StreamAllocator ---------------------------
(***************************************************************************)
(* What the memory pool promises its callers, without saying how.  An      *)
(* allocation owns physical pages that no other live allocation owns, in a *)
(* fixed order, until it is released; and a stream is given only pages     *)
(* whose pending kernels all precede whatever the stream runs next.  The   *)
(* host never waits: order comes from the streams alone.                   *)
(***************************************************************************)
EXTENDS Integers, Functions

CONSTANTS
  Stream,   \* streams of the callers
  Kernel,   \* identities of launches in flight
  Page,     \* physical pages
  Pointer,  \* what the allocator returns
  Size      \* sizes of allocations, in pages

ASSUME SizeAssumption == Size \subseteq Nat

VARIABLES
  owned,    \* pointer -> [stream, pages], pages a function of the offset
  pending,  \* kernel -> [pages, after]; after is the set it must wait for
  order     \* stream -> pending kernels that precede its next one

vars == <<owned, pending, order>>

Init ==
  /\ owned = [p \in {} |-> p]
  /\ pending = [k \in {} |-> k]
  /\ order = [s \in Stream |-> {}]

PagesOf(p) == Range(owned[p].pages)

(* The pages b are free to be used by the next kernel on stream s.          *)
Available_InUse(s, b) == \A p \in DOMAIN owned : PagesOf(p) \cap b = {}
Available(s, b) ==
  /\ \A p \in DOMAIN owned : PagesOf(p) \cap b = {}
  /\ \A k \in DOMAIN pending : pending[k].pages \cap b # {} => k \in order[s]

Allocate(p, s, b) ==
  /\ p \notin DOMAIN owned
  /\ IsInjective(b)
  /\ Available(s, Range(b))
  /\ owned' = [q \in DOMAIN owned \cup {p} |->
                 IF q = p THEN [stream |-> s, pages |-> b] ELSE owned[q]]
  /\ UNCHANGED <<pending, order>>

Release(p) ==
  /\ p \in DOMAIN owned
  /\ owned' = [q \in DOMAIN owned \ {p} |-> owned[q]]
  /\ UNCHANGED <<pending, order>>

Launch(p, k) ==
  /\ p \in DOMAIN owned
  /\ k \notin DOMAIN pending
  /\ pending' = [j \in DOMAIN pending \cup {k} |->
                   IF j = k THEN [pages |-> PagesOf(p),
                                  after |-> order[owned[p].stream]]
                   ELSE pending[j]]
  /\ order' = [order EXCEPT ![owned[p].stream] = @ \cup {k}]
  /\ UNCHANGED owned

Retire(k) ==
  /\ k \in DOMAIN pending
  /\ pending[k].after = {}
  /\ pending' = [j \in DOMAIN pending \ {k} |->
                   [pending[j] EXCEPT !.after = @ \ {k}]]
  /\ order' = [s \in Stream |-> order[s] \ {k}]
  /\ UNCHANGED owned

(* Stream s is made to wait for pending kernels K.                          *)
Synchronize(s, K) ==
  /\ order' = [order EXCEPT ![s] = @ \cup K]
  /\ UNCHANGED <<owned, pending>>

(* The allocator goes away once the device is idle.                         *)
Close ==
  /\ pending = [k \in {} |-> k]
  /\ owned' = [p \in {} |-> p]
  /\ UNCHANGED <<pending, order>>

Next ==
  \/ \E p \in Pointer, s \in Stream, n \in Size :
       \E b \in [0 .. n - 1 -> Page] : Allocate(p, s, b)
  \/ \E p \in DOMAIN owned : Release(p)
  \/ \E p \in DOMAIN owned, k \in Kernel : Launch(p, k)
  \/ \E k \in DOMAIN pending : Retire(k)
  \/ \E s \in Stream : \E K \in SUBSET DOMAIN pending : Synchronize(s, K)
  \/ Close

Spec == Init /\ [][Next]_vars

-----------------------------------------------------------------------------
(* Every variable keeps its type, and order never names a retired kernel.   *)
TypeOK ==
  /\ DOMAIN owned \subseteq Pointer
  /\ \A p \in DOMAIN owned :
       /\ owned[p] = [stream |-> owned[p].stream, pages |-> owned[p].pages]
       /\ owned[p].stream \in Stream
       /\ PagesOf(p) \subseteq Page
  /\ DOMAIN pending \subseteq Kernel
  /\ \A k \in DOMAIN pending :
       /\ pending[k] = [pages |-> pending[k].pages, after |-> pending[k].after]
       /\ pending[k].pages \subseteq Page
       /\ pending[k].after \subseteq DOMAIN pending
  /\ order \in [Stream -> SUBSET DOMAIN pending]

(* No physical page belongs to two live allocations.                        *)
Exclusive ==
  \A p, q \in DOMAIN owned : p # q => PagesOf(p) \cap PagesOf(q) = {}

(* Two pending kernels that touch one page run one after the other.         *)
Ordered ==
  \A j, k \in DOMAIN pending :
    \/ j = k
    \/ j \in pending[k].after
    \/ k \in pending[j].after
    \/ pending[j].pages \cap pending[k].pages = {}

(* An owner's next kernel comes after all that still use its pages.         *)
OwnerIsLast ==
  \A p \in DOMAIN owned, k \in DOMAIN pending :
    pending[k].pages \cap PagesOf(p) # {} => k \in order[owned[p].stream]
=============================================================================
