----------------------------- MODULE CudaDevice -----------------------------
(***************************************************************************)
(* The CUDA device as the Rust code of openvm-cuda-common sees it: streams *)
(* that run their work in order, events recorded on streams and waited for *)
(* by other streams, and the driver's virtual memory (physical pages, and  *)
(* the page table from virtual to physical pages).                         *)
(*                                                                         *)
(* The order of the work is kept as a happens-before relation.  A pending  *)
(* operation is a kernel launch or an event marker; "after" is the set of  *)
(* pending operations it has to wait for, and before[s] the set of pending *)
(* operations that precede whatever is enqueued on s next.  An operation   *)
(* leaves every such set when it retires, so an event has completed        *)
(* exactly when it is no longer pending.                                   *)
(***************************************************************************)
EXTENDS Integers, FiniteSets, Functions, Maps

CONSTANTS
  Stream,      \* the streams of the callers
  InitStream,  \* the private stream on which a pool preallocates
  Kernel,      \* identities of launches in flight (bounds how many are pending)
  Handle       \* the physical pages of the device

ASSUME DeviceAssumption ==
  /\ InitStream \notin Stream
  /\ Kernel \cap Nat = {}

VARIABLES
  ops,         \* pending operations: Kernel or event number -> [uses, after]
  before,      \* stream -> operations that precede its next one
  page_table,  \* virtual page -> physical page, as mapped by the driver
  physical     \* physical pages created and not released

device_vars == <<ops, before, page_table, physical>>

AllStreams == Stream \cup {InitStream}

-----------------------------------------------------------------------------
(* Streams and events.                                                     *)

(* CudaEvent::completed *)
completed(e) == e \notin DOMAIN ops

(* Work enqueued on stream s: it runs after everything s already waits for. *)
enqueue(id, s, uses) ==
  /\ ops' = With(ops, id, [uses |-> uses, after |-> before[s]])
  /\ before' = [before EXCEPT ![s] = @ \cup {id}]

(* CudaEvent::record_on: a marker behind the work already on s.             *)
record_on(e, s) == enqueue(e, s, EmptyMap)

(* CudaStream::wait: what s runs next also runs after event e.              *)
wait(s, e) == before' = [before EXCEPT ![s] = @ \cup {e} \cup ops[e].after]

(* The device finishes an operation none of whose predecessors is pending.  *)
Retire(id) ==
  /\ id \in DOMAIN ops
  /\ ops[id].after = {}
  /\ ops' = [o \in DOMAIN ops \ {id} |-> [ops[o] EXCEPT !.after = @ \ {id}]]
  /\ before' = [s \in DOMAIN before |-> before[s] \ {id}]
  /\ UNCHANGED <<page_table, physical>>

Drained == DOMAIN ops = {}

(* The physical pages that operation o reads or writes.                     *)
Touches(o) == Range(ops[o].uses)

=============================================================================
