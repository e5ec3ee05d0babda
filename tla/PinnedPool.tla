----------------------------- MODULE PinnedPool ------------------------------
(***************************************************************************)
(* The pool of page-locked host buffers (pinned.rs).  take hands out a     *)
(* zeroed buffer, pinned if it comes from the pool; copies out of a pinned *)
(* buffer are still in flight when its owner drops it.  A cleaner thread   *)
(* receives dropped buffers in batches, waits for their copies, zeroes     *)
(* them and pools them under a cap, while other threads take buffers,      *)
(* lower the cap, clear the pool, or shut the cleaner down.                *)
(*                                                                         *)
(* A step is what a thread does under one lock, or between two waits.      *)
(***************************************************************************)
EXTENDS Naturals, Sequences, SequencesExt, Maps, FiniteSets

-----------------------------------------------------------------------------
(***************************************************************************)
(* Streams of several CUDA devices as FIFO queues of copies and markers.   *)
(* A stream retires its oldest item at any time; an event has completed    *)
(* once its marker has left the queue.  Streams do not wait for each       *)
(* other here: the host code that uses this module never asks them to.     *)
(***************************************************************************)

CONSTANTS
  Stream,    \* streams of all devices
  DeviceOf   \* stream -> the device it belongs to

VARIABLE queue  \* stream -> items not yet retired, oldest first

Device == {DeviceOf[s] : s \in Stream}

NoWork == [s \in Stream |-> <<>>]

Pending(item) == \E s \in Stream : Contains(queue[s], item)

(* The item goes behind the work on each of the streams S.                  *)
Enqueue(S, item) ==
  queue' = [s \in Stream |-> IF s \in S THEN Append(queue[s], item) ELSE queue[s]]

Retire(s) ==
  /\ queue[s] # <<>>
  /\ queue' = [queue EXCEPT ![s] = Tail(@)]

-----------------------------------------------------------------------------

CONSTANTS
  Buffer,     \* identities of allocations, each used again once nothing refers to it
  Cleaner,    \* identities of cleaner threads
  Closer,     \* threads that call shutdown
  MinSize,    \* sizes that callers ask for
  Cap,        \* values of set_max_pooled_bytes, the default among them
  DefaultCap,
  BatchSize,  \* most buffers in one batch (64)
  MaxQueue,   \* bound: items on a stream when its owner adds one
  Faults      \* driver calls that may fail, by name

None == "none"

ASSUME PinnedAssumption ==
  /\ DeviceOf \in [Stream -> Device]
  /\ None \notin Cleaner
  /\ MinSize \subseteq Nat
  /\ Cap \subseteq Nat /\ DefaultCap \in Cap
  /\ BatchSize \in Nat \ {0} /\ MaxQueue \in Nat
  /\ Faults \subseteq {"register", "synchronize"}

VARIABLES
  buf,          \* live buffer -> its data and the fields of its guard or Returned
  pooled,       \* the buffers in by_size
  total_bytes,
  max_bytes,
  slot,         \* the cleaner of cleaner_slot, or None
  cleaners,     \* running cleaner -> its channel and its local variables
  closers,      \* closer -> where it is in shutdown
  ahead,        \* cleaner -> stream -> items its device_synchronize waits for
  quiet         \* history: closers since whose call nothing was held or taken

pool_vars == <<pooled, total_bytes, max_bytes>>
thread_vars == <<slot, cleaners, closers, quiet>>
work == <<queue, ahead>>
vars == <<work, buf, pool_vars, thread_vars>>

NoWait == [s \in Stream |-> 0]

Init ==
  /\ queue = NoWork
  /\ ahead = [c \in Cleaner |-> NoWait]
  /\ buf = EmptyMap
  /\ pooled = {}
  /\ total_bytes = 0
  /\ max_bytes = DefaultCap
  /\ slot = None
  /\ cleaners = EmptyMap
  /\ closers = [t \in Closer |-> [pc |-> "idle", joins |-> None]]
  /\ quiet = {}

Queued == UNION {ToSet(cleaners[c].channel) \cup ToSet(cleaners[c].batch)
                   : c \in DOMAIN cleaners}
Held == DOMAIN buf \ (pooled \cup Queued)

(* The copies out of a buffer, and the events recorded behind them.         *)
Copy(b) == <<"copy", b>>
Event(b) == <<"event", b>>

(* A buffer whose copies are over.                                          *)
Quiescent(b) == ~Pending(Copy(b))

(* The bytes of buffers B, and how many they are.                           *)
Bytes(B) == UNION {{b} \X (1 .. buf[b].size) : b \in B}
SizeOf(B) == Cardinality(Bytes(B))

-----------------------------------------------------------------------------
(* The owner of a buffer.                                                  *)

(* next_power_of_two.  A power of two has no odd divisor but one.           *)
IsPowerOfTwo(p) == \A d \in 2 .. p : p % d = 0 => d % 2 = 0
PowerOfTwo(n) ==
  CHOOSE p \in 1 .. 2 * n + 1 : IsPowerOfTwo(p) /\ p >= n /\ (p = 1 \/ p < 2 * n)

(* A guard fresh from take, or a pooled buffer, which is its data only.     *)
Guard(size, pinned, written) ==
  [size |-> size, registered |-> pinned, written |-> written, dirty_len |-> size,
   recorded |-> FALSE, unrecorded |-> {}, device |-> None]

(* A pooled buffer of the size asked for, else a new one, not page-locked.  *)
take(n) ==
  LET size == PowerOfTwo(n)
      fit  == {b \in pooled : buf[b].size = size}
  IN /\ \/ \E b \in fit :
             /\ pooled' = pooled \ {b}
             /\ total_bytes' = total_bytes - size
             /\ buf' = With(buf, b, Guard(size, TRUE, buf[b].written))
        \/ /\ fit = {}
           /\ \E b \in Buffer \ DOMAIN buf :
                /\ ~Pending(Copy(b)) /\ ~Pending(Event(b))
                /\ buf' = With(buf, b, Guard(size, FALSE, 0))
           /\ UNCHANGED <<pooled, total_bytes>>
     /\ quiet' = {}
     /\ UNCHANGED <<work, max_bytes, slot, cleaners, closers>>

(* Before its copies, the owner writes the first w bytes, and may narrow    *)
(* what must be zeroed.                                                     *)
Copied(b) == buf[b].recorded \/ buf[b].unrecorded # {}

Write(b, w) ==
  /\ b \in Held
  /\ ~Copied(b)
  /\ buf[b].written = 0
  /\ w \in 1 .. buf[b].size
  /\ buf' = [buf EXCEPT ![b].written = w]
  /\ UNCHANGED <<work, pool_vars, thread_vars>>

set_dirty_len(b, n) ==
  /\ b \in Held
  /\ ~Copied(b)
  /\ buf[b].written \in 1 .. n
  /\ buf' = [buf EXCEPT ![b].dirty_len = n]
  /\ UNCHANGED <<work, pool_vars, thread_vars>>

(* A copy from a pinned buffer is in flight when the call returns, and one  *)
(* stands for those that follow it on the stream before the next event.  A  *)
(* copy from a pageable buffer is staged within the call and leaves no      *)
(* trace, but its owner may record an event all the same.                   *)
CopyToDevice(b, s) ==
  /\ b \in Held
  /\ buf[b].registered /\ buf[b].written > 0
  /\ s \notin buf[b].unrecorded
  /\ Len(queue[s]) < MaxQueue
  /\ Enqueue({s}, Copy(b))
  /\ buf' = [buf EXCEPT ![b].unrecorded = @ \cup {s}]
  /\ UNCHANGED <<ahead, pool_vars, thread_vars>>

record_last_use(b, s) ==
  /\ b \in Held
  /\ s \in buf[b].unrecorded \/ ~(Copied(b) \/ buf[b].registered)
  /\ Len(queue[s]) < MaxQueue
  /\ Enqueue({s}, Event(b))
  /\ buf' = [buf EXCEPT ![b].recorded = TRUE, ![b].unrecorded = @ \ {s}]
  /\ UNCHANGED <<ahead, pool_vars, thread_vars>>

(* What callers of drop promise: once an event is recorded, one follows the *)
(* last copy on every stream; without any, the thread that drops the buffer *)
(* issued the copies, on device d.                                          *)
MayDrop(b, d) ==
  IF buf[b].recorded
  THEN buf[b].unrecorded = {}
  ELSE \A s \in buf[b].unrecorded : DeviceOf[s] = d

(* Without events the cleaner of a pinned buffer must synchronize a device. *)
NeedsSync(b) == ~buf[b].recorded /\ buf[b].registered

(* The cleaner in the slot receives the buffer; an empty slot gets a new    *)
(* cleaner first.                                                           *)
send_to_cleaner(b) ==
  \/ /\ slot # None
     /\ cleaners' = [cleaners EXCEPT ![slot].channel = Append(@, b)]
     /\ UNCHANGED slot
  \/ /\ slot = None
     /\ \E c \in Cleaner \ DOMAIN cleaners :
          /\ \A t \in Closer : closers[t].joins # c
          /\ slot' = c
          /\ cleaners' = With(cleaners, c,
               [pc |-> "receive", channel |-> <<b>>, open |-> TRUE,
                batch |-> <<>>, synced |-> EmptyMap])

(* The current device is kept where the cleaner reads it.                   *)
drop(b, d) ==
  /\ b \in Held
  /\ MayDrop(b, d)
  /\ buf' = [buf EXCEPT ![b].device = IF NeedsSync(b) THEN d ELSE None,
                         ![b].unrecorded = {}]
  /\ send_to_cleaner(b)
  /\ UNCHANGED <<work, pool_vars, closers, quiet>>

-----------------------------------------------------------------------------
(* The cleaner thread.                                                     *)

(* The first buffer of a batch, and the next within the 100 ms window.      *)
receive(c) ==
  /\ cleaners[c].pc \in {"receive", "coalesce"}
  /\ Len(cleaners[c].batch) < BatchSize
  /\ cleaners[c].channel # <<>>
  /\ cleaners' = [cleaners EXCEPT
       ![c].pc = "coalesce",
       ![c].channel = Tail(@),
       ![c].batch = Append(@, Head(cleaners[c].channel))]
  /\ UNCHANGED <<work, buf, pool_vars, slot, closers, quiet>>

(* The batch is full, or the window ends with nothing in the channel.       *)
close_batch_OnlyFull(c) ==
  /\ cleaners[c].pc = "coalesce"
  /\ Len(cleaners[c].batch) = BatchSize
  /\ cleaners' = [cleaners EXCEPT ![c].pc = "drain"]
  /\ UNCHANGED <<work, buf, pool_vars, slot, closers, quiet>>
close_batch(c) ==
  /\ cleaners[c].pc = "coalesce"
  /\ Len(cleaners[c].batch) = BatchSize \/ cleaners[c].channel = <<>>
  /\ cleaners' = [cleaners EXCEPT ![c].pc = "drain"]
  /\ UNCHANGED <<work, buf, pool_vars, slot, closers, quiet>>

(* The channel is closed and empty.                                         *)
exit(c) ==
  /\ cleaners[c].pc = "receive"
  /\ ~cleaners[c].open
  /\ cleaners[c].channel = <<>>
  /\ cleaners' = Without(cleaners, {c})
  /\ UNCHANGED <<work, buf, pool_vars, slot, closers, quiet>>

(* The oldest buffer of the batch, and what waiting for its copies takes.   *)
Current(c) == Head(cleaners[c].batch)
Draining(c, b) == cleaners[c].pc = "drain" /\ cleaners[c].batch # <<>> /\ b = Current(c)
Synced(c, b) == buf[b].device \in DOMAIN cleaners[c].synced

(* device_synchronize waits for what is on the streams of the device now;   *)
(* the result serves the rest of the batch.                                 *)
device_synchronize(c, b) ==
  /\ Draining(c, b)
  /\ NeedsSync(b) /\ ~Synced(c, b)
  /\ ahead' = [ahead EXCEPT ![c] =
       [s \in Stream |-> IF DeviceOf[s] = buf[b].device THEN Len(queue[s]) ELSE 0]]
  /\ cleaners' = [cleaners EXCEPT ![c].pc = "synchronize"]
  /\ UNCHANGED <<queue, buf, pool_vars, slot, closers, quiet>>

synchronized(c, b) ==
  /\ cleaners[c].pc = "synchronize"
  /\ b = Current(c)
  /\ \E ok \in BOOLEAN :
       /\ IF ok THEN ahead[c] = NoWait ELSE "synchronize" \in Faults
       /\ cleaners' = [cleaners EXCEPT ![c].pc = "drain",
                         ![c].synced = With(@, buf[b].device, ok)]
  /\ ahead' = [ahead EXCEPT ![c] = NoWait]
  /\ UNCHANGED <<queue, buf, pool_vars, slot, closers, quiet>>

(* The copies of b are over: its events completed, its device was           *)
(* synchronized, or it was pageable.                                        *)
Drained(c, b) ==
  IF buf[b].recorded THEN ~Pending(Event(b))
  ELSE NeedsSync(b) => Synced(c, b) /\ cleaners[c].synced[buf[b].device]

(* The cleaner is done with its oldest buffer; what it synchronized is      *)
(* forgotten at the end of the batch.                                       *)
Finish_KeepsSynced(c) ==
  LET rest == Tail(cleaners[c].batch)
  IN  cleaners' = [cleaners EXCEPT ![c].batch = rest,
                     ![c].pc = IF rest = <<>> THEN "receive" ELSE "drain"]
Finish(c) ==
  LET rest == Tail(cleaners[c].batch)
  IN  cleaners' = [cleaners EXCEPT ![c].batch = rest,
                     ![c].pc = IF rest = <<>> THEN "receive" ELSE "drain",
                     ![c].synced = IF rest = <<>> THEN EmptyMap ELSE @]

(* evict_to_fit pops buffers E, largest first, until n more bytes fit.      *)
Fits(E, n) == total_bytes - SizeOf(E) + n <= max_bytes
evict_to_fit(E, n) ==
  IF n > max_bytes
  THEN E = {}
  ELSE /\ \A e \in E, q \in pooled \ E : buf[e].size >= buf[q].size
       /\ Fits(E, n) \/ E = pooled
       /\ \A e \in E :
            (\A f \in E : buf[f].size >= buf[e].size) => ~Fits(E \ {e}, n)

(* recycle: zeroes the dirty prefix and pools the buffer, or frees it: page *)
(* locking failed, or the buffer is larger than the cap.                    *)
Zeroed(b) == IF buf[b].dirty_len >= buf[b].written THEN 0 ELSE buf[b].written
recycle(c, b) ==
  /\ Draining(c, b)
  /\ Drained(c, b)
  /\ Finish(c)
  /\ \/ \E E \in SUBSET pooled :
          LET total == total_bytes - SizeOf(E)
              size  == buf[b].size
          IN /\ evict_to_fit(E, size)
             /\ \/ /\ total + size <= max_bytes
                   /\ total_bytes' = total + size
                   /\ pooled' = (pooled \ E) \cup {b}
                   /\ buf' = With(Without(buf, E), b, Guard(size, TRUE, Zeroed(b)))
                \/ /\ total + size > max_bytes
                   /\ total_bytes' = total
                   /\ pooled' = pooled \ E
                   /\ buf' = Without(buf, E \cup {b})
     \/ /\ ~buf[b].registered
        /\ "register" \in Faults
        /\ buf' = Without(buf, {b})
        /\ UNCHANGED <<pooled, total_bytes>>
  /\ UNCHANGED <<work, max_bytes, slot, closers, quiet>>

(* Waiting for the copies failed: the buffer is freed and never pooled.     *)
release(c, b) ==
  /\ Draining(c, b)
  /\ \/ buf[b].recorded /\ "synchronize" \in Faults
     \/ NeedsSync(b) /\ Synced(c, b) /\ ~cleaners[c].synced[buf[b].device]
  /\ Finish(c)
  /\ buf' = Without(buf, {b})
  /\ UNCHANGED <<work, pool_vars, slot, closers, quiet>>

-----------------------------------------------------------------------------
(* Other threads.                                                          *)

set_max_pooled_bytes(m) ==
  /\ max_bytes' = m
  /\ \E E \in SUBSET pooled :
       /\ IF total_bytes <= m
          THEN E = {}
          ELSE /\ \A e \in E, q \in pooled \ E : buf[e].size >= buf[q].size
               /\ total_bytes - SizeOf(E) <= m \/ E = pooled
               /\ \A e \in E : (\A f \in E : buf[f].size >= buf[e].size) =>
                    total_bytes - SizeOf(E \ {e}) > m
       /\ pooled' = pooled \ E
       /\ total_bytes' = total_bytes - SizeOf(E)
       /\ buf' = Without(buf, E)
  /\ UNCHANGED <<work, thread_vars>>

Emptied ==
  /\ pooled' = {}
  /\ total_bytes' = 0
  /\ buf' = Without(buf, pooled)

clear == Emptied /\ UNCHANGED <<work, max_bytes, thread_vars>>

(* shutdown takes the cleaner out of its slot and closes its channel ...    *)
shutdown_Detaches(t) ==
  /\ closers[t].pc = "idle"
  /\ quiet' = IF Held = {} THEN quiet \cup {t} ELSE quiet
  /\ slot' = None
  /\ closers' = [closers EXCEPT ![t].pc = "join", ![t].joins = None]
  /\ cleaners' = [c \in DOMAIN cleaners |->
                    [cleaners[c] EXCEPT !.open = @ /\ c # slot]]
  /\ UNCHANGED <<work, buf, pool_vars>>
shutdown_KeepsOpen(t) ==
  /\ closers[t].pc = "idle"
  /\ quiet' = IF Held = {} THEN quiet \cup {t} ELSE quiet
  /\ slot' = None
  /\ closers' = [closers EXCEPT ![t].pc = "join", ![t].joins = slot]
  /\ UNCHANGED <<work, buf, pool_vars, cleaners>>
shutdown(t) ==
  /\ closers[t].pc = "idle"
  /\ quiet' = IF Held = {} THEN quiet \cup {t} ELSE quiet
  /\ slot' = None
  /\ closers' = [closers EXCEPT ![t].pc = "join", ![t].joins = slot]
  /\ cleaners' = [c \in DOMAIN cleaners |->
                    [cleaners[c] EXCEPT !.open = @ /\ c # slot]]
  /\ UNCHANGED <<work, buf, pool_vars>>

(* ... joins it, if there was one ...                                       *)
join(t) ==
  /\ closers[t].pc = "join"
  /\ closers[t].joins \notin DOMAIN cleaners
  /\ closers' = [closers EXCEPT ![t].pc = "clear", ![t].joins = None]
  /\ UNCHANGED <<work, buf, pool_vars, slot, cleaners, quiet>>

(* ... and clears the pool.                                                 *)
shutdown_clear(t) ==
  /\ closers[t].pc = "clear"
  /\ Emptied
  /\ closers' = [closers EXCEPT ![t].pc = "idle"]
  /\ quiet' = quiet \ {t}
  /\ UNCHANGED <<work, max_bytes, slot, cleaners>>

Owner ==
  \/ \E n \in MinSize : take(n)
  \/ \E b \in DOMAIN buf :
       \/ \E w \in 1 .. buf[b].size : Write(b, w)
       \/ \E n \in 1 .. buf[b].size : set_dirty_len(b, n)
       \/ \E s \in Stream : CopyToDevice(b, s) \/ record_last_use(b, s)
       \/ \E d \in Device : drop(b, d)

CleanerStep(c) ==
  /\ c \in DOMAIN cleaners
  /\ \/ receive(c)
     \/ close_batch(c)
     \/ exit(c)
     \/ \E b \in DOMAIN buf :
          device_synchronize(c, b) \/ synchronized(c, b) \/ recycle(c, b) \/ release(c, b)

CloserStep(t) == join(t) \/ shutdown_clear(t)

(* The oldest item of a stream is over, also for those who wait for it.     *)
DeviceStep(s) ==
  /\ Retire(s)
  /\ ahead' = [c \in Cleaner |->
       [ahead[c] EXCEPT ![s] = IF @ > 0 THEN @ - 1 ELSE 0]]
  /\ UNCHANGED <<buf, pool_vars, thread_vars>>

Next ==
  \/ Owner
  \/ \E c \in Cleaner : CleanerStep(c)
  \/ \E m \in Cap : set_max_pooled_bytes(m)
  \/ clear
  \/ \E t \in Closer : shutdown(t) \/ CloserStep(t)
  \/ \E s \in Stream : DeviceStep(s)

Spec == Init /\ [][Next]_vars

(* The cleaner and the closers keep running, and the devices make progress. *)
FairSpec ==
  /\ Spec
  /\ \A c \in Cleaner : WF_vars(CleanerStep(c))
  /\ \A t \in Closer : WF_vars(CloserStep(t))
  /\ \A s \in Stream : WF_vars(DeviceStep(s))

-----------------------------------------------------------------------------
(* Properties.                                                             *)

(* A pooled buffer is page-locked and zeroed, and no copy out of it is in   *)
(* flight (the invariant documented at struct Pool): the cleaner waited for *)
(* all its copies, whichever of the three ways it relied on, and nobody     *)
(* else still has it.  total_bytes is the sum of the pooled sizes and       *)
(* respects the cap, however take, recycling, evictions, clearing and a     *)
(* lowered cap interleave.                                                  *)
PoolReady ==
  /\ \A b \in pooled : b \notin Queued /\ buf[b].registered /\ buf[b].written = 0 /\ Quiescent(b)
  /\ total_bytes = SizeOf(pooled) /\ total_bytes <= max_bytes

(* When shutdown gets to clear the pool, and nothing was held or taken      *)
(* since it was called, no buffer is queued that could be pooled later, but *)
(* for those of a cleaner that another thread took from the slot before and *)
(* still waits for.                                                         *)
ShutdownDrains ==
  \A t \in quiet : closers[t].pc = "clear" =>
    \A c \in DOMAIN cleaners :
      \/ cleaners[c].channel = <<>> /\ cleaners[c].batch = <<>>
      \/ \E u \in Closer \ {t} : closers[u].joins = c

(* A buffer handed back is eventually pooled or freed.                      *)
Recycled == \A b \in Buffer : b \in Queued ~> b \notin Queued

(* Every call of shutdown returns.                                          *)
ShutdownReturns == \A t \in Closer : closers[t].pc # "idle" ~> closers[t].pc = "idle"

=============================================================================
