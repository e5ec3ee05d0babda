-------------------------- MODULE PinnedPoolProofs --------------------------
(***************************************************************************)
(* Proofs about the pinned pool for any number of buffers, streams,        *)
(* devices, cleaners and closers.                                          *)
(*                                                                         *)
(* Why is a pooled buffer quiet?  A copy out of a live buffer is followed  *)
(* on its stream by an event of the buffer, or its owner still has to      *)
(* record one, or it runs on the device that was current when the buffer   *)
(* was dropped (CopiesKnown).  A memoised synchronisation speaks for a     *)
(* buffer of the batch because the batch was closed before it began: what  *)
(* it waited for lies before the mark (SyncsCover).  And a buffer is in    *)
(* one place at a time, so that whoever waits is the only one to pool it   *)
(* (Places).                                                               *)
(***************************************************************************)
EXTENDS PinnedPool, TLAPS, FiniteSetTheorems, NaturalsInduction

Item == {"copy", "event"} \X Buffer

BufferTypes ==
  /\ DOMAIN buf \subseteq Buffer /\ pooled \subseteq DOMAIN buf
  /\ \A b \in DOMAIN buf :
       /\ buf[b] \in [size : Nat, registered : BOOLEAN, written : Nat, dirty_len : Nat,
                      recorded : BOOLEAN, unrecorded : SUBSET Stream,
                      device : Device \cup {None}]
       /\ buf[b].written <= buf[b].dirty_len
       /\ buf[b].written = 0 => buf[b].dirty_len = buf[b].size

WorkTypes ==
  /\ queue \in [Stream -> Seq(Item)]
  /\ ahead \in [Cleaner -> [Stream -> Nat]]

(* The local variables of a cleaner.                                        *)
CleanerType(r) ==
  /\ r = [pc |-> r.pc, channel |-> r.channel, open |-> r.open, batch |-> r.batch,
          synced |-> r.synced]
  /\ r.pc \in {"receive", "coalesce", "drain", "synchronize"}
  /\ r.channel \in Seq(Buffer) /\ r.batch \in Seq(Buffer)
  /\ r.pc \in {"receive", "coalesce"} => r.synced = EmptyMap
  /\ r.pc = "receive" => r.batch = <<>>
  /\ r.pc = "synchronize" => r.batch # <<>>

CleanerTypes ==
  /\ DOMAIN cleaners \subseteq Cleaner
  /\ \A c \in DOMAIN cleaners : CleanerType(cleaners[c])

(* What a cleaner has received or will receive.                             *)
Line(c) == ToSet(cleaners[c].channel) \cup ToSet(cleaners[c].batch)

NoDup(seq) == \A i, j \in 1 .. Len(seq) : seq[i] = seq[j] => i = j

Places ==
  \A c \in DOMAIN cleaners :
    /\ Line(c) \subseteq DOMAIN buf \ pooled
    /\ NoDup(cleaners[c].channel) /\ NoDup(cleaners[c].batch)
    /\ ToSet(cleaners[c].channel) \cap ToSet(cleaners[c].batch) = {}
    /\ \A d \in DOMAIN cleaners : c # d => Line(c) \cap Line(d) = {}

(* Item i of stream s is a copy out of b.                                   *)
CopyAt(s, i, b) == i \in 1 .. Len(queue[s]) /\ queue[s][i] = Copy(b)
EventAfter(s, i, b) == \E j \in 1 .. Len(queue[s]) : i < j /\ queue[s][j] = Event(b)

CopiesKnown ==
  \A b \in DOMAIN buf :
    /\ b \in Queued => buf[b].unrecorded = {}
    /\ \A s \in Stream, i \in Nat : CopyAt(s, i, b) =>
         /\ buf[b].registered /\ b \notin pooled
         /\ \/ b \notin Queued /\ s \in buf[b].unrecorded
            \/ buf[b].recorded /\ EventAfter(s, i, b)
            \/ b \in Queued /\ ~buf[b].recorded /\ DeviceOf[s] = buf[b].device

SyncsCover ==
  \A c \in DOMAIN cleaners : \A b \in ToSet(cleaners[c].batch) : NeedsSync(b) =>
    /\ Synced(c, b) /\ cleaners[c].synced[buf[b].device] =>
         \A s \in Stream, i \in Nat : ~CopyAt(s, i, b)
    /\ cleaners[c].pc = "synchronize" /\ buf[b].device = buf[Current(c)].device =>
         \A s \in Stream, i \in Nat : CopyAt(s, i, b) => i <= ahead[c][s]

PoolClean == \A b \in pooled : buf[b].registered /\ buf[b].written = 0

PoolBytes ==
  /\ max_bytes \in Nat
  /\ IsFiniteSet(Bytes(pooled))
  /\ total_bytes = SizeOf(pooled) /\ total_bytes <= max_bytes

(* Every cleaner is in the slot or being joined, and while a quiet closer   *)
(* waits there is nobody to fill the slot again.                            *)
Closing ==
  /\ slot \in DOMAIN cleaners \cup {None}
  /\ closers \in [Closer -> [pc : {"idle", "join", "clear"}, joins : Cleaner \cup {None}]]
  /\ \A t \in Closer : closers[t].pc # "join" => closers[t].joins = None
  /\ \A c \in DOMAIN cleaners : c = slot \/ \E t \in Closer : closers[t].joins = c
  /\ quiet \subseteq Closer
  /\ quiet # {} => slot = None /\ Held = {}
  /\ slot # None => cleaners[slot].open

IInv ==
  /\ BufferTypes /\ WorkTypes /\ CleanerTypes
  /\ Places /\ CopiesKnown /\ SyncsCover
  /\ PoolClean /\ PoolBytes /\ Closing

-----------------------------------------------------------------------------
(* Sequences of buffers as sets.                                            *)

LEMMA SetOfAppend ==
  ASSUME NEW S, NEW seq \in Seq(S), NEW x \in S
  PROVE  /\ Append(seq, x) \in Seq(S)
         /\ ToSet(Append(seq, x)) = ToSet(seq) \cup {x}
         /\ NoDup(seq) /\ x \notin ToSet(seq) => NoDup(Append(seq, x))
         /\ Append(seq, x) # <<>>
<1>1. /\ Append(seq, x) \in Seq(S) /\ Len(Append(seq, x)) = Len(seq) + 1
      /\ \A i \in 1 .. Len(seq) : Append(seq, x)[i] = seq[i]
      /\ Append(seq, x)[Len(seq) + 1] = x
      /\ Append(seq, x) # <<>>
  OBVIOUS
<1>2. /\ DOMAIN seq = 1 .. Len(seq) /\ DOMAIN Append(seq, x) = 1 .. Len(seq) + 1
      /\ Len(seq) \in Nat
  BY <1>1
<1>3. ToSet(Append(seq, x)) = ToSet(seq) \cup {x}
  BY <1>1, <1>2 DEF ToSet
<1>4. ASSUME NoDup(seq), x \notin ToSet(seq)
      PROVE  NoDup(Append(seq, x))
  BY <1>1, <1>2, <1>4 DEF NoDup, ToSet
<1> QED
  BY <1>1, <1>3, <1>4

LEMMA SetOfTail ==
  ASSUME NEW S, NEW seq \in Seq(S), seq # <<>>
  PROVE  /\ Tail(seq) \in Seq(S)
         /\ Head(seq) \in S /\ Head(seq) \in ToSet(seq)
         /\ ToSet(seq) = ToSet(Tail(seq)) \cup {Head(seq)}
         /\ NoDup(seq) => /\ NoDup(Tail(seq))
                          /\ Head(seq) \notin ToSet(Tail(seq))
                          /\ ToSet(Tail(seq)) = ToSet(seq) \ {Head(seq)}
<1>1. /\ Tail(seq) \in Seq(S) /\ Len(Tail(seq)) = Len(seq) - 1
      /\ Len(seq) \in Nat /\ Len(seq) >= 1
      /\ Head(seq) = seq[1]
      /\ \A i \in 1 .. Len(seq) - 1 : Tail(seq)[i] = seq[i + 1]
  OBVIOUS
<1>2. DOMAIN seq = 1 .. Len(seq) /\ DOMAIN Tail(seq) = 1 .. Len(seq) - 1
  BY <1>1
<1>3. Head(seq) \in S /\ Head(seq) \in ToSet(seq)
  BY <1>1, <1>2 DEF ToSet
<1>4. ToSet(seq) = ToSet(Tail(seq)) \cup {Head(seq)}
  <2>1. ASSUME NEW i \in DOMAIN seq PROVE seq[i] \in ToSet(Tail(seq)) \cup {Head(seq)}
    <3>1. CASE i = 1
      BY <1>1, <3>1
    <3>2. CASE i # 1
      <4>1. i - 1 \in 1 .. Len(seq) - 1 /\ Tail(seq)[i - 1] = seq[i]
        BY <1>1, <1>2, <3>2
      <4> QED
        BY <1>2, <4>1 DEF ToSet
    <3> QED
      BY <3>1, <3>2
  <2>2. ASSUME NEW i \in DOMAIN Tail(seq) PROVE Tail(seq)[i] \in ToSet(seq)
    BY <1>1, <1>2 DEF ToSet
  <2> QED
    BY <1>3, <2>1, <2>2 DEF ToSet
<1>5. ASSUME NoDup(seq)
      PROVE  NoDup(Tail(seq)) /\ Head(seq) \notin ToSet(Tail(seq))
  BY <1>1, <1>2, <1>5 DEF NoDup, ToSet
<1> QED
  BY <1>1, <1>3, <1>4, <1>5

LEMMA SetOfEmpty == ToSet(<<>>) = {} /\ NoDup(<<>>)
  BY DEF ToSet, NoDup

-----------------------------------------------------------------------------
(* next_power_of_two gives a power of two; by the least counterexample.     *)

LEMMA LeastNatural ==
  ASSUME NEW T, T \subseteq Nat, T # {}
  PROVE  \E x \in T : \A y \in T : x <= y
<1>1. IsWellFoundedOn(OpToRel(<, Nat), Nat)
  BY NatLessThanWellFounded
<1>2. PICK x \in T : \A y \in T : ~(<<y, x>> \in OpToRel(<, Nat))
  BY <1>1, WFMin, Zenon
<1>3. \A y \in T : ~(y < x)
  BY <1>2 DEF OpToRel
<1> QED
  BY <1>3

LEMMA OddFactor ==
  ASSUME NEW d \in Nat, NEW k \in Nat, d % 2 = 1, (d * k) % 2 = 0
  PROVE  k % 2 = 0
<1>1. PICK a \in Nat : d = 2 * a + 1
  <2>1. d = 2 * (d \div 2) + 1 /\ d \div 2 \in Nat
    OBVIOUS
  <2> QED
    BY <2>1
<1>2. d * k = 2 * (a * k) + k /\ a * k \in Nat
  BY <1>1
<1> DEFINE y == a * k
<1>3. y \in Nat /\ (2 * y + k) % 2 = 0
  BY <1>2
<1> HIDE DEF y
<1> QED
  BY <1>3

LEMMA Divides ==
  ASSUME NEW x \in Nat, NEW d \in Nat, d > 0
  PROVE  x % d = 0 <=> \E k \in Nat : x = d * k
<1>1. ASSUME x % d = 0 PROVE \E k \in Nat : x = d * k
  BY <1>1, SMT
<1>2. ASSUME NEW k \in Nat, x = d * k PROVE x % d = 0
  BY <1>2, SMT
<1> QED
  BY <1>1, <1>2

LEMMA DoubleIsPower ==
  ASSUME NEW q \in Nat \ {0}, IsPowerOfTwo(q)
  PROVE  IsPowerOfTwo(2 * q)
<1>1. SUFFICES ASSUME NEW d \in 2 .. 2 * q, (2 * q) % d = 0, d % 2 # 0
               PROVE  FALSE
  BY DEF IsPowerOfTwo
<1>2. d \in Nat /\ d > 0 /\ d % 2 = 1
  BY <1>1
<1>3. PICK k \in Nat : 2 * q = d * k
  BY <1>1, <1>2, Divides
<1>4. k % 2 = 0
  <2>1. (2 * q) % 2 = 0
    OBVIOUS
  <2> QED
    BY <1>2, <1>3, <2>1, OddFactor
<1>5. PICK h \in Nat : k = 2 * h
  <2>1. k = 2 * (k \div 2) /\ k \div 2 \in Nat
    BY <1>4
  <2> QED
    BY <2>1
<1>6. q = d * h
  <2>1. d * k = 2 * (d * h) /\ d * h \in Nat
    BY <1>2, <1>5
  <2> QED
    BY <1>3, <2>1
<1>7. q % d = 0 /\ d <= q
  <2>1. h >= 1 /\ d * h >= d
    BY <1>2, <1>6
  <2> QED
    BY <1>2, <1>6, <2>1, Divides
<1> QED
  BY <1>1, <1>7 DEF IsPowerOfTwo

LEMMA PowerExists ==
  ASSUME NEW n \in Nat
  PROVE  \E p \in 1 .. 2 * n + 1 : IsPowerOfTwo(p) /\ p >= n /\ (p = 1 \/ p < 2 * n)
<1> DEFINE Good(m) == \E p \in 1 .. 2 * m + 1 : IsPowerOfTwo(p) /\ p >= m /\ (p = 1 \/ p < 2 * m)
           T == {m \in Nat : ~Good(m)}
<1>1. SUFFICES ASSUME T # {} PROVE FALSE
  OBVIOUS
<1>2. PICK m \in T : \A y \in T : m <= y
  BY <1>1, LeastNatural
<1>3. CASE m <= 1
  <2>1. IsPowerOfTwo(1)
    BY DEF IsPowerOfTwo
  <2> QED
    BY <1>2, <1>3, <2>1
<1>4. CASE m >= 2
  <2> DEFINE h == (m + 1) \div 2
  <2>1. h \in Nat /\ h >= 1 /\ h < m /\ m <= 2 * h /\ 2 * h <= m + 1
    BY <1>2, <1>4
  <2>2. Good(h)
    BY <1>2, <2>1
  <2>3. PICK q \in 1 .. 2 * h + 1 : IsPowerOfTwo(q) /\ q >= h /\ (q = 1 \/ q < 2 * h)
    BY <2>2
  <2>4. IsPowerOfTwo(2 * q)
    BY <2>1, <2>3, DoubleIsPower
  <2>5. q < m
    <3>1. CASE q = m
      <4>1. 2 * h = m + 1 /\ m % 2 = 1
        BY <1>2, <1>4, <2>1, <2>3, <3>1
      <4>2. m % m = 0 /\ m \in 2 .. m
        BY <1>2, <1>4
      <4> QED
        BY <2>3, <3>1, <4>1, <4>2 DEF IsPowerOfTwo
    <3> QED
      BY <1>2, <1>4, <2>1, <2>3, <3>1
  <2>6. 2 * q \in 1 .. 2 * m + 1 /\ 2 * q >= m /\ 2 * q < 2 * m
    BY <1>2, <2>1, <2>3, <2>5
  <2> QED
    BY <1>2, <2>4, <2>6
<1> QED
  BY <1>2, <1>3, <1>4

LEMMA PowerOfTwoFits ==
  ASSUME NEW n \in Nat
  PROVE  PowerOfTwo(n) \in Nat /\ IsPowerOfTwo(PowerOfTwo(n)) /\ PowerOfTwo(n) >= n
<1>1. PICK p \in 1 .. 2 * n + 1 : IsPowerOfTwo(p) /\ p >= n /\ (p = 1 \/ p < 2 * n)
  BY PowerExists
<1>2. /\ PowerOfTwo(n) \in 1 .. 2 * n + 1
      /\ IsPowerOfTwo(PowerOfTwo(n)) /\ PowerOfTwo(n) >= n
  BY <1>1 DEF PowerOfTwo
<1> QED
  BY <1>2

-----------------------------------------------------------------------------
(* The owner of a buffer and the device.                                    *)

LEMMA Domains ==
  ASSUME BufferTypes, NEW b \in DOMAIN buf
  PROVE  /\ buf[b].size \in Nat /\ buf[b].written \in Nat /\ buf[b].dirty_len \in Nat
         /\ buf[b].registered \in BOOLEAN /\ buf[b].recorded \in BOOLEAN
         /\ buf[b].unrecorded \in SUBSET Stream /\ buf[b].device \in Device \cup {None}
  BY DEF BufferTypes

(* Nothing but the data of a held buffer changes.                           *)
LEMMA HeldBuffer ==
  ASSUME IInv, NEW b \in Held, DOMAIN buf' = DOMAIN buf,
         \A q \in DOMAIN buf \ {b} : buf'[q] = buf[q],
         UNCHANGED <<pool_vars, thread_vars>>
  PROVE  /\ CleanerTypes' /\ Places' /\ PoolClean' /\ PoolBytes' /\ Closing'
         /\ Queued' = Queued /\ b \notin Queued /\ b \in DOMAIN buf /\ b \notin pooled
<1> USE DEF IInv
<1>1. /\ UNCHANGED <<pooled, total_bytes, max_bytes, slot, cleaners, closers, quiet>>
      /\ b \in DOMAIN buf /\ b \notin pooled /\ b \notin Queued
  BY DEF pool_vars, thread_vars, Held
<1>2. Queued' = Queued
  BY <1>1 DEF Queued
<1>3. Held' = Held
  BY <1>1, <1>2 DEF Held
<1>4. \A q \in pooled : buf'[q] = buf[q]
  BY <1>1 DEF BufferTypes
<1>5. Bytes(pooled)' = Bytes(pooled)
  BY <1>1, <1>4 DEF Bytes
<1> QED
  BY <1>1, <1>2, <1>3, <1>4, <1>5
     DEF CleanerTypes, CleanerType, Places, Line, PoolClean, PoolBytes, SizeOf, Closing

LEMMA BatchLive ==
  ASSUME CleanerTypes, Places, NEW c \in DOMAIN cleaners
  PROVE  /\ \A b \in ToSet(cleaners[c].batch) :
              b \in DOMAIN buf /\ b \notin pooled /\ b \in Queued /\ b \notin Held
         /\ ToSet(cleaners[c].batch) # {} => cleaners[c].batch # <<>>
         /\ cleaners[c].batch # <<>> =>
              Current(c) \in ToSet(cleaners[c].batch) /\ Current(c) \in DOMAIN buf
<1>1. cleaners[c].batch \in Seq(Buffer)
  BY DEF CleanerTypes, CleanerType
<1>2. \A b \in ToSet(cleaners[c].batch) :
        b \in DOMAIN buf /\ b \notin pooled /\ b \in Queued /\ b \notin Held
  BY DEF Places, Line, Queued, Held
<1> QED
  BY <1>1, <1>2, SetOfEmpty, SetOfTail DEF Current

(* A synchronisation goes on to cover a buffer that has no new copies.      *)
LEMMA SyncsKept ==
  ASSUME IInv, UNCHANGED <<cleaners, ahead>>,
         \A b \in Queued : /\ buf'[b].registered = buf[b].registered
                           /\ buf'[b].recorded = buf[b].recorded
                           /\ buf'[b].device = buf[b].device,
         \A b \in Queued, s \in Stream, i \in Nat : CopyAt(s, i, b)' => CopyAt(s, i, b)
  PROVE  SyncsCover'
<1>1. SUFFICES ASSUME NEW c \in DOMAIN cleaners, NEW b \in ToSet(cleaners[c].batch),
                      NeedsSync(b)'
               PROVE  /\ Synced(c, b)' /\ cleaners'[c].synced[buf'[b].device] =>
                           \A s \in Stream, i \in Nat : ~CopyAt(s, i, b)'
                      /\ cleaners'[c].pc = "synchronize"
                            /\ buf'[b].device = buf'[Current(c)'].device =>
                           \A s \in Stream, i \in Nat : CopyAt(s, i, b)' => i <= ahead'[c][s]
  BY DEF SyncsCover
<1>2. b \in Queued /\ Current(c) \in Queued /\ Current(c)' = Current(c)
  BY BatchLive DEF IInv, Current
<1>3. NeedsSync(b)
  BY <1>1, <1>2 DEF NeedsSync
<1>4. /\ buf'[b].device = buf[b].device
      /\ buf'[Current(c)].device = buf[Current(c)].device
      /\ Synced(c, b)' => Synced(c, b)
  BY <1>2 DEF Synced
<1> QED
  BY <1>2, <1>3, <1>4 DEF IInv, SyncsCover

LEMMA WriteIInv ==
  ASSUME IInv, NEW b \in DOMAIN buf, NEW n \in 1 .. buf[b].size,
         Write(b, n) \/ set_dirty_len(b, n)
  PROVE  IInv'
<1> USE DEF IInv
<1>1. /\ b \in Held /\ UNCHANGED <<work, pool_vars, thread_vars>>
      /\ UNCHANGED <<queue, ahead, pooled, cleaners>>
  BY DEF Write, set_dirty_len, work, pool_vars, thread_vars
<1>2. /\ DOMAIN buf' = DOMAIN buf
      /\ \A q \in DOMAIN buf \ {b} : buf'[q] = buf[q]
  BY DEF Write, set_dirty_len
<1>3. /\ CleanerTypes' /\ Places' /\ PoolClean' /\ PoolBytes' /\ Closing'
      /\ Queued' = Queued
  BY <1>1, <1>2, HeldBuffer
<1>4. /\ buf[b] \in [size : Nat, registered : BOOLEAN, written : Nat, dirty_len : Nat,
                     recorded : BOOLEAN, unrecorded : SUBSET Stream,
                     device : Device \cup {None}]
      /\ buf[b].size \in Nat /\ n \in Nat
  BY DEF BufferTypes
<1>5. /\ buf'[b] \in [size : Nat, registered : BOOLEAN, written : Nat, dirty_len : Nat,
                      recorded : BOOLEAN, unrecorded : SUBSET Stream,
                      device : Device \cup {None}]
      /\ buf'[b].written <= buf'[b].dirty_len
      /\ buf'[b].written = 0 => buf'[b].dirty_len = buf'[b].size
      /\ buf'[b].registered = buf[b].registered /\ buf'[b].recorded = buf[b].recorded
      /\ buf'[b].unrecorded = buf[b].unrecorded /\ buf'[b].device = buf[b].device
  <2>1. CASE Write(b, n)
    <3>1. buf' = [buf EXCEPT ![b].written = n] /\ buf[b].dirty_len = buf[b].size
      BY <2>1 DEF Write, BufferTypes
    <3> QED
      BY <1>4, <3>1
  <2>2. CASE set_dirty_len(b, n)
    <3>1. buf' = [buf EXCEPT ![b].dirty_len = n] /\ buf[b].written \in 1 .. n
      BY <2>2 DEF set_dirty_len
    <3> QED
      BY <1>4, <3>1
  <2> QED
    BY <2>1, <2>2
<1>6. BufferTypes' /\ WorkTypes'
  BY <1>1, <1>2, <1>5 DEF BufferTypes, WorkTypes
<1>7. \A q \in DOMAIN buf :
        /\ buf'[q].registered = buf[q].registered /\ buf'[q].recorded = buf[q].recorded
        /\ buf'[q].unrecorded = buf[q].unrecorded /\ buf'[q].device = buf[q].device
  BY <1>2, <1>5
<1>8. CopiesKnown'
  BY <1>1, <1>2, <1>3, <1>7 DEF CopiesKnown, CopyAt, EventAfter
<1>9. SyncsCover'
  <2>1. \A q \in Queued : q \in DOMAIN buf
    BY DEF Places, Line, Queued
  <2> QED
    BY <1>1, <1>7, <2>1, SyncsKept DEF CopyAt
<1> QED
  BY <1>3, <1>6, <1>8, <1>9

(* A copy joins the end of a stream.                                        *)
LEMMA Appended ==
  ASSUME WorkTypes, NEW s \in Stream, NEW item \in Item, Enqueue({s}, item)
  PROVE  /\ queue' \in [Stream -> Seq(Item)]
         /\ \A x \in Stream, i \in Nat, b \in Buffer : CopyAt(x, i, b)' =>
              CopyAt(x, i, b) \/ (x = s /\ item = Copy(b))
         /\ \A x \in Stream, i \in Nat, b \in Buffer : EventAfter(x, i, b) => EventAfter(x, i, b)'
         /\ \A i \in Nat, b \in Buffer : CopyAt(s, i, b) /\ item = Event(b) => EventAfter(s, i, b)'
<1>1. /\ \A x \in Stream : queue[x] \in Seq(Item)
      /\ queue' = [x \in Stream |-> IF x = s THEN Append(queue[x], item) ELSE queue[x]]
  BY DEF WorkTypes, Enqueue
<1> DEFINE n == Len(queue[s])
<1>2. /\ queue'[s] \in Seq(Item) /\ n \in Nat /\ Len(queue'[s]) = n + 1
      /\ \A i \in 1 .. n : queue'[s][i] = queue[s][i]
      /\ queue'[s][n + 1] = item
      /\ \A x \in Stream : x # s => queue'[x] = queue[x]
  BY <1>1
<1>3. ASSUME NEW x \in Stream, NEW i \in Nat, NEW b \in Buffer, CopyAt(x, i, b)'
      PROVE  CopyAt(x, i, b) \/ (x = s /\ item = Copy(b))
  <2>1. i \in 1 .. Len(queue'[x]) /\ queue'[x][i] = Copy(b)
    BY <1>3 DEF CopyAt
  <2>2. CASE x # s
    <3>1. queue'[x] = queue[x]
      BY <1>2, <2>2
    <3> QED
      BY <2>1, <3>1 DEF CopyAt
  <2>3. CASE x = s /\ i \in 1 .. n
    <3>1. queue[s][i] = Copy(b)
      BY <1>2, <2>1, <2>3
    <3> QED
      BY <2>3, <3>1 DEF CopyAt
  <2>4. CASE x = s /\ i = n + 1
    BY <1>2, <2>1, <2>4
  <2> QED
    BY <1>2, <2>1, <2>2, <2>3, <2>4
<1>4. ASSUME NEW x \in Stream, NEW i \in Nat, NEW b \in Buffer, EventAfter(x, i, b)
      PROVE  EventAfter(x, i, b)'
  <2>1. PICK j \in 1 .. Len(queue[x]) : i < j /\ queue[x][j] = Event(b)
    BY <1>4 DEF EventAfter
  <2>2. j \in 1 .. Len(queue'[x]) /\ queue'[x][j] = Event(b)
    BY <1>2, <2>1
  <2> QED
    BY <2>1, <2>2 DEF EventAfter
<1>5. ASSUME NEW i \in Nat, NEW b \in Buffer, CopyAt(s, i, b), item = Event(b)
      PROVE  EventAfter(s, i, b)'
  <2>1. n + 1 \in 1 .. Len(queue'[s]) /\ i < n + 1 /\ queue'[s][n + 1] = Event(b)
    BY <1>2, <1>5 DEF CopyAt
  <2> QED
    BY <2>1 DEF EventAfter
<1> QED
  BY <1>1, <1>2, <1>3, <1>4, <1>5

LEMMA CopyToDeviceIInv ==
  ASSUME IInv, NEW b \in DOMAIN buf, NEW s \in Stream, CopyToDevice(b, s)
  PROVE  IInv'
<1> USE DEF IInv
<1>1. /\ b \in Held /\ UNCHANGED <<ahead, pool_vars, thread_vars>>
      /\ UNCHANGED <<pooled, cleaners>> /\ Enqueue({s}, Copy(b)) /\ buf[b].registered
  BY DEF CopyToDevice, pool_vars, thread_vars
<1>2. /\ DOMAIN buf' = DOMAIN buf
      /\ \A q \in DOMAIN buf \ {b} : buf'[q] = buf[q]
      /\ buf'[b] = [buf[b] EXCEPT !.unrecorded = @ \cup {s}]
  BY DEF CopyToDevice
<1>3. /\ CleanerTypes' /\ Places' /\ PoolClean' /\ PoolBytes' /\ Closing'
      /\ Queued' = Queued /\ b \notin Queued /\ b \notin pooled /\ b \in Buffer
  BY <1>1, <1>2, HeldBuffer DEF BufferTypes
<1>4. Copy(b) \in Item
  BY DEF Copy, Item, BufferTypes
<1>5. /\ buf[b] \in [size : Nat, registered : BOOLEAN, written : Nat, dirty_len : Nat,
                     recorded : BOOLEAN, unrecorded : SUBSET Stream,
                     device : Device \cup {None}]
  BY DEF BufferTypes
<1>6. /\ buf'[b] \in [size : Nat, registered : BOOLEAN, written : Nat, dirty_len : Nat,
                      recorded : BOOLEAN, unrecorded : SUBSET Stream,
                      device : Device \cup {None}]
      /\ buf'[b].registered = buf[b].registered /\ buf'[b].recorded = buf[b].recorded
      /\ buf'[b].unrecorded = buf[b].unrecorded \cup {s}
      /\ buf'[b].written = buf[b].written /\ buf'[b].dirty_len = buf[b].dirty_len
      /\ buf'[b].size = buf[b].size
  BY <1>2, <1>5
<1>7. BufferTypes' /\ WorkTypes'
  <2>1. BufferTypes'
    BY <1>1, <1>2, <1>6 DEF BufferTypes
  <2>2. WorkTypes'
    BY <1>1, <1>4, Appended DEF WorkTypes
  <2> QED
    BY <2>1, <2>2
<1>8. \A x \in Stream, i \in Nat, q \in Buffer : CopyAt(x, i, q)' =>
        CopyAt(x, i, q) \/ (x = s /\ q = b)
  <2>1. \A q \in Buffer : Copy(b) = Copy(q) => q = b
    BY DEF Copy
  <2> QED
    BY <1>1, <1>4, <2>1, Appended
<1>9. CopiesKnown'
  <2>1. SUFFICES ASSUME NEW q \in DOMAIN buf'
                 PROVE  /\ q \in Queued' => buf'[q].unrecorded = {}
                        /\ \A x \in Stream, i \in Nat : CopyAt(x, i, q)' =>
                             /\ buf'[q].registered /\ q \notin pooled'
                             /\ \/ q \notin Queued' /\ x \in buf'[q].unrecorded
                                \/ buf'[q].recorded /\ EventAfter(x, i, q)'
                                \/ q \in Queued' /\ ~buf'[q].recorded
                                     /\ DeviceOf[x] = buf'[q].device
    BY DEF CopiesKnown
  <2>2. CASE q = b
    <3>1. ASSUME NEW x \in Stream, NEW i \in Nat, CopyAt(x, i, b)'
          PROVE  x \in buf'[b].unrecorded \/ (buf'[b].recorded /\ EventAfter(x, i, b)')
      <4>1. CASE x = s
        BY <1>6, <4>1
      <4>2. CASE x # s
        <5>1. CopyAt(x, i, b)
          BY <1>3, <1>8, <3>1, <4>2
        <5>2. x \in buf[b].unrecorded \/ (buf[b].recorded /\ EventAfter(x, i, b))
          BY <1>3, <5>1 DEF CopiesKnown
        <5> QED
          BY <1>1, <1>3, <1>4, <1>6, <5>2, Appended
      <4> QED
        BY <4>1, <4>2
    <3> QED
      BY <1>1, <1>3, <1>6, <2>2, <3>1
  <2>3. CASE q # b
    <3>1. q \in DOMAIN buf /\ q \in Buffer /\ buf'[q] = buf[q]
      BY <1>2, <2>3 DEF BufferTypes
    <3>2. \A x \in Stream, i \in Nat : CopyAt(x, i, q)' => CopyAt(x, i, q)
      BY <1>8, <2>3, <3>1
    <3>3. \A x \in Stream, i \in Nat : EventAfter(x, i, q) => EventAfter(x, i, q)'
      BY <1>1, <1>4, <3>1, Appended
    <3> QED
      BY <1>1, <1>3, <3>1, <3>2, <3>3 DEF CopiesKnown
  <2> QED
    BY <2>2, <2>3
<1>10. SyncsCover'
  <2>1. \A q \in Queued : q \in DOMAIN buf \ {b} /\ q \in Buffer
    BY <1>3 DEF Places, Line, Queued, BufferTypes
  <2> QED
    BY <1>1, <1>2, <1>3, <1>8, <2>1, SyncsKept
<1> QED
  BY <1>3, <1>7, <1>9, <1>10

LEMMA RecordLastUseIInv ==
  ASSUME IInv, NEW b \in DOMAIN buf, NEW s \in Stream, record_last_use(b, s)
  PROVE  IInv'
<1> USE DEF IInv
<1>1. /\ b \in Held /\ UNCHANGED <<ahead, pool_vars, thread_vars>>
      /\ UNCHANGED <<pooled, cleaners>> /\ Enqueue({s}, Event(b))
  BY DEF record_last_use, pool_vars, thread_vars
<1>2. /\ DOMAIN buf' = DOMAIN buf
      /\ \A q \in DOMAIN buf \ {b} : buf'[q] = buf[q]
      /\ buf'[b] = [buf[b] EXCEPT !.recorded = TRUE, !.unrecorded = @ \ {s}]
  BY DEF record_last_use
<1>3. /\ CleanerTypes' /\ Places' /\ PoolClean' /\ PoolBytes' /\ Closing'
      /\ Queued' = Queued /\ b \notin Queued /\ b \notin pooled /\ b \in Buffer
  BY <1>1, <1>2, HeldBuffer DEF BufferTypes
<1>4. Event(b) \in Item
  BY DEF Event, Item, BufferTypes
<1>5. /\ buf[b] \in [size : Nat, registered : BOOLEAN, written : Nat, dirty_len : Nat,
                     recorded : BOOLEAN, unrecorded : SUBSET Stream,
                     device : Device \cup {None}]
  BY DEF BufferTypes
<1>6. /\ buf'[b] \in [size : Nat, registered : BOOLEAN, written : Nat, dirty_len : Nat,
                      recorded : BOOLEAN, unrecorded : SUBSET Stream,
                      device : Device \cup {None}]
      /\ buf'[b].registered = buf[b].registered /\ buf'[b].recorded
      /\ buf'[b].unrecorded = buf[b].unrecorded \ {s}
      /\ buf'[b].written = buf[b].written /\ buf'[b].dirty_len = buf[b].dirty_len
      /\ buf'[b].size = buf[b].size
  BY <1>2, <1>5
<1>7. BufferTypes' /\ WorkTypes'
  <2>1. BufferTypes'
    <3>1. /\ pooled' \subseteq DOMAIN buf' /\ DOMAIN buf' \subseteq Buffer
          /\ \A q \in DOMAIN buf' \ {b} : buf'[q] = buf[q]
      BY <1>1, <1>2 DEF BufferTypes
    <3>2. /\ buf'[b].written <= buf'[b].dirty_len
          /\ buf'[b].written = 0 => buf'[b].dirty_len = buf'[b].size
      BY <1>6 DEF BufferTypes
    <3>3. buf'[b] \in [size : Nat, registered : BOOLEAN, written : Nat, dirty_len : Nat,
                      recorded : BOOLEAN, unrecorded : SUBSET Stream,
                      device : Device \cup {None}]
      BY <1>6
    <3>4. \A q \in DOMAIN buf' \ {b} :
            /\ buf'[q] \in [size : Nat, registered : BOOLEAN, written : Nat, dirty_len : Nat,
                            recorded : BOOLEAN, unrecorded : SUBSET Stream,
                            device : Device \cup {None}]
            /\ buf'[q].written <= buf'[q].dirty_len
            /\ buf'[q].written = 0 => buf'[q].dirty_len = buf'[q].size
      BY <1>2, <3>1 DEF BufferTypes
    <3> HIDE DEF IInv
    <3> QED
      BY <3>1, <3>2, <3>3, <3>4 DEF BufferTypes
  <2>2. WorkTypes'
    BY <1>1, <1>4, Appended DEF WorkTypes
  <2> QED
    BY <2>1, <2>2
<1>8. \A x \in Stream, i \in Nat, q \in Buffer : CopyAt(x, i, q)' => CopyAt(x, i, q)
  <2>1. \A q \in Buffer : Event(b) # Copy(q)
    BY DEF Event, Copy
  <2> QED
    BY <1>1, <1>4, <2>1, Appended
<1>9. CopiesKnown'
  <2>1. SUFFICES ASSUME NEW q \in DOMAIN buf'
                 PROVE  /\ q \in Queued' => buf'[q].unrecorded = {}
                        /\ \A x \in Stream, i \in Nat : CopyAt(x, i, q)' =>
                             /\ buf'[q].registered /\ q \notin pooled'
                             /\ \/ q \notin Queued' /\ x \in buf'[q].unrecorded
                                \/ buf'[q].recorded /\ EventAfter(x, i, q)'
                                \/ q \in Queued' /\ ~buf'[q].recorded
                                     /\ DeviceOf[x] = buf'[q].device
    BY DEF CopiesKnown
  <2>2. CASE q = b
    <3>1. ASSUME NEW x \in Stream, NEW i \in Nat, CopyAt(x, i, b)'
          PROVE  buf'[b].registered /\ (x \in buf'[b].unrecorded \/ EventAfter(x, i, b)')
      <4>1. CopyAt(x, i, b)
        BY <1>3, <1>8, <3>1
      <4>2. /\ buf[b].registered
            /\ x \in buf[b].unrecorded \/ (buf[b].recorded /\ EventAfter(x, i, b))
        BY <1>3, <4>1 DEF CopiesKnown
      <4>3. x = s => EventAfter(x, i, b)'
        BY <1>1, <1>3, <1>4, <4>1, Appended
      <4>4. EventAfter(x, i, b) => EventAfter(x, i, b)'
        BY <1>1, <1>3, <1>4, Appended
      <4> QED
        BY <1>6, <4>2, <4>3, <4>4
    <3> QED
      BY <1>1, <1>3, <1>6, <2>2, <3>1
  <2>3. CASE q # b
    <3>1. q \in DOMAIN buf /\ q \in Buffer /\ buf'[q] = buf[q]
      BY <1>2, <2>3 DEF BufferTypes
    <3>2. \A x \in Stream, i \in Nat : EventAfter(x, i, q) => EventAfter(x, i, q)'
      BY <1>1, <1>4, <3>1, Appended
    <3> QED
      BY <1>1, <1>3, <1>8, <3>1, <3>2 DEF CopiesKnown
  <2> QED
    BY <2>2, <2>3
<1>10. SyncsCover'
  <2>1. \A q \in Queued : q \in DOMAIN buf \ {b} /\ q \in Buffer
    BY <1>3 DEF Places, Line, Queued, BufferTypes
  <2> QED
    BY <1>1, <1>2, <1>8, <2>1, SyncsKept
<1> QED
  BY <1>3, <1>7, <1>9, <1>10

(* Only the devices or the cleaners' waiting changed.                       *)
LEMMA QuietHost ==
  ASSUME IInv, UNCHANGED <<buf, pool_vars, thread_vars>>
  PROVE  /\ BufferTypes' /\ CleanerTypes' /\ Places' /\ PoolClean' /\ PoolBytes' /\ Closing'
         /\ Queued' = Queued
         /\ UNCHANGED <<buf, pooled, cleaners>>
<1>1. UNCHANGED <<buf, pooled, total_bytes, max_bytes, slot, cleaners, closers, quiet>>
  BY DEF pool_vars, thread_vars
<1>2. Queued' = Queued
  BY <1>1 DEF Queued
<1>3. Held' = Held
  BY <1>1, <1>2 DEF Held
<1>4. Bytes(pooled)' = Bytes(pooled)
  BY <1>1 DEF Bytes
<1>5. BufferTypes' /\ CleanerTypes' /\ Places'
  BY <1>1 DEF IInv, BufferTypes, CleanerTypes, CleanerType, Places, Line
<1>6. PoolClean' /\ PoolBytes' /\ Closing'
  BY <1>1, <1>3, <1>4 DEF IInv, PoolClean, PoolBytes, SizeOf, Closing
<1> QED
  BY <1>1, <1>2, <1>5, <1>6

LEMMA Retired ==
  ASSUME WorkTypes, NEW s \in Stream, Retire(s)
  PROVE  /\ queue' \in [Stream -> Seq(Item)]
         /\ \A x \in Stream \ {s} : queue'[x] = queue[x]
         /\ \A i \in Nat, b \in Buffer : CopyAt(s, i, b)' => CopyAt(s, i + 1, b)
         /\ \A i \in Nat, b \in Buffer : EventAfter(s, i + 1, b) => EventAfter(s, i, b)'
<1>1. /\ \A x \in Stream : queue[x] \in Seq(Item)
      /\ queue[s] # <<>>
      /\ queue' = [queue EXCEPT ![s] = Tail(queue[s])]
      /\ queue \in [Stream -> Seq(Item)]
  BY DEF WorkTypes, Retire
<1> DEFINE n == Len(queue[s])
<1>2. /\ queue'[s] \in Seq(Item) /\ n \in Nat /\ n >= 1 /\ Len(queue'[s]) = n - 1
      /\ \A i \in 1 .. n - 1 : queue'[s][i] = queue[s][i + 1]
      /\ \A x \in Stream \ {s} : queue'[x] = queue[x]
  BY <1>1
<1>3. queue' \in [Stream -> Seq(Item)]
  BY <1>1, <1>2
<1>4. ASSUME NEW i \in Nat, NEW b \in Buffer, CopyAt(s, i, b)'
      PROVE  CopyAt(s, i + 1, b)
  <2>1. i \in 1 .. n - 1 /\ queue'[s][i] = Copy(b)
    BY <1>2, <1>4 DEF CopyAt
  <2>2. i + 1 \in 1 .. n /\ queue[s][i + 1] = Copy(b)
    BY <1>2, <2>1
  <2> QED
    BY <2>2 DEF CopyAt
<1>5. ASSUME NEW i \in Nat, NEW b \in Buffer, EventAfter(s, i + 1, b)
      PROVE  EventAfter(s, i, b)'
  <2>1. PICK j \in 1 .. n : i + 1 < j /\ queue[s][j] = Event(b)
    BY <1>5 DEF EventAfter
  <2>2. j - 1 \in 1 .. n - 1 /\ queue'[s][j - 1] = queue[s][(j - 1) + 1] /\ (j - 1) + 1 = j
    BY <1>2, <2>1
  <2>3. j - 1 \in 1 .. Len(queue'[s]) /\ i < j - 1 /\ queue'[s][j - 1] = Event(b)
    BY <1>2, <2>1, <2>2
  <2> QED
    BY <2>3 DEF EventAfter
<1> QED
  BY <1>2, <1>3, <1>4, <1>5

(* Retiring an item shifts copies, events and what is waited for alike.     *)
LEMMA DeviceStepIInv ==
  ASSUME IInv, NEW s \in Stream, DeviceStep(s)
  PROVE  IInv'
<1> USE DEF IInv
<1>1. /\ Retire(s) /\ UNCHANGED <<buf, pool_vars, thread_vars>>
      /\ ahead' = [c \in Cleaner |-> [ahead[c] EXCEPT ![s] = IF @ > 0 THEN @ - 1 ELSE 0]]
  BY DEF DeviceStep
<1>2. /\ BufferTypes' /\ CleanerTypes' /\ Places' /\ PoolClean' /\ PoolBytes' /\ Closing'
      /\ Queued' = Queued /\ UNCHANGED <<buf, pooled, cleaners>>
  BY <1>1, QuietHost
<1>3. \A c \in Cleaner : /\ ahead[c] \in [Stream -> Nat] /\ ahead'[c] \in [Stream -> Nat]
                         /\ \A x \in Stream \ {s} : ahead'[c][x] = ahead[c][x]
                         /\ \A i \in Nat : i + 1 <= ahead[c][s] => i <= ahead'[c][s]
  <2>1. \A c \in Cleaner : ahead[c] \in [Stream -> Nat]
    BY DEF WorkTypes
  <2> QED
    BY <1>1, <2>1
<1>4. WorkTypes'
  <2>1. ahead' \in [Cleaner -> [Stream -> Nat]]
    BY <1>1, <1>3
  <2> QED
    BY <1>1, <2>1, Retired DEF WorkTypes
<1>5. \A x \in Stream \ {s}, i \in Nat, b \in Buffer :
        /\ CopyAt(x, i, b)' => CopyAt(x, i, b)
        /\ EventAfter(x, i, b) => EventAfter(x, i, b)'
  <2>1. \A x \in Stream \ {s} : queue'[x] = queue[x]
    BY <1>1, Retired
  <2> QED
    BY <2>1 DEF CopyAt, EventAfter
<1>6. \A i \in Nat, b \in Buffer : /\ CopyAt(s, i, b)' => CopyAt(s, i + 1, b)
                                   /\ EventAfter(s, i + 1, b) => EventAfter(s, i, b)'
  BY <1>1, Retired
<1>7. \A b \in DOMAIN buf : b \in Buffer
  BY DEF BufferTypes
<1>8. CopiesKnown'
  <2>1. SUFFICES ASSUME NEW b \in DOMAIN buf, NEW x \in Stream, NEW i \in Nat, CopyAt(x, i, b)'
                 PROVE  /\ buf[b].registered /\ b \notin pooled
                        /\ \/ b \notin Queued /\ x \in buf[b].unrecorded
                           \/ buf[b].recorded /\ EventAfter(x, i, b)'
                           \/ b \in Queued /\ ~buf[b].recorded /\ DeviceOf[x] = buf[b].device
    BY <1>2 DEF CopiesKnown
  <2>2. CASE x # s
    BY <1>5, <1>7, <2>1, <2>2 DEF CopiesKnown
  <2>3. CASE x = s
    <3>1. CopyAt(s, i + 1, b) /\ i + 1 \in Nat
      BY <1>6, <1>7, <2>1, <2>3
    <3> QED
      BY <1>6, <1>7, <2>3, <3>1 DEF CopiesKnown
  <2> QED
    BY <2>2, <2>3
<1>9. SyncsCover'
  <2>1. SUFFICES ASSUME NEW c \in DOMAIN cleaners, NEW b \in ToSet(cleaners[c].batch),
                        NeedsSync(b), NEW x \in Stream, NEW i \in Nat, CopyAt(x, i, b)'
                 PROVE  /\ ~(Synced(c, b) /\ cleaners[c].synced[buf[b].device])
                        /\ cleaners[c].pc = "synchronize"
                              /\ buf[b].device = buf[Current(c)].device => i <= ahead'[c][x]
    BY <1>2 DEF SyncsCover, NeedsSync, Synced, Current
  <2>2. c \in Cleaner /\ b \in Buffer
    BY <1>7, BatchLive DEF CleanerTypes, CleanerType
  <2>3. CASE x # s
    <3>1. CopyAt(x, i, b) /\ ahead'[c][x] = ahead[c][x]
      BY <1>3, <1>5, <2>1, <2>2, <2>3
    <3> QED
      BY <2>1, <3>1 DEF SyncsCover
  <2>4. CASE x = s
    <3>1. CopyAt(s, i + 1, b) /\ i + 1 \in Nat
      BY <1>6, <2>1, <2>2, <2>4
    <3>2. /\ ~(Synced(c, b) /\ cleaners[c].synced[buf[b].device])
          /\ cleaners[c].pc = "synchronize"
                /\ buf[b].device = buf[Current(c)].device => i + 1 <= ahead[c][s]
      BY <2>1, <3>1 DEF SyncsCover
    <3> QED
      BY <1>3, <2>2, <2>4, <3>2
  <2> QED
    BY <2>3, <2>4
<1> QED
  BY <1>2, <1>4, <1>8, <1>9

-----------------------------------------------------------------------------
(* The cleaner thread.                                                      *)

(* A step of cleaner c that keeps its line and who it serves.               *)
LEMMA SameLine ==
  ASSUME IInv, NEW c \in DOMAIN cleaners,
         UNCHANGED <<queue, buf, pool_vars, slot, closers, quiet>>,
         ahead' \in [Cleaner -> [Stream -> Nat]],
         NEW rec, cleaners' = [cleaners EXCEPT ![c] = rec],
         rec = [pc |-> rec.pc, channel |-> rec.channel, open |-> rec.open,
                batch |-> rec.batch, synced |-> rec.synced],
         rec.pc \in {"receive", "coalesce", "drain", "synchronize"},
         rec.channel \in Seq(Buffer), rec.batch \in Seq(Buffer),
         rec.pc \in {"receive", "coalesce"} => rec.synced = EmptyMap,
         rec.pc = "receive" => rec.batch = <<>>,
         rec.pc = "synchronize" => rec.batch # <<>>,
         rec.open = cleaners[c].open,
         ToSet(rec.channel) \cup ToSet(rec.batch) = Line(c),
         NoDup(rec.channel), NoDup(rec.batch), ToSet(rec.channel) \cap ToSet(rec.batch) = {}
  PROVE  /\ BufferTypes' /\ WorkTypes' /\ CleanerTypes' /\ Places' /\ CopiesKnown'
         /\ PoolClean' /\ PoolBytes' /\ Closing'
         /\ cleaners'[c] = rec /\ \A d \in DOMAIN cleaners \ {c} : cleaners'[d] = cleaners[d]
<1> USE DEF IInv
<1>1. /\ UNCHANGED <<queue, buf, pooled, total_bytes, max_bytes, slot, closers, quiet>>
      /\ DOMAIN cleaners' = DOMAIN cleaners
      /\ cleaners'[c] = rec /\ \A d \in DOMAIN cleaners \ {c} : cleaners'[d] = cleaners[d]
  BY DEF pool_vars
<1>2. \A d \in DOMAIN cleaners : Line(d)' = Line(d)
  BY <1>1 DEF Line
<1>3. Queued' = Queued
  BY <1>1, <1>2 DEF Queued, Line
<1>4. Held' = Held
  BY <1>1, <1>3 DEF Held
<1>5. Bytes(pooled)' = Bytes(pooled)
  BY <1>1 DEF Bytes
<1>6. BufferTypes' /\ WorkTypes' /\ PoolClean' /\ PoolBytes'
  BY <1>1, <1>5 DEF BufferTypes, WorkTypes, PoolClean, PoolBytes, SizeOf
<1>7. CleanerTypes'
  BY <1>1 DEF CleanerTypes, CleanerType
<1>8. Places'
  <2>1. \A d \in DOMAIN cleaners : Line(d)' \subseteq DOMAIN buf' \ pooled'
    BY <1>1, <1>2 DEF Places
  <2>2. \A d \in DOMAIN cleaners :
          /\ NoDup(cleaners'[d].channel) /\ NoDup(cleaners'[d].batch)
          /\ ToSet(cleaners'[d].channel) \cap ToSet(cleaners'[d].batch) = {}
    BY <1>1 DEF Places
  <2>3. \A d, e \in DOMAIN cleaners : d # e => Line(d)' \cap Line(e)' = {}
    BY <1>2 DEF Places
  <2> QED
    BY <1>1, <2>1, <2>2, <2>3 DEF Places
<1>9. CopiesKnown'
  BY <1>1, <1>3 DEF CopiesKnown, CopyAt, EventAfter
<1>10. Closing'
  BY <1>1, <1>4 DEF Closing
<1> QED
  BY <1>1, <1>6, <1>7, <1>8, <1>9, <1>10

(* A step of cleaner c on its line leaves the waiting of the others alone.  *)
LEMMA OthersSynced ==
  ASSUME IInv, NEW c \in DOMAIN cleaners, UNCHANGED <<queue, buf>>,
         DOMAIN cleaners' = DOMAIN cleaners,
         \A d \in DOMAIN cleaners \ {c} : cleaners'[d] = cleaners[d] /\ ahead'[d] = ahead[d],
         \A b \in ToSet(cleaners'[c].batch) : NeedsSync(b) =>
           \A s \in Stream, i \in Nat : CopyAt(s, i, b) =>
             /\ ~(Synced(c, b)' /\ cleaners'[c].synced[buf[b].device])
             /\ cleaners'[c].pc = "synchronize" /\ buf[b].device = buf[Current(c)'].device =>
                  i <= ahead'[c][s]
  PROVE  SyncsCover'
<1>1. SUFFICES ASSUME NEW d \in DOMAIN cleaners, NEW b \in ToSet(cleaners'[d].batch),
                      NeedsSync(b), NEW s \in Stream, NEW i \in Nat, CopyAt(s, i, b)
               PROVE  /\ ~(Synced(d, b)' /\ cleaners'[d].synced[buf[b].device])
                      /\ cleaners'[d].pc = "synchronize"
                           /\ buf[b].device = buf[Current(d)'].device => i <= ahead'[d][s]
  BY DEF SyncsCover, NeedsSync, CopyAt
<1>2. CASE d = c
  BY <1>1, <1>2
<1>3. CASE d # c
  <2>1. /\ cleaners'[d] = cleaners[d] /\ ahead'[d] = ahead[d] /\ buf' = buf
        /\ Synced(d, b)' <=> Synced(d, b)
        /\ Current(d)' = Current(d)
    BY <1>3 DEF Synced, Current
  <2> QED
    BY <1>1, <2>1 DEF IInv, SyncsCover
<1> QED
  BY <1>2, <1>3

LEMMA CleanerOf ==
  ASSUME CleanerTypes, Places, NEW c \in DOMAIN cleaners
  PROVE  /\ c \in Cleaner
         /\ cleaners[c] = [pc |-> cleaners[c].pc, channel |-> cleaners[c].channel,
                           open |-> cleaners[c].open, batch |-> cleaners[c].batch,
                           synced |-> cleaners[c].synced]
         /\ cleaners[c].channel \in Seq(Buffer) /\ cleaners[c].batch \in Seq(Buffer)
         /\ NoDup(cleaners[c].channel) /\ NoDup(cleaners[c].batch)
         /\ ToSet(cleaners[c].channel) \cap ToSet(cleaners[c].batch) = {}
  BY DEF CleanerTypes, CleanerType, Places

LEMMA ReceiveIInv ==
  ASSUME IInv, NEW c \in DOMAIN cleaners, receive(c)
  PROVE  IInv'
<1> USE DEF IInv
<1> DEFINE r == cleaners[c]
           rec == [r EXCEPT !.pc = "coalesce", !.channel = Tail(@),
                            !.batch = Append(@, Head(r.channel))]
<1>1. /\ r.channel # <<>> /\ r.pc \in {"receive", "coalesce"}
      /\ cleaners' = [cleaners EXCEPT ![c] = rec]
      /\ UNCHANGED <<queue, buf, pool_vars, slot, closers, quiet>> /\ ahead' = ahead
  BY DEF receive, work
<1>2. /\ r = [pc |-> r.pc, channel |-> r.channel, open |-> r.open, batch |-> r.batch,
              synced |-> r.synced]
      /\ r.channel \in Seq(Buffer) /\ r.batch \in Seq(Buffer)
      /\ NoDup(r.channel) /\ NoDup(r.batch)
      /\ ToSet(r.channel) \cap ToSet(r.batch) = {}
      /\ r.synced = EmptyMap
  BY <1>1, CleanerOf DEF CleanerTypes, CleanerType
<1>3. rec = [pc |-> "coalesce", channel |-> Tail(r.channel), open |-> r.open,
             batch |-> Append(r.batch, Head(r.channel)), synced |-> r.synced]
  <2>1. rec = [r EXCEPT !.pc = "coalesce", !.channel = Tail(@),
                        !.batch = Append(@, Head(r.channel))]
    OBVIOUS
  <2> HIDE DEF rec, r
  <2> QED
    BY <1>2, <2>1
<1> HIDE DEF rec
<1>4. /\ rec = [pc |-> rec.pc, channel |-> rec.channel, open |-> rec.open,
                batch |-> rec.batch, synced |-> rec.synced]
      /\ rec.pc = "coalesce" /\ rec.channel = Tail(r.channel)
      /\ rec.open = r.open /\ rec.batch = Append(r.batch, Head(r.channel))
      /\ rec.synced = EmptyMap
  BY <1>2, <1>3
<1>5. /\ Tail(r.channel) \in Seq(Buffer) /\ Head(r.channel) \in Buffer
      /\ Head(r.channel) \in ToSet(r.channel)
      /\ NoDup(Tail(r.channel)) /\ ToSet(Tail(r.channel)) = ToSet(r.channel) \ {Head(r.channel)}
  BY <1>1, <1>2, SetOfTail
<1>6. /\ rec.batch \in Seq(Buffer) /\ NoDup(rec.batch)
      /\ ToSet(rec.batch) = ToSet(r.batch) \cup {Head(r.channel)}
  BY <1>2, <1>4, <1>5, SetOfAppend
<1>7. /\ ToSet(rec.channel) \cup ToSet(rec.batch) = Line(c)
      /\ ToSet(rec.channel) \cap ToSet(rec.batch) = {}
  BY <1>2, <1>4, <1>5, <1>6 DEF Line
<1>8. ahead' \in [Cleaner -> [Stream -> Nat]]
  BY <1>1 DEF WorkTypes
<1>9. /\ BufferTypes' /\ WorkTypes' /\ CleanerTypes' /\ Places' /\ CopiesKnown'
      /\ PoolClean' /\ PoolBytes' /\ Closing'
      /\ cleaners'[c] = rec /\ \A d \in DOMAIN cleaners \ {c} : cleaners'[d] = cleaners[d]
  <2> HIDE DEF r, IInv
  <2> QED
    BY <1>1, <1>4, <1>5, <1>6, <1>7, <1>8, SameLine DEF r
<1>10. SyncsCover'
  <2>1. DOMAIN cleaners'[c].synced = {} /\ cleaners'[c].pc = "coalesce"
    BY <1>4, <1>9 DEF EmptyMap
  <2>2. \A b : ~Synced(c, b)'
    BY <2>1 DEF Synced
  <2>3. DOMAIN cleaners' = DOMAIN cleaners
    BY <1>1
  <2> QED
    BY <1>1, <1>9, <2>1, <2>2, <2>3, OthersSynced
<1> QED
  BY <1>9, <1>10

LEMMA CloseBatchIInv ==
  ASSUME IInv, NEW c \in DOMAIN cleaners, close_batch(c)
  PROVE  IInv'
<1> USE DEF IInv
<1> DEFINE r == cleaners[c]
           rec == [r EXCEPT !.pc = "drain"]
<1>1. /\ r.pc = "coalesce" /\ cleaners' = [cleaners EXCEPT ![c] = rec]
      /\ UNCHANGED <<queue, buf, pool_vars, slot, closers, quiet>> /\ ahead' = ahead
  BY DEF close_batch, work
<1>2. /\ r = [pc |-> r.pc, channel |-> r.channel, open |-> r.open, batch |-> r.batch,
              synced |-> r.synced]
      /\ r.channel \in Seq(Buffer) /\ r.batch \in Seq(Buffer)
      /\ NoDup(r.channel) /\ NoDup(r.batch)
      /\ ToSet(r.channel) \cap ToSet(r.batch) = {}
      /\ r.synced = EmptyMap
  BY <1>1, CleanerOf DEF CleanerTypes, CleanerType
<1>3. rec = [pc |-> "drain", channel |-> r.channel, open |-> r.open,
             batch |-> r.batch, synced |-> r.synced]
  BY <1>2
<1> HIDE DEF rec
<1>4. /\ rec = [pc |-> rec.pc, channel |-> rec.channel, open |-> rec.open,
                batch |-> rec.batch, synced |-> rec.synced]
      /\ rec.pc = "drain" /\ rec.channel = r.channel /\ rec.open = r.open
      /\ rec.batch = r.batch /\ rec.synced = EmptyMap
  BY <1>2, <1>3
<1>5. ToSet(rec.channel) \cup ToSet(rec.batch) = Line(c)
  BY <1>4 DEF Line
<1>6. ahead' \in [Cleaner -> [Stream -> Nat]]
  BY <1>1 DEF WorkTypes
<1>7. /\ BufferTypes' /\ WorkTypes' /\ CleanerTypes' /\ Places' /\ CopiesKnown'
      /\ PoolClean' /\ PoolBytes' /\ Closing'
      /\ cleaners'[c] = rec /\ \A d \in DOMAIN cleaners \ {c} : cleaners'[d] = cleaners[d]
  <2> HIDE DEF r, IInv
  <2> QED
    BY <1>1, <1>2, <1>4, <1>5, <1>6, SameLine DEF r
<1>8. SyncsCover'
  <2>1. DOMAIN cleaners'[c].synced = {} /\ cleaners'[c].pc = "drain"
    BY <1>4, <1>7 DEF EmptyMap
  <2>2. \A b : ~Synced(c, b)'
    BY <2>1 DEF Synced
  <2>3. DOMAIN cleaners' = DOMAIN cleaners
    BY <1>1
  <2> QED
    BY <1>1, <1>7, <2>1, <2>2, <2>3, OthersSynced
<1> QED
  BY <1>7, <1>8

LEMMA ExitIInv ==
  ASSUME IInv, NEW c \in DOMAIN cleaners, exit(c)
  PROVE  IInv'
<1> USE DEF IInv
<1>1. /\ cleaners[c].pc = "receive" /\ ~cleaners[c].open /\ cleaners[c].channel = <<>>
      /\ UNCHANGED <<queue, ahead, buf, pooled, total_bytes, max_bytes, slot, closers, quiet>>
      /\ DOMAIN cleaners' = DOMAIN cleaners \ {c}
      /\ \A d \in DOMAIN cleaners \ {c} : cleaners'[d] = cleaners[d]
  BY DEF exit, Without, work, pool_vars
<1>2. cleaners[c].batch = <<>>
  BY <1>1 DEF CleanerTypes, CleanerType
<1>3. Line(c) = {}
  BY <1>1, <1>2, SetOfEmpty DEF Line
<1>4. \A d \in DOMAIN cleaners' : Line(d)' = Line(d)
  BY <1>1 DEF Line
<1>5. Queued' = Queued
  BY <1>1, <1>3, <1>4 DEF Queued, Line
<1>6. Held' = Held
  BY <1>1, <1>5 DEF Held
<1>7. Bytes(pooled)' = Bytes(pooled)
  BY <1>1 DEF Bytes
<1>8. BufferTypes' /\ WorkTypes' /\ PoolClean' /\ PoolBytes'
  BY <1>1, <1>7 DEF BufferTypes, WorkTypes, PoolClean, PoolBytes, SizeOf
<1>9. CleanerTypes'
  BY <1>1 DEF CleanerTypes, CleanerType
<1>10. Places'
  BY <1>1, <1>4 DEF Places
<1>11. CopiesKnown'
  BY <1>1, <1>5 DEF CopiesKnown, CopyAt, EventAfter
<1>12. Closing'
  BY <1>1, <1>6 DEF Closing
<1>13. SyncsCover'
  BY <1>1 DEF SyncsCover, NeedsSync, Synced, Current, CopyAt
<1> QED
  BY <1>8, <1>9, <1>10, <1>11, <1>12, <1>13

(* A buffer that needs a synchronisation has copies on its device only.     *)
LEMMA CopiesOnDevice ==
  ASSUME CopiesKnown, CleanerTypes, Places, NEW c \in DOMAIN cleaners,
         NEW b \in ToSet(cleaners[c].batch), NeedsSync(b),
         NEW s \in Stream, NEW i \in Nat, CopyAt(s, i, b)
  PROVE  DeviceOf[s] = buf[b].device
<1>1. b \in DOMAIN buf /\ b \in Queued /\ ~buf[b].recorded
  BY BatchLive DEF NeedsSync
<1> QED
  BY <1>1 DEF CopiesKnown

LEMMA DeviceSynchronizeIInv ==
  ASSUME IInv, NEW c \in DOMAIN cleaners, NEW b \in DOMAIN buf, device_synchronize(c, b)
  PROVE  IInv'
<1> USE DEF IInv
<1> DEFINE r == cleaners[c]
           rec == [r EXCEPT !.pc = "synchronize"]
<1>1. /\ r.pc = "drain" /\ r.batch # <<>> /\ b = Current(c)
      /\ cleaners' = [cleaners EXCEPT ![c] = rec]
      /\ UNCHANGED <<queue, buf, pool_vars, slot, closers, quiet>>
      /\ ahead' = [ahead EXCEPT ![c] =
           [s \in Stream |-> IF DeviceOf[s] = buf[b].device THEN Len(queue[s]) ELSE 0]]
  BY DEF device_synchronize, Draining
<1>2. /\ r = [pc |-> r.pc, channel |-> r.channel, open |-> r.open, batch |-> r.batch,
              synced |-> r.synced]
      /\ r.channel \in Seq(Buffer) /\ r.batch \in Seq(Buffer)
      /\ NoDup(r.channel) /\ NoDup(r.batch)
      /\ ToSet(r.channel) \cap ToSet(r.batch) = {}
  BY <1>1, CleanerOf
<1>3. rec = [pc |-> "synchronize", channel |-> r.channel, open |-> r.open,
             batch |-> r.batch, synced |-> r.synced]
  BY <1>2
<1> HIDE DEF rec
<1>4. /\ rec = [pc |-> rec.pc, channel |-> rec.channel, open |-> rec.open,
                batch |-> rec.batch, synced |-> rec.synced]
      /\ rec.pc = "synchronize" /\ rec.channel = r.channel /\ rec.open = r.open
      /\ rec.batch = r.batch /\ rec.synced = r.synced
  BY <1>2, <1>3
<1>5. ToSet(rec.channel) \cup ToSet(rec.batch) = Line(c)
  BY <1>4 DEF Line
<1>6. /\ ahead' \in [Cleaner -> [Stream -> Nat]]
      /\ \A d \in Cleaner \ {c} : ahead'[d] = ahead[d]
      /\ \A s \in Stream : DeviceOf[s] = buf[b].device => ahead'[c][s] = Len(queue[s])
  <2>1. \A s \in Stream : Len(queue[s]) \in Nat
    BY DEF WorkTypes
  <2>2. c \in Cleaner /\ ahead \in [Cleaner -> [Stream -> Nat]]
    BY CleanerOf DEF WorkTypes
  <2> QED
    BY <1>1, <2>1, <2>2
<1>7. /\ BufferTypes' /\ WorkTypes' /\ CleanerTypes' /\ Places' /\ CopiesKnown'
      /\ PoolClean' /\ PoolBytes' /\ Closing'
      /\ cleaners'[c] = rec /\ \A d \in DOMAIN cleaners \ {c} : cleaners'[d] = cleaners[d]
  <2> HIDE DEF r, IInv
  <2> QED
    BY <1>1, <1>2, <1>4, <1>5, <1>6, SameLine DEF r
<1>8. SyncsCover'
  <2>1. ASSUME NEW q \in ToSet(r.batch), NeedsSync(q), NEW s \in Stream, NEW i \in Nat,
               CopyAt(s, i, q)
        PROVE  /\ ~(Synced(c, q)' /\ cleaners'[c].synced[buf[q].device])
               /\ buf[q].device = buf[b].device => i <= ahead'[c][s]
    <3>1. Synced(c, q)' => Synced(c, q)
      BY <1>1, <1>4, <1>7 DEF Synced
    <3>2. DeviceOf[s] = buf[q].device
      BY <2>1, CopiesOnDevice
    <3>3. i <= Len(queue[s])
      BY <2>1 DEF CopyAt, WorkTypes
    <3>4. ~(Synced(c, q) /\ r.synced[buf[q].device])
      BY <2>1 DEF SyncsCover
    <3> QED
      BY <1>4, <1>6, <1>7, <3>1, <3>2, <3>3, <3>4
  <2>2. Current(c)' = b
    BY <1>1, <1>4, <1>7 DEF Current
  <2>3. DOMAIN cleaners' = DOMAIN cleaners /\ DOMAIN cleaners \subseteq Cleaner
    BY <1>1 DEF CleanerTypes, CleanerType
  <2> QED
    BY <1>1, <1>4, <1>6, <1>7, <2>1, <2>2, <2>3, OthersSynced
<1> QED
  BY <1>7, <1>8

LEMMA SynchronizedIInv ==
  ASSUME IInv, NEW c \in DOMAIN cleaners, NEW b \in DOMAIN buf, synchronized(c, b)
  PROVE  IInv'
<1> USE DEF IInv
<1> DEFINE r == cleaners[c]
<1>1. PICK ok \in BOOLEAN :
        /\ ok => ahead[c] = NoWait
        /\ cleaners' = [cleaners EXCEPT ![c].pc = "drain",
                          ![c].synced = With(@, buf[b].device, ok)]
  BY DEF synchronized
<1> DEFINE rec == [r EXCEPT !.pc = "drain", !.synced = With(@, buf[b].device, ok)]
<1>2. /\ r.pc = "synchronize" /\ b = Current(c)
      /\ cleaners' = [cleaners EXCEPT ![c] = rec]
      /\ UNCHANGED <<queue, buf, pool_vars, slot, closers, quiet>>
      /\ ahead' = [ahead EXCEPT ![c] = NoWait]
  BY <1>1 DEF synchronized
<1>3. /\ r = [pc |-> r.pc, channel |-> r.channel, open |-> r.open, batch |-> r.batch,
              synced |-> r.synced]
      /\ r.channel \in Seq(Buffer) /\ r.batch \in Seq(Buffer)
      /\ NoDup(r.channel) /\ NoDup(r.batch)
      /\ ToSet(r.channel) \cap ToSet(r.batch) = {}
  BY CleanerOf
<1>4. rec = [pc |-> "drain", channel |-> r.channel, open |-> r.open,
             batch |-> r.batch, synced |-> With(r.synced, buf[b].device, ok)]
  <2>1. rec = [r EXCEPT !.pc = "drain", !.synced = With(@, buf[b].device, ok)]
    OBVIOUS
  <2> HIDE DEF rec, r
  <2> QED
    BY <1>3, <2>1
<1> HIDE DEF rec
<1>5. /\ rec = [pc |-> rec.pc, channel |-> rec.channel, open |-> rec.open,
                batch |-> rec.batch, synced |-> rec.synced]
      /\ rec.pc = "drain" /\ rec.channel = r.channel /\ rec.open = r.open
      /\ rec.batch = r.batch /\ rec.synced = With(r.synced, buf[b].device, ok)
  BY <1>3, <1>4
<1>6. ToSet(rec.channel) \cup ToSet(rec.batch) = Line(c)
  BY <1>5 DEF Line
<1>7. /\ ahead' \in [Cleaner -> [Stream -> Nat]]
      /\ \A d \in Cleaner \ {c} : ahead'[d] = ahead[d]
  <2>1. NoWait \in [Stream -> Nat]
    BY DEF NoWait
  <2>2. c \in Cleaner /\ ahead \in [Cleaner -> [Stream -> Nat]]
    BY CleanerOf DEF WorkTypes
  <2> QED
    BY <1>2, <2>1, <2>2
<1>8. /\ BufferTypes' /\ WorkTypes' /\ CleanerTypes' /\ Places' /\ CopiesKnown'
      /\ PoolClean' /\ PoolBytes' /\ Closing'
      /\ cleaners'[c] = rec /\ \A d \in DOMAIN cleaners \ {c} : cleaners'[d] = cleaners[d]
  <2> HIDE DEF r, IInv
  <2> QED
    BY <1>2, <1>3, <1>5, <1>6, <1>7, SameLine DEF r
<1>9. SyncsCover'
  <2>1. ASSUME NEW q \in ToSet(r.batch), NeedsSync(q), NEW s \in Stream, NEW i \in Nat,
               CopyAt(s, i, q)
        PROVE  ~(Synced(c, q)' /\ cleaners'[c].synced[buf[q].device])
    <3>1. CASE buf[q].device = buf[b].device
      <4>1. i <= ahead[c][s]
        BY <1>2, <2>1, <3>1 DEF SyncsCover
      <4>2. i \in 1 .. Len(queue[s])
        BY <2>1 DEF CopyAt
      <4>3. ~ok
        BY <1>1, <4>1, <4>2 DEF NoWait
      <4>4. cleaners'[c].synced[buf[q].device] = ok
        BY <1>5, <1>8, <3>1 DEF With
      <4> QED
        BY <4>3, <4>4
    <3>2. CASE buf[q].device # buf[b].device
      <4>1. /\ buf[q].device \in DOMAIN cleaners'[c].synced <=> buf[q].device \in DOMAIN r.synced
            /\ buf[q].device \in DOMAIN r.synced =>
                 cleaners'[c].synced[buf[q].device] = r.synced[buf[q].device]
        BY <1>5, <1>8, <3>2 DEF With
      <4>2. ~(Synced(c, q) /\ r.synced[buf[q].device])
        BY <2>1 DEF SyncsCover
      <4>3. buf' = buf
        BY <1>2
      <4> QED
        BY <4>1, <4>2, <4>3 DEF Synced
    <3> QED
      BY <3>1, <3>2
  <2>2. DOMAIN cleaners' = DOMAIN cleaners /\ DOMAIN cleaners \subseteq Cleaner
    BY <1>2 DEF CleanerTypes, CleanerType
  <2> QED
    BY <1>2, <1>5, <1>7, <1>8, <2>1, <2>2, OthersSynced
<1> QED
  BY <1>8, <1>9

-----------------------------------------------------------------------------
(* The pooled bytes.                                                        *)

LEMMA BytesCounted ==
  ASSUME NEW p, NEW n \in Nat
  PROVE  IsFiniteSet({p} \X (1 .. n)) /\ Cardinality({p} \X (1 .. n)) = n
<1> DEFINE f == [i \in 1 .. n |-> <<p, i>>]
<1>1. IsFiniteSet(1 .. n) /\ Cardinality(1 .. n) = n
  BY FS_Interval, SMT
<1>2. /\ f \in [1 .. n -> {p} \X (1 .. n)]
      /\ \A y \in {p} \X (1 .. n) : \E i \in 1 .. n : f[i] = y
      /\ \A i, j \in 1 .. n : f[i] = f[j] => i = j
  OBVIOUS
<1>3. f \in Surjection(1 .. n, {p} \X (1 .. n)) /\ f \in Injection(1 .. n, {p} \X (1 .. n))
  BY <1>2 DEF Surjection, Injection, IsInjective
<1> QED
  BY <1>1, <1>3, FS_Surjection

LEMMA DisjointUnion ==
  ASSUME NEW S, NEW T, IsFiniteSet(S), IsFiniteSet(T), S \cap T = {}
  PROVE  /\ IsFiniteSet(S \cup T)
         /\ Cardinality(S \cup T) = Cardinality(S) + Cardinality(T)
<1>1. Cardinality(S) \in Nat /\ Cardinality(T) \in Nat /\ Cardinality(S \cap T) = 0
  BY FS_CardinalityType, FS_EmptySet
<1>2. /\ IsFiniteSet(S \cup T)
      /\ Cardinality(S \cup T) = Cardinality(S) + Cardinality(T) - Cardinality(S \cap T)
  BY FS_Union
<1> QED
  BY <1>1, <1>2

(* Taking buffers E out of the pool takes their bytes out of the total.     *)
LEMMA BytesLeft ==
  ASSUME PoolBytes, NEW E \in SUBSET pooled
  PROVE  /\ IsFiniteSet(Bytes(pooled \ E))
         /\ SizeOf(E) \in Nat /\ SizeOf(pooled \ E) \in Nat
         /\ SizeOf(pooled) = SizeOf(pooled \ E) + SizeOf(E)
         /\ SizeOf(pooled \ E) = total_bytes - SizeOf(E)
         /\ total_bytes \in Nat
<1>1. /\ Bytes(pooled) = Bytes(pooled \ E) \cup Bytes(E)
      /\ Bytes(pooled \ E) \cap Bytes(E) = {}
  BY DEF Bytes
<1>2. IsFiniteSet(Bytes(pooled \ E)) /\ IsFiniteSet(Bytes(E))
  BY <1>1, FS_Subset DEF PoolBytes
<1>3. SizeOf(E) \in Nat /\ SizeOf(pooled \ E) \in Nat
  BY <1>2, FS_CardinalityType DEF SizeOf
<1>4. SizeOf(pooled) = SizeOf(pooled \ E) + SizeOf(E)
  BY <1>1, <1>2, DisjointUnion DEF SizeOf
<1> QED
  BY <1>2, <1>3, <1>4 DEF PoolBytes

-----------------------------------------------------------------------------
(* The end of a buffer: pooled, or freed, with the cleaner's batch shorter. *)

(* A cleaner that finished with its oldest buffer.                          *)
LEMMA FinishLine ==
  ASSUME CleanerTypes, Places, NEW c \in DOMAIN cleaners, NEW b, Draining(c, b), Finish(c)
  PROVE  /\ CleanerTypes'
         /\ b \in Queued
         /\ DOMAIN cleaners' = DOMAIN cleaners
         /\ \A d \in DOMAIN cleaners \ {c} : cleaners'[d] = cleaners[d]
         /\ cleaners'[c].open = cleaners[c].open
         /\ cleaners'[c].pc # "synchronize"
         /\ cleaners'[c].synced \in {cleaners[c].synced, EmptyMap}
         /\ ToSet(cleaners'[c].batch) = ToSet(cleaners[c].batch) \ {b}
         /\ Line(c)' = Line(c) \ {b} /\ \A d \in DOMAIN cleaners \ {c} : Line(d)' = Line(d)
         /\ NoDup(cleaners'[c].channel) /\ NoDup(cleaners'[c].batch)
         /\ ToSet(cleaners'[c].channel) \cap ToSet(cleaners'[c].batch) = {}
         /\ Queued' = Queued \ {b}
<1> DEFINE r == cleaners[c]
           rest == Tail(r.batch)
<1>1. /\ r.pc = "drain" /\ r.batch # <<>> /\ b = Head(r.batch)
      /\ cleaners' = [cleaners EXCEPT ![c] =
           [r EXCEPT !.batch = rest, !.pc = IF rest = <<>> THEN "receive" ELSE "drain",
                     !.synced = IF rest = <<>> THEN EmptyMap ELSE @]]
  BY DEF Draining, Finish, Current
<1>2. /\ r = [pc |-> r.pc, channel |-> r.channel, open |-> r.open, batch |-> r.batch,
              synced |-> r.synced]
      /\ r.channel \in Seq(Buffer) /\ r.batch \in Seq(Buffer)
      /\ NoDup(r.channel) /\ NoDup(r.batch)
      /\ ToSet(r.channel) \cap ToSet(r.batch) = {}
  BY CleanerOf
<1>3. cleaners'[c] = [pc |-> IF rest = <<>> THEN "receive" ELSE "drain",
                      channel |-> r.channel, open |-> r.open, batch |-> rest,
                      synced |-> IF rest = <<>> THEN EmptyMap ELSE r.synced]
  BY <1>1, <1>2
<1>4. /\ rest \in Seq(Buffer) /\ NoDup(rest) /\ ToSet(rest) = ToSet(r.batch) \ {b}
      /\ b \in ToSet(r.batch)
  BY <1>1, <1>2, SetOfTail
<1>5. /\ DOMAIN cleaners' = DOMAIN cleaners
      /\ \A d \in DOMAIN cleaners \ {c} : cleaners'[d] = cleaners[d]
  BY <1>1
<1>6. CleanerTypes'
  <2>1. CleanerType(cleaners'[c])
    <3>1. CASE rest = <<>>
      BY <1>2, <1>3, <1>4, <3>1 DEF CleanerType
    <3>2. CASE rest # <<>>
      BY <1>2, <1>3, <1>4, <3>2 DEF CleanerType
    <3> QED
      BY <3>1, <3>2
  <2> QED
    BY <1>5, <2>1 DEF CleanerTypes
<1>7. Line(c)' = Line(c) \ {b} /\ \A d \in DOMAIN cleaners \ {c} : Line(d)' = Line(d)
  BY <1>2, <1>3, <1>4, <1>5 DEF Line
<1>8. b \in Line(c) /\ b \in Queued
  BY <1>4 DEF Line, Queued
<1>9. Queued' = Queued \ {b}
  <2>1. \A d \in DOMAIN cleaners \ {c} : b \notin Line(d)
    BY <1>8 DEF Places
  <2>2. /\ Queued = UNION {Line(d) : d \in DOMAIN cleaners}
        /\ Queued' = UNION {Line(d)' : d \in DOMAIN cleaners}
    BY <1>5 DEF Queued, Line
  <2> QED
    BY <1>7, <2>1, <2>2
<1>10. /\ cleaners'[c].channel = r.channel /\ cleaners'[c].batch = rest
       /\ cleaners'[c].open = r.open /\ cleaners'[c].pc # "synchronize"
       /\ cleaners'[c].synced \in {r.synced, EmptyMap}
  BY <1>3
<1> QED
  BY <1>2, <1>4, <1>5, <1>6, <1>7, <1>8, <1>9, <1>10

(* Nothing is left of the copies out of a buffer the cleaner may pool.      *)
LEMMA DrainedNoCopies ==
  ASSUME IInv, NEW c \in DOMAIN cleaners, NEW b \in DOMAIN buf, Draining(c, b), Drained(c, b)
  PROVE  \A s \in Stream, i \in Nat : ~CopyAt(s, i, b)
<1> USE DEF IInv
<1>1. SUFFICES ASSUME NEW s \in Stream, NEW i \in Nat, CopyAt(s, i, b) PROVE FALSE
  OBVIOUS
<1>2. b \in ToSet(cleaners[c].batch) /\ b \in Queued
  BY BatchLive DEF Draining
<1>3. /\ buf[b].registered
      /\ \/ buf[b].recorded /\ EventAfter(s, i, b)
         \/ ~buf[b].recorded
  BY <1>1, <1>2 DEF CopiesKnown
<1>4. CASE buf[b].recorded
  <2>1. EventAfter(s, i, b) /\ ~Pending(Event(b))
    BY <1>3, <1>4 DEF Drained
  <2> QED
    BY <2>1 DEF EventAfter, Pending, Contains
<1>5. CASE ~buf[b].recorded
  <2>1. NeedsSync(b) /\ Synced(c, b) /\ cleaners[c].synced[buf[b].device]
    BY <1>3, <1>5 DEF Drained, NeedsSync
  <2> QED
    BY <1>1, <1>2, <2>1 DEF SyncsCover
<1> QED
  BY <1>4, <1>5

(* The cleaner is done with b, and buffers E went from the pool.            *)
LEMMA FinishIInv ==
  ASSUME IInv, NEW c \in DOMAIN cleaners, NEW b \in DOMAIN buf, Draining(c, b), Finish(c),
         UNCHANGED <<queue, ahead, slot, closers, quiet>>,
         NEW E \in SUBSET pooled,
         \/ /\ DOMAIN buf' = DOMAIN buf \ E /\ pooled' = (pooled \ E) \cup {b}
            /\ buf'[b] = Guard(buf[b].size, TRUE, 0)
            /\ \A s \in Stream, i \in Nat : ~CopyAt(s, i, b)
         \/ DOMAIN buf' = DOMAIN buf \ (E \cup {b}) /\ pooled' = pooled \ E,
         \A q \in DOMAIN buf' \ {b} : buf'[q] = buf[q],
         PoolBytes'
  PROVE  IInv'
<1> USE DEF IInv
<1>1. /\ CleanerTypes'
      /\ b \in Queued
      /\ DOMAIN cleaners' = DOMAIN cleaners
      /\ \A d \in DOMAIN cleaners \ {c} : cleaners'[d] = cleaners[d]
      /\ cleaners'[c].open = cleaners[c].open
      /\ cleaners'[c].pc # "synchronize"
      /\ cleaners'[c].synced \in {cleaners[c].synced, EmptyMap}
      /\ ToSet(cleaners'[c].batch) = ToSet(cleaners[c].batch) \ {b}
      /\ Line(c)' = Line(c) \ {b} /\ \A d \in DOMAIN cleaners \ {c} : Line(d)' = Line(d)
      /\ NoDup(cleaners'[c].channel) /\ NoDup(cleaners'[c].batch)
      /\ ToSet(cleaners'[c].channel) \cap ToSet(cleaners'[c].batch) = {}
      /\ Queued' = Queued \ {b}
  BY FinishLine
<1>2. /\ \A q \in Queued : q \in DOMAIN buf /\ q \notin pooled
      /\ \A q \in Queued \ {b} : q \in DOMAIN buf' \ {b} /\ buf'[q] = buf[q]
      /\ b \notin pooled /\ b \notin E
      /\ pooled' \ {b} = pooled \ E /\ pooled \ E \subseteq DOMAIN buf' \ {b}
      /\ DOMAIN buf' \subseteq DOMAIN buf
      /\ pooled' \subseteq DOMAIN buf'
  <2>1. \A q \in Queued : q \in DOMAIN buf /\ q \notin pooled
    BY DEF Places, Line, Queued
  <2>2. pooled \subseteq DOMAIN buf
    BY DEF BufferTypes
  <2> QED
    BY <1>1, <2>1, <2>2
<1>3. BufferTypes'
  <2>1. ASSUME NEW q \in DOMAIN buf'
        PROVE  /\ buf'[q] \in [size : Nat, registered : BOOLEAN, written : Nat,
                               dirty_len : Nat, recorded : BOOLEAN,
                               unrecorded : SUBSET Stream, device : Device \cup {None}]
               /\ buf'[q].written <= buf'[q].dirty_len
               /\ buf'[q].written = 0 => buf'[q].dirty_len = buf'[q].size
    <3>1. CASE q = b
      <4>1. buf'[b] = Guard(buf[b].size, TRUE, 0) /\ buf[b].size \in Nat
        BY <2>1, <3>1, Domains
      <4> QED
        BY <3>1, <4>1 DEF Guard
    <3>2. CASE q # b
      BY <1>2, <2>1, <3>2 DEF BufferTypes
    <3> QED
      BY <3>1, <3>2
  <2> QED
    BY <1>2, <2>1 DEF BufferTypes
<1>4. WorkTypes' /\ Held' = Held
  <2>1. WorkTypes'
    BY DEF WorkTypes
  <2>2. \A x : x \in Held' <=> x \in Held
    BY <1>1, <1>2 DEF Held
  <2> QED
    BY <2>1, <2>2
<1>5. Places'
  <2>1. \A d \in DOMAIN cleaners : Line(d)' \subseteq Line(d) \ {b}
    <3>1. \A d \in DOMAIN cleaners \ {c} : b \notin Line(d)
      <4>1. b \in Line(c)
        BY BatchLive DEF Line, Draining
      <4> QED
        BY <4>1 DEF Places
    <3> QED
      BY <1>1, <3>1
  <2>2. \A d \in DOMAIN cleaners : Line(d) \subseteq Queued
    BY DEF Line, Queued
  <2>3. \A d \in DOMAIN cleaners : Line(d)' \subseteq DOMAIN buf' \ pooled'
    BY <1>2, <2>1, <2>2
  <2>4. \A d \in DOMAIN cleaners :
          /\ NoDup(cleaners'[d].channel) /\ NoDup(cleaners'[d].batch)
          /\ ToSet(cleaners'[d].channel) \cap ToSet(cleaners'[d].batch) = {}
    BY <1>1 DEF Places
  <2>5. \A d, e \in DOMAIN cleaners : d # e => Line(d)' \cap Line(e)' = {}
    BY <2>1 DEF Places
  <2> QED
    BY <1>1, <2>3, <2>4, <2>5 DEF Places
<1>6. CopiesKnown'
  <2>1. SUFFICES ASSUME NEW q \in DOMAIN buf'
                 PROVE  /\ q \in Queued' => buf'[q].unrecorded = {}
                        /\ \A x \in Stream, i \in Nat : CopyAt(x, i, q)' =>
                             /\ buf'[q].registered /\ q \notin pooled'
                             /\ \/ q \notin Queued' /\ x \in buf'[q].unrecorded
                                \/ buf'[q].recorded /\ EventAfter(x, i, q)'
                                \/ q \in Queued' /\ ~buf'[q].recorded
                                     /\ DeviceOf[x] = buf'[q].device
    BY DEF CopiesKnown
  <2>2. \A x \in Stream, i \in Nat : /\ CopyAt(x, i, q)' <=> CopyAt(x, i, q)
                                     /\ EventAfter(x, i, q)' <=> EventAfter(x, i, q)
    BY DEF CopyAt, EventAfter
  <2>3. CASE q = b
    BY <1>1, <2>1, <2>2, <2>3
  <2>4. CASE q # b
    <3>1. /\ q \in DOMAIN buf /\ buf'[q] = buf[q]
          /\ q \in Queued' <=> q \in Queued
          /\ q \notin pooled => q \notin pooled'
      BY <1>1, <1>2, <2>1, <2>4
    <3> QED
      BY <2>2, <3>1 DEF CopiesKnown
  <2> QED
    BY <2>3, <2>4
<1>7. SyncsCover'
  <2>1. SUFFICES ASSUME NEW d \in DOMAIN cleaners, NEW q \in ToSet(cleaners'[d].batch),
                        NeedsSync(q)', NEW x \in Stream, NEW i \in Nat, CopyAt(x, i, q)
                 PROVE  /\ ~(Synced(d, q)' /\ cleaners'[d].synced[buf'[q].device])
                        /\ cleaners'[d].pc = "synchronize"
                              /\ buf'[q].device = buf'[Current(d)'].device => i <= ahead[d][x]
    BY <1>1 DEF SyncsCover, CopyAt
  <2>2. q \in ToSet(cleaners[d].batch) /\ q \in Queued \ {b}
    <3>1. CASE d = c
      BY <1>1, <2>1, <3>1, BatchLive
    <3>2. CASE d # c
      <4>1. q \in ToSet(cleaners[d].batch) /\ q \in Line(d)
        BY <1>1, <2>1, <3>2 DEF Line
      <4>2. b \in Line(c)
        BY BatchLive DEF Line, Draining
      <4> QED
        BY <3>2, <4>1, <4>2 DEF Places, Queued, Line
    <3> QED
      BY <3>1, <3>2
  <2>3. buf'[q] = buf[q] /\ NeedsSync(q)
    BY <1>2, <2>1, <2>2 DEF NeedsSync
  <2>4. CASE d = c
    <3>1. Synced(c, q)' => cleaners'[c].synced = cleaners[c].synced /\ Synced(c, q)
      BY <1>1, <2>3 DEF Synced, EmptyMap
    <3> QED
      BY <1>1, <2>1, <2>2, <2>3, <2>4, <3>1 DEF SyncsCover
  <2>5. CASE d # c
    <3>1. cleaners'[d] = cleaners[d]
      BY <1>1, <2>5
    <3>2. Current(d)' = Current(d) /\ (Synced(d, q)' <=> Synced(d, q))
      BY <2>3, <3>1 DEF Current, Synced
    <3>3. buf'[Current(d)] = buf[Current(d)]
      <4>1. Current(d) \in Line(d) /\ Current(d) \in Queued
        BY <2>2, BatchLive DEF Line
      <4>2. b \in Line(c)
        BY BatchLive DEF Line, Draining
      <4>3. Current(d) # b
        BY <2>5, <4>1, <4>2 DEF Places
      <4> QED
        BY <1>2, <4>1, <4>3
    <3> QED
      BY <2>1, <2>2, <2>3, <3>1, <3>2, <3>3 DEF SyncsCover
  <2> QED
    BY <2>4, <2>5
<1>8. PoolClean'
  <2>1. ASSUME NEW q \in pooled' PROVE buf'[q].registered /\ buf'[q].written = 0
    <3>1. CASE q = b
      BY <1>2, <2>1, <3>1 DEF Guard
    <3>2. CASE q # b
      BY <1>2, <2>1, <3>2 DEF PoolClean
    <3> QED
      BY <3>1, <3>2
  <2> QED
    BY <2>1 DEF PoolClean
<1>9. Closing'
  BY <1>1, <1>4 DEF Closing
<1> QED
  BY <1>1, <1>3, <1>4, <1>5, <1>6, <1>7, <1>8, <1>9

LEMMA RecycleIInv ==
  ASSUME IInv, NEW c \in DOMAIN cleaners, NEW b \in DOMAIN buf, recycle(c, b)
  PROVE  IInv'
<1> USE DEF IInv
<1> DEFINE size == buf[b].size
<1>1. /\ Draining(c, b) /\ Drained(c, b) /\ Finish(c)
      /\ UNCHANGED <<queue, ahead, max_bytes, slot, closers, quiet>>
  BY DEF recycle, work
<1>2. \A s \in Stream, i \in Nat : ~CopyAt(s, i, b)
  BY <1>1, DrainedNoCopies
<1>3. b \notin pooled /\ size \in Nat /\ pooled \subseteq DOMAIN buf
  BY <1>1, BatchLive, Domains DEF Draining, BufferTypes
<1>4. Zeroed(b) = 0
  BY DEF Zeroed, BufferTypes
<1>5. CASE \E E \in SUBSET pooled :
             LET total == total_bytes - SizeOf(E)
             IN  /\ total + size <= max_bytes
                 /\ total_bytes' = total + size
                 /\ pooled' = (pooled \ E) \cup {b}
                 /\ buf' = With(Without(buf, E), b, Guard(size, TRUE, Zeroed(b)))
  <2>1. PICK E \in SUBSET pooled :
          /\ total_bytes - SizeOf(E) + size <= max_bytes
          /\ total_bytes' = total_bytes - SizeOf(E) + size
          /\ pooled' = (pooled \ E) \cup {b}
          /\ buf' = With(Without(buf, E), b, Guard(size, TRUE, 0))
    BY <1>4, <1>5
  <2>2. /\ DOMAIN buf' = DOMAIN buf \ E
        /\ buf'[b] = Guard(size, TRUE, 0)
        /\ \A q \in DOMAIN buf' \ {b} : buf'[q] = buf[q]
    BY <1>3, <2>1 DEF With, Without
  <2>3. PoolBytes'
    <3>1. Bytes(pooled)' = Bytes(pooled \ E) \cup ({b} \X (1 .. size))
      <4>1. \A q \in pooled \ E : buf'[q].size = buf[q].size
        BY <1>3, <2>1, <2>2
      <4>2. buf'[b].size = size
        BY <2>2 DEF Guard
      <4>3. Bytes(pooled)' =
              (UNION {{q} \X (1 .. buf'[q].size) : q \in pooled \ E})
                \cup ({b} \X (1 .. buf'[b].size))
        BY <2>1 DEF Bytes
      <4>4. UNION {{q} \X (1 .. buf'[q].size) : q \in pooled \ E} = Bytes(pooled \ E)
        BY <4>1 DEF Bytes
      <4> QED
        BY <4>2, <4>3, <4>4
    <3>2. Bytes(pooled \ E) \cap ({b} \X (1 .. size)) = {}
      BY <1>3 DEF Bytes
    <3>3. /\ IsFiniteSet(Bytes(pooled)')
          /\ SizeOf(pooled)' = SizeOf(pooled \ E) + size
      <4>1. IsFiniteSet(Bytes(pooled \ E))
        BY BytesLeft
      <4>2. IsFiniteSet({b} \X (1 .. size)) /\ Cardinality({b} \X (1 .. size)) = size
        BY <1>3, BytesCounted
      <4>3. /\ IsFiniteSet(Bytes(pooled \ E) \cup ({b} \X (1 .. size)))
            /\ Cardinality(Bytes(pooled \ E) \cup ({b} \X (1 .. size))) =
                 Cardinality(Bytes(pooled \ E)) + size
        <5> HIDE DEF size, IInv
        <5> QED
          BY <3>2, <4>1, <4>2, DisjointUnion
      <4> QED
        BY <3>1, <4>3 DEF SizeOf
    <3> QED
      BY <1>1, <2>1, <3>3, BytesLeft DEF PoolBytes
  <2> QED
    BY <1>1, <1>2, <2>1, <2>2, <2>3, FinishIInv
<1>6. CASE \E E \in SUBSET pooled :
             LET total == total_bytes - SizeOf(E)
             IN  /\ total_bytes' = total
                 /\ pooled' = pooled \ E
                 /\ buf' = Without(buf, E \cup {b})
  <2>1. PICK E \in SUBSET pooled :
          /\ total_bytes' = total_bytes - SizeOf(E)
          /\ pooled' = pooled \ E
          /\ buf' = Without(buf, E \cup {b})
    BY <1>6
  <2>2. /\ DOMAIN buf' = DOMAIN buf \ (E \cup {b})
        /\ \A q \in DOMAIN buf' \ {b} : buf'[q] = buf[q]
    BY <2>1 DEF Without
  <2>3. PoolBytes'
    <3>1. Bytes(pooled)' = Bytes(pooled \ E)
      <4>1. \A q \in pooled \ E : buf'[q].size = buf[q].size
        BY <1>3, <2>1, <2>2
      <4> QED
        BY <2>1, <4>1 DEF Bytes
    <3>2. SizeOf(pooled)' = SizeOf(pooled \ E)
      BY <3>1 DEF SizeOf
    <3> QED
      BY <1>1, <2>1, <3>1, <3>2, BytesLeft DEF PoolBytes
  <2> QED
    BY <1>1, <1>2, <2>1, <2>2, <2>3, FinishIInv
<1>7. CASE buf' = Without(buf, {b}) /\ UNCHANGED <<pooled, total_bytes>>
  <2>1. /\ DOMAIN buf' = DOMAIN buf \ ({} \cup {b}) /\ pooled' = pooled \ {}
        /\ \A q \in DOMAIN buf' \ {b} : buf'[q] = buf[q]
    BY <1>7 DEF Without
  <2>2. PoolBytes'
    <3>1. \A q \in pooled : buf'[q].size = buf[q].size
      BY <1>3, <2>1
    <3>2. Bytes(pooled)' = Bytes(pooled)
      BY <1>7, <3>1 DEF Bytes
    <3> QED
      BY <1>1, <1>7, <3>2 DEF PoolBytes, SizeOf
  <2>3. {} \in SUBSET pooled
    OBVIOUS
  <2> QED
    BY <1>1, <2>1, <2>2, <2>3, FinishIInv
<1> QED
  BY <1>5, <1>6, <1>7 DEF recycle

LEMMA ReleaseIInv ==
  ASSUME IInv, NEW c \in DOMAIN cleaners, NEW b \in DOMAIN buf, release(c, b)
  PROVE  IInv'
<1> USE DEF IInv
<1>1. /\ Draining(c, b) /\ Finish(c) /\ buf' = Without(buf, {b})
      /\ UNCHANGED <<queue, ahead, pooled, total_bytes, max_bytes, slot, closers, quiet>>
  BY DEF release, work, pool_vars
<1>2. /\ DOMAIN buf' = DOMAIN buf \ ({} \cup {b}) /\ pooled' = pooled \ {}
      /\ \A q \in DOMAIN buf' \ {b} : buf'[q] = buf[q]
  BY <1>1 DEF Without
<1>3. PoolBytes'
  <2>1. b \notin pooled /\ pooled \subseteq DOMAIN buf
    BY <1>1, BatchLive DEF Draining, BufferTypes
  <2>2. \A q \in pooled : buf'[q].size = buf[q].size
    BY <1>2, <2>1
  <2>3. Bytes(pooled)' = Bytes(pooled)
    BY <1>1, <2>2 DEF Bytes
  <2> QED
    BY <1>1, <2>3 DEF PoolBytes, SizeOf
<1>4. {} \in SUBSET pooled
  OBVIOUS
<1> QED
  BY <1>1, <1>2, <1>3, <1>4, FinishIInv

-----------------------------------------------------------------------------
(* Buffers that come and go.                                                *)

(* Buffers E of the pool are freed.                                         *)
LEMMA Evicted ==
  ASSUME IInv, NEW E \in SUBSET pooled, pooled' = pooled \ E, buf' = Without(buf, E),
         UNCHANGED <<queue, ahead, cleaners>>
  PROVE  /\ BufferTypes' /\ WorkTypes' /\ CleanerTypes'
         /\ Places' /\ CopiesKnown' /\ SyncsCover' /\ PoolClean'
         /\ Held' = Held
         /\ IsFiniteSet(Bytes(pooled)')
         /\ SizeOf(pooled)' = total_bytes - SizeOf(E)
         /\ SizeOf(E) \in Nat /\ SizeOf(pooled)' \in Nat /\ total_bytes \in Nat
<1> USE DEF IInv
<1>1. /\ DOMAIN buf' = DOMAIN buf \ E
      /\ \A q \in DOMAIN buf' : buf'[q] = buf[q]
  BY DEF Without
<1>2. Queued' = Queued /\ \A d \in DOMAIN cleaners : Line(d)' = Line(d)
  BY DEF Queued, Line
<1>3. /\ \A q \in Queued : q \in DOMAIN buf' /\ q \notin pooled
      /\ pooled \subseteq DOMAIN buf
  BY <1>1 DEF Places, Line, Queued, BufferTypes
<1>4. Held' = Held
  BY <1>1, <1>2, <1>3 DEF Held
<1>5. BufferTypes' /\ WorkTypes' /\ CleanerTypes'
  BY <1>1, <1>3 DEF BufferTypes, WorkTypes, CleanerTypes, CleanerType
<1>6. Places'
  <2>1. \A d \in DOMAIN cleaners : Line(d) \subseteq DOMAIN buf' \ pooled'
    BY <1>1 DEF Places
  <2> QED
    BY <1>2, <2>1 DEF Places
<1>7. CopiesKnown'
  BY <1>1, <1>2 DEF CopiesKnown, CopyAt, EventAfter
<1>8. SyncsCover'
  <2>1. \A q \in Queued : buf'[q] = buf[q]
    BY <1>1, <1>3
  <2>2. \A s \in Stream, i \in Nat, q \in Buffer : CopyAt(s, i, q)' => CopyAt(s, i, q)
    BY DEF CopyAt
  <2>3. \A q \in Queued : q \in Buffer
    BY <1>3, <1>1 DEF BufferTypes
  <2> QED
    BY <2>1, <2>2, <2>3, SyncsKept
<1>9. PoolClean'
  BY <1>1, <1>3 DEF PoolClean
<1>10. Bytes(pooled)' = Bytes(pooled \ E)
  <2>1. \A q \in pooled \ E : buf'[q] = buf[q]
    BY <1>1, <1>3
  <2> QED
    BY <2>1 DEF Bytes
<1>11. SizeOf(pooled)' = SizeOf(pooled \ E)
  BY <1>10 DEF SizeOf
<1> QED
  BY <1>4, <1>5, <1>6, <1>7, <1>8, <1>9, <1>10, <1>11, BytesLeft

LEMMA SetMaxIInv ==
  ASSUME IInv, NEW m \in Cap, set_max_pooled_bytes(m)
  PROVE  IInv'
<1>1. /\ max_bytes' = m
      /\ UNCHANGED <<queue, ahead, slot, cleaners, closers, quiet>>
  BY DEF set_max_pooled_bytes, work, thread_vars
<1>2. PICK E \in SUBSET pooled :
        /\ total_bytes <= m => E = {}
        /\ total_bytes > m => total_bytes - SizeOf(E) <= m \/ E = pooled
        /\ pooled' = pooled \ E
        /\ total_bytes' = total_bytes - SizeOf(E)
        /\ buf' = Without(buf, E)
  <2>1. total_bytes \in Nat /\ m \in Nat
    BY BytesLeft, PinnedAssumption DEF IInv
  <2> QED
    BY <2>1 DEF set_max_pooled_bytes
<1>3. /\ BufferTypes' /\ WorkTypes' /\ CleanerTypes'
      /\ Places' /\ CopiesKnown' /\ SyncsCover' /\ PoolClean'
      /\ Held' = Held
      /\ IsFiniteSet(Bytes(pooled)')
      /\ SizeOf(pooled)' = total_bytes - SizeOf(E)
      /\ SizeOf(E) \in Nat /\ SizeOf(pooled)' \in Nat /\ total_bytes \in Nat
  BY <1>1, <1>2, Evicted
<1>4. PoolBytes'
  <2>1. m \in Nat
    BY PinnedAssumption
  <2>2. total_bytes' <= m
    <3>1. CASE total_bytes <= m
      BY <1>2, <1>3, <2>1, <3>1
    <3>2. CASE total_bytes > m /\ E = pooled
      <4>1. total_bytes = SizeOf(pooled)
        BY DEF IInv, PoolBytes
      <4> QED
        BY <1>2, <1>3, <2>1, <3>2, <4>1
    <3> QED
      BY <1>2, <1>3, <2>1, <3>1, <3>2
  <2> QED
    BY <1>1, <1>2, <1>3, <2>1, <2>2 DEF PoolBytes
<1>5. Closing'
  BY <1>1, <1>3 DEF IInv, Closing
<1> QED
  BY <1>3, <1>4, <1>5 DEF IInv

LEMMA EmptiedPool ==
  ASSUME IInv, Emptied, UNCHANGED <<queue, ahead, cleaners, max_bytes>>
  PROVE  /\ BufferTypes' /\ WorkTypes' /\ CleanerTypes'
         /\ Places' /\ CopiesKnown' /\ SyncsCover' /\ PoolClean' /\ PoolBytes'
         /\ Held' = Held
<1>1. /\ pooled' = pooled \ pooled /\ buf' = Without(buf, pooled) /\ total_bytes' = 0
      /\ pooled' = {} /\ pooled \in SUBSET pooled
  BY DEF Emptied
<1>2. /\ BufferTypes' /\ WorkTypes' /\ CleanerTypes'
      /\ Places' /\ CopiesKnown' /\ SyncsCover' /\ PoolClean'
      /\ Held' = Held
      /\ IsFiniteSet(Bytes(pooled)')
  BY <1>1, Evicted
<1>3. Bytes(pooled)' = {}
  BY <1>1 DEF Bytes
<1>4. SizeOf(pooled)' = 0
  BY <1>3, FS_EmptySet DEF SizeOf
<1>5. PoolBytes'
  BY <1>1, <1>2, <1>4 DEF IInv, PoolBytes
<1> QED
  BY <1>2, <1>5

LEMMA ClearIInv == ASSUME IInv, clear PROVE IInv'
<1>1. /\ Emptied
      /\ UNCHANGED <<queue, ahead, max_bytes, slot, cleaners, closers, quiet>>
  BY DEF clear, work, thread_vars
<1>2. /\ BufferTypes' /\ WorkTypes' /\ CleanerTypes'
      /\ Places' /\ CopiesKnown' /\ SyncsCover' /\ PoolClean' /\ PoolBytes'
      /\ Held' = Held
  BY <1>1, EmptiedPool
<1>3. Closing'
  BY <1>1, <1>2 DEF IInv, Closing
<1> QED
  BY <1>2, <1>3 DEF IInv

LEMMA ShutdownClearIInv ==
  ASSUME IInv, NEW t \in Closer, shutdown_clear(t)
  PROVE  IInv'
<1>1. /\ Emptied /\ closers[t].pc = "clear"
      /\ UNCHANGED <<queue, ahead, max_bytes, slot, cleaners>>
      /\ closers' = [closers EXCEPT ![t].pc = "idle"]
      /\ quiet' = quiet \ {t}
  BY DEF shutdown_clear, work
<1>2. /\ BufferTypes' /\ WorkTypes' /\ CleanerTypes'
      /\ Places' /\ CopiesKnown' /\ SyncsCover' /\ PoolClean' /\ PoolBytes'
      /\ Held' = Held
  BY <1>1, EmptiedPool
<1>3. /\ closers' \in [Closer -> [pc : {"idle", "join", "clear"}, joins : Cleaner \cup {None}]]
      /\ \A u \in Closer : closers'[u].joins = closers[u].joins
      /\ \A u \in Closer : closers'[u].pc = closers[u].pc \/ u = t
      /\ closers[t].joins = None
  BY <1>1 DEF IInv, Closing
<1>4. Closing'
  BY <1>1, <1>2, <1>3 DEF IInv, Closing
<1> QED
  BY <1>2, <1>4 DEF IInv

LEMMA ShutdownIInv ==
  ASSUME IInv, NEW t \in Closer, shutdown(t)
  PROVE  IInv'
<1> USE DEF IInv
<1>1. /\ closers[t].pc = "idle" /\ slot' = None
      /\ quiet' = IF Held = {} THEN quiet \cup {t} ELSE quiet
      /\ closers' = [closers EXCEPT ![t].pc = "join", ![t].joins = slot]
      /\ UNCHANGED <<queue, ahead, buf, pooled, total_bytes, max_bytes>>
      /\ DOMAIN cleaners' = DOMAIN cleaners
      /\ \A c \in DOMAIN cleaners :
           cleaners'[c] = [cleaners[c] EXCEPT !.open = @ /\ c # slot]
  BY DEF shutdown, work, pool_vars
<1>2. \A c \in DOMAIN cleaners :
        cleaners'[c] = [pc |-> cleaners[c].pc, channel |-> cleaners[c].channel,
                        open |-> cleaners'[c].open, batch |-> cleaners[c].batch,
                        synced |-> cleaners[c].synced]
  <2>1. SUFFICES ASSUME NEW c \in DOMAIN cleaners
                 PROVE  cleaners'[c] =
                          [pc |-> cleaners[c].pc, channel |-> cleaners[c].channel,
                           open |-> cleaners'[c].open, batch |-> cleaners[c].batch,
                           synced |-> cleaners[c].synced]
    OBVIOUS
  <2>2. cleaners[c] = [pc |-> cleaners[c].pc, channel |-> cleaners[c].channel,
                       open |-> cleaners[c].open, batch |-> cleaners[c].batch,
                       synced |-> cleaners[c].synced]
    BY DEF CleanerTypes, CleanerType
  <2> QED
    BY <1>1, <2>2
<1>3. \A c \in DOMAIN cleaners :
        /\ cleaners'[c].pc = cleaners[c].pc /\ cleaners'[c].channel = cleaners[c].channel
        /\ cleaners'[c].batch = cleaners[c].batch /\ cleaners'[c].synced = cleaners[c].synced
  <2>1. ASSUME NEW c \in DOMAIN cleaners
        PROVE  /\ cleaners'[c].pc = cleaners[c].pc /\ cleaners'[c].channel = cleaners[c].channel
               /\ cleaners'[c].batch = cleaners[c].batch
               /\ cleaners'[c].synced = cleaners[c].synced
    <3>1. cleaners'[c] = [pc |-> cleaners[c].pc, channel |-> cleaners[c].channel,
                          open |-> cleaners'[c].open, batch |-> cleaners[c].batch,
                          synced |-> cleaners[c].synced]
      BY <1>2
    <3> QED
      BY <3>1
  <2> QED
    BY <2>1
<1>4. /\ \A c \in DOMAIN cleaners : Line(c)' = Line(c)
      /\ Queued' = Queued
  BY <1>1, <1>3 DEF Line, Queued
<1>5. Held' = Held
  BY <1>1, <1>4 DEF Held
<1>6. Bytes(pooled)' = Bytes(pooled)
  BY <1>1 DEF Bytes
<1>7. BufferTypes' /\ WorkTypes' /\ PoolClean' /\ PoolBytes'
  BY <1>1, <1>6 DEF BufferTypes, WorkTypes, PoolClean, PoolBytes, SizeOf
<1>8. CleanerTypes'
  <2>1. \A c \in DOMAIN cleaners :
          cleaners'[c] = [pc |-> cleaners'[c].pc, channel |-> cleaners'[c].channel,
                          open |-> cleaners'[c].open, batch |-> cleaners'[c].batch,
                          synced |-> cleaners'[c].synced]
    BY <1>2, <1>3
  <2> QED
    BY <1>1, <1>3, <2>1 DEF CleanerTypes, CleanerType
<1>9. Places'
  BY <1>1, <1>3, <1>4 DEF Places
<1>10. CopiesKnown'
  BY <1>1, <1>4 DEF CopiesKnown, CopyAt, EventAfter
<1>11. SyncsCover'
  BY <1>1, <1>3 DEF SyncsCover, NeedsSync, Synced, Current, CopyAt
<1>12. Closing'
  <2>1. slot \in Cleaner \cup {None} /\ closers[t].joins = None
    BY <1>1 DEF Closing, CleanerTypes, CleanerType
  <2>2. /\ closers' \in [Closer -> [pc : {"idle", "join", "clear"},
                                    joins : Cleaner \cup {None}]]
        /\ closers'[t] = [pc |-> "join", joins |-> slot]
        /\ \A u \in Closer \ {t} : closers'[u] = closers[u]
    <3>1. /\ closers[t] \in [pc : {"idle", "join", "clear"}, joins : Cleaner \cup {None}]
          /\ DOMAIN closers = Closer
          /\ \A u \in Closer : closers[u] \in [pc : {"idle", "join", "clear"},
                                               joins : Cleaner \cup {None}]
      BY DEF Closing
    <3>2. closers' = [closers EXCEPT ![t] = [pc |-> "join", joins |-> slot]]
      <4> DEFINE rec == [closers[t] EXCEPT !.pc = "join", !.joins = slot]
      <4>1. rec = [closers[t] EXCEPT !.pc = "join", !.joins = slot]
            /\ closers' = [closers EXCEPT ![t] = rec]
        BY <1>1
      <4> HIDE DEF rec
      <4>2. rec = [pc |-> "join", joins |-> slot]
        BY <3>1, <4>1
      <4> QED
        BY <4>1, <4>2
    <3>3. [pc |-> "join", joins |-> slot] \in [pc : {"idle", "join", "clear"},
                                              joins : Cleaner \cup {None}]
      BY <2>1
    <3> QED
      BY <3>1, <3>2, <3>3 DEF Closing
  <2>3. \A c \in DOMAIN cleaners : \E u \in Closer : closers'[u].joins = c
    <3>1. SUFFICES ASSUME NEW c \in DOMAIN cleaners
                   PROVE  \E u \in Closer : closers'[u].joins = c
      OBVIOUS
    <3>2. CASE c = slot
      BY <2>2, <3>2
    <3>3. CASE c # slot
      <4>1. PICK u \in Closer : closers[u].joins = c
        BY <3>3 DEF Closing
      <4>2. c # None
        BY PinnedAssumption DEF CleanerTypes, CleanerType
      <4> QED
        BY <2>1, <2>2, <4>1, <4>2
    <3> QED
      BY <3>2, <3>3
  <2>4. \A u \in Closer : closers'[u].pc # "join" => closers'[u].joins = None
    BY <2>2 DEF Closing
  <2>5. quiet' \subseteq Closer /\ (quiet' # {} => Held' = {})
    BY <1>1, <1>5 DEF Closing
  <2> QED
    BY <1>1, <2>2, <2>3, <2>4, <2>5 DEF Closing
<1> QED
  BY <1>7, <1>8, <1>9, <1>10, <1>11, <1>12

LEMMA JoinIInv ==
  ASSUME IInv, NEW t \in Closer, join(t)
  PROVE  IInv'
<1> USE DEF IInv
<1>1. /\ closers[t].pc = "join" /\ closers[t].joins \notin DOMAIN cleaners
      /\ closers' = [closers EXCEPT ![t].pc = "clear", ![t].joins = None]
      /\ UNCHANGED <<queue, ahead, buf, pooled, total_bytes, max_bytes, slot, cleaners, quiet>>
  BY DEF join, work, pool_vars
<1>2. Queued' = Queued
  BY <1>1 DEF Queued
<1>3. Held' = Held
  BY <1>1, <1>2 DEF Held
<1>4. Bytes(pooled)' = Bytes(pooled)
  BY <1>1 DEF Bytes
<1>5. BufferTypes' /\ WorkTypes' /\ CleanerTypes' /\ Places' /\ PoolClean' /\ PoolBytes'
  BY <1>1, <1>4
     DEF BufferTypes, WorkTypes, CleanerTypes, CleanerType, Places, Line, PoolClean, PoolBytes, SizeOf
<1>6. CopiesKnown'
  BY <1>1, <1>2 DEF CopiesKnown, CopyAt, EventAfter
<1>7. SyncsCover'
  BY <1>1 DEF SyncsCover, NeedsSync, Synced, Current, CopyAt
<1>8. Closing'
  <2>1. /\ closers' \in [Closer -> [pc : {"idle", "join", "clear"},
                                    joins : Cleaner \cup {None}]]
        /\ closers'[t] = [pc |-> "clear", joins |-> None]
        /\ \A u \in Closer \ {t} : closers'[u] = closers[u]
    BY <1>1 DEF Closing
  <2>2. \A c \in DOMAIN cleaners : c = slot \/ \E u \in Closer : closers'[u].joins = c
    BY <1>1, <2>1 DEF Closing
  <2> QED
    BY <1>1, <1>3, <2>1, <2>2 DEF Closing
<1> QED
  BY <1>5, <1>6, <1>7, <1>8

(* A handed-back buffer joins the channel of the cleaner in the slot, or of *)
(* one that is new.                                                         *)
LEMMA Sent ==
  ASSUME IInv, NEW b \in Held, send_to_cleaner(b), UNCHANGED pooled, DOMAIN buf' = DOMAIN buf
  PROVE  /\ CleanerTypes' /\ Places'
         /\ Queued' = Queued \cup {b}
         /\ DOMAIN cleaners \subseteq DOMAIN cleaners'
         /\ slot' \in DOMAIN cleaners' /\ cleaners'[slot'].open
         /\ slot = None \/ slot = slot'
         /\ \A d \in DOMAIN cleaners' \ DOMAIN cleaners : d = slot' /\ cleaners'[d].batch = <<>>
         /\ \A d \in DOMAIN cleaners :
              /\ cleaners'[d].batch = cleaners[d].batch /\ cleaners'[d].pc = cleaners[d].pc
              /\ cleaners'[d].synced = cleaners[d].synced
<1> USE DEF IInv
<1>1. b \in DOMAIN buf /\ b \in Buffer /\ b \notin pooled /\ b \notin Queued
  BY DEF Held, BufferTypes
<1>2. \A d \in DOMAIN cleaners : b \notin Line(d)
  BY <1>1 DEF Queued, Line
<1>3. CASE slot # None
  <2> DEFINE r == cleaners[slot]
  <2>1. /\ slot \in DOMAIN cleaners /\ slot' = slot
        /\ cleaners' = [cleaners EXCEPT ![slot] = [r EXCEPT !.channel = Append(@, b)]]
        /\ r.open
    BY <1>3 DEF send_to_cleaner, Closing
  <2>2. /\ r = [pc |-> r.pc, channel |-> r.channel, open |-> r.open, batch |-> r.batch,
                synced |-> r.synced]
        /\ r.channel \in Seq(Buffer) /\ r.batch \in Seq(Buffer)
        /\ NoDup(r.channel) /\ NoDup(r.batch)
        /\ ToSet(r.channel) \cap ToSet(r.batch) = {}
    BY <2>1, CleanerOf
  <2>3. cleaners'[slot] = [pc |-> r.pc, channel |-> Append(r.channel, b), open |-> r.open,
                           batch |-> r.batch, synced |-> r.synced]
    BY <2>1, <2>2
  <2>4. b \notin ToSet(r.channel) /\ b \notin ToSet(r.batch)
    BY <1>2, <2>1 DEF Line
  <2>5. /\ Append(r.channel, b) \in Seq(Buffer) /\ NoDup(Append(r.channel, b))
        /\ ToSet(Append(r.channel, b)) = ToSet(r.channel) \cup {b}
    BY <1>1, <2>2, <2>4, SetOfAppend
  <2>6. /\ DOMAIN cleaners' = DOMAIN cleaners
        /\ \A d \in DOMAIN cleaners \ {slot} : cleaners'[d] = cleaners[d]
    BY <2>1
  <2>7. /\ cleaners'[slot].pc = r.pc /\ cleaners'[slot].channel = Append(r.channel, b)
        /\ cleaners'[slot].open = r.open /\ cleaners'[slot].batch = r.batch
        /\ cleaners'[slot].synced = r.synced
    BY <2>3
  <2>8. /\ Line(slot)' = Line(slot) \cup {b}
        /\ \A d \in DOMAIN cleaners \ {slot} : Line(d)' = Line(d)
    <3>1. \A d \in DOMAIN cleaners \ {slot} : Line(d)' = Line(d)
      BY <2>6 DEF Line
    <3>2. Line(slot)' = Line(slot) \cup {b}
      BY <2>1, <2>5, <2>7 DEF Line
    <3> QED
      BY <3>1, <3>2
  <2>9. Queued' = Queued \cup {b}
    <3>1. /\ Queued = UNION {Line(d) : d \in DOMAIN cleaners}
          /\ Queued' = UNION {Line(d)' : d \in DOMAIN cleaners}
      BY <2>6 DEF Queued, Line
    <3> QED
      BY <2>1, <2>8, <3>1
  <2>10. CleanerTypes'
    <3>1. CleanerType(cleaners'[slot])
      <4>1. CleanerType(r)
        BY <2>1 DEF CleanerTypes
      <4> QED
        BY <2>3, <2>5, <2>7, <4>1 DEF CleanerType
    <3> QED
      BY <2>6, <3>1 DEF CleanerTypes
  <2>11. Places'
    <3>1. \A d \in DOMAIN cleaners : Line(d)' \subseteq DOMAIN buf \ pooled
      <4>1. \A d \in DOMAIN cleaners : Line(d) \subseteq DOMAIN buf \ pooled
        BY DEF Places
      <4> QED
        BY <1>1, <2>1, <2>8, <4>1
    <3>2. \A d, e \in DOMAIN cleaners : d # e => Line(d)' \cap Line(e)' = {}
      <4>1. \A d, e \in DOMAIN cleaners : d # e => Line(d) \cap Line(e) = {}
        BY DEF Places
      <4>2. \A d \in DOMAIN cleaners : Line(d)' \subseteq Line(d) \cup {b}
        BY <2>1, <2>8
      <4>3. \A d \in DOMAIN cleaners : d # slot => b \notin Line(d)'
        BY <1>2, <2>8
      <4> QED
        BY <4>1, <4>2, <4>3
    <3>3. \A d \in DOMAIN cleaners :
            /\ NoDup(cleaners'[d].channel) /\ NoDup(cleaners'[d].batch)
            /\ ToSet(cleaners'[d].channel) \cap ToSet(cleaners'[d].batch) = {}
      <4>1. /\ NoDup(cleaners'[slot].channel) /\ NoDup(cleaners'[slot].batch)
            /\ ToSet(cleaners'[slot].channel) \cap ToSet(cleaners'[slot].batch) = {}
        BY <2>2, <2>4, <2>5, <2>7
      <4>2. \A d \in DOMAIN cleaners \ {slot} :
              /\ NoDup(cleaners'[d].channel) /\ NoDup(cleaners'[d].batch)
              /\ ToSet(cleaners'[d].channel) \cap ToSet(cleaners'[d].batch) = {}
        BY <2>6 DEF Places
      <4> QED
        BY <2>1, <4>1, <4>2
    <3> QED
      BY <2>6, <3>1, <3>2, <3>3 DEF Places
  <2> QED
    BY <2>1, <2>6, <2>7, <2>9, <2>10, <2>11
<1>4. CASE slot = None
  <2>1. PICK c \in Cleaner \ DOMAIN cleaners :
          /\ slot' = c
          /\ cleaners' = With(cleaners, c,
               [pc |-> "receive", channel |-> <<b>>, open |-> TRUE,
                batch |-> <<>>, synced |-> EmptyMap])
    BY <1>4 DEF send_to_cleaner
  <2>2. /\ DOMAIN cleaners' = DOMAIN cleaners \cup {c}
        /\ \A d \in DOMAIN cleaners : cleaners'[d] = cleaners[d]
        /\ cleaners'[c] = [pc |-> "receive", channel |-> <<b>>, open |-> TRUE,
                           batch |-> <<>>, synced |-> EmptyMap]
    BY <2>1 DEF With
  <2>3. /\ <<b>> \in Seq(Buffer) /\ <<>> \in Seq(Buffer)
        /\ ToSet(<<b>>) = {b} /\ NoDup(<<b>>)
    BY <1>1 DEF ToSet, NoDup
  <2>4. /\ cleaners'[c].pc = "receive" /\ cleaners'[c].channel = <<b>>
        /\ cleaners'[c].open /\ cleaners'[c].batch = <<>> /\ cleaners'[c].synced = EmptyMap
    BY <2>2
  <2>5. Line(c)' = {b} /\ \A d \in DOMAIN cleaners : Line(d)' = Line(d)
    <3>1. \A d \in DOMAIN cleaners : Line(d)' = Line(d)
      BY <2>2 DEF Line
    <3>2. Line(c)' = {b}
      BY <2>3, <2>4, SetOfEmpty DEF Line
    <3> QED
      BY <3>1, <3>2
  <2>6. Queued' = Queued \cup {b}
    <3>1. /\ Queued = UNION {Line(d) : d \in DOMAIN cleaners}
          /\ Queued' = UNION {Line(d)' : d \in DOMAIN cleaners \cup {c}}
      BY <2>2 DEF Queued, Line
    <3> QED
      BY <2>5, <3>1
  <2>7. CleanerTypes'
    <3>1. CleanerType(cleaners'[c])
      BY <2>2, <2>3, <2>4 DEF CleanerType
    <3> QED
      BY <2>1, <2>2, <3>1 DEF CleanerTypes
  <2>8. Places'
    <3>1. \A d \in DOMAIN cleaners \cup {c} : Line(d)' \subseteq DOMAIN buf \ pooled
      BY <1>1, <2>5 DEF Places
    <3>2. \A d, e \in DOMAIN cleaners \cup {c} : d # e => Line(d)' \cap Line(e)' = {}
      BY <1>2, <2>5 DEF Places
    <3>3. \A d \in DOMAIN cleaners \cup {c} :
            /\ NoDup(cleaners'[d].channel) /\ NoDup(cleaners'[d].batch)
            /\ ToSet(cleaners'[d].channel) \cap ToSet(cleaners'[d].batch) = {}
      BY <2>2, <2>3, <2>4, SetOfEmpty DEF Places
    <3> QED
      BY <2>2, <3>1, <3>2, <3>3 DEF Places
  <2> QED
    BY <1>4, <2>1, <2>2, <2>4, <2>6, <2>7, <2>8
<1> QED
  BY <1>3, <1>4

LEMMA DropIInv ==
  ASSUME IInv, NEW b \in DOMAIN buf, NEW d \in Device, drop(b, d)
  PROVE  IInv'
<1> USE DEF IInv
<1>1. /\ b \in Held /\ MayDrop(b, d) /\ send_to_cleaner(b)
      /\ buf' = [buf EXCEPT ![b].device = IF NeedsSync(b) THEN d ELSE None,
                             ![b].unrecorded = {}]
      /\ UNCHANGED <<queue, ahead, pooled, total_bytes, max_bytes, closers, quiet>>
  BY DEF drop, work, pool_vars
<1>2. /\ DOMAIN buf' = DOMAIN buf
      /\ \A q \in DOMAIN buf \ {b} : buf'[q] = buf[q]
      /\ b \notin Queued /\ b \notin pooled
  BY <1>1 DEF Held
<1>3. buf[b] \in [size : Nat, registered : BOOLEAN, written : Nat, dirty_len : Nat,
                  recorded : BOOLEAN, unrecorded : SUBSET Stream, device : Device \cup {None}]
  BY DEF BufferTypes
<1>4. /\ buf'[b] \in [size : Nat, registered : BOOLEAN, written : Nat, dirty_len : Nat,
                      recorded : BOOLEAN, unrecorded : SUBSET Stream,
                      device : Device \cup {None}]
      /\ buf'[b].registered = buf[b].registered /\ buf'[b].recorded = buf[b].recorded
      /\ buf'[b].unrecorded = {}
      /\ buf'[b].device = IF NeedsSync(b) THEN d ELSE None
      /\ buf'[b].written = buf[b].written /\ buf'[b].dirty_len = buf[b].dirty_len
      /\ buf'[b].size = buf[b].size
  <2>1. buf'[b] = [buf[b] EXCEPT !.device = IF NeedsSync(b) THEN d ELSE None,
                                 !.unrecorded = {}]
    BY <1>1
  <2> QED
    BY <1>3, <2>1
<1>5. /\ CleanerTypes' /\ Places'
      /\ Queued' = Queued \cup {b}
      /\ DOMAIN cleaners \subseteq DOMAIN cleaners'
      /\ slot' \in DOMAIN cleaners' /\ cleaners'[slot'].open
      /\ slot = None \/ slot = slot'
      /\ \A e \in DOMAIN cleaners' \ DOMAIN cleaners : e = slot' /\ cleaners'[e].batch = <<>>
      /\ \A e \in DOMAIN cleaners :
           /\ cleaners'[e].batch = cleaners[e].batch /\ cleaners'[e].pc = cleaners[e].pc
           /\ cleaners'[e].synced = cleaners[e].synced
  BY <1>1, <1>2, Sent
<1>6. BufferTypes' /\ WorkTypes'
  BY <1>1, <1>2, <1>4 DEF BufferTypes, WorkTypes
<1>7. CopiesKnown'
  <2>1. SUFFICES ASSUME NEW q \in DOMAIN buf'
                 PROVE  /\ q \in Queued' => buf'[q].unrecorded = {}
                        /\ \A x \in Stream, i \in Nat : CopyAt(x, i, q)' =>
                             /\ buf'[q].registered /\ q \notin pooled'
                             /\ \/ q \notin Queued' /\ x \in buf'[q].unrecorded
                                \/ buf'[q].recorded /\ EventAfter(x, i, q)'
                                \/ q \in Queued' /\ ~buf'[q].recorded
                                     /\ DeviceOf[x] = buf'[q].device
    BY DEF CopiesKnown
  <2>2. \A x \in Stream, i \in Nat : /\ CopyAt(x, i, q)' <=> CopyAt(x, i, q)
                                     /\ EventAfter(x, i, q)' <=> EventAfter(x, i, q)
    BY <1>1 DEF CopyAt, EventAfter
  <2>3. CASE q = b
    <3>1. ASSUME NEW x \in Stream, NEW i \in Nat, CopyAt(x, i, b)
          PROVE  /\ buf[b].registered
                 /\ \/ buf[b].recorded /\ EventAfter(x, i, b)
                    \/ ~buf[b].recorded /\ NeedsSync(b) /\ DeviceOf[x] = d
      <4>1. /\ buf[b].registered
            /\ x \in buf[b].unrecorded \/ (buf[b].recorded /\ EventAfter(x, i, b))
        BY <1>2, <3>1 DEF CopiesKnown
      <4> QED
        BY <1>1, <4>1 DEF MayDrop, NeedsSync
    <3> QED
      BY <1>1, <1>2, <1>4, <1>5, <2>2, <2>3, <3>1
  <2>4. CASE q # b
    <3>1. q \in DOMAIN buf /\ buf'[q] = buf[q] /\ (q \in Queued' <=> q \in Queued)
      BY <1>2, <1>5, <2>4
    <3> QED
      BY <1>1, <2>2, <3>1, ZenonT(30) DEF CopiesKnown
  <2> QED
    BY <2>3, <2>4
<1>8. SyncsCover'
  <2>1. SUFFICES ASSUME NEW c \in DOMAIN cleaners', NEW q \in ToSet(cleaners'[c].batch),
                        NeedsSync(q)', NEW x \in Stream, NEW i \in Nat, CopyAt(x, i, q)
                 PROVE  /\ ~(Synced(c, q)' /\ cleaners'[c].synced[buf'[q].device])
                        /\ cleaners'[c].pc = "synchronize"
                              /\ buf'[q].device = buf'[Current(c)'].device => i <= ahead[c][x]
    BY <1>1 DEF SyncsCover, CopyAt
  <2>2. c \in DOMAIN cleaners /\ q \in ToSet(cleaners[c].batch)
    BY <1>5, <2>1, SetOfEmpty
  <2>3. q \in Queued /\ Current(c) \in Queued /\ Current(c)' = Current(c)
    BY <1>5, <2>2, BatchLive DEF Current
  <2>4. /\ buf'[q] = buf[q] /\ buf'[Current(c)] = buf[Current(c)]
        /\ NeedsSync(q)
    <3>1. \A y \in Queued : y \in DOMAIN buf \ {b}
      BY <1>2 DEF Places, Line, Queued
    <3> QED
      BY <1>2, <2>1, <2>3, <3>1 DEF NeedsSync
  <2>5. Synced(c, q)' <=> Synced(c, q)
    BY <1>5, <2>2, <2>4 DEF Synced
  <2> QED
    BY <1>5, <2>1, <2>2, <2>3, <2>4, <2>5 DEF SyncsCover
<1>9. PoolClean' /\ PoolBytes'
  <2>1. \A q \in pooled : buf'[q] = buf[q]
    BY <1>2 DEF BufferTypes
  <2>2. Bytes(pooled)' = Bytes(pooled)
    <3>1. pooled' = pooled
      BY <1>1
    <3> QED
      BY <2>1, <3>1 DEF Bytes
  <2> QED
    BY <1>1, <2>1, <2>2 DEF PoolClean, PoolBytes, SizeOf
<1>10. Closing'
  <2>1. quiet = {}
    BY <1>1 DEF Closing
  <2>2. \A c \in DOMAIN cleaners' : c = slot' \/ \E t \in Closer : closers[t].joins = c
    <3>1. SUFFICES ASSUME NEW c \in DOMAIN cleaners', c # slot'
                   PROVE  \E t \in Closer : closers[t].joins = c
      OBVIOUS
    <3>2. c \in DOMAIN cleaners /\ c # slot
      <4>1. c \in DOMAIN cleaners /\ c # None
        BY <1>5, <3>1, PinnedAssumption DEF CleanerTypes, CleanerType
      <4> QED
        BY <1>5, <3>1, <4>1
    <3> QED
      BY <3>2 DEF Closing
  <2> QED
    BY <1>1, <1>5, <2>1, <2>2 DEF Closing
<1> QED
  BY <1>5, <1>6, <1>7, <1>8, <1>9, <1>10

(* A buffer is handed out, from the pool or newly allocated.                *)
LEMMA TakeIInv ==
  ASSUME IInv, NEW n \in MinSize, take(n)
  PROVE  IInv'
<1> USE DEF IInv
<1> DEFINE size == PowerOfTwo(n)
<1>1. /\ quiet' = {}
      /\ UNCHANGED <<queue, ahead, max_bytes, slot, cleaners, closers>>
      /\ size \in Nat
  BY PowerOfTwoFits, PinnedAssumption DEF take, work
<1>2. PICK b \in Buffer, pinned \in BOOLEAN :
        /\ buf' = With(buf, b, Guard(size, pinned, 0))
        /\ \/ /\ b \in pooled /\ buf[b].size = size
              /\ pooled' = pooled \ {b} /\ total_bytes' = total_bytes - size
           \/ /\ b \notin DOMAIN buf /\ ~Pending(Copy(b))
              /\ UNCHANGED <<pooled, total_bytes>>
  <2>1. \A b \in pooled : b \in Buffer /\ buf[b].written = 0
    BY DEF PoolClean, BufferTypes
  <2>2. ASSUME NEW b \in pooled, buf[b].size = size,
               pooled' = pooled \ {b}, total_bytes' = total_bytes - size,
               buf' = With(buf, b, Guard(size, TRUE, buf[b].written))
        PROVE  /\ b \in Buffer /\ buf' = With(buf, b, Guard(size, TRUE, 0))
    BY <2>1, <2>2
  <2> QED
    BY <2>2 DEF take
<1>3. /\ DOMAIN buf' = DOMAIN buf \cup {b}
      /\ buf'[b] = Guard(size, pinned, 0)
      /\ \A q \in DOMAIN buf \ {b} : buf'[q] = buf[q]
  BY <1>2 DEF With
<1>4. /\ b \notin Queued /\ b \notin pooled' /\ pooled' \subseteq DOMAIN buf \ {b}
      /\ pooled' \subseteq pooled
      /\ \A q \in Queued : q \in DOMAIN buf \ {b}
      /\ \A q \in DOMAIN buf \ {b} : q \notin pooled => q \notin pooled'
  <2>1. \A q \in Queued : q \in DOMAIN buf /\ q \notin pooled
    BY DEF Places, Line, Queued
  <2>2. pooled \subseteq DOMAIN buf
    BY DEF BufferTypes
  <2> QED
    BY <1>2, <2>1, <2>2
<1>5. \A s \in Stream, i \in Nat : ~CopyAt(s, i, b)
  <2>1. CASE b \in pooled
    BY <2>1 DEF CopiesKnown, BufferTypes
  <2>2. CASE ~Pending(Copy(b))
    BY <2>2 DEF CopyAt, Pending, Contains
  <2> QED
    BY <1>2, <2>1, <2>2
<1>6. Queued' = Queued /\ \A c \in DOMAIN cleaners : Line(c)' = Line(c)
  BY <1>1 DEF Queued, Line
<1>7. BufferTypes'
  <2>1. /\ buf'[b] \in [size : Nat, registered : BOOLEAN, written : Nat, dirty_len : Nat,
                        recorded : BOOLEAN, unrecorded : SUBSET Stream,
                        device : Device \cup {None}]
        /\ buf'[b].written <= buf'[b].dirty_len
        /\ buf'[b].written = 0 => buf'[b].dirty_len = buf'[b].size
    BY <1>1, <1>3 DEF Guard
  <2> QED
    BY <1>2, <1>3, <1>4, <2>1 DEF BufferTypes
<1>8. WorkTypes' /\ CleanerTypes'
  BY <1>1 DEF WorkTypes, CleanerTypes, CleanerType
<1>9. Places'
  <2>1. \A c \in DOMAIN cleaners : Line(c) \subseteq DOMAIN buf' \ pooled'
    BY <1>3, <1>4 DEF Places
  <2> QED
    BY <1>1, <1>6, <2>1 DEF Places
<1>10. CopiesKnown'
  <2>1. SUFFICES ASSUME NEW q \in DOMAIN buf'
                 PROVE  /\ q \in Queued' => buf'[q].unrecorded = {}
                        /\ \A x \in Stream, i \in Nat : CopyAt(x, i, q)' =>
                             /\ buf'[q].registered /\ q \notin pooled'
                             /\ \/ q \notin Queued' /\ x \in buf'[q].unrecorded
                                \/ buf'[q].recorded /\ EventAfter(x, i, q)'
                                \/ q \in Queued' /\ ~buf'[q].recorded
                                     /\ DeviceOf[x] = buf'[q].device
    BY DEF CopiesKnown
  <2>2. \A x \in Stream, i \in Nat : /\ CopyAt(x, i, q)' <=> CopyAt(x, i, q)
                                     /\ EventAfter(x, i, q)' <=> EventAfter(x, i, q)
    BY <1>1 DEF CopyAt, EventAfter
  <2>3. CASE q = b
    BY <1>4, <1>5, <1>6, <2>2, <2>3
  <2>4. CASE q # b
    <3>1. q \in DOMAIN buf \ {b} /\ buf'[q] = buf[q]
      BY <1>3, <2>4
    <3> QED
      BY <1>4, <1>6, <2>2, <3>1 DEF CopiesKnown
  <2> QED
    BY <2>3, <2>4
<1>11. SyncsCover'
  <2>1. \A q \in Queued : buf'[q] = buf[q] /\ q \in Buffer
    BY <1>3, <1>4 DEF BufferTypes
  <2>2. \A s \in Stream, i \in Nat, q \in Buffer : CopyAt(s, i, q)' => CopyAt(s, i, q)
    BY <1>1 DEF CopyAt
  <2> QED
    BY <1>1, <2>1, <2>2, SyncsKept
<1>12. PoolClean'
  BY <1>3, <1>4 DEF PoolClean
<1>13. PoolBytes'
  <2>1. Bytes(pooled)' = Bytes(pooled')
    <3>1. \A q \in pooled' : buf'[q] = buf[q]
      BY <1>3, <1>4
    <3> QED
      BY <3>1 DEF Bytes
  <2>2. CASE pooled' = pooled
    BY <1>1, <1>2, <2>1, <2>2, <1>4 DEF PoolBytes, SizeOf
  <2>3. CASE b \in pooled /\ buf[b].size = size /\ pooled' = pooled \ {b}
             /\ total_bytes' = total_bytes - size
    <3>1. Bytes({b}) = {b} \X (1 .. size)
      BY <2>3 DEF Bytes
    <3>2. SizeOf({b}) = size
      BY <1>1, <3>1, BytesCounted DEF SizeOf
    <3>3. {b} \in SUBSET pooled
      BY <2>3
    <3>4. /\ IsFiniteSet(Bytes(pooled \ {b}))
          /\ SizeOf(pooled \ {b}) \in Nat
          /\ SizeOf(pooled \ {b}) = total_bytes - size
          /\ total_bytes \in Nat
      BY <3>2, <3>3, BytesLeft
    <3>5. SizeOf(pooled)' = SizeOf(pooled \ {b}) /\ IsFiniteSet(Bytes(pooled)')
      BY <2>1, <2>3, <3>4 DEF SizeOf
    <3> QED
      BY <1>1, <2>3, <3>4, <3>5 DEF PoolBytes
  <2> QED
    BY <1>2, <2>2, <2>3
<1>14. Closing'
  BY <1>1 DEF Closing
<1> QED
  BY <1>7, <1>8, <1>9, <1>10, <1>11, <1>12, <1>13, <1>14

-----------------------------------------------------------------------------
LEMMA InitIInv == Init => IInv
<1> SUFFICES ASSUME Init PROVE IInv
  OBVIOUS
<1>1. /\ DOMAIN buf = {} /\ DOMAIN cleaners = {} /\ pooled = {} /\ total_bytes = 0
      /\ max_bytes = DefaultCap /\ slot = None /\ quiet = {}
      /\ queue = [s \in Stream |-> <<>>] /\ ahead = [c \in Cleaner |-> NoWait]
      /\ closers = [t \in Closer |-> [pc |-> "idle", joins |-> None]]
  BY DEF Init, EmptyMap, NoWork
<1>2. Queued = {} /\ Held = {}
  BY <1>1 DEF Queued, Held
<1>3. BufferTypes /\ CleanerTypes /\ Places /\ CopiesKnown /\ SyncsCover /\ PoolClean
  BY <1>1 DEF BufferTypes, CleanerTypes, CleanerType, Places, CopiesKnown, SyncsCover, PoolClean
<1>4. WorkTypes
  BY <1>1 DEF WorkTypes, NoWait
<1>5. PoolBytes
  <2>1. Bytes(pooled) = {}
    BY <1>1 DEF Bytes
  <2> QED
    <3>1. IsFiniteSet(Bytes(pooled)) /\ SizeOf(pooled) = 0
      BY <2>1, FS_EmptySet DEF SizeOf
    <3>2. max_bytes \in Nat /\ total_bytes = 0
      BY <1>1, PinnedAssumption
    <3> QED
      BY <3>1, <3>2 DEF PoolBytes
<1>6. Closing
  BY <1>1, <1>2 DEF Closing
<1> QED
  BY <1>3, <1>4, <1>5, <1>6 DEF IInv

LEMMA UntouchedIInv == ASSUME IInv, UNCHANGED vars PROVE IInv'
<1>1. /\ UNCHANGED <<queue, ahead, buf, pooled, total_bytes, max_bytes>>
      /\ UNCHANGED <<slot, cleaners, closers, quiet>>
  BY DEF vars, work, pool_vars, thread_vars
<1>2. /\ BufferTypes' /\ CleanerTypes' /\ Places' /\ PoolClean' /\ PoolBytes' /\ Closing'
      /\ Queued' = Queued
  BY <1>1, QuietHost DEF pool_vars, thread_vars
<1>3. WorkTypes' /\ CopiesKnown' /\ SyncsCover'
  BY <1>1, <1>2 DEF IInv, WorkTypes, CopiesKnown, CopyAt, EventAfter, SyncsCover, NeedsSync,
                    Synced, Current
<1> QED
  BY <1>2, <1>3 DEF IInv

LEMMA NextIInv == IInv /\ [Next]_vars => IInv'
<1> SUFFICES ASSUME IInv, [Next]_vars PROVE IInv'
  OBVIOUS
<1>1. CASE Owner
  <2>1. ASSUME NEW n \in MinSize, take(n) PROVE IInv'
    BY <2>1, TakeIInv
  <2>2. ASSUME NEW b \in DOMAIN buf, NEW w \in 1 .. buf[b].size, Write(b, w) PROVE IInv'
    BY <2>2, WriteIInv
  <2>3. ASSUME NEW b \in DOMAIN buf, NEW n \in 1 .. buf[b].size, set_dirty_len(b, n)
        PROVE  IInv'
    BY <2>3, WriteIInv
  <2>4. ASSUME NEW b \in DOMAIN buf, NEW s \in Stream, CopyToDevice(b, s) PROVE IInv'
    BY <2>4, CopyToDeviceIInv
  <2>5. ASSUME NEW b \in DOMAIN buf, NEW s \in Stream, record_last_use(b, s) PROVE IInv'
    BY <2>5, RecordLastUseIInv
  <2>6. ASSUME NEW b \in DOMAIN buf, NEW d \in Device, drop(b, d) PROVE IInv'
    BY <2>6, DropIInv
  <2> QED
    BY <1>1, <2>1, <2>2, <2>3, <2>4, <2>5, <2>6 DEF Owner
<1>2. ASSUME NEW c \in Cleaner, CleanerStep(c) PROVE IInv'
  <2>1. c \in DOMAIN cleaners
    BY <1>2 DEF CleanerStep
  <2>2. CASE receive(c)
    BY <2>1, <2>2, ReceiveIInv
  <2>3. CASE close_batch(c)
    BY <2>1, <2>3, CloseBatchIInv
  <2>4. CASE exit(c)
    BY <2>1, <2>4, ExitIInv
  <2>5. ASSUME NEW b \in DOMAIN buf, device_synchronize(c, b) PROVE IInv'
    BY <2>1, <2>5, DeviceSynchronizeIInv
  <2>6. ASSUME NEW b \in DOMAIN buf, synchronized(c, b) PROVE IInv'
    BY <2>1, <2>6, SynchronizedIInv
  <2>7. ASSUME NEW b \in DOMAIN buf, recycle(c, b) PROVE IInv'
    BY <2>1, <2>7, RecycleIInv
  <2>8. ASSUME NEW b \in DOMAIN buf, release(c, b) PROVE IInv'
    BY <2>1, <2>8, ReleaseIInv
  <2> QED
    BY <1>2, <2>2, <2>3, <2>4, <2>5, <2>6, <2>7, <2>8 DEF CleanerStep
<1>3. ASSUME NEW m \in Cap, set_max_pooled_bytes(m) PROVE IInv'
  BY <1>3, SetMaxIInv
<1>4. CASE clear
  BY <1>4, ClearIInv
<1>5. ASSUME NEW t \in Closer, shutdown(t) \/ CloserStep(t) PROVE IInv'
  BY <1>5, ShutdownIInv, JoinIInv, ShutdownClearIInv DEF CloserStep
<1>6. ASSUME NEW s \in Stream, DeviceStep(s) PROVE IInv'
  BY <1>6, DeviceStepIInv
<1>7. CASE UNCHANGED vars
  BY <1>7, UntouchedIInv
<1> QED
  BY <1>1, <1>2, <1>3, <1>4, <1>5, <1>6, <1>7 DEF Next

(* Every copy out of a buffer is accounted for until the cleaner that must  *)
(* wait for it has waited, a memoised synchronisation covers the batch it   *)
(* serves, a buffer is in one place, and every cleaner is in its slot or    *)
(* being joined: in any number of threads, devices, streams and buffers.    *)
THEOREM PinnedInvariant == Spec => []IInv
<1>1. Init => IInv
  BY InitIInv
<1>2. IInv /\ [Next]_vars => IInv'
  BY NextIInv
<1> QED
  BY <1>1, <1>2, PTL DEF Spec

(* The pool hands out what its struct documents: page-locked, zeroed, with  *)
(* no copy in flight, and never more bytes than the cap.                    *)
THEOREM PooledBuffersReady == Spec => []PoolReady
<1>1. IInv => PoolReady
  <2> SUFFICES ASSUME IInv PROVE PoolReady
    OBVIOUS
  <2> USE DEF IInv
  <2>1. ASSUME NEW b \in pooled
        PROVE  b \notin Queued /\ buf[b].registered /\ buf[b].written = 0 /\ Quiescent(b)
    <3>1. b \notin Queued
      BY <2>1 DEF Places, Line, Queued
    <3>2. b \in DOMAIN buf
      BY <2>1 DEF BufferTypes
    <3>3. ASSUME Pending(Copy(b)) PROVE FALSE
      <4>1. PICK s \in Stream, i \in Nat : CopyAt(s, i, b)
        BY <3>3 DEF Pending, Contains, CopyAt
      <4> QED
        BY <2>1, <3>2, <4>1 DEF CopiesKnown
    <3> QED
      BY <3>1, <3>3 DEF PoolClean, Quiescent
  <2> QED
    BY <2>1 DEF PoolReady, PoolBytes
<1> QED
  BY <1>1, PinnedInvariant, PTL

(* A shutdown during which nothing was held or taken clears the pool when   *)
(* no cleaner can refill it, but one that another shutdown waits for.       *)
THEOREM ShutdownEmptiesQueue == Spec => []ShutdownDrains
<1>1. IInv => ShutdownDrains
  <2> SUFFICES ASSUME IInv, NEW t \in quiet, closers[t].pc = "clear", NEW c \in DOMAIN cleaners
               PROVE  \E u \in Closer \ {t} : closers[u].joins = c
    BY DEF ShutdownDrains
  <2> USE DEF IInv
  <2>1. slot = None /\ t \in Closer /\ closers[t].joins = None
    BY DEF Closing
  <2>2. c # None
    BY PinnedAssumption DEF CleanerTypes, CleanerType
  <2>3. PICK u \in Closer : closers[u].joins = c
    BY <2>1, <2>2 DEF Closing
  <2> QED
    BY <2>1, <2>2, <2>3
<1> QED
  BY <1>1, PinnedInvariant, PTL

=============================================================================
