# A verification development for stark-backend

TLA+ specifications of the parts of this repository that are hard to test: device
memory that is reused while kernels still run, provers of three backends that must
write one transcript, kernels that work in place, compilers and encodings that leave
out what the other side derives. Small instances are checked exhaustively by TLC;
theorems are proved by TLAPS for every value of the constants.

- [The system](#the-system): components, their state and operations, what is hard
- [The modules](#the-modules): what stands for what in the code
- [What is checked](#what-is-checked): runs, bounds, fairness
- [What is proved](#what-is-proved): theorems and how their proofs go
- [Where code and documentation disagree](#where-code-and-documentation-disagree)
- [What is not modelled](#what-is-not-modelled)
- [Plan](#plan): what comes next, and in which order

Paths are relative to the repository; `cuda-common`, `cuda-backend`, `cpu-backend` and
`stark-backend` are the crates under `crates/`.

## The system

The repository is a STARK proof system. `stark-backend` has keygen, the reference
prover, the verifier and the transcript; `cpu-backend` is a faster prover with the
same proofs; `cuda-backend` is a GPU prover on top of `cuda-common`, the layer that
manages device memory, streams and events.

| Component | State | Operations | Talks to |
|---|---|---|---|
| Virtual memory pool, `cuda-common/src/memory_manager/vm_pool.rs` | `roots`, `active_pages`, `free_regions`, `malloc_regions`, `unmapped_regions`, `zombie_regions`, `free_num` | `new`, `malloc_internal` (zombies, best fit, page creation, rollback, harvesting, remapping), `free_internal`, `Drop` | driver calls; streams and events |
| Memory manager, `memory_manager/mod.rs` | the pool, small allocations, current and peak size, under one mutex | `d_malloc_on`, `d_free`, `MemTracker` | the pool; `cudaMallocAsync` |
| Device buffers, `d_buffer.rs` | pointer, length, stream | allocate, reinterpret, send, free on drop | memory manager, stream guards |
| Streams and events, `stream.rs` | a handle behind an `Arc`; event handles | `wait`, `record_on`, `completed` | the device |
| Pinned pool, `pinned.rs` | free buffers by size class, total bytes, cap; a cleaner thread with a channel | `take`, drop of a buffer, batches of the cleaner, eviction, `clear`, `shutdown` | streams, host threads |
| Transcript, `stark-backend/src/transcript/`, `cuda-backend/src/sponge.rs` | sponge, absorb and sample positions, packed buffers; a device copy | `observe`, `sample`, `grind` | provers, verifier |
| Prover coordinator and provers, `stark-backend/src/prover/`, `cpu-backend`, `cuda-backend` | transcript, the proof so far | preamble, constraints (GKR, zerocheck), openings (stacked reduction, WHIR) | transcript |
| Verifier and extractor, `stark-backend/src/verifier/` | transcript, the stage reached | shape check, four stages; `extract_proof` | transcript |
| Proof codec, `proof.rs`, `codec.rs` | pure | `encode`, `decode` | |
| Constraint compiler, `air_builders/symbolic/`, `cuda-backend/src/logup_zerocheck/rules/`, `monomial.rs`, `pkey.rs` | DAG, rules with their buffer, monomials | keygen, key transfer, evaluation of a row | kernels |
| Fractional sumcheck on the GPU, `cuda-backend/src/logup_zerocheck/fractional.rs`, `cuda/src/logup_zerocheck/gkr.cu` | the tree in one buffer, a work buffer | build, rounds with their strategies | kernels |
| Batch sumcheck of zerocheck and LogUp, `logup_zerocheck/` in each backend | folded columns and selectors of every AIR, tables of eq, sums of the AIRs that are exhausted | input of GKR, round 0, rounds, column openings; on the GPU the choice of kernels and their launches | kernels, GKR |
| Openings, `prover/stacked_pcs.rs`, `whir.rs`, `stacked_reduction.rs`, `merkle_tree.rs` in each backend | stacked matrices, codewords, trees, tables | commit, reduce, fold, query | kernels |

What is hard, and what would make each correct:

**Device memory.** Callers free a buffer while kernels on it are still in flight; the
pool hands its addresses, or its physical pages under new addresses, to other streams
without ever waiting on the host. Regions must never overlap and never hand an address
out twice; a kernel must find at its addresses, until it retires, the pages that were
there at its launch; two kernels on one physical page must be ordered; no page may leak
and no address get lost when memory runs out half-way, and a failing driver call may leak
but not corrupt. Above
the pool, buffers are sent to other threads, reinterpreted, and dropped by unwinding
threads, and the stream a buffer is freed on must outlive everybody who knew it. A panic
inside the manager's lock poisons it for all threads.

**Pinned pool.** A cleaner thread recycles buffers in batches, once the copies out of
them are over; `take`, `clear`, a lowered cap and `shutdown` race with it, and a
buffer dropped during `shutdown` spawns a second cleaner beside the first.

**Transcripts.** Four implementations of two sponges, one of them packed and two copied
to the device for each grind, must give the same challenges under every order of
observations and samples.

**Provers, verifier, extractor, codec.** Three provers, a verifier, an extractor and a
codec each walk over the same nested data with loops of their own. They must agree on
order, on lengths and on what a challenge binds, for every shape of key and trace; and
no proof, whatever its lengths, may make the verifier panic or leave a part unbound.

**Kernels and compilers.** Buffer slots are reused as soon as a value is dead; layers of
a tree are folded in place while spilled leaves sit in their holes; tables are kept in
one buffer and moved when they stop changing; matrices may or may not be cached and are
then rebuilt in another layout. Every one of these must compute what the reference does.

`PROJECT.json` lists every hazard at its line, with the properties that cover it or the
reason why none does.

## The modules

| Module | Role |
|---|---|
| `Maps` | partial functions |
| `CudaDevice` | external: streams, events, pending work, page table, physical pages |
| `VirtualMemoryPool` | the pool, one action per step of its operations |
| `StreamAllocator` | abstract: what an allocator promises to the owners of buffers |
| `DeviceMemory` | threads that own buffers over `MemoryManager`, on top of `StreamAllocator` |
| `VirtualMemoryPoolProofs`, `VirtualMemoryPoolSafety`, `VirtualMemoryPoolRefinement`, `DeviceMemoryProofs` | their proofs (the last one also those of `StreamAllocator`) |
| `PinnedPool`, `PinnedPoolProofs` | the pinned pool over streams as queues; its proofs |
| `Transcripts`, `TranscriptProofs` | the two sponges, and all transcripts under the same calls; proofs about them |
| `TranscriptLog`, `ProofShape`, `StackedLayout` | a transcript as a log; key, derived sizes and the shape check; the layout of columns |
| `Provers`, `Verifier`, `Extractor`, `ProofData`, `ProofProtocol` | the logs and proofs of the three provers; the stages of the verifier; `extract_proof`; a proof as data, and its encoding; a proof and its verification |
| `FractionalGkr`, `FractionalGkrProofs` | the segment tree and its kernels slot by slot, and the GKR prover of the GPU; proofs that its launches are safe |
| `SymbolicDag`, `ConstraintRules`, `Monomials`, `ConstraintCompiler` | expressions and their DAG; rules, buffer slots and the kernels that interpret the rules; the expansion into monomials; an AIR on its way to the device |
| `Polynomials`, `Transforms`, `MerkleTrees`, `MerkleKernel`, `StackedPcs`, `Zerocheck`, `ZerocheckGpu`, `StackedReduction`, `Whir`, `Openings`, `MerkleKernelProofs` | arithmetic in a small field and sumcheck helpers; the in-place transforms; trees; the row-hashing kernels; commitments; the batch sumcheck of the hosts and its verifier; that of the GPU; the opening reduction; WHIR; the three backends in lockstep; proofs about the kernels |
| `MC...` | constants of the small instances |

How they compose: `VirtualMemoryPool` extends `CudaDevice` and implements
`StreamAllocator` (`Allocator == INSTANCE ... WITH`); `DeviceMemory` extends
`StreamAllocator`, so what it shows holds over the pool and over CUDA's allocator
alike. `ProofProtocol` composes provers, codec, verifier and extractor; its provers use
the layout that `StackedPcs` fills with values. `ConstraintCompiler` chains keygen, the
two compilers and six kernels. `Openings` chains commitment, batch sumcheck, reduction, WHIR and
verification, and runs the threads of `MerkleKernel` inside the GPU's commitment.

### CudaDevice

The order of work on the device is a happens-before relation. A pending operation is
a kernel launch or an event marker, with the set `after` of pending operations it
waits for; `before[s]` are the pending operations that precede whatever is enqueued
on stream `s` next. `record_on` enqueues a marker, `wait` adds an event and all it
waits for to `before[s]`, `Retire` finishes an operation that waits for nothing.
`completed(e)` is then simply that `e` is no longer pending. The device may delay any
operation for ever. A kernel remembers the physical pages it found at its addresses
when it was launched (`uses`), which is what `NoFault` compares with the page table.

### VirtualMemoryPool

Addresses and sizes count pages: the code rounds every size up to the page size
before the pool sees it, and all its arithmetic is in multiples of it. The variables are
the fields of `VirtualMemoryPool`; `event` and `id` of a free region are one number,
since both are made together and `free_num` never repeats.

`malloc_internal` runs under the mutex of the memory manager, so no other call on the
pool interleaves with it, while the device retires work and other threads launch
kernels, which take no lock. The record `call` is that call: its stage `pc`, its
arguments and its local variables.

| Action | Code in `vm_pool.rs` |
|---|---|
| `Init` | `new`, 164-257, with or without preallocated pages |
| `malloc_internal(s, n)` | entry, 266-278 |
| `cleanup_zombie_regions(z)` | one turn of the loop, 380-398 |
| `find_best_fit` | 319-349 and the allocation, 287-310: own stream first, else a completed region of another one |
| `take_unmapped_region` | 458-492: best fitting hole, new chunk, or failure |
| `create_new_page` | one turn of the creation loop, 576-614, with a failing map |
| `rollback_new_pages` | out of memory, 519-540 and 583-592 |
| `creation_fails` | other errors of create and set access, 593-633 |
| `insert_new_pages`, `no_new_pages` | 616-650: new pages become a free region and merge |
| `harvest_free_region` | one turn of the harvest loop, 660-691, with a failing wait |
| `remap_regions`, `remap_fails(k)` | 703-762: all pages moved, or a failure at page `k` |
| `hand_out_defragmented` | 692-701 and 287-310 |
| `free_internal(p)` | 355-369 |
| `drop` | 770-793 |
| `Launch(p, k)`, `Device(id)` | external: a kernel of the owner, the device retiring something |

Abstractions a reader should know:

- `Launch` follows the contract of `DeviceBuffer`: a buffer is used on the stream it
  was allocated on. Using it on another stream without synchronization is outside
  the pool's promise.
- The `completed` queries of one `find_best_fit` are one step. An event completes only
  once, so an earlier negative answer is at worst outdated towards "taken later".
- A mapping fails when the driver refuses an address that is still mapped, or when
  `"map" \in Faults`; the other names in `Faults` are the other driver calls that may
  fail. A failing release of a physical page (only logged) is not modelled, nor is a
  failing query of an event. An event that cannot be created or recorded panics in
  `free_region_insert` (425-426) with the manager's lock held, and the pool is never used
  again: that is part of `DeviceMemory`.
- `MaxEvents` bounds the events recorded in a behaviour; it is the only bound inside a
  guard. The number of kernels in flight is bounded by `Kernel`; identities are reused.

### StreamAllocator and DeviceMemory

In `StreamAllocator` an allocation owns physical pages in a fixed order, and is granted
for stream `s` only with pages that no live allocation owns and whose pending kernels
all precede what `s` runs next. No addresses, no events, no regions. The refinement maps
an allocation of the pool to the pages behind its addresses *in the driver's page
table*, not in `active_pages`, so it says that defragmentation never changes the
backing of a live allocation.

`DeviceMemory` adds what is above: threads with contexts, buffers that are sent,
reinterpreted (`as_buffer`) and dropped, `allocated_ptrs` and `malloc_regions`, the
sizes, and the strong count `refs[s]` of every stream, held by contexts, records, free
regions of the pool (`idle`) and by a `d_free` that has left the lock (`guard`). A
critical section of the manager's mutex is one step. A failed or empty request panics
its thread, which unwinds by dropping its buffers through the same lock; a panic of an
unwinding thread aborts. A request that fails may have defragmented before it did, so it
may use up free regions and create one (`Defragment`, `malloc_fails`).

Two panics happen *inside* the lock (`PanicInside`): the unwraps of a new free region's
event (`vm_pool.rs:425-426`, reached by a free and by a defragmentation) and the `expect`
of a null pointer (`mod.rs:92`). They set `poisoned`. Every later request or free finds the
lock poisoned and panics, and the records stay as they were; a free that is interrupted
this way has lost its record, and the memory with it (`free_pool_panics`). The history
variable `refused` says that CUDA has refused a free or an event or given a null pointer;
`FaultsContained` is about all behaviours up to there, and `BuffersOwn` and
`StreamLifetime` about the time after it too. Bytes are small numbers, with
`page_size = 2`.

### PinnedPool

`buf` holds every live buffer, with the fields of `PinnedBuffer` and, once it is
dropped, of `Returned`. A buffer is pooled (`by_size`, as the set `pooled`), queued in
the channel or the batch of a cleaner, or with its owner. `slot` is `cleaner_slot`;
`cleaners` holds every running cleaner, the one in the slot and those that a
`shutdown` is waiting for; `closers` holds the threads in `shutdown`. `ahead[c][s]` is how
many items of stream `s` the synchronisation that cleaner `c` has begun still waits for: what
a stream got before the call, not what it got since.

| Action | Code in `pinned.rs` |
|---|---|
| `take(n)` | 397-424: a pooled buffer, or a fresh pageable one |
| `Write`, `set_dirty_len` | 140-144, 107-109: the owner fills a prefix and may say so |
| `CopyToDevice` | external: an asynchronous copy out of a pinned buffer |
| `record_last_use` | 125-130 |
| `drop`, with `send_to_cleaner` | 146-164, 277-285: may spawn a cleaner |
| `receive`, `close_batch`, `exit` | 296-304: a turn of the receiving loops, the end of the window, a closed channel |
| `device_synchronize`, `synchronized` | 326-336: the wait begins, ends or fails; memoised for the batch |
| `recycle`, `release` | 367-393, 187-191: registration, zeroing, eviction and pooling; a failed wait |
| `set_max_pooled_bytes`, `clear` | 232-241, 428-437 |
| `shutdown`, `join`, `shutdown_clear` | 355-363, in its three steps |
| `DeviceStep` | external: a stream retires its oldest item |

Owners keep the contract of `record_last_use`, and write before they copy. The data of a
buffer is the length of its prefix that is not zero. Zeroing and registration touch a
buffer only the cleaner holds, so they are one step with the pooling. The 100 ms window
may end whenever the channel is empty. `MaxQueue` bounds the items on a stream when an
owner adds one. A cleaner never dies, so `wait_and_release` is not reached.

### Transcripts

A transcript is its sponge: cells, `absorb_idx`, `sample_idx`. The permutation is a
parameter; the instance makes it a term constructor, so two states are equal only if
they were reached by the same permutations. Every call (`observe` of values,
`observe_commit`, `sample`, `grind`) goes to all transcripts at once: `DuplexSponge`,
Plonky3's buffered challenger (external, as `CpuTranscript` and the host half of
`DuplexSpongeGpu` use it), `MultiFieldTranscript`, and the snapshots that `sync_h2d`
sends to the device for a grind. And it goes to two *worlds*, which are equal until one
observed value differs; that is how `Binding` can say what a challenge depends on.

### ProofProtocol

An element of a proof is a term that names it, a challenge too; a log is a sequence of
`observe`, `sample`, and, for the properties, `use` (a challenge is combined with
these elements), `open` (these elements are opened against a commitment), `place` (the
rows of the interactions). No field arithmetic: on a changed proof, a check that compares
field elements may hold or fail; on the prover's own proof it holds.

A behaviour picks a key, present AIRs, their heights and a backend; `ProvePreamble`,
`ProveConstraints`, `ProveOpenings` build log and proof; the proof is delivered through
its encoding (`Deliver`) or with one length or leaf changed (`DeliverChanged`, also
every height, flag and cached commitment); `VerifyShape` to `VerifyWhir` are the stages of
`verify`; `Extract` is `extract_proof` on the verifier's log. Only proofs of the
reference backend are changed: `Lockstep` makes those of the others equal. A read out of
range, a failed assertion, a failed `unwrap` in the verifier is a `panic` in its log.

`ProofData` encodes a proof as a sequence of words of a kind (a length, a byte of the
bitmap, an element, a digest). The decoder is a reader over words that fails on a word
of another kind; it derives the lengths the encoder leaves out. `ByteBits` is the width
of a byte of the bitmap, 2 instead of 8, so that three AIRs need a second byte.

### FractionalGkr

A slot of device memory holds what it stands for: the sum of a range of leaves, or the
combination of such sums with the challenges bound so far. One step is one launch of
`fractional_sumcheck_gpu`; a kernel is its set of threads with what each reads and
writes, so `LaunchesSafe` can compare threads. The strategy of each round (fold after
every challenge, windows of `w` challenges, a tail) follows from the sizes and the
environment as in the code; the tiling constants and the width of a warp are
parameters, scaled down for TLC. Sizes are powers of two in 32 bits (`Pow2`, `Log2`).

### ConstraintCompiler

The author writes expressions, asserts some zero and sends interactions (`Write`,
`AssertZero`, `PushInteraction`), keygen builds the DAG (`Keygen`), the key transfer
compiles rules and monomials (`Transfer`), and the prover evaluates a row with any of six
kernels (`Launch`). An unwritten slot of the rules' buffer holds `Unwritten`, which
spoils every result computed from it. The powers of lambda and the `eq_3b` weights are
formal symbols: a sum over them is the function from symbol to coefficient, so two sums
agree only if every constraint has its own power. Constants are modulo 101.

### Openings

Base and extension field are GF(97), with a subgroup of order 32; hashes are symbolic (a
digest is what was hashed); challenges are parameters of the setup and do not depend on
what was sent (that is `ProofProtocol`'s subject); proof of work is left out. The three
backends take every step of the protocol together: `CommitCommon`, `HashRows` (a thread of
the GPU's hashing kernel, between its barriers), `CommitCached`, `zerocheck_round0`,
`zerocheck_round`, `column_openings`, `univariate_round`,
`multilinear_round`, `start_whir`, `whir_sumcheck`, `whir_codeword`, `whir_final_poly`,
`whir_queries`, and then `Verify` for the messages as sent or with one value, root or
sibling changed. Each backend keeps its own representation: column by column, row by row,
or one flat buffer; values on the hypercube, or coefficients and moments; the stacked
matrix, or the traces with tables of every dimension in one buffer.

An AIR of a setup has a trace that satisfies it, constraints and interactions as sums of
products, and the sizes of its compiled rules, which only decide where it is evaluated
(what rules compute is `ConstraintCompiler`'s subject). GKR is taken by its contract: from
the layer it is given to two claims about the extension of that layer at xi; its rounds
are `FractionalGkr`'s. The batch sumcheck differs most between the backends:

| | `Zerocheck`, reference | `Zerocheck`, CPU | `ZerocheckGpu` |
|---|---|---|---|
| Input of GKR | `gkr_input_evals`: row by row into the layout | `cpu_gkr_input_evals`: row-major | `log_gkr_input_evals`: tasks of strided threads in batches, lifted by repetition; alpha and padding virtual (`gkr_layer`) |
| Round 0 | `sumcheck_uni_round0_poly` on cosets of the generator | blocks of rows, packed for the zerocheck | unlifted columns on other cosets, sums weighted by node (`node_weights`), `bus_term_sum` apart |
| Fold by r[0] | column by column, rotated views apart | row by row | columns and their next rows in one matrix of double width |
| Rounds | `reference_polys_eval`, a tree of eq per trace | row-major | one kernel of several per AIR (`evaluate_zerocheck`, `evaluate_logup_batched`), launches filled by memory, sums found by place |
| Exhausted traces | tilde evaluations, times r in each round | the same | the same, evaluated by the monomial kernels |
| Round polynomial | `batch_s`, multiplied by eq as a polynomial | the same | `compute_batch_s_poly` |

## What is checked

| Run | Instance | Properties | What it shows |
|---|---|---|---|
| `pool` | 2 streams, 2 kernels in flight, 3 physical pages, chunks of 4 pages apart, requests of 1 and 2, 4 events | `RegionsDisjoint`, `HarvestSuffices`, `RegionFound`, `NothingLeaks`, `MinUse`, `AddressesKept`, `ImplementsAllocator`, `CallReturns` | regions never overlap, no page leaks, addresses are lost in one way only (see [below](#where-code-and-documentation-disagree)), calls find what they prepared and end whatever the device does, and the pool implements the allocator |
| `requests` | 3 physical pages, one preallocated, adjacent chunks of 3, requests of 1 to 4, every driver call may fail | `PagesBacked`, `NoFault`, `NoRace` | whatever a failed call leaves behind, no kernel faults or races |
| `memory` | 2 threads, 2 streams, 2 kernels, 2 buffers, lengths 0, 1 and 3, pages of 2 bytes | `Ordered`, `BuffersOwn`, `StreamLifetime`, `Accounted`, `FaultsContained` | buffers own their memory through sends, reinterpretation, late drops and panics, inside the lock too; streams live as long as needed; sizes add up; until CUDA refuses a free or an event, a failure takes only its own thread down |
| `pinned` | 2 devices with a stream each, 2 buffers, sizes 1 and 2, caps 1 and 3, 2 cleaners, batches of 2, one closer, failing registration and synchronisation | `PoolReady`, `ShutdownDrains` | owners, cleaners, cap, `clear` and `shutdown` in every interleaving |
| `pinned_liveness` | one stream, size and cap 2 | `Recycled`, `ShutdownReturns` | under fairness every dropped buffer is dealt with and every `shutdown` returns |
| `transcripts` | rate 2 of 3 cells, 2 values packed into one, 2 samples out of one, 6 calls | `SameChallenges`, `DeviceAgrees`, `Binding`, `Fresh` | the transcripts agree, the device samples what the host samples, challenges bind and never repeat |
| `protocol` | 3 keys, up to 3 AIRs of every kind of part, one to three WHIR rounds, every presence and height, three backends, every single change | `Lockstep`, `Aligned`, `NoPanic`, `ChallengeBinds`, `EverythingBound`, `RoundTrip` | one transcript, one order of claims, no panic, nothing unbound; encoding and extraction give the proof back |
| `fractional` | every padding of trees up to 32 leaves, some up to 256, windows of 1 to 3, and none | `LaunchesSafe`, `SumsTheLayer`, `ClaimsHold`, `TreeKept` | kernels do not race or leave their buffers, each round sums the right layer, the tree survives for its reverts |
| `rules` | 6 kinds of AIR, up to 4 operations, 2 rows, 2 threads per block | `DagComputes`, `ZerocheckAgrees`, `LogupAgrees` | DAG, rules and monomials compute what the author wrote |
| `openings` | 6 setups of up to 4 AIRs with 1 to 16 rows, skip domains of 1 to 4, caches on and off, memory saved or not, both hashing schemes, one to three rounds of WHIR | `ProversAgree`, `OnlyHonestAccepted`, `SharedMemorySafe` | same roots, GKR inputs and messages in every order of the hashing threads; the verifier of batch sumcheck, reduction and WHIR accepts them and no single change |
| `remap_failure_doc`, `gkr_race_doc` | one property each, violated | `ActivePagesCurrent`, `NoRace` | the disagreements below |

Each property has its statement as a comment where it is defined. Deadlock is checked
too, except where a run really ends: transcripts after six calls, a prover that is done,
threads that have all dropped what they own.

**Properties and mutants.** Every property is broken, in its run, by a plausible bug of a
mapped definition: the definitions with an underscore in the modules (a merge that
forgets a neighbour, a takeover that ignores completion, a guard that is not cloned, a
flag read in the wrong order, a first Merkle depth taken from the last codeword, a slot
freed one node too early, a missing barrier), listed under `mutants` in `PROJECT.json`.

**Why the bounds are enough.**

- *Pool.* Three pages and requests of up to two force each branch: a second stream must
  harvest what the first has freed, a harvested region is cut and leaves a tail, the
  third page runs out during creation. Four events allow two freed regions of different
  streams and a defragmentation with its own events. Two kernels are needed for a race. In
  `requests`, adjacent chunks let regions merge over a border. A request larger
  than a chunk is refused; only a free region that merged over a border could serve it,
  which these bounds do not reach.
- *Memory.* Two buffers share a pointer after a free, the third length needs two
  pages, two threads are a sender and a receiver.
- *Pinned pool.* Two buffers fill a batch and stay below one when one is with its owner.
  Two devices tell a memoised synchronisation from that of another device. Two cleaners
  are the one `shutdown` joins and the one a late drop spawns. A cap of 3 holds one
  buffer of each size but not two large ones, so pooling evicts.
- *Transcripts.* Six calls fill the rate twice, leave a partial packed element, and reach
  every state of the three indices.
- *Protocol.* The keys have between them every optional part, equal heights, a column
  that does not fit behind the others, zero and non-zero work for each witness, and a
  depth that a third WHIR round must derive from that of the second.
- *Fractional.* Every number of real leaves up to 32 is every pattern of padding at every
  level; windows of two and three need the larger trees.
- *Rules.* Slots are reused from three values on; the AIRs write every shape of two
  operations, the constants the builder simplifies, and pairs that share nodes.
- *Openings.* Columns shorter than, equal to and longer than the skip domain, one that
  fills a stacked column, cached parts, and a single round without new codewords. AIRs
  shorter than the skip domain, exhausted in different rounds, without constraints, without
  interactions, and one whose constraint has ten monomials and few rules. With blocks of
  `BlockDim` = 2 threads, `TaskSize` = 4, monomials by row up to `MonomialRows` = 1, and chunks
  of `ChunkSize` = 4 monomials halved until there are `TargetBlocks` = 6, every kernel, a
  launch of several AIRs, an AIR of several blocks and a batch that the memory ends occur;
  `Unlimited` only has to exceed what any launch needs. With
  97 elements a changed value could pass by accident; the setups' challenges were chosen
  so that none does, and outside the points where an evaluation of a sumcheck has
  weight zero (`ChallengeAssumption`).

Streams and kernels are symmetric where nothing compares or chooses among them; handles
of physical pages are not. Runs with liveness or a refinement use no symmetry.

**Fairness.** `VirtualMemoryPool`: `WF_vars(CallStep)` only. The thread that holds the
mutex keeps running, which the scheduler provides, and none of its steps blocks. There is
no fairness for the device and none for callers, so `CallReturns` says that no step of a
call waits for the device on the host. `PinnedPool`: each cleaner and each thread inside
`shutdown` keeps running (the scheduler), and each stream retires its work (the device); a
cleaner that waits for an event of a hung device waits for ever in the code too. Owners
need not drop anything, and nobody need call `shutdown`. The other specifications have
no liveness properties: their code is sequential and terminates by its loops.

## What is proved

For every value of the constants, under the assumptions named at the end of this section.
Each theorem has the name it has in its module; `PROJECT.json` lists them with the
property of a run they state.

| Module | Theorems | Properties of the runs |
|---|---|---|
| `DeviceMemoryProofs`, first part | `InductiveInvariant`, `KernelsOrdered` | (of the abstract allocator) |
| `VirtualMemoryPoolProofs` | `InductiveInvariant`, `TypeCorrect`, `RegionsNeverOverlap`, `DefragmentationFindsRegion` | `RegionsDisjoint`, `RegionFound` |
| `VirtualMemoryPoolSafety` | `BackingInvariant`, `RegionsAreBacked`, `OrderInvariant`, `KernelsKeepPages`, `KernelsNeverRace`, `HarvestInvariant`, `HarvestNeverStarves`, `LeakInvariant`, `CallsLeakNothing`, `CreatesMinimum`, `AddressesStay` | `PagesBacked`, `NoFault`, `NoRace`, `HarvestSuffices`, `NothingLeaks`, `MinUse`, `AddressesKept` |
| `VirtualMemoryPoolRefinement` | `PoolImplementsAllocator` | `ImplementsAllocator` |
| `DeviceMemoryProofs` | `MemoryInvariant`, `ManagedOrdered`, `OneOwner`, `StreamsOutliveMemory`, `FaultsStayLocal`, `SizesAccounted` | `Ordered`, `BuffersOwn`, `StreamLifetime`, `FaultsContained`, `Accounted` |
| `PinnedPoolProofs` | `PinnedInvariant`, `PooledBuffersReady`, `ShutdownEmptiesQueue` | `PoolReady`, `ShutdownDrains` |
| `TranscriptProofs` | `AgreementInvariant`, `ChallengesAgree`, `DeviceSamplesAgree`, `BindingInvariant`, `ChallengesBind`, `ChallengesFresh` | `SameChallenges`, `DeviceAgrees`, `Binding`, `Fresh` |
| `MerkleKernelProofs` | `HashInvariant`, `HashingNeverRaces` | `SharedMemorySafe` |
| `FractionalGkrProofs` | `Invariant`, `LaunchesAreSafe`, `DefaultsAreSafe` | `LaunchesSafe` |

### The abstract allocator

`TypeOK /\ Exclusive /\ Ordered /\ OwnerIsLast` is inductive. `Ordered` alone is not: a
launch is safe because all pending kernels on the owner's pages already precede its
stream (`OwnerIsLast`), and `OwnerIsLast` survives the launch only because no other
owner has these pages (`Exclusive`).

### The pool: addresses

`IInv` (in `VirtualMemoryPoolProofs`) has three parts. `TypeInv` types the variables.
`Layout` says that the *claims*, one interval per region and one for the hole a call
is filling, are disjoint and lie in the reserved chunks; the hole must be among them,
because during a call its addresses are in no map and would otherwise be free for a
zombie or a merge to run into. `CallInv` says what each stage of a call has
gathered: in `harvest`, the pages still missing plus those moved plus those in the
region of new pages add up to the request, the moves fill the hole from `goal` on, and
the new region ends exactly at `goal` and belongs to the caller's stream. With
`Layout` that gives `RegionFound`: the remapped pages begin where the new region ends,
nothing else can contain the address before `goal`, so they merge into that one
region and its size is at least the request.

Every action changes claims in one of few ways, and each way is a lemma: intervals
rearranged inside the ones they replace stay disjoint (`Rearranged`); returning
addresses to the holes (`HoleLayout`), to the free regions (`FreeLayout`), and cutting
the front of a free region (`CutLayout`) are such rearrangements, because a merged
region covers exactly what it absorbed (`Merged`, `HoleInsert`).

### The pool: pages, faults and races

`BackInv` adds the backing. The addresses of free and allocated regions, those a call
has created, and those it has harvested and not yet remapped (`Held`) are mapped, as
`active_pages` says, and no two addresses have one page. That the moves of a call are
distinct needs one more fact: their sources are addresses of zombies already, so no
later turn of the harvest can take them again. This holds whatever driver call fails,
and `ActivePagesCurrent`, which a failing remapping breaks, is not needed.

`OrderInv` adds the work in flight. Every pending operation that touches a page of a
live allocation precedes the next one of its stream; one that touches a page of a free
region precedes the next one of the region's stream *and* its event, because either may be
what the page is handed out by; nothing touches a page just created; and what
touches a harvested page precedes the next one of the caller's stream, from the wait the
harvest queued on (`UsersOrdered`). `UsesMapped` says that a kernel's addresses are still
mapped to the pages it was launched with, that no hole contains them, and that the
event of a zombie at such an address waits for the kernel. So only zombies are
ever unmapped, and only when nothing uses them (`NoFault`); a launch is ordered after
every other user of its pages (`NoRace`).

Most steps only add events and order. One group of lemmas says that such steps keep
`OrderInv` (`...Grows`), one that a step keeps the order of the pages it moves
(`...Ordered`), one that it leaves the addresses in use alone (`...Stays`).

### The pool: enough pages, and none too many

`HarvestInv` counts: while a call harvests, the free regions other than the one it builds
have at least `left` pages, the pages still missing. It begins with the shortfall,
which the code computes from the sum of *all* free regions: the new pages make up the
request together with them (`FreeInsertCovers`, `FreeInserted`, `ShortfallMakesUp`). Every
turn of the harvest takes a region, or the front of one, and lowers `left` by exactly the
pages taken (`CutFrontCovers`). A wait that fails ends the call. So the code never runs out
of regions with pages missing (`HarvestNeverStarves`), whatever driver call fails.

`LeakInv` adds that nothing is stray: `active_pages` has exactly the pages of regions and
of the running call (`Held`), `physical` is exactly what backs them, and the driver maps
those and the zombies; and that no hole ends where another begins (`HolesApart`), which the
merging in `insert_unmapped_region` keeps. `CallsLeakNothing`, `CreatesMinimum` and
`AddressesStay` assume
`Faults \subseteq {"oom"}`: the driver may run out of memory, at any page, but fails in
no other way. The hypothesis is needed. After any other failure the code does leak: the
created page, the pages harvested or the page taken out of the map stay behind
(`creation_fails`, a failing wait, `remap_fails`). `NoOtherFailure` shows that under it
remapping succeeds, so the driver never refuses an address as still mapped. For `MinUse`, the pages
created so far, those of the free regions and those allocated are all there are, and
the first two together are at most the request.

`NothingLeaks` is about pages; `AddressesKept` is about addresses, and is an action
property because some do get lost: an address of a chunk leaves all maps only when a call
is done with its hole, and has joined its new pages to a free region that ends there.
`AddressesStay` proves it action by action (the lemmas `...Keeps`): an address that is in a
region, a zombie or the hole of the call (`Known`) is in one of them afterwards, through
splits, merges, zombies, rollbacks and the new chunk of `take_unmapped_region`. `NewPages`
says that a call which harvests beside new pages did create some; without it the exception
would also cover calls that only remap.

### The refinement

`PoolImplementsAllocator`: under the mapping of an allocation to the pages *the driver's
page table* has at its addresses, initial states map to initial states and every step to
a step of `StreamAllocator` or a stutter. Handing out a region is `Allocate`
(`HandOutAllocates`: the pages are distinct and nobody's by `BackInv`, ordered by
`OrderInv`), `free_internal` is `Release`, a wait of the harvest is `Synchronize`, launch and
retirement are themselves, `drop` is `Close`; creation, rollback, remapping and their failures
are stutters, since none changes the backing of a live allocation.

### Device memory

`MemoryInv` stands on the invariant of `StreamAllocator`, which every step of the manager
keeps because it is a step of the allocator. `Ownership` matches buffers, records and
allocations one to one; the record of an allocation has its stream and, for the pool, its
whole pages; that every record has a buffer holds while the lock is not poisoned. From it a
destructor always finds its record, so before CUDA refuses a free or an event a panic can
only come from a request: it is outside the lock, and no second one follows while the
thread unwinds (`FaultsContained`). `Counted` says that the
holders of a stream's guard are finitely many and their number is its strong count, one
lemma per action; so a stream is destroyed exactly when nobody holds it. `Sized` says that
the bytes counted are those of the records, with disjoint unions for the sums.

### Pinned pool

`IInv` of `PinnedPoolProofs`: a live buffer is in one place at a time (`Places`); a
copy out of it is followed on its stream by an event of the buffer, or its owner still has
to record one, or it runs on the device that was current at the drop (`CopiesKnown`); a
synchronisation speaks for every buffer of the batch, since the batch was closed before
it began and it waits for what lay on the device then (`SyncsCover`: copies lie in the
first `ahead` items while it waits, and there is none once it has succeeded). These three
make a pooled buffer quiet. `PoolBytes` is the sum and the cap. `Closing` says that every
cleaner is in the slot or being joined, which `ShutdownDrains` follows from.

That `take` finds a size class for every size rests on every positive number having a power
of two above it that is below its double; the induction is a least counterexample.

### Transcripts

`SameChallenges` and `DeviceAgrees` for any rate, width, permutation and packing. The
buffered challenger and the duplex sponge are *twins*: the pending inputs of the one
overlay its state to that of the other, its remaining outputs are the cells of the other
that are still to be squeezed. Absorbing and sampling keep twins and give the same value; so
do runs of absorptions (`InTurn`), by a least counterexample over their length; what
`sync_h2d` sends to the device is a twin as well, and the multi-field snapshot checks a
witness as its host would.

`Binding` needs that the permutation loses no difference: `ChallengesBind` assumes that
no two states agree in any permuted cell (`Collisionless`) and that the capacity is not empty
(`RATE < WIDTH`). Both idealise what the code relies on a hash permutation for; the
instance of `transcripts`, whose permutation builds terms, satisfies them. The invariant
`BindInv` says that two worlds are in step, and that once an observation differed they
differ in a cell nothing overwrites before the next permutation (`Parted`), or, in the
multi-field transcript, still in what is buffered (`MultiParted`).

`Fresh` needs, besides, that two cells of permuted states at different places differ and
that the capacity an empty sponge starts with does not come back (`CellsApart`), an
idealisation of the same kind, which the terms satisfy too. The
invariant `FreshInv` follows the states a sponge has permuted: each keeps the capacity that
the permutation before it left, since only the rate is overwritten, so none occurs twice
(`ChainDistinct`); and a cell that was given out is not below the sample index any more
(`GivenOut`). In the multi-field transcript a digit is its place and a squeezed element, and
the buffered digits are the last ones of one element (`DigitsOf`).

### Row-hashing kernels

`HashingNeverRaces`: for any matrix, any number of threads and limbs, both hashes, and up
to 2^9 rows per query that fit a block, every behaviour of the threads of a launch keeps
`SharedMemorySafe`. The bounds are the code's: `bn254_poseidon2_row_hash.cu` refuses more
than 9 doublings, `merkle_tree.rs` more than `MAX_MERKLE_ROWS_PER_QUERY`, 512, which is a
block. `Openings` starts each kernel with
`Launch` and changes it by `KernelStep` only, but it is not itself a module one can prove
about, as its polynomials are recursive.

`HashInv` says what each thread has touched (`Access`): while it hashes, words of its own
lane of the sponge buffers, because a buffer holds at most `Rate` elements (`Buffered`);
in a layer of the reduction, the limbs at the offset it writes or reads. Lanes are unique
by Euclid's division (`SplitUnique`), as are the offsets of the writers of a layer, one
per group; readers of a layer, its writers and the hashing phase are separate intervals
between barriers. The powers of two are cases, one for each number of rows.

### GKR kernels

`LaunchesAreSafe`: for trees of 2 to 2^31 leaves with any padding, for every window and all
tile, block and grid sizes, no two threads of a launch of `fractional_sumcheck_gpu` touch one
slot unless both only read it, and none leaves its buffer. The argument goes from the
numbers up.

- *Slots.* The nodes of a level lie in their bit-reversed places, a node that is one real
  leaf in that leaf's place. Bit reversal is its own inverse, shown one bit of its recursion
  at a time (`RevSteps` and what follows), so two nodes of a level never share a slot,
  spilled or not (`HomeApart`).
- *Kernels.* One lemma for each, for every size, ends in `Sound`: each thread has its
  own nodes, by Euclid's division of their indices, and so its own slots. The fold in place
  is sound on a layer without padding, or with a single output; in the tiles of the bit reversal
  threads do exchange slots, and the barrier between loads and stores keeps them apart.
- *Prover.* `IInv` says what level, in which buffer, with how many slots, each phase finds.
  So every launch meets the hypotheses of its lemma. It includes `Fits`, since the input, the
  build and the environment never change.

The hypothesis `Fits` is needed, and is about the input and settings only: the leaves are a
power of two, of which at least half are real, as the code asserts; in a round that folds after
every challenge the work buffer holds half of the layer (`Roomy`), or it is the last
round and the layer has no padding or one challenge; in a round with windows the scratch of
block sums holds the table of a window (`Tabled`). Without `Roomy` the prover races
(`gkr_race_doc`), which takes an environment variable; without `Tabled` the table is longer
than the scratch, which `fractional.rs:1221` asserts only in debug builds.

`DefaultsAreSafe` shows that `Fits` holds with what the code ships
(`fractional.rs:36-37`, `131-134`, `gkr.cu:1312-1321`): windows of 3 from 22 variables on, at
least 64 blocks, 1024 target blocks, tiles of 256 to 4096, blocks of 64 to 256 threads, warps of 32,
*any* number of multiprocessors. Only with windows switched off does it need a tree without
padding. The largest trees are where it is tight: the work buffer is sized for the rounds before
the windows take over, and the windows for a scratch that the launch of a round determines.

### Assumptions

`PoolAssumption` (chunks do not overlap, requests are positive, page counts are natural
numbers), `PreallocationAssumption` (enough physical pages for the preallocation; otherwise
`new` panics), `DeviceAssumption` (event numbers are not kernels), `SizeAssumption`,
`PageAssumption` and `NoneAssumption` (a page is not empty, lengths are natural numbers, "no
stream" is no stream), `PinnedAssumption` (types of sizes, caps and devices, batches of at
least one), `SpongeAssumption`, `MultiFieldAssumption`, `TranscriptAssumption` (a rate of at
least one within the width, at least one element per packed element), `TreeAssumption` and `LaunchAssumption` (a tree built in
tiles has more than 32 leaves, a tile being 8 by 8; blocks, warps and grids are not empty). TLC evaluates all of
them in the runs, and each inductive invariant was checked by TLC before it was proved (of `HashInv`, all but
that a row is a sequence over some set; `FreshInv`, which speaks of a history that no
variable keeps, not at all).

### Only model-checked

- `CallReturns`, `Recycled`, `ShutdownReturns`: liveness under fairness is out of reach.
- Everything of `ProofProtocol` and `ConstraintCompiler`, `ProversAgree` and
  `OnlyHonestAccepted` of `Openings`, and `SumsTheLayer`, `ClaimsHold`, `TreeKept`: what recursive definitions compute (a proof as data, a DAG, an
  evaluation, a tree) would need an induction over data.

## Where code and documentation disagree

With a run that shows it:

1. **A failed remapping loses track of mapped pages** (`remap_failure_doc`).
   `docs/vpmm_spec.md:145` says `active_pages` has the current address of every mapped
   page; `vm_pool.rs:725-740` removes a page before `vpmm_map` and returns on its error
   without putting it back, so that `Drop` neither unmaps nor releases it.
2. **The last fold in place races** (`gkr_race_doc`). With padding and windows
   switched off, the last round folds the compact layer in place; with 10 of 16 leaves,
   thread 1 stores output 5 into the slot of the spilled leaf that thread 0 reads as
   input 10. `gkr.cu:571` excludes only padding outputs, and
   `src/cuda/logup_zerocheck.rs:892` says that there are no cross-thread conflicts.

Met while modelling, without a run of their own:

- The region maps do not partition the reserved addresses (`docs/vpmm_spec.md:146`):
  when new pages merge with a free region of the same stream that ends at the hole,
  fewer pages are remapped than the hole has room for (`vm_pool.rs:634-640`) and its end
  is in no map any more. `AddressesKept` says that addresses are lost in no other way.
- The leftover of a harvested region keeps its event and id (`vm_pool.rs:689`);
  `docs/vpmm_spec.md:192` says it gets a new one. Keeping them is safe (`NoRace`).
- The document records a free's event on the calling thread's stream, the code on the
  stream of the allocation (`vm_pool.rs:425-428`); a mutant of `NoFault` shows that the
  code's choice is the one that works.
- A second `shutdown` finds an empty slot, joins nothing and returns while the first
  caller's cleaner goes on draining (`pinned.rs:356` against the comment at 350).
- When the pool takes over or drops the last region of a stream, its guard is dropped
  under the manager's lock (for example `vm_pool.rs:346`), which `mod.rs:112-113` avoids
  for frees.
- Trackers share one peak: one that is started inside another resets it.
- With `MIN_N` lowered to 4 and `MIN_BLOCKS = 1`, the `debug_assert` at
  `fractional.rs:1221` fails for trees of 256 to 1024 leaves. The comment at
  `fractional.rs:846` holds only without these environment variables, and
  `peak_work_buffer_bytes` leaves out `m_partial`.
- An AIR whose constraints all expand to nothing panics in `to_device_on` when its key is
  transferred (`pkey.rs:150`); the comment at `logup_zerocheck/mod.rs:1346` says that such traces
  are skipped.
- With a single WHIR round the codec writes a Merkle depth that the decoder reads and
  does not use, so that proof has more than one encoding; the padding bits of the bitmap,
  in contrast, are refused for the sake of a canonical encoding (`proof.rs:466`).
- Where a folding challenge equals a point of the skip domain, the GPU's barycentric fold
  gives zero weights and `fold_ple_evals_cpu` divides by zero; the reference is right.
  The chance is negligible, and `ChallengeAssumption` excludes it.
- Keygen only logs that no AIR reaches the configured `max_constraint_degree`
  (`keygen/mod.rs`). With a maximum of 1 the GPU's `evaluate_logup_batched` takes the one
  evaluation point for an exhausted trace and writes the sums of the others into
  `logup_tilde_evals` (`batch_mle.rs:612`); the setups have a maximum of at least 2.
- For an AIR of degree 0 whose interactions are constants, round 0 of the hosts
  interpolates no points and gets empty polynomials for its sums (`cpu.rs:384-422`).
- The GPU's kernels for exhausted traces filter out AIRs whose constraints have no
  monomials; those for the other rounds unwrap a table that such an AIR has not got
  (`cuda-backend/src/logup_zerocheck/mod.rs:1374`). The key transfer panics before.
- The CPU's packed hashing leaves a zero digest for the padding rows of a partial chunk
  where a full chunk would hash a zero row; heights are powers of two, so it is not
  reached. A trace of width zero in last place would be read past `mat_starts` by the
  GPU's WHIR packets.

## What is not modelled

- Arithmetic that is correct for algebraic reasons: the extension field's degree, hash
  permutations, the soundness of sumcheck, GKR, WHIR and LogUp, proof-of-work search, the
  reductions inside a block.
- `Per-device constant initialisation`: caches keyed by device and reset epoch. Nothing
  in the repository calls `reset_device`, and they touch no other modelled state.
- `to_host_sync` and the shared event of a stream: recording the event again only moves
  the wait of another thread to a later point of the same stream.
- The CPU backend's parallelism over disjoint chunks.
- In the batch sumcheck: the variants of the round-0 kernels (all cosets in a thread, or one
  coset per block) and the kernels for one trace, which compute what the batched ones do;
  preprocessed parts, which are read like cached ones; public values; index checks of
  `LogupZerocheckCpu::new`.
- The recording and validating wrappers of transcripts; transport of keys and matrices;
  error returns of a device in the middle of a prover, except through `DeviceMemory`.
- Memory metering and the soundness calculator with its Lean export: numeric estimates
  and text. SDK, test and benchmark crates.
- In the pool: byte sizes below a page, debug output, environment variables, and what is
  listed as abstractions above.

## Plan

A run in which challenges are derived from what was sent would join `ProofProtocol`,
`FractionalGkr` and `Openings`.
