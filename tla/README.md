# TLA+ models of lib-util-c

lib-util-c is a C utility library: containers, buffers, timers, codecs, and a
platform layer (mutexes, threads, condition variables, atomics) for POSIX and
Windows. This directory holds TLA+ modules that model its stateful components,
TLC configurations that check them on small instances, and proofs that TLAPS
checks for every instance.

Run from this directory, for instance `tlc -config MCDLList.cfg MCDLList.tla`
and `tlapm DLListProofs.tla`. `PROJECT.json` maps every definition to source
lines, names the runs, a mutation of the model that each checked property
detects, the hazards and the theorems.

## 1. The system

The library has no main program. Each component is a set of functions over a
handle or a caller's structure; callers bring threads, callbacks and memory.

| component (source under `src/src`) | state | operations |
|---|---|---|
| `dllist.c` | two links per cell; the cells live in callers' structures | init head, is empty, insert head / tail, remove entry / head, append a ring |
| `item_list.c` | handle with head, tail, count, iterator; heap nodes with an owned-copy flag | create, destroy, add item / copy, remove at, get at / front, iterator, next, clear, count |
| `item_map.c` | array of chains of key/value mappings, number of mappings | create, destroy, add, get, remove, clear, size |
| `binary_tree.c` | nodes with parent, left, right, height, balance | create, destroy, insert (with rotations), remove, find, height, count, print |
| `buffer_alloc.c` | payload, `alloc_size`, default allocation, and for bytes the size | construct, construct with format, free; byte construct, free |
| `sys_debug_shim.c` | list of allocation records, three counts, an init flag | malloc, calloc, realloc, free replacements; init, deinit, reset, queries |
| `alarm_timer.c` | duration, start time | init, start, reset, is expired |
| `pal/*/mutex_mgr_*.c` | `MUTEX_HANDLE`: an OS mutex (Windows) or a `pthread_mutex_t` by value | create, lock, trylock, unlock, destroy |
| `pal/*/thread_mgr_*.c` | `THREAD_MGR_INFO`: function, parameter, thread | init, join, detach, sleep |
| `pal/*/condition_mgr_*.c` | a condition variable, passed by value | init, wait, timed wait, signal, broadcast, deinit |
| `pal/*/atomic_operations_*.c` | the caller's integer | add, subtract, increment, decrement, exchange-free |
| `pal/linux/interval_timer_linux.c` | a POSIX timer and its callback | create, start, stop, destroy |
| `sha256_impl.c`, `sha512_impl.c`, `sha_algorithms.c` | message block, lengths, intermediate hash | init, process, retrieve |
| `binary_encoder.c` | none between calls | encode, decode, decode the first part, in base 32 and base 64 |
| `crt_extensions.c` | the caller's `char*` | clone a string, a part of it, a formatted text |
| `file_mgr.c` | a `FILE*` in a heap structure | open, close, get length, read, write |
| `app_logging.c` | a callback | log |

**How components interact.** `item_map` and `item_list` own heap memory and call
the caller's destroy callbacks while they work. With `USE_MEMORY_DEBUG_SHIM` every
`malloc` of the library goes through `sys_debug_shim`, whose own lock is
commented out. `thread_mgr` passes a heap structure from the creating to the
created thread, and start functions are the callers of the atomic operations.
`condition_mgr` waits with a handle of `mutex_mgr`, on the clock that `alarm_timer`
also reads. `sha_algorithms` calls one of two implementations through a table of
functions. `crt_extensions` and `file_mgr` allocate for their callers. The rest is
called directly by users of the library.

**What is hard.** Callbacks that re-enter a container in the middle of a call;
nodes that are freed while a pointer to them stays in a handle or with the
caller, and whose address `malloc` hands out again; the second of several
allocations failing; threads between the two steps of an operation (an update
and the read of its result, a `create` and the first run of the worker); OS
objects copied by value; loops that must end; sizes kept in two places; clocks
that are cut to seconds and set back; buffers whose size is checked against one length and
filled up to another; inputs cut anywhere. The `hazards` of `PROJECT.json` list these
at their lines.

**What makes each component correct.**

- `dllist`: the links of all cells form disjoint rings, each link has its inverse;
  a ring read as a sequence changes as the function says.
- `item_list`: a queue; no freed node is dereferenced; each item is released once
  and in the way it was added; every call returns.
- `item_map`: a dictionary that keeps, per key, the values in the order they were
  added; the size is right; nothing leaks when an allocation fails; removal returns.
- `buffer_alloc`: appends stay in the block; no block is lost or freed twice.
- `sys_debug_shim`: the counts are those of the heap.
- `alarm_timer`: expires neither early nor more than a second late.
- `mutex_mgr`: at most one thread was told it holds the mutex; lock returns.
- `thread_mgr`: the worker calls the function it was created for; join returns once it has.
- `atomic_operations`: results are recent, and the final value is seen by somebody.
- `binary_tree`: the keys stay ordered, parent and child links agree, count and
  content agree.
- `condition_mgr`: a timed wait lasts until its deadline, and ends.
- `sha`: a digest is that of the padded message, however the input is cut.
- `binary_encoder`: decode inverts encode; no buffer is overrun; lengths are exact.
- `crt_extensions`, `file_mgr`: every block has one owner, also after a failure;
  asking for a length and reading so much gives the whole file.

## 2. Modules

| module | models | remarks |
|---|---|---|
| `DLList` | `dllist.c` | `fwd`, `bk` as functions on cells |
| `Rings` | abstract: disjoint sequences | `MCDLList` shows `DLList` implements it |
| `DLListProofs` | theorems | the links, and the refinement of `Rings` |
| `ItemList` | `item_list.c` | nodes, heap and callbacks; removal and clearing are split where `destroy_cb` runs |
| `ItemQueue` | abstract: a sequence and an iterator | `MCItemList` shows `ItemList` implements it |
| `ItemListProofs` | theorems | safety properties and the refinement of `ItemQueue` |
| `ItemMap` | `item_map.c` | the removal loop turn by turn, allocations counted |
| `Dictionary` | abstract: values per key | `MCItemMap` shows `ItemMap` implements it |
| `ItemMapProofs` | theorem | the accounting |
| `BinaryTree` | `binary_tree.c` | parent, left and right links, heights and balance factors; rotations and removals assignment by assignment |
| `BinaryTreeProofs` | theorems | the links and the content |
| `BufferAlloc` | `buffer_alloc.c` | sizes exact, bytes left out |
| `MemShim` | `sys_debug_shim.c` | sizes modulo `SizeMod` as `size_t` |
| `CrtExtensions` | `crt_extensions.c` | on `MemShim`; texts are their lengths; a formatted clone is three steps |
| `FileMgr` | `file_mgr.c` | on `MemShim`; one file and its stream, as the C standard says of each mode |
| `ShimClients`, `ShimClientsProofs` | the allocator with both and an application, theorems | one or several of the clients at work |
| `AlarmTimer` | `alarm_timer.c` | clock in parts of seconds |
| `ConditionMgr` | the waits of both `condition_mgr` files | extends `AlarmTimer`, whose clock runs and is set back under the waiter |
| `ArithmeticProofs` | theorems | about `BufferAlloc`, `AlarmTimer`, `ConditionMgr` and `Sha` |
| `Platform` | what the files of `pal` share | the threads, and which directory was built |
| `MutexMgr` | both `mutex_mgr` files | the OS mutex by what the files use of it |
| `ThreadMgr` | both `thread_mgr` files | creators, workers and the heap |
| `AtomicOps` | both `atomic_operations` files | integers modulo `Mod` |
| `Workers` | threads of `ThreadMgr` that make the calls of `AtomicOps` | the composition that is checked |
| `ThreadProofs` | theorems | about `Workers` and about `MutexMgr` |
| `Sha` | `sha256_impl.c`, `sha512_impl.c`, `sha_algorithms.c` | one context; a byte is its position, so that one lost or moved shows; the hash is the sequence of all bytes compressed |
| `BinaryEncoder`, `BinaryEncoderProofs` | `binary_encoder.c`, theorems | codes of characters, bit operations by `\div` and `%`; one step per group of a loop |

One action is one C function, or the part of one up to a point where other code
runs: a callback, a blocking OS call, another thread. The guard is the function's
early returns and conditions. Null handles, which every function rejects first,
are left out. Definitions keep the C names. Undefined behaviour sets `ub` and
ends the behaviour, so that a run can say where it is reached. Each module has
some operators with a suffix (`Splice_AsHead`, `Link_ForgetsTail`): the mutated
forms that show that a property depends on the code.

**Where the code restricts the caller.** Some properties hold only for callers
that stay away from defects; those restrictions are named constants, so that
lifting one shows the defect:

- `ItemList!AddsAfterLast`: FALSE for a caller who removes whatever he likes, but adds nothing
  to what is left of a list whose last item he has removed (`item_list.c:206` leaves
  `tail_node` at the freed node) until he has cleared it or emptied it.
  `CallbackAdds`: additions from a callback during clear or destroy are left out
  (`item_list.c:70`). `KeepsCursor`: iterators kept over a removal dangle. Removals of one
  kind of item behind the other are all included; what they do wrong (`item_list.c:194`)
  is in section 5.
- `BufferAlloc!WellUsed`: `faults` is chosen freely at the start; two of the
  properties speak of buffers that are well used.
- `MemShim!Switches`: init and reset with blocks in use make the counts wrong.
- `ThreadMgr`: nothing is excluded. A detach before the worker ran frees what it reads; `early`
  records the threads this happened to, and `WorkerCallsItsFunction` speaks of all the others.
- `MutexMgr!CreatorReleases`, `EndsHolding`: see fairness below. Exclusion is
  stated for Windows; on POSIX each call works on a copy and it does not hold.
- `ConditionMgr!Ahead`: deadlines not before the second of the call (Windows).
- `Sha!DigestSizes`: no `digest_len` above the size of the hash, which would read past it.
- `CrtExtensions`: no `source_len` beyond the source; `*target` is not used after a failure.
- `FileMgr!MayTurnTo`: on a stream for both, `file_mgr_get_length` is called between
  reads and writes, the only call of `file_mgr.c` that positions, as C requires.
- `BinaryEncoder!RunsOn`, `Stumbles`, `AnswersZero`: the two partial decodes and the encode for
  which a property fails; every other call is included.
- `BinaryEncoder!Trailers`: what follows the part of a partial decode is nothing or at least 16
  characters. The loop of base 32 looks for the terminator only between groups of eight
  (`binary_encoder.c:208`), so behind a shorter trailer it may read past the end of
  the buffer; this length hides that over-read, and what follows from it is not modelled.
- `BinaryTree!flaw`: nothing is excluded here; a call that meets a defect sets
  `flaw` to its name and is the last one of the tree. The properties speak of
  trees with `flaw = "none"`. `Keeps` states exactly which rotations leave a tree
  behind: those of a chain of three on the side of the parent where it hangs.

## 3. Runs

| run | instance | shows |
|---|---|---|
| `dllist` | 4 cells | link invariants, the answer of remove entry, refinement of `Rings` |
| `item_list` | 3 nodes, 2 caller items, 1 copy, any removal, callbacks that add in a removal, every allocation may fail | memory safety, no node, item or copy lost, handle consistent, refinement of `ItemQueue`, calls return |
| `item_list_tail` | 3 caller items, also additions after the last node is removed | violates the comment at `item_list.c:59` |
| `item_map` | 3 keys in 2 slots, 2 values, 4 mappings | sizes and heap, refinement of `Dictionary`, removal returns from pure chains |
| `mutex` | 3 threads, nesting 2, threads that end as owners, both platforms | exclusion, lock returns |
| `workers` | 2 threads with 2 addresses, 2 functions, creations that fail, detaches at any time, 2 atomic calls each, modulo 4, +1 and -1, both platforms | the worker's function, leaks, join returns; recent results, final value seen |
| `buffer` | lengths 1, 2, 3, 5, 9, default 4, up to 20, every set of faults, both kinds | writes within the block; safety and no loss when well used |
| `shim_clients` | 2 addresses, sizes 1 and 2 modulo 16, 3 counted calls, 3 records; an application with a cloner of strings of 0 and 2, or a file of up to 2 bytes | counts and records are those of the heap; one owner per block; the file is read whole and keeps what is appended to |
| `binary_tree` | 6 keys | links agree and the tree holds what is present, until a named defect is met |
| `timeouts` | 3 ticks a second, 14 ticks, set back by up to 2 s; timers of 0 to 2 s, or waits with deadlines before, in and after the second of the call | neither early nor late; the sleep is the time left; a timed wait ends |
| `sha` | blocks of 64 and 128, length words of 5 and 6 bits, pieces of 1 and 63, up to 520 bytes, digests too short and right | the digest is that of the padded message; nothing outside the block |
| `binary_encoder` | 28 messages of 1 to 7 bytes, no trailer or 16 characters of three kinds, 15 capacities from 0 to 17 or no buffer, every length of a part | round trip; nothing outside the buffer; failures for room only, zero for a whole text only |

Every run also checks the types of its modules, as a part of its first invariant.

**Why the bounds are enough.** Four cells give two rings of two, or a ring of
three and a fourth cell to splice; the cases of every dllist function touch at
most four. Three list nodes give a front, an inner and a last one, and one to
reuse. Two colliding keys with repetitions give every order of equal and
different keys in chains of four, and the third key shows that slots are
independent. Five keys are
the fewest for a single or double rotation below the root, and the sixth gives an
insertion or a removal after it. Three threads give a holder, a waiter and a third that overtakes.
Two addresses are reused by the second creation after a join or a detach; two threads
with two calls each interleave every pair of updates and reads, across the wrap. The buffer's
lengths lie below, at and above the default and at every boundary of the growth
condition. Three shim records suffice for a stale one below two live ones; the
modulus is larger than everything the sizes add up to, as `size_t` is. A second in
three ticks has a beginning, a middle and an end. The shim's clients are bounded by
`Companies`, the sets that work at once: a cloner beside an application reuses
addresses between them, and the file manager's only block needs no neighbour.
Pieces of 1 and 63 bytes reach every index of both blocks from several sides, and
the short words let the length carry and overflow within 520 bytes (64 and
128 bits of length would take 2^61 bytes). Seven bytes are more than one group of
either base with every remainder, the four patterns set every bit of a group both
ways, and the capacities lie around every length that a text or a decode has.
Named bounds in guards: `MaxItems`, `MaxSize`, `MaxCount`, `MaxRecords`,
`MaxCalls`, `MaxHolds`, `Horizon`, `MaxSkew`, `MaxBytes`, `MaxFile`, `Companies`. `CHECK_DEADLOCK FALSE` stands where
threads end or run out of calls, or where undefined behaviour ends the program.

**Fairness.** `ItemList` and `ItemMap` assume only that a call that has begun goes
on (weak fairness of the steps of its loop): the code runs on the caller's
thread. `Workers` assumes that the scheduler runs ready threads and that start
functions return. `ConditionMgr` assumes that time passes and that the OS ends a wait
whose time is up; no signal and no spurious wakeup is assumed. `MutexMgr` assumes that the OS wakes some waiter again and
again (strong fairness of the return from `WaitForSingleObject`) and that callers
give back what they lock, the creator its first ownership; `LockReturns` further
speaks only of behaviours in which no thread ends with the mutex, since the
thread that gets an abandoned one is told that it failed.

## 4. Proofs

Each theorem below holds for every value of the constants that satisfies the named
`ASSUME`s of its modules, which TLC evaluates in the runs. They say that numbers are
numbers, that `NULL` is nobody's address, and that cells, nodes and slots are finitely
many (`NullAssumption`, `ItemListAssumption`, `ItemMapAssumption`), as memory is. A
hypothesis beyond them is a restriction of section 2 and is stated in the theorem.

- `DLListProofs`: `WellLinked`, that the two link functions are
  inverse bijections on the cells in rings and that heads are in separate rings,
  is inductive, one lemma per function. It gives `RingsWellFormed` (`TypeOK`, `LinksInverse`, `ListsSeparate`) and
  the answer of `dllist_remove_entry`. For the refinement of `Rings`,
  `LinksImplementLists`, it is not enough: two rings with one
  anchor would satisfy it. `RingsInv` adds that the cells of an anchor are one ring, witnessed
  by the sequence met on the way around it; each function joins two such
  sequences (`JoinIs`) or drops a cell from one (`DropIs`), and the walk that defines the
  content returns the sequence that it must.
- `ItemListProofs`: `SafeInv` says that the nodes in use are one sequence without
  repetition, linked in its order (`Listing`), which of them the call in progress is
  about to free (`CallInv`), and where every item is (`FateInv`). The last two are what
  induction needs, since a removal or a clear is several steps with callbacks between them.
  It gives `MemorySafe` and `HandleStaysConsistent` under the hypothesis
  `CarefulCaller`: the three restrictions on additions after the last item is gone, on additions from
  callbacks, and on kept iterators; removals of the last item and of mixed kinds are covered,
  so that `tail_node` may be dangling in between; the ghost variable `cut` of `ItemList` records
  exactly when, and `HandleConsistent` says that it dangles then and is the last node otherwise. `CopiesInv` adds that the copies in memory are those in the list, through
  both failures of `item_list_add_copy`; with it `AllAccountedFor` follows, for lists with a
  destroy callback, since without one a copy that is removed behind an item of the caller is lost (`item_list.c:194`).
  `QueueImplemented` shows under `CarefulCaller` that every step is one
  of `ItemQueue` or changes nothing of it.
- `ItemMapProofs`: `MapAccountsForAll`, from `MapInv`. `item_len` is compared with a sum
  over slots; `AllMappingsIs` shows that the fold that computes it counts the
  places in the chains in whatever order it takes the slots, so that a call that changes one
  chain changes the sum by as much (`ChangedChain`). Any hash function is covered.
- `BinaryTreeProofs` (any finite set of keys that fit a byte, any order of calls):
  `LinksAgree` and `HoldsWhatIsPresent`. Both speak, as in the runs, of trees that have met
  none of the defects of section 5 (`Sound`), and have no other hypothesis. Neither is inductive:
  links that agree may still close a ring, and a key may stand on the wrong side of an ancestor that is
  not its parent. `TreeInv` therefore says that some function `sub` gives
  each node the set of keys of its subtree (`Shape`): the node itself and
  the disjoint sets of its two children, one below its key and one above. Find
  follows from it, since a key that is not on the side taken is in neither set.
  An insertion goes down to a leaf and rotates anywhere on its way back: `Returned` says
  what the call for a node leaves behind, namely a tree of the same keys and the
  new one, hung from the same parent, and `Framed` that it wrote
  to no node outside of it. A rotation keeps such a tree or names its defect;
  removals cut a node out (`SpliceHeld`) or put another in the place of the root
  (`ReplaceRootHeld`). Heights and balance factors are any numbers, so the proof does not
  depend on which rotation the code picks. TLC cannot evaluate `TreeInv`, since the
  functions it quantifies over are too many; it checks the two consequences.
- `ThreadProofs`, `Workers`: a worker reads its own structure (`WorkersCallTheirFunction`)
  because no other thread was created through its address as long as it has not
  read it, `InfoInv`, whichever other threads are detached, joined and created. Only threads that
  were detached before they ran themselves, `early`, may find something else. `NoHandleLeaked` follows from where each
  handle is (`HandlesInv`). `ResultsAreRecent` and `FinalValueIsSeen` have no hypothesis: when
  threads are between their update and their read, one of them will still read
  the present value, or a finished call has returned it (`SomebodyKnows`).
- `ThreadProofs`, `MutexMgr` (any set of threads, any nesting): that a thread which counts on
  the mutex owns it is not inductive, since an unlock might be the last one. The
  invariant `ClaimsCovered` compares a thread's claim, including the creator's
  first ownership, with the depth of the kernel object; `NobodyBefore` covers the
  time before `mutex_mgr_create`. Types hold on both platforms, exclusion
  on Windows.
- `ShimClientsProofs` (any clients, sizes and `size_t`): `ShimInv` says that every block in use
  has exactly one record in front of the stale ones while the shim is initialised, that the total is the sum of the blocks,
  and that no sum reaches the modulus. Stale records are allowed: `mem_shim_deinit`
  with blocks in use leaves them. The theorems on counts and records have the hypothesis that
  init and reset are called only when no block is in use (`Switches \subseteq {"deinit"}`). `Owned`, that each block is
  the application's, one clone's or the file manager's, is inductive only with `ShimInv`,
  for a `malloc` gives an address that is free. The two theorems about the file use
  `FileInv` alone.
- `ArithmeticProofs`, `BufferAlloc` (any lengths, any default, both kinds): `SizesInv` says that
  the block is at least `alloc_size` and the content within it, also while there
  is no block; it holds whatever fails, and `FlagsInv` adds the rest of the types. `OwnershipInv` says that a well used buffer
  has a block exactly when `alloc_size` is not 0.
- `ArithmeticProofs`, `AlarmTimer` and `ConditionMgr` (any resolution, durations, amount set back): `ClockInv` ties
  the tick at which the timer began to the clock, the elapsed time and the skew;
  two lemmas about integer division turn it into both timing properties. A step of
  `ConditionMgr` moves the clock as `AlarmTimer` does, so that `SleepsRight` can use the
  invariant of the clock. It assumes deadlines below 2^32 milliseconds, beyond which a DWORD cannot hold them.
- `ArithmeticProofs`, `Sha` (any sizes of block, length and word with `ShaAssumption`, any message,
  any pieces): what was compressed and what the block holds together are the bytes
  absorbed, `Streaming`, and the two words are the quotient and remainder of their bits. The
  step that matters is the padding: `PaddingIsRight` shows that one or two blocks
  give exactly the sequence that FIPS 180-2 asks for, from lemmas on the number of
  blocks and on division.
- `BinaryEncoderProofs` (any messages, trailers and capacities): `Group64` and `Group32` say that the
  characters of one group decode to its bytes, with whatever padding, from the arithmetic
  of 24 and 40 bits (`Join24`, `Join40`). `EncoderInv` says that an encoder has written
  the groups it has done, a text has them all, and a decoder has written bytes
  of the message as far as it reaches, with as many groups as there is room for. The
  cases that matter are at the end of the text: the characters of base 64 that are counted
  in front of padding are those of the last group (`Finds64`), and the base 32 loop, which
  compares bytes and not characters, either stops with the text or is in the case of `Stumbles`.

**Recursive definitions.** The walks along links and the folds over sets are recursive
functions. Proofs about them go through a least counterexample: a set of natural
numbers that is not empty has a least element (`LeastNat`, from the well-foundedness of `<`), so
a recursive function that is known at 0, and at `n` if at `n - 1`, is known everywhere.
The calls of `binary_tree.c` that go down the links are functions on nodes; `TreeInduction` is the same
argument for the subtrees, of which one is smallest since the keys are finitely many.

**Only model-checked.** All liveness (`CallsReturn`, `JoinReturns`, `LockReturns`, `TimedWaitEnds`
and `RemoveReturnsFromPureChain`): fairness and `ENABLED` are outside the prover. The
refinement of `Dictionary`: its
selection of values by key (`SelectSeq`) is recursive in a standard module whose definition the
prover does not see.

## 5. What the code does differently from what is written

The run `item_list_tail` expects a violation: after the last of several nodes is removed
`tail_node` points at freed memory, and the next addition writes through it (`item_list.c:206`),
so that `AddSetsTailToEnd` does not hold.

Other statements of the repository that the code refutes are defined beside the properties
that hold. Each is an invariant that TLC shows to be violated at once when it is put in
the place of the properties of the configuration named here:

| statement | configuration | what is written | what the code does |
|---|---|---|---|
| `ItemList!RightRelease` | `MCItemList.cfg` | `item_list_ut.c:295` expects the destroy callback for an item of the caller, `:317` `free` for a copy | the removed item is released as if it were of the kind of the one in front (`item_list.c:194`) |
| `ThreadMgr!DetachIsHarmless` | `Workers.cfg` | `thread_mgr_posix_ut.c:235` detaches right after init | a detach frees what the worker has not read yet (`thread_mgr_posix.c:88`) |
| `BinaryTree!RemovedIsGone` | `BinaryTree.cfg` | `binary_tree.c:509`: "Replace Node with smallest value in right subtree" | the data of that node is copied but not its key (`binary_tree.c:525`): the removed key is still found, with another key's data |
| `BinaryEncoder!ZeroIsSuccess` | `MCBinaryEncoder.cfg` | `binary_encoder.h:61`: "Zero indicates success" | a base 64 encode answers 0 when the buffer is too small, and writes nothing (`binary_encoder.c:727`) |
| `BinaryEncoder!ReportsTheNeed` | `MCBinaryEncoder.cfg` | `binary_encoder.h:23`: "any other value is failure and the amount of memory needed" | a base 32 encode reports a length it would refuse again, for the terminator is not counted (`binary_encoder.c:539`) |
| `BinaryEncoder!PartStaysInOutput` | `MCBinaryEncoder.cfg` | `binary_encoder.h:82`: `len` is the length of the source | a partial base 64 decode of unpadded text in front of more writes past the buffer it has checked (`binary_encoder.c:279`) |

The rest is against nothing that is written. On POSIX
`mutex_mgr_lock`, `trylock` and `unlock` take the `pthread_mutex_t` by value
(`mutex_mgr_posix.c:34`), so that `trylock` succeeds while another thread was told
that it has the lock; without `platform = "win"` the run `mutex` violates
`MutualExclusion` in a few steps. `item_map_remove_item` does not
return when a mapping of another key follows the first of its chain. No test does this (the
removal of an absent key at `src/tests/item_map_ut/item_map_ut.c:475` finds an empty
slot); `RemoveReturnsFromPureChain` is what remains. In `binary_tree.c` each value of `flaw` is a defect that a run without
`Sound` reaches in a few calls: `"null"`, a rotation of the root (three ascending
insertions), the removal of a root with at most one child, the height of an empty
tree; `"rotation"`, one that loses nodes; `"parent"`, a child that is not told its
new parent; `"successor"`, the removal that refutes `RemovedIsGone`. Stored
heights and balance factors drift from the real ones after removals and right
rotations, and nine insertions can leave a tree that is not balanced although no
defect was met; nothing in the repository promises balance.

Others show when a restriction
of section 2 is lifted: the dangling iterator in
`item_list`, the totals after a reset in
`sys_debug_shim`, the buffer after a failed first allocation. On Linux the result
of an atomic call may contain updates of other threads, so two threads that
count down may both see zero; `ResultIsRecent` states what does hold.

In `binary_encoder.c` `decode_base64_source_value` loops over all characters of the source, whatever
part was given (`RunsOn`); a partial base 32 decode whose last group has at most three bytes goes on
behind it and fails or stops by what it finds there (`Stumbles`;
`src/tests/binary_encoder_ut/binary_encoder_ut.c:301` has a longer group). Decoding the
empty text reads before its beginning (base 64) or leaves the length alone (base 32). A query
for the length of the first three characters of a base 64 text, the third of them a `=`, gives
`SIZE_MAX` (`Minus`).
On Windows `timespec_to_ms` turns a deadline before the current second into a sleep of
up to 49 days, or into `INFINITE`: its test `result < 0` is of an unsigned number.
`sha_algorithms_process` that fails for its digest has already absorbed its bytes.

## 6. Not modelled, and the plan

Not modelled: `app_logging` and `print_tree` (output only), `sys_lock` (a header without
implementation), `interval_timer_linux.c` (in no build target; it casts a `union sigval` to a
pointer and does not compile), the second base 32 decoder of `binary_encoder.c`
(`#if 0`), `thread_mgr_sleep`, the compression functions of SHA, contents of
texts, the vendored dependencies. Signals and broadcasts of `condition_mgr`
reach nobody, and what Windows does with a mutex handle that is given as a critical
section is not known from the source. Of threads racing in `sys_debug_shim.c`, whose lock is
commented out, no property of its counts can hold.

Every safety invariant and every action property that a passing run checks is proved; what is left to
TLC is named at the end of section 4.
