# TLA+ models of TriCache

TriCache is a user-space block cache: a program's pages live on NVMe devices and
are cached in three levels, a direct-mapped cache and a private cache per thread
and one shared cache per machine, which is split into partitions with a server
thread each. This directory holds models of the parts that make it correct, the
TLC runs that check them on small instances, and proofs, for instances of any size, of
every safety property the passing runs check, of an action property and of four refinements.

`PROJECT.json` lists components, runs, the source lines behind each definition,
findings, hazards and theorems. To repeat a run: `tlc -config X.cfg M`; to repeat
the proofs, `tlapm M.tla` for each of the modules `SharedCacheProofs`,
`HeaderAndClockProofs`, `PageTableProofs`, `PartitionChannelProofs`, `IoBackendProofs`,
`InstructionsProofs`, `RuntimeProofs` and `MemoryOpsProofs`.

## The system

| component (src/include) | state | operations | talks to |
|---|---|---|---|
| `SharedCache` | page tables and pools of all partitions | `pin`, `unpin`, `get`, `set` by any thread; `evict_func`, `load_func` of the servers | page table (shared memory), server (messages), device |
| `SharedSingleThreadCache` | `pinned_size`, `cur_id`, `states`, the page table, the replacement policy | `process` (phases Begin, Initing, Evicting, Loading, End), `notify_pin`, `notify_unpin`, `flush` | its callbacks |
| `CompactHashPageTable` | hash chains of cache lines with eight entries; each entry a 16-bit header (exist, busy, dirty, 13 bits ref_count) and a frame number | `pin`, `unpin` by any thread; `create_mapping`, `delete_mapping`, `release_mapping_lock` by the owner | - |
| `Clock`, `LRU` | the evictable frames | `push`, `pop`, `access`, `erase` | - |
| `PartitionClient`, `PartitionServer` | a request and a response mailbox per client, toggle bits, batches, client ids, the asynchronous fiber | `request`, `poll_message`, `wait`; the server loop | callbacks of `SharedCache` |
| `MemoryPool` | frames, `first_loaded` | `loaded` | - |
| `DummyIO`, `MemCopy`, `AIO`, `IOURing`, `SPDK` | pools or queues of commands, each with a pointer to a `finish` flag | `write`, `read`, `progress`, `cmd_callback` | device; the flags are in the contexts of `evict_func` and `load_func` |
| `RoundRobinPartitioner` | - | page to partition and block, and back | - |
| `PrivateCache` | a `SharedSingleThreadCache` per partition whose frames are pins of the shared cache | `pin`, `unpin`, `flush` | `SharedCache` |
| `DirectCache` | direct-mapped slots: page, pointer, dirty flag | `access`, `flush` | `PrivateCache` |
| `IntegratedCache` | both private levels of each thread | `access`, `pin`, `unpin`, `flush` | all levels |
| `CachedAllocator`, `MMapAllocator` | `used_size`, free lists | `allocate`, `deallocate` | - |
| runtime library (src/bind) | the global cache and allocator; mapped files with a mutex each; the budget `__total_real_alloc`; client threads | memory and string functions, `read`, `write`; hooks for `malloc`, `mmap`, `munmap`, `msync`, `pthread_create` | `IntegratedCache` through `CachedPtr`, allocator |
| segfault handler (src/bind) | per thread: the interrupted context, the changed registers, a buffer with a copy of the instruction | SIGSEGV and SIGTRAP handlers | `DirectCache` |
| compiler passes (src/llvm-plugin) | - | replace loads, stores and calls of the program | runtime library |

What is hard in it:

- Clients pin and unpin a page that is in memory without asking the server. They
  tell it afterwards, in batches, so the server's `pinned_size` and the set of
  evictable frames lag behind the reference counts, and the messages of different
  clients about one page arrive in any order.
- The server changes an entry under a lock bit that lives in the same word as the
  reference count, partly with plain stores.
- Write-back and load are asynchronous; while one Pin waits for the device the
  server serves others, including Pins of the page that is being written back.
- An answer comes in the response message or, later, by a write of the fiber to
  an object on the stack of the waiting client.
- Mailboxes have one slot and are announced by a toggle bit; client ids are reused.
- Each level holds pins of the next: a dirty bit has to pass through three levels.
- Clients walk the hash chains of the page table without a lock, while the server
  unlinks cache lines and uses them again for other pages. `pin` increments a count in
  the line it has found and only then looks at the tag again: until it takes the
  increment back it has a stray reference to some other page, and nobody is told.
- The memory functions of the runtime work on areas whose two sides meet the ends
  of pages at different places, and hold pins while they do.
- The device reports completion through a pointer into a request context that moves
  from the stack of `pin` into the fiber, and a refused command is tried again
  without yielding to the fibers that would reap completions.
- Two threads that map one file meet between two mutexes, and the file is read with
  only one of them held.
- An instruction that was not instrumented runs as a copy with changed registers.

What makes each part correct: a page always holds the last value stored to it, and every
pin is answered (`SharedCache`); a pinned page stays in its frame, the count of its
references is exact, and the server's count of pinned pages and its set of evictable
frames follow it, up to the notifications under way and to what stray references hide
from the server (see the findings; `SharedCache`, `PteHeader`); a walk ends at the entry of its
page or at none, and no cache line is lost (`CompactHashPageTable`); `pop` ends, takes
an evictable frame and passes none over for ever (`Clock`); requests are processed once
and in order, and an answer belongs to the request that waits (`PartitionClient`,
`PartitionServer`); a pointer from `access` is valid until the next access, and no level
drops a dirty bit (`DirectCache`, `PrivateCache`); a request is one write of the victim
and one read of the page on their own blocks, and ends (I/O backends); blocks do not
overlap (allocators); the budget holds, and a mapping that `mmap` returned is loaded
(hooks); a function on cached memory does what the C library's function does, and a
trapped instruction what the instruction would have done (`bind`).

## Modules

| module | models | remarks |
|---|---|---|
| `AddressSpace` | what a cache promises | abstract specification |
| `SharedCache` | one partition: clients, server thread, device | core; `ImplementsAddressSpace` |
| `SharedCacheProofs` | | proofs about a partition: pins, frames and references; the notifications (leaks, evictable frames, `pinned_size`); the refinement of `AddressSpace` |
| `Replacement` | what a replacement policy promises | abstract specification |
| `Clock` | `Clock` of `replacement.hpp` | implements `Replacement` |
| `PteHeader` | one header word, one atomic access per step | |
| `HeaderAndClockProofs` | | proofs about `PteHeader` and `Clock`, the refinement of `Replacement` |
| `PageTable` | the chains and the pool of `compact_hash_page_table.hpp`, with walking clients | operations on a header atomic, as `PteHeader` justifies |
| `PageTableProofs` | | proofs about `PageTable` |
| `Channel` | what the messages promise: every request once, in order | abstract specification |
| `PartitionChannel` | `partition_client.hpp`, the server loop, `message_type` | implements `Channel` |
| `PartitionChannelProofs` | | proofs about `PartitionChannel`, the refinement of `Channel` |
| `ThreadCache` | `direct_cache.hpp`, `private_cache.hpp`, `integrated_cache.hpp` for one thread | over what `AddressSpace` promises |
| `Instructions` | instrumented accesses, `segfault_handler.cpp` | composes the handlers with `ThreadCache` |
| `InstructionsProofs` | | proofs about `ThreadCache` and `Instructions` |
| `Partitioner` | `partitioner.hpp` | |
| `BlockDevice` | what a backend promises: write the victim, then read the page | abstract specification |
| `IoBackend` | the five classes of `io_backend.hpp` under `evict_func` and `load_func` | implements `BlockDevice`; extends `Partitioner` |
| `IoBackendProofs` | | proofs about `Partitioner` and `IoBackend`, the refinement of `BlockDevice` |
| `Allocator` | `cached_allocator.hpp`, `mmap_allocator.hpp` | |
| `Runtime` | the allocation and mapping hooks of `bind/cache.cpp` | composes the hooks with `Allocator` |
| `RuntimeProofs` | | proofs about `Allocator` and `Runtime` |
| `MemoryOps` | the memory functions, `read` and `write` of `bind/cache.cpp`, `cached_ptr.hpp` | over what `AddressSpace` promises |
| `MemoryOpsProofs` | | proofs about `MemoryOps` |
| `MC...` | symmetry sets and inputs for TLC | |

The modules fit together through the abstract ones. `SharedCache` uses the replacement
policy as a set from which `pop` takes some member (`Replacement`), the mailbox as an
exactly-once queue of batches (`Channel`), the operations on a header as atomic
(`PteHeader` justifies this: the loops are linearised at their successful exchange, and
between lock and unlock nobody but the server changes the word), the device as
`BlockDevice` promises it, and the walks of the page table as finding the line of the
page, none, or that of any other page (`PageTable`). `ThreadCache` uses the shared cache
through the promise of `AddressSpace`. In the other direction, `IoBackend` takes from
`SharedCache` that the pages of Pins under way are distinct (`FrameExclusive`,
`NoReadDuringWriteBack`).

### SharedCache

State: the page table `pte`, the fields of `SharedSingleThreadCache`, the control
state of the server thread, one context `ctx[c]` per client for its Pin in the
asynchronous fiber (a client has at most one Pin under way), the posted message
and the batch of each client, what each client holds, frames and blocks.

| action | code |
|---|---|
| `StrayPin`, `StrayUnpin` | `CompactHashPageTable::pin` on a line that was reused for another page: the increment, and after the check of the tag the decrement that is not reported |
| `DirectPin`, `PinMiss`, `RequestPin`, `AnswerPointer`, `AnswerEmpty` | `SharedCache::pin` |
| `Unpin` | `SharedCache::unpin` |
| `Notify` | `PartitionClient::request` for a notification |
| `ServeNotifyPin`, `ServeNotifyUnpin` | `notify_pin`, `notify_unpin` |
| `ServePinBusy`, `PinHit`, `PinRefused`, `PinAllocated`, `PinAllocatedRead`, `PinEvicts` | `process`, phases Begin and Initing |
| `ServerPop`, `ServerLock`, `ServerLockFails`, `ServerPopEmpty`, `ServerSpin` | the eviction loop; `pop`, the read of the victim's entry and the lock are separate because clients run in between |
| `FiberSubmit`, `FiberEvicted`, `FiberLoaded` | phases Evicting and Loading |
| `DeviceWrite`, `DeviceRead` | completion of a command |

`first_loaded` is allocated and never initialised, so `Init` gives it any value.
`PinMiss` is possible for a mapped page too, because a walk whose line is moved to
another chain misses it. `stray[c]` is the page to which client c has a stray reference:
any page but the one it wants, which is more than `PageTable` allows. `silent` and
`drift` are history variables: the mapped pages for which a stray was the last to move the
count between zero and one, and the number of such moves to zero minus those to one.
`PinnedSizeExact`, `NoFrameLeaks` and `EvictableSound` say that there is no other
difference between what the server believes and the counts. `MaxDrift` bounds the drift;
with 0 there are no strays. A pin is of a page the client does not hold, within its quota
(`MayPin`), as `PrivateCache` calls it; `IntegratedCache::shared_pin`, with which a program
can pin beside that, has neither limit and is not modelled.

### PteHeader

One entry through its life. `IncLoad`/`IncCas`/`IncRefused`, `DecLoad`/`DecCas`
and `CasFails` are the loops of `inc_ref_count` and `dec_ref_count`;
`CreateLoad`/`DeleteLoad`, `LockCas`/`LockRefused`, `StoreLoad`/`Store`,
`UnlockLoad`/`UnlockCas` the server's side, where each plain store to a bit field
is a load and a store of the whole word. `StrayCas`, `StrayLoad` and `StrayDecCas` are
the increment and the decrement of a `pin` whose tag check fails, of which nothing is
reported. `holders`, `noted`, `drift` and `modified` are history variables: who has a
reference, the sum of the reports, the changes that strays made without one, and whether
a writer has unpinned.

### PageTable

A line is a record of tag, `next` and `num_using`; lines below `bucket_size` are the
first lines of the buckets, the others start in the pool. Clients go through
`PinCall` or `UnpinCall`, `ReadTag` and `ReadNext` for each line of the walk, then
`Inc`, `Check`, `CheckFails` (the tag is read again after the increment, and the
reference taken back if it has changed) or `Dec`. The server's side is
`ServeFind`/`ServeCreateHead`/`ServeCreatePool`/`ServeLink` (`find_or_create`, where
the new line gets its tag before it is linked), `InitHit`, `InitRefused`,
`InitAlloc`, `InitEvict`, `InitEvictFails` (what `process` does with the entry),
and `ReleaseVictim`, `DeleteCut`, `DeletePush` (a line without entries in use is
unlinked, then returned to the pool). Contents and I/O are left out, and a
notification reaches the server at once; `SharedCache` has both.

The hints that a Pin keeps across its I/O are lines; `HintsStay` says that they are
still the lines of their pages when they are used. `unpin` walks until it finds
its page: `WalksGetShorter` is the variant that makes the loop end, a walk never
becomes longer by what the server does.

### MemoryOps

A behaviour is one call with any contents of memory, any pointers and any length.
`CopyStep` is an iteration of the copying loop of `cache_memcpy`, in its three
variants; the page pointers `raw` and the references `pins` are kept apart from the
position, because that they agree is what is to be checked. The other functions are
one loop over bytes each. `ReadStep` and `WriteStep` are a chunk of `read` and
`write`, where the system call may fail or transfer less. `strcpy` and `strcat` are
calls of `stpcpy` and `strlen`, `bcmp` is `memcmp`. The flush after `read` and
`write` changes no contents (`ThreadCache!StoresKept`). What `CallsCorrect` demands
is said with the contents before and after the call, without the loops.

### PartitionChannel

Every thread runs through the control points of `request`, `submit_message`,
`poll_message`, `pin` and the destructor. Copying a message is two steps, the
body and, after the fence, the header word with the toggle. The constants of the
build are used: two mailboxes per client (`USING_SINGLE_CACHELINE` is false),
answers by the fiber, no timer fiber, no pre-processing. The constructor of a client
throws when no id is left; here `Construct` is disabled then, which is the same to
everybody but the thread that asked.

### ThreadCache

One thread, sequential; the nondeterminism is the program's sequence of accesses,
pins and stores, the victim, and the shared frame a page is loaded to. `Flush` is
modelled without pins of the program, which is what its use requires.

### Instructions

`ReplaceAddrOp` is what the `TriCacheInstrument` pass puts in front of a load, a
store or an atomic instruction. `Segfault`, `TrapAccess`, `TrapPin`, `TrapRewrite`
are `segfault_sigaction`, `Exec` the copy of the instruction in `exec_buffer`,
`Sigtrap` is `trap_sigaction`. `ExecFails` is a copy that does not access the frame
of its page: the handler translates no operand without a base register, so the copy
faults again and the process aborts. `native` is what the registers would be if
memory could be accessed directly. Registers hold cached or raw addresses, numbers
or data, and an offset is in whole pages.

### IoBackend

`backend` is the class in use, `faulty` says whether its device fails commands, `cmds`
holds the commands whose slot is in use. `DummyIOTakes` ... `SPDKTakes` are the
conditions under which `write` and `read` return true, `ProgressDummyIO` ...
`ProgressSPDK` the `progress` of each class, `DeviceEnds` the hardware. A Pin enters
with `PinMissDirty` or `PinMissClean` and takes a turn (`FirstReturns`, `Issue`,
`Refused`, `Poll`, `Evicted`, `PageLoaded`) whenever `pin` or the fiber calls
`evict_func` or `load_func`; `home` says whether its context is still on the stack of
`pin`. `running` keeps every other fiber out while a refused command is repeated.
`ImplementsBlockDevice` maps the device's addresses back to pages with the
partitioner and holds of MemCopy and SPDK always, and of AIO and IOURing while no
command fails.

### Allocator and Runtime

`fetch_add` and `fetch_sub` are separate steps. Offsets are in units of
`CACHE_PAGE_SIZE`; both allocators are the same algorithm. `Runtime` runs the steps of
`allocate` inside the hooks: `CacheAllocHook`, `TraceAdd`, `TraceSub` are
`check_real_alloc_threshold` and the hooks of `HookedFunc`, the functions the
`TriCacheAlloc` pass replaces; `MmapEnter`, `MmapLockFile`, `MmapRead`, `MmapReturn`
the mapping of a file, cut where a lock is taken or released; `UnmapOrSync` and
`WriteBack` are `munmap` and `msync`. `lazy` is chosen once, as by the environment
variable. A file is one value, and `latest` the last store to its block.

## Runs

| run | instance | distinct states | shows |
|---|---|---|---|
| `shared_cache_two` | 2 clients, 3 pages, 2 frames, batches of 1, one page held per client, stray references until the drift is 1 or -1 | 181,191 | safety of pins, frames, references, counters |
| `shared_cache_one` | 1 client holding up to 2 of 3 pages, 2 frames, batches of 3, one value | 310,864 | refinement of `AddressSpace`, liveness |
| `lost_update` | as `shared_cache_two`, with a value and batches of 3 | - | violation, see findings |
| `pop_hang` | the same without values | - | violation, see findings |
| `clock` | 5 frames, prefetch loop of 5 | 269,489 | refinement of `Replacement`, bound, termination |
| `pte_header` | 3 clients, 4 count values, stray references until the drift is 1 or -1 | 3,026,117 | counts, reports, lock, dirty bit, the assertion of `dec_ref_count` |
| `page_table` | 2 clients, 4 pages with 3 tags in one bucket, 2 frames, 2 lines in the pool | 621,713 | pointers, references, lines, hints, the walks of `unpin` |
| `channel` | 2 threads, 2 client ids, batches of 2, 3 requests in all | 237,437 | refinement of `Channel`, answers, reuse of ids, liveness |
| `io_backend` | 2 Pins, 3 pages on 2 files, each of the five backends with one slot per pool, 2 values | 300,321 | completion flags, refinement of `BlockDevice`, liveness |
| `runtime` | 2 threads, blocks of 1 and 2 units in a region of 3, budget of 3, one file, 2 values, both modes | 565,508 | blocks, budget, mappings, liveness |
| `instructions` | 4 pages, quota 2, 2 slots, one pin of the program, one value, operands with offset 0 or 1 | 2,512,656 | stores, pointers, counts, trapped instructions |
| `memory_ops` | 3 pages of 2 bytes, 3 bytes of ordinary memory, 2 byte values, chunks of 2 bytes | 1,407,504 | every function, with all pointers and lengths |

Why the bounds are enough for the interesting cases: more pages than frames force
evictions; two frames and two clients let one Pin write back while another loads, wait
for the same page, or be refused; a notification that waits in the mailbox, with another
behind it, is delayed beyond the life of a mapping; the retry bound of one lets a pin be
refused, succeed on the second attempt, or end in "oom" (the code's bound is 2^20). In
`clock` there are frames enough for the prefetch loop to pass one frame several times,
and the loop also ends by its counter. In `channel` three requests fill a batch and
start another, and ids change hands. In `runtime` the region is not a multiple of the
larger block and both threads can fail at once, small blocks have private and large ones
shared free lists, only the larger block is counted against the budget, and two of them
exceed it. In `io_backend` one slot makes the second command be refused in every class,
and two files with three pages give files of different length. In `instructions` slots
and pins exceed the quota, so that a pin is refused, also inside a trap. Deadlock is not
checked in `io_backend`, where a server whose backend threw has stopped, and in
`runtime`, where a program may stop calling. In `page_table` two pages share a line and
three tags share a bucket, so that lines are deleted at the front, in the middle and at
the end of a chain and used again under a walk; with three tags the pool never runs out
(see the findings). `MaxPinned` lets a pin start only while fewer than 2 pages count as
pinned, because a reference that is not reported (see the findings) makes the count
drift without bound; deadlock is not checked there, since at the bound every client may
be idle for good. In `memory_ops` two areas can start at different offsets of their
pages, cover one, two or three pages, overlap in both directions, and end at the end of
a page or of the cache; chunks are as long as a page, and a file can end inside a chunk.
The range `WordSize` of `size_t` is larger than any difference that occurs. In
`shared_cache_two` all contents are equal, because its properties do not look at them;
contents are the subject of `shared_cache_one` and `lost_update`. Every client can have
two notifications under way there, one in its mailbox and one that it is making;
messages of several requests are in `shared_cache_one`, `lost_update` and `pop_hang`.
The properties were also checked with batches of 2 (3,050,239 states), which takes too
long to be repeated each time. `MaxDrift` 1 lets a stray reference be taken while the
drift is 0: it hides a first pin or a last unpin, another client's report makes up for
it or not, and the eviction loop meets a victim with a stray reference. Two clients
suffice, one that strays and one whose report is hidden. The other runs of `SharedCache`
have `MaxDrift` 0 and no strays: with one client there is nobody whose report a stray
could hide, and the two violations do not need one.

### Fairness

`SharedCache!Fairness` and `PartitionChannel!FairSpec` assume that the server thread
keeps running: its loop scans every client id and yields to the fiber in each round, and
neither is skipped, hence strong fairness for each client's turn (a turn is disabled and
enabled again while another message is served). The device completes each command (weak
fairness), and a thread inside a call runs on. No fairness is assumed for a program to
make calls, so a client may keep its batch for ever. `Clock!ClockFairSpec` says that a
thread inside `pop` runs on. `IoBackend` assumes that the fiber's loop comes to every
context again and again (strong fairness of its turn: other contexts may spin in
between) and that the device ends every command it was given; it may end it with an
error, which in SPDK stops the request of this command. `RequestsEnd` exempts that
request alone, and all of them only after AIO threw. `Runtime` assumes that a thread
inside a hook runs on and gets a mutex that is released again and again (strong
fairness), which `std::mutex` on Linux does not promise formally but gives in practice;
`MmapReturns` needs no more than that.

### Mutants

Each property of a passing run is violated by a mutation of a definition of the
model (definitions marked `Mutant:` next to the definition they replace).

## Findings

1. `lost_update`: a store is lost when a client pins, writes and unpins the victim
   between the server's read of its entry and the lock
   (`shared_single_thread_cache.hpp:258-269`). Reading `dirty` after the lock, or
   from the word the lock exchanged, would close the gap.
2. `pop_hang`: the server enters `Clock::pop` with an empty clock, because
   `full_pin` looks at a count that lacks the notifications under way
   (`replacement.hpp:121`). In a Release build the assertion is gone and the
   server spins for ever.

Seen while modelling, and not the subject of a violated run:

- stray references: `CompactHashPageTable::pin` increments the count before it looks at
  the tag again, and ignores the count that it finds when it takes the reference back
  (`compact_hash_page_table.hpp:202-210`). On a line that was reused for another tag the
  transient reference hides the last unpin of an unrelated page: `pinned_size` stays too
  large, the frame does not return to the replacement policy before the page is pinned
  and unpinned once more, and `destroy_context` would warn of pinned pages that are not
  (`shared_cache.hpp:475`). Or a first pin is hidden: `pinned_size` is too small, and a
  pinned page stays evictable, where only the lock protects it. The drift of `pinned_size`
  is never mended. `PinnedSizeExact`, `NoFrameLeaks` and `EvictableSound` therefore name
  it (`drift`, `silent`): they say that this is all that goes wrong, and not that the
  counts agree. In `shared_cache_two` there are states with every client idle, nothing
  held, no request under way and `pinned_size` 1 or -1; `PageTable`, where the reuse of
  the lines is modelled, has such a state too. Once the drift reaches the number of
  frames, every miss is refused and the clients end in "oom": TLC finds this with
  `MaxDrift` 2 and batches of 1. Sending `NotifyDirectUnpin` when the decrement finds
  1, and `NotifyDirectPin` when the increment found 0, would close the gap.
- `allocate` compares only the start of a new block with `total_size`, so that the
  last block may reach over the end of the region (`cached_allocator.hpp:66`,
  `mmap_allocator.hpp:100`).
- `cache_memcpy` pins the page behind an area that ends at the end of a page
  (`bind/cache.cpp:644`): at the end of the cache this throws after the last byte
  was copied. `CallsCorrect` says that this is the only case.
- `stpcpy` returns the start of the copy, not its end (`bind/cache.cpp:989`).
- `cache_aligned_alloc_hook` allocates a block of the cache and then returns one of
  ordinary memory (`bind/cache.cpp:382-391`). `cache_realloc_hook` throws after it has
  used up budget. Budget is never returned: not by `bad_alloc`, and not by `free`, which
  ignores a cached address, so the block stays allocated as well (`bind/cache.cpp:401`).
- without lazy write-back an `mmap` of a file that is mapped reads it over stores of
  other threads that were not synced (`bind/cache.cpp:467-473`); with it nothing is ever
  written back, the code in `deinit` that would is disabled (`bind/cache.cpp:267`).
- `munmap` and `msync` look for an address within `__mmap_size` of a mapping
  (`bind/cache.cpp:511`), but a larger file has a larger block; with no file found, which
  is also the case of anonymous memory, they write to a file without a name.
- AIO and IOURing take a failed command for a finished one (`io_backend.hpp:402`, `571`),
  SPDK leaves its request waiting for ever (`955`); DummyIO moves no data.
  `IOURing::progress` returns false while commands are unsubmitted (`583`); nobody uses
  the result.
- the segfault handler overwrites the result of a load into the base register of its
  operand (`segfault_handler.cpp:202`), stores the raw address when an instruction
  stores its own base register, aborts on an operand without a base, and pins only the
  page at which an operand begins. `TrapTransparent` and `OperandsSafe` say that there
  is nothing else for the instructions modelled.
- instrumented code takes the null pointer for a cached address, the first page of the
  cache: `getCondGRP` compares with `<= 0`
  (`llvm-plugin/TriCacheInstrument/TriCacheInstrument.cpp:61`).
- `access` names the new page in its slot before `pin` has succeeded
  (`direct_cache.hpp:75`): after "oom", which nobody in the library catches, the slot has
  the new page with the old pointer. `memcmp` and `strcmp` dereference two cached
  pointers in one expression (`bind/cache.cpp:856`): the second access may evict the page
  of the first; `MemoryOps` loads both bytes in one step. The destructor of
  `PartitionServer` frees `client_toggles` once per client (`partition_server.hpp:92`).
- the pool of cache lines can run out only if the tags in one bucket outnumber the
  frames (`compact_hash_page_table.hpp:434`).

## Proofs

Every theorem holds for all values of the constants that satisfy the named
assumptions of the modules. The safety theorems have one form: an inductive invariant
of the specification (`...InvHolds`), whose proof has one lemma per action, and the
property as a consequence of it. TLC checked each inductive invariant on the instance
of its run before it was proved (but for `TrapInv`, where two conjuncts about the types
of `trap` and `saved` were added during the proof).

Induction over data is done by the least counterexample: the lemma `LeastNumber` says
that a non-empty set of natural numbers has a least element (from the library's
`NatLessThanWellFounded` and `WFMin`, which take no operator). So a fact about all
prefixes of a chain holds because there is no first prefix without it.

| module | assumptions | proved |
|---|---|---|
| `HeaderAndClockProofs`, `PteHeader` | `ClientsAssumption`, `RefCountsAssumption`, `DriftAssumption` | `IndInv`, `RefCountExact`, `ReportsBalanced`, `LockExcludesPins`, `DecAssertion`, `DirtyKept` |
| `HeaderAndClockProofs`, `Clock` | `SizeAssumption` | `ClockTypeOK`, `SecondChanceBound`, `ImplementsReplacement` |
| `PageTableProofs` | `PagesAssumption`, `SizesAssumption`, `ClientsAssumption`, `NoneAssumption` | `PointersMapped`, `RefsOnLine`, `LinesConserved`, `HintsStay`, `WalksGetShorter` |
| `SharedCacheProofs` | `FiniteAssumption`, `BoundAssumption`, `NoneAssumption` | `TypeOK`, `PinnedStays`, `RefCounted`, `FrameExclusive`, `NoReadDuringWriteBack`, `NoFrameLeaks`, `EvictableSound`, `PinnedSizeExact`; with `DirtyFresh` or one client, `ImplementsAddressSpace` |
| `PartitionChannelProofs` | `ChannelAssumption` | `TypeOK`, `AnswerIsMine`, `ImplementsChannel` |
| `IoBackendProofs` | `PartitionsAssumption`, `BackendAssumption`; `num_vpages # 0` for the refinement | `FinishPointersValid`, `ImplementsBlockDevice`; `AddressInvertible`, `AddressInRange` |
| `InstructionsProofs` | `ThreadCacheAssumption` | `TypeOK`, `PointerSafe`, `StoresKept`, `PinsCounted`, `TrapTransparent`, `OperandsSafe` |
| `RuntimeProofs` | `AllocatorAssumption`, `RuntimeAssumption` | `BlocksDisjoint`, `MappingsLoaded`, `LazyKeepsStores`, `BudgetKept` |
| `MemoryOpsProofs` | `MemoryOpsAssumption`, `FilesAssumption`, `NoneAssumption` | `CallsCorrect`, `PointersPinned` |

The assumptions say that sets of clients, pages, frames and threads are finite, that
bounds and sizes are numbers, that files hold bytes, that a size fits into `size_t`,
that the marker `None` is none of the values it stands beside, and that the count field
of a header is wide enough for all clients (the code has 2048 threads and 13 bits).

### The header word

That the count is exact under a plain store needs that the word the server loaded is
still the word it overwrites, which needs that nobody exchanges a busy word, which needs
that holders never meet a busy word. `IndInv` therefore adds `HoldersExact` (who holds a
reference, and the client for which a mapping is being created) and `ServerOwnsBusy`
(what the server knows about the word at each of its control points). A client with a
stray reference is a holder like any other, and only `ReportsBalanced` tells it apart:
each change between zero and one either adds to `noted` or to `drift`. `HoldersFit`,
`OneMore` and `OneLess` carry the cardinality and the arithmetic modulo the width of the
field.

### The clock

How long a frame can be passed over is not obvious. `pop` moves the hand on to the next
frame that it could take, over frames that have their second chance and without clearing
it, and new frames are pushed and others accessed between two calls. The first version
of `SecondChanceBound` said 2N - 2 pops for N frames, from runs with four of them. The
proof failed at the jump of the prefetch loop over a frame, and TLC confirmed with five
frames that the bound is exceeded there (9 pops). The bound proved is the lesser of
N(N-1) and (MaxLoops+1)(N-1). `ClockInv` looks at the clock from one frame p: the loop
jumps over p only when nothing between the frame just taken and p can be taken, and the
frames behind that place stay out of reach until the hand comes round (`Gap`,
`Barriers`). So each jump over p starts at a smaller distance ahead of p than the one
before, there are fewer than N and fewer than MaxLoops of them, and in each round the
hand takes a frame at most once (`Counted`).

### The page table

`PointersMapped` is not inductive: the walk of a client may stand on a line that is
unlinked, in the pool, or in the chain of another tag by now, and its increment goes to
whatever page the line then has. `Inv` of `PageTableProofs` has three layers. `Structure`
says what the walks rely on: following `next` from a bucket ends, chains are disjoint,
each line is in one chain, in the pool or with the server (`Placed`), tags are unique and in
the chain of their bucket. `Counts` and `RefsCounted` say that `num_using` is the number of
entries in use and `ref_count` the number of clients that still will decrement it,
the strays before their second look at the tag included (`Ref`): therefore a line is
freed only when nobody counts on it, and to the lines a stray reference does no harm but
to delay an eviction (what it does to the reports is under the findings). The
rest says what each client, each context across its I/O, and the server between the steps
of `create_cacheline` and `delete_cacheline` know.

`Chain` is a recursive function. `ChainIs` shows that it is the sequence of lines that
`next` leads along, by induction, and `ShortWalks` that it is long enough to see all of
a chain: chains are disjoint and every bucket keeps its first line, so at most
NumFrames + 1 lines are in one. After that, the three changes the server makes to a chain are
appending (`LinkChains`), removing a line that is not the first (`CutChains`) and
nothing. `WalksGetShorter` follows: neither of them moves a line away from the front.

### The shared cache

`PinnedStays` is not inductive: the eviction loop takes a frame from whatever page has
count 0, so that a pinned page is safe only if the count is right, and the count is
right only if every Pin that moves a page is known. `IndInv` of `SharedCacheProofs` has,
beside the types, nine parts, among them `MessagesShaped`, `ContextsShaped` and
`JobShaped` (which request, context and eviction loop can exist together),
`EntriesShaped` (entry and frame point at each other), `TransitSound` (a page under I/O
is locked and owned by one Pin) and `RefExact`, where clients, Pins under way and strays
are counted. `StraysSound` says that a stray reference is to a mapped, unlocked page;
this follows from the count, since neither the lock nor the deletion of an entry succeeds
with a reference left.

`NotesInv` adds to it what is on its way: it says for every frame that
the replacement policy and the page table differ only by notifications that are in a
batch, in a message, or about to be made by a client that has changed the count, or by
a change that a stray made: those pages are in `silent` until a client that reports, or
the server itself, moves their count between zero and one again. The
order of messages of different clients does not matter to it. `PinnedSizeExact` is
stated with the cardinality of the set of places where a notification can be (`Places`,
`Owing`), so that a step which moves one notification adds or removes one element; a stray that
moves a count between zero and one moves `drift` instead. So the theorems name the defect
of stray references as the only one: without strays, `drift` is 0 and `silent` is empty.

The refinement of `AddressSpace` is proved with the mapping that TLC uses. `DataInv`
says where the contents of a page are: on disk if the page is neither mapped nor moving
or if it is clean, in the frame otherwise. The one step that does not preserve it is
`ServerLock` with a dirty flag that has become stale, which is finding 1; `DirtyFresh`
names exactly these steps. So `AddressSpaceRefined` says that this race is the only way
for the shared cache to lose a store, with any number of clients, and `OneClientRefines`
that it cannot happen with one.

### The messages

`IndInv` of `PartitionChannelProofs` relates, for each client id, the owner, the two
toggle bits on either side of each mailbox, and the batch in it, at every control point
of `request`, `poll_message` and the server loop; the parts about an id without an owner
are what makes the reuse of ids safe, since the toggles survive their owner. Requests
processed and under way form the sequence of requests made, which is the refinement of
`Channel`.

### The device

`IndInv` of `IoBackendProofs` says that a request has at most one command, in a state that
fits the flags of its context, and that the command points to the context where it is
now: `FirstReturns`, which moves the context into the fiber, happens only before a
command was given. The refinement needs in addition that commands of different requests
concern different addresses, which is `AddressInvertible`. It rests on the lemma
`Division`, what quotient and remainder are; in `AddressInRange` the case to decide is that of
the last, incomplete row of pages. An empty address space is excluded because
`BlockDevice` has no initial state without blocks.

### The caches of a thread and its trapped instructions

`StoresKept` is not inductive: a page that leaves clean must be equal to its block, which
is so as long as every store has left a mark, in the private cache or in the slot
(`Clean`, `Marked`); the slot's mark is moved to the private cache by the unpin of
`access`. `PointerSafe` needs that a page in use is not evictable, hence that the counts are
exact (`Counted`, `Sized`) and that all levels agree on the frame (`Placed`). `TrapInv` follows the
handlers: between `TrapAccess` and `Exec` the page is that of the latest access, so
the raw address in the base register stays valid; that base plus index hits the page
again after the offset was subtracted is `TargetIs`.

### The allocator and the hooks

`used_size` alone says nothing while threads take back increments. The invariant is about
`End`, which is `used_size` without the increments of the threads in `Undoing`: every block
ends at or below it, and it is at or behind the end of the region while `Undoing` is not empty
(`RegionFull`), so that no new block is cut off then. The increments are the cardinality
of a set of units (`Units`) instead of a sum over threads, which
spares the proof the induction behind a sum; `BudgetKept` is stated in the same way. That a size is
positive follows from `2^o` being the number of subsets of a set of `o` elements.
`Located` and `FileKept` say which thread holds the two locks, and that a file in the table is
loaded or locked by its first reader: hence `MappingsLoaded`, and in lazy mode a
file is read once (`LazyKeepsStores`).

### The memory functions

`CallsCorrect` looks only at calls that have returned; `IndInv` of `MemoryOpsProofs`
says what each loop has done after i bytes. `Written(lo, hi)` is the common form: the
destination has its new bytes from lo to hi, and every other byte is that of before the
call. `memmove` extends it at the end or at the front, and a byte it reads is not yet
overwritten because of the side it starts on. `DisjointTestIs` shows that the comparison
of `cache_memmove`, with its differences in unsigned arithmetic, decides whether the
areas overlap. For `memcpy` the page pointers are those of position i also when one or
both sides cross the end of a page in the same step (`SideMoved`), and exchanging the
pins of the sides that cross keeps one pin per side (`CopyPins`), also when both sides
are in the same page. The string functions rest on the first zero byte, the least
element of a set (`LengthIs`). A lemma per function (`...Promised`) shows that the
loop's invariant at its end is what the C library promises.

### Only model-checked

- Liveness (`PinAnswered` of the shared cache and of the channel, `RequestsEnd`,
  `PopTerminates`, `MmapReturns`): the prover supports neither fairness nor `ENABLED`.
- The two runs that end in a violation show their counterexamples; there is nothing to prove.

## Not modelled

NUMA placement and the binding of threads to cores; the set-up of SPDK devices and
queues; the shutdown of servers and clients of a process (`deinit` exits first);
access counters; how the compiler passes walk the intermediate code; the instruction
decoder, and instructions with several memory operands or address-size prefixes; the
`LRU` policy, which nothing instantiates; the legacy `single_thread_cache.hpp` and
`page_table.hpp`, which only a benchmark includes; `flush` of
`SharedSingleThreadCache` with asynchronous callbacks, which is never called. Weak
memory: the models are sequentially consistent; the fences around the header word and
the acquire and release orders of the exchanges are taken to provide this.

## Plan

1. Done: the core (`SharedCache`, `PteHeader`), the policy, the messages, the page
   table, the private levels with trapped and instrumented accesses, the I/O backends,
   the partitioner, the allocators and the hooks over them, the memory functions; the
   proofs listed above; the stray references of the page table in `SharedCache` and
   `PteHeader`.
2. The safety properties of the runs are all proved. What could be added is a model with
   both levels of detail at once: `SharedCache` over `PageTable` and `PartitionChannel`
   instead of over what these promise.
