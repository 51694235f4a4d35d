------------------------------ MODULE Runtime ------------------------------
(***************************************************************************)
(* The hooks of bind/cache.cpp that replace malloc, mmap, munmap and msync *)
(* over the allocator they share.  A large allocation is counted against a *)
(* budget and moved into the cache's address space; a mapped file is read  *)
(* into a block of that space once, and every further mmap of it returns   *)
(* the same block.                                                         *)
(*                                                                         *)
(* Two locks: __mmap_file_mutex guards the table of mapped files, and one  *)
(* mutex per file is held while the file is read.  A thread takes the      *)
(* second under the first, and releases the first before it reads.         *)
(*                                                                         *)
(* A file is one value: the hooks read and write whole ranges, and what    *)
(* matters is which thread's stores are in the range.  Sizes are those     *)
(* after the allocator's rounding to 2^order units.                        *)
(***************************************************************************)
EXTENDS Allocator

CONSTANTS
    Files, Values,
    FileOrder,       \* order of the block of a mapped file (__mmap_size)
    MallocThreshold, \* __malloc_threshold
    TraceThreshold,  \* __trace_real_alloc_threshold
    TotalThreshold,  \* __total_real_alloc_threshold
    None

ASSUME RuntimeAssumption ==
    /\ FileOrder \in Orders
    /\ MallocThreshold \in Nat /\ TraceThreshold \in Nat /\ TotalThreshold \in Nat
    /\ None \notin Files \cup Threads \cup Values /\ None \notin Block

VARIABLES
    lazy,              \* ~__disable_lazy_mmap_writeback
    hook,              \* Threads -> the hook the thread is in
    total_real_alloc,
    granted,           \* sizes for which check_real_alloc_threshold returned TRUE
    map_mutex,         \* owner of __mmap_file_mutex
    file_mutex,        \* Files -> owner
    file_dict,         \* Files -> block of the file, None before the first mmap
    disk,              \* Files -> contents of the file
    memory,            \* Files -> contents of its block
    loaded,            \* files whose first read is over
    maps,              \* Threads -> files that mmap has returned to the thread
    latest             \* Files -> the last store, or the file's contents when it was read

traceVars == <<total_real_alloc, granted>>
fileVars == <<map_mutex, file_mutex, file_dict, disk, memory, loaded, maps, latest>>
rvars == <<vars, lazy, hook, traceVars, fileVars>>

Idle == [at |-> "none", call |-> "none", order |-> 0, file |-> None]

RInit ==
    /\ Init
    /\ lazy \in BOOLEAN
    /\ hook = [t \in Threads |-> Idle]
    /\ total_real_alloc = 0 /\ granted = 0
    /\ map_mutex = None
    /\ file_mutex = [f \in Files |-> None]
    /\ file_dict = [f \in Files |-> None]
    /\ disk \in [Files -> Values]
    /\ memory = [f \in Files |-> None]
    /\ loaded = {}
    /\ maps = [t \in Threads |-> {}]
    /\ latest = [f \in Files |-> None]

At(t, where) == hook[t].at = where
Goto(t, where) == hook' = [hook EXCEPT ![t].at = where]
Leave(t) == hook' = [hook EXCEPT ![t] = Idle]

-----------------------------------------------------------------------------
(* check_real_alloc_threshold and the allocating hooks.                    *)

\* The functions whose calls the TriCacheAlloc pass replaces, and how their hooks use
\* the cache: cache_realloc_hook throws where the others allocate.
HookedFunc ==
    [fn \in {"malloc", "_Znwm", "_Znam", "calloc", "aligned_alloc", "mmap", "realloc"} |->
        IF fn = "realloc" THEN "realloc" ELSE "malloc"]

\* The hook of one of them (mmap: anonymous).  A small size goes to the C library (no
\* step here), and so does one over budget at the first look.
CacheAllocHook(t, call, o) ==
    /\ At(t, "none")
    /\ Size(o) >= MallocThreshold
    /\ Size(o) >= TraceThreshold => total_real_alloc + Size(o) <= TotalThreshold
    /\ Size(o) < TraceThreshold => call # "realloc"
    /\ hook' = [hook EXCEPT ![t] =
                 [at |-> IF Size(o) < TraceThreshold THEN "alloc" ELSE "add",
                  call |-> call, order |-> o, file |-> None]]
    /\ UNCHANGED <<vars, lazy, traceVars, fileVars>>

\* Mutant: the second look trusts the first
WithinBudgetUnchecked(size) == TRUE

\* what fetch_add returned, compared with the budget again
WithinBudget(size) == total_real_alloc + size <= TotalThreshold

\* fetch_add.  cache_realloc_hook throws after a TRUE.
TraceAdd(t) ==
    LET size == Size(hook[t].order) IN
    /\ At(t, "add")
    /\ total_real_alloc' = total_real_alloc + size
    /\ IF WithinBudget(size)
       THEN /\ granted' = granted + size
            /\ IF hook[t].call = "realloc" THEN Leave(t) ELSE Goto(t, "alloc")
       ELSE Goto(t, "sub") /\ UNCHANGED granted
    /\ UNCHANGED <<vars, lazy, fileVars>>

\* fetch_sub, and the C library allocates
TraceSub(t) ==
    /\ At(t, "sub")
    /\ total_real_alloc' = total_real_alloc - Size(hook[t].order)
    /\ Leave(t)
    /\ UNCHANGED <<vars, granted, lazy, fileVars>>

\* cache_alloc has returned block b.  cache_aligned_alloc_hook has no return here: it
\* goes on to aligned_alloc, and b stays allocated with nobody knowing of it.
Allocated(t, b) ==
    LET f == hook[t].file IN
    IF f = None
    THEN Leave(t) /\ UNCHANGED fileVars
    ELSE /\ file_dict' = [file_dict EXCEPT ![f] = b]
         /\ file_mutex' = [file_mutex EXCEPT ![f] = t]
         /\ map_mutex' = None
         /\ Goto(t, "read")
         /\ UNCHANGED <<disk, memory, loaded, maps, latest>>

\* cache_alloc: the steps of allocate()
CacheAlloc(t) ==
    /\ At(t, "alloc")
    /\ \/ \E b \in FreeList(t, hook[t].order) : Reuse(t, b) /\ Allocated(t, b)
       \/ Miss(t, hook[t].order) /\ UNCHANGED <<hook, fileVars>>
       \/ /\ Extend(t)
          /\ IF pc'[t] = "idle"
             THEN Allocated(t, [offset |-> used_size, order |-> order[t]])
             ELSE UNCHANGED <<hook, fileVars>>
    /\ UNCHANGED <<lazy, traceVars>>

\* bad_alloc: lock_guard releases the table, no entry has been made in it
CacheAllocFails(t) ==
    /\ At(t, "alloc") /\ Undo(t)
    /\ map_mutex' = IF hook[t].file = None THEN map_mutex ELSE None
    /\ Leave(t)
    /\ UNCHANGED <<lazy, traceVars, file_mutex, file_dict, disk, memory,
                   loaded, maps, latest>>

\* cache_free; the free() hook does nothing with a cached address
CacheFree(t, b) ==
    /\ At(t, "none")
    /\ \A f \in Files : file_dict[f] # b
    /\ Deallocate(t, b)
    /\ UNCHANGED <<lazy, hook, traceVars, fileVars>>

-----------------------------------------------------------------------------
(* cache_mmap_hook for a file, munmap and msync.                           *)

\* Mutant: a mapped file is always read again
KnownFileReread == "lock"

\* A file in the table: read again only in write-back mode.
KnownFile == IF lazy THEN "wait" ELSE "lock"

\* The table is locked and searched.  It stays locked until the block is there, or
\* until a file to be read again is locked.
MmapEnter(t, f) ==
    /\ At(t, "none") /\ map_mutex = None
    /\ LET at == IF file_dict[f] = None THEN "alloc" ELSE KnownFile IN
        /\ hook' = [hook EXCEPT ![t] =
                     [at |-> at, call |-> "mmap", order |-> FileOrder, file |-> f]]
        /\ map_mutex' = IF at = "wait" THEN None ELSE t
    /\ UNCHANGED <<vars, lazy, traceVars, file_mutex, file_dict, disk, memory,
                   loaded, maps, latest>>

MmapLockFile(t) ==
    LET f == hook[t].file IN
    /\ At(t, "lock") /\ file_mutex[f] = None
    /\ file_mutex' = [file_mutex EXCEPT ![f] = t]
    /\ map_mutex' = None
    /\ Goto(t, "read")
    /\ UNCHANGED <<vars, lazy, traceVars, file_dict, disk, memory, loaded,
                   maps, latest>>

\* Mutant: the reader keeps the file locked
UnlockedNever(f) == file_mutex

Unlocked(f) == [file_mutex EXCEPT ![f] = None]

\* read() into the block, the whole file or the mapped range, and unlock
MmapRead(t) ==
    LET f == hook[t].file IN
    /\ At(t, "read")
    /\ memory' = [memory EXCEPT ![f] = disk[f]]
    /\ latest' = IF f \in loaded THEN latest ELSE [latest EXCEPT ![f] = disk[f]]
    /\ loaded' = loaded \cup {f}
    /\ file_mutex' = Unlocked(f)
    /\ Goto(t, "wait")
    /\ UNCHANGED <<vars, lazy, traceVars, map_mutex, file_dict, disk, maps>>

\* Mutant: return without the lock
MayReturnAtOnce(f) == TRUE

\* lock_guard g{*file_mutex} before the return
MayReturn(f) == file_mutex[f] = None

MmapReturn(t) ==
    LET f == hook[t].file IN
    /\ At(t, "wait") /\ MayReturn(f)
    /\ maps' = [maps EXCEPT ![t] = @ \cup {f}]
    /\ Leave(t)
    /\ UNCHANGED <<vars, lazy, traceVars, map_mutex, file_mutex, file_dict,
                   disk, memory, loaded, latest>>

\* The application stores through its mapping.
Store(t, f, x) ==
    /\ At(t, "none") /\ f \in maps[t]
    /\ memory' = [memory EXCEPT ![f] = x]
    /\ latest' = [latest EXCEPT ![f] = x]
    /\ UNCHANGED <<vars, lazy, hook, traceVars, map_mutex, file_mutex,
                   file_dict, disk, loaded, maps>>

\* munmap and msync: nothing in lazy mode; else the file is looked up in the table
\* under its mutex, and its range written with no lock held.
UnmapOrSync(t, f, unmap) ==
    /\ At(t, "none") /\ f \in maps[t]
    /\ ~lazy => map_mutex = None
    /\ maps' = IF unmap THEN [maps EXCEPT ![t] = @ \ {f}] ELSE maps
    /\ IF lazy THEN UNCHANGED hook
       ELSE hook' = [hook EXCEPT ![t] = [Idle EXCEPT !.at = "write", !.file = f]]
    /\ UNCHANGED <<vars, lazy, traceVars, map_mutex, file_mutex, file_dict,
                   disk, memory, loaded, latest>>

WriteBack(t) ==
    LET f == hook[t].file IN
    /\ At(t, "write")
    /\ disk' = [disk EXCEPT ![f] = memory[f]]
    /\ Leave(t)
    /\ UNCHANGED <<vars, lazy, traceVars, map_mutex, file_mutex, file_dict,
                   memory, loaded, maps, latest>>

-----------------------------------------------------------------------------
\* start_routine of __hook_thread_func has returned; its private caches are flushed
\* (ThreadCache) and its free lists deleted.  Another thread takes its place.
ThreadExits(t) ==
    /\ At(t, "none") /\ ThreadEnds(t)
    /\ UNCHANGED <<lazy, hook, traceVars, fileVars>>

\* Inside a hook, a thread goes on without the application.
HookStep(t) ==
    \/ TraceAdd(t) \/ TraceSub(t) \/ CacheAlloc(t) \/ CacheAllocFails(t)
    \/ MmapLockFile(t) \/ MmapRead(t) \/ MmapReturn(t) \/ WriteBack(t)

AppStep(t) ==
    \/ \E fn \in DOMAIN HookedFunc, o \in Orders : CacheAllocHook(t, HookedFunc[fn], o)
    \/ \E b \in live : CacheFree(t, b)
    \/ \E f \in Files : MmapEnter(t, f) \/ \E u \in BOOLEAN : UnmapOrSync(t, f, u)
    \/ \E f \in Files, x \in Values : Store(t, f, x)
    \/ ThreadExits(t)

RNext == \E t \in Threads : HookStep(t) \/ AppStep(t)

\* A thread inside a hook keeps running, and gets a mutex that is released again and again.
RSpec == RInit /\ [][RNext]_rvars /\ \A t \in Threads : SF_rvars(HookStep(t))

-----------------------------------------------------------------------------
(* Properties.                                                             *)

\* A file mapping that mmap has returned holds the file: a second thread that maps a
\* file while the first is still reading it waits for the read, and the block of a
\* mapped file is never handed out again.
MappingsLoaded ==
    \A t \in Threads : \A f \in maps[t] :
        f \in loaded /\ file_dict[f] \in live

\* In lazy mode no mmap, munmap or msync disturbs what threads have stored through
\* their mappings of a file.
LazyKeepsStores ==
    lazy => \A f \in loaded : memory[f] = latest[f]

\* The sizes granted never exceed the budget, though threads pass the first check
\* together, and the counter is what was granted plus what is still to be taken back.
BudgetKept ==
    /\ granted <= TotalThreshold
    /\ total_real_alloc =
           granted + Cardinality(Units({t \in Threads : At(t, "sub")},
                                       [t \in Threads |-> hook[t].order]))

\* A thread that has entered mmap returns from it (or throws bad_alloc): the two locks
\* are always released, and never waited for in a circle.
MmapReturns ==
    \A t \in Threads : hook[t].call = "mmap" ~> hook[t].call # "mmap"
=============================================================================
