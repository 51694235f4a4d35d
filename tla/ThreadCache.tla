---------------------------- MODULE ThreadCache ----------------------------
(***************************************************************************)
(* The two caches every thread has in front of the shared cache: the       *)
(* direct-mapped DirectCache, whose slots hold pages pinned in the thread's*)
(* PrivateCache, which per partition is a SharedSingleThreadCache whose    *)
(* frames hold pages pinned in the SharedCache.  Eviction from one level   *)
(* is an unpin in the next, and the dirty bit has to get through all of    *)
(* them.                                                                   *)
(*                                                                         *)
(* Both caches belong to one thread, so the entries of the private page    *)
(* table change in sequence, evict_func and load_func return true at once, *)
(* and a private frame is identified with the page in it.  The shared      *)
(* cache is what AddressSpace promises: a pinned page is in a frame, the   *)
(* content of a page unpinned dirty is kept, and that of a page unpinned   *)
(* clean is what it was before the pin.                                    *)
(***************************************************************************)
EXTENDS Integers, FiniteSets

CONSTANTS
    NumPages,       \* num_vpages
    NumPartitions,  \* num_partitions
    Quota,          \* num_local_ppages_per_partition
    NumSlots,       \* num_pinned of the DirectCache, a power of two
    MaxUserPins,    \* pages pinned with IntegratedCache::pin at a time
    Frames,         \* frames of the shared cache
    Values,
    None

ASSUME ThreadCacheAssumption ==
    /\ NumPages \in Nat /\ NumPartitions \in Nat \ {0} /\ Quota \in Nat \ {0}
    /\ NumSlots \in Nat \ {0} /\ MaxUserPins \in Nat
    /\ None \notin 0..NumPages /\ None \notin Frames

Pages == 0 .. NumPages - 1
Partitions == 0 .. NumPartitions - 1
Slots == 0 .. NumSlots - 1

\* RoundRobinPartitioner
Partition(v) == v % NumPartitions

Slot(v) == v % NumSlots

VARIABLES
    store,        \* Slots -> page and pointer of the DirectCache
    slot_dirty,   \* Slots -> its dirty flags
    pte,          \* Pages -> entry of the private page table
    pointer,      \* Pages -> external state of the private frame the page is in
    replacement,  \* Partitions -> evictable pages of the private cache
    pinned_size,  \* Partitions -> pages of the private cache counted as pinned
    pc,           \* "idle", "pin" inside PrivateCache::pin, "oom"
    want,         \* the page to pin and the caller: "direct" or "user"
    user,         \* Pages -> pages the program has pinned: pointer
    last,         \* page, pointer and is_write of the latest access()
    where,        \* Pages -> frame of the shared cache the thread has pinned the page in
    mem,          \* Frames -> content
    disk,         \* Pages -> content the shared cache keeps for an unpinned page
    expected      \* history: Pages -> what the program has stored

private == <<pte, pointer, replacement, pinned_size>>
direct  == <<store, slot_dirty>>
shared  == <<where, mem, disk>>
vars    == <<direct, private, pc, want, user, last, shared, expected>>

Entry == [exist : BOOLEAN, dirty : BOOLEAN, ref_count : Nat]
NoEntry == [exist |-> FALSE, dirty |-> FALSE, ref_count |-> 0]
EmptySlot == [page |-> None, pointer |-> None]
NoAccess == [page |-> None, pointer |-> None, is_write |-> FALSE]
NoWant == [page |-> None, caller |-> "user", is_write |-> FALSE]

TypeOK ==
    /\ store \in [Slots -> [page : Pages \cup {None}, pointer : Frames \cup {None}]]
    /\ slot_dirty \in [Slots -> BOOLEAN]
    /\ pte \in [Pages -> Entry]
    /\ pointer \in [Pages -> Frames \cup {None}]
    /\ replacement \in [Partitions -> SUBSET Pages]
    /\ pinned_size \in [Partitions -> 0..Quota]
    /\ pc \in {"idle", "pin", "oom"}
    /\ want \in [page : Pages \cup {None}, caller : {"direct", "user"}, is_write : BOOLEAN]
    /\ user \in [Pages -> Frames \cup {None}]
    /\ last \in [page : Pages \cup {None}, pointer : Frames \cup {None},
                 is_write : BOOLEAN]
    /\ where \in [Pages -> Frames \cup {None}]
    /\ mem \in [Frames -> Values \cup {None}]
    /\ disk \in [Pages -> Values \cup {None}]
    /\ expected \in [Pages -> Values \cup {None}]

Init ==
    /\ store = [s \in Slots |-> EmptySlot]
    /\ slot_dirty = [s \in Slots |-> FALSE]
    /\ pte = [v \in Pages |-> NoEntry]
    /\ pointer = [v \in Pages |-> None]
    /\ replacement = [d \in Partitions |-> {}]
    /\ pinned_size = [d \in Partitions |-> 0]
    /\ pc = "idle" /\ want = NoWant /\ last = NoAccess
    /\ user = [v \in Pages |-> None]
    /\ where = [v \in Pages |-> None]
    /\ mem = [f \in Frames |-> None]
    /\ disk = [v \in Pages |-> None]
    /\ expected = [v \in Pages |-> None]

-----------------------------------------------------------------------------
(* The private cache *)

Mapped(d) == {v \in Pages : Partition(v) = d /\ pte[v].exist}
full(d) == Cardinality(Mapped(d)) >= Quota
full_pin(d) == pinned_size[d] >= Quota

\* Mutant: unpin makes the page evictable whoever else has it pinned.
LastPinAlways(e) == TRUE

\* Mutant: a pinned page is not counted.
NewPinLost(d) == pinned_size

\* Mutant: the dirty flag of the slot is ignored.
DecrementedClean(e, is_write) == [e EXCEPT !.ref_count = @ - 1]

FirstPin(e) == e.ref_count = 0
LastPin(e) == e.ref_count = 1
NewPin(d) == [pinned_size EXCEPT ![d] = @ + 1]
Decremented(e, is_write) == [e EXCEPT !.ref_count = @ - 1, !.dirty = @ \/ is_write]
SharedUnpin(u) == [where EXCEPT ![u] = None]

\* unpin of page v: the last reference makes the page evictable.
PrivateUnpin(v, is_write) ==
    LET d == Partition(v) IN
    /\ pte' = [pte EXCEPT ![v] = Decremented(@, is_write)]
    /\ IF LastPin(pte[v])
       THEN /\ pinned_size' = [pinned_size EXCEPT ![d] = @ - 1]
            /\ replacement' = [replacement EXCEPT ![d] = @ \cup {v}]
       ELSE UNCHANGED <<pinned_size, replacement>>
    /\ UNCHANGED pointer

\* PrivateCache::pin returns pointer p to the caller.  access() also clears the
\* dirty flag of the slot and sets it for a writer.
Return(p) ==
    LET v == want.page IN
    /\ pc' = "idle"
    /\ want' = NoWant
    /\ IF want.caller = "direct"
       THEN /\ store' = [store EXCEPT ![Slot(v)].pointer = p]
            /\ slot_dirty' = [slot_dirty EXCEPT ![Slot(v)] = want.is_write]
            /\ last' = [page |-> v, pointer |-> p, is_write |-> want.is_write]
            /\ UNCHANGED user
       ELSE /\ user' = [user EXCEPT ![v] = p]
            /\ UNCHANGED <<store, slot_dirty, last>>

PinHit ==
    LET v == want.page
        d == Partition(v)
    IN
    /\ pc = "pin"
    /\ pte[v].exist
    /\ pte' = [pte EXCEPT ![v].ref_count = @ + 1]
    /\ IF FirstPin(pte[v])
       THEN /\ pinned_size' = NewPin(d)
            /\ replacement' = [replacement EXCEPT ![d] = @ \ {v}]
       ELSE UNCHANGED <<pinned_size, replacement>>
    /\ Return(pointer[v])
    /\ UNCHANGED <<pointer, shared, expected>>

\* Every frame of the partition is pinned: pin() repeats the request until it
\* throws "oom", and nobody else can unpin anything.
PinRefused ==
    /\ pc = "pin"
    /\ ~pte[want.page].exist
    /\ full_pin(Partition(want.page))
    /\ pc' = "oom"
    /\ UNCHANGED <<direct, private, want, user, last, shared, expected>>

\* Nobody catches the exception.
Terminated == pc = "oom" /\ UNCHANGED vars

\* load_func: pin in the shared cache, which puts the page into some frame.
FreeFrame(f) == \A v \in Pages : where[v] # f

PinAllocated(f) ==
    LET v == want.page
        d == Partition(v)
    IN
    /\ pc = "pin"
    /\ ~pte[v].exist
    /\ ~full_pin(d) /\ ~full(d)
    /\ FreeFrame(f)
    /\ pinned_size' = NewPin(d)
    /\ pte' = [pte EXCEPT ![v] = [exist |-> TRUE, dirty |-> FALSE, ref_count |-> 1]]
    /\ pointer' = [pointer EXCEPT ![v] = f]
    /\ where' = [where EXCEPT ![v] = f]
    /\ mem' = [mem EXCEPT ![f] = disk[v]]
    /\ Return(f)
    /\ UNCHANGED <<replacement, disk, expected>>

\* The victim u leaves: evict_func unpins it in the shared cache with its dirty
\* bit, then load_func pins the new page.  Without a victim pop() would not return
\* and the module would deadlock here.
PinEvicts(u, f) ==
    LET v == want.page
        d == Partition(v)
    IN
    /\ pc = "pin"
    /\ ~pte[v].exist
    /\ ~full_pin(d) /\ full(d)
    /\ u \in replacement[d]
    /\ FreeFrame(f) \/ f = where[u]
    /\ pinned_size' = NewPin(d)
    /\ replacement' = [replacement EXCEPT ![d] = @ \ {u}]
    /\ pte' = [pte EXCEPT ![u] = NoEntry,
                          ![v] = [exist |-> TRUE, dirty |-> FALSE, ref_count |-> 1]]
    /\ pointer' = [pointer EXCEPT ![u] = None, ![v] = f]
    /\ disk' = IF pte[u].dirty THEN [disk EXCEPT ![u] = mem[where[u]]] ELSE disk
    /\ where' = [SharedUnpin(u) EXCEPT ![v] = f]
    /\ mem' = [mem EXCEPT ![where[u]] = None, ![f] = disk[v]]
    /\ Return(f)
    /\ UNCHANGED expected

-----------------------------------------------------------------------------
(* DirectCache::access *)

AccessHit(v, is_write) ==
    LET s == Slot(v) IN
    /\ pc = "idle"
    /\ store[s].page = v
    /\ slot_dirty' = [slot_dirty EXCEPT ![s] = @ \/ is_write]
    /\ last' = [page |-> v, pointer |-> store[s].pointer, is_write |-> is_write]
    /\ UNCHANGED <<store, private, pc, want, user, shared, expected>>

Occupied(s) == store[s].page # None

\* A miss: unpin the page in the slot with the slot's dirty flag, then pin.
AccessMiss(v, is_write) ==
    LET s == Slot(v)
        old == store[s].page
    IN
    /\ pc = "idle"
    /\ old # v
    /\ IF Occupied(s) THEN PrivateUnpin(old, slot_dirty[s]) ELSE UNCHANGED private
    /\ store' = [store EXCEPT ![s].page = v]
    /\ pc' = "pin"
    /\ want' = [page |-> v, caller |-> "direct", is_write |-> is_write]
    /\ last' = NoAccess
    /\ UNCHANGED <<slot_dirty, user, shared, expected>>

\* The program stores through the pointer it got from an access for writing, the
\* latest one: the pointer is safe before the next memory access.
Store(x) ==
    /\ pc = "idle"
    /\ last.is_write
    /\ mem' = [mem EXCEPT ![last.pointer] = x]
    /\ expected' = [expected EXCEPT ![last.page] = x]
    /\ UNCHANGED <<direct, private, pc, want, user, last, where, disk>>

-----------------------------------------------------------------------------
(* IntegratedCache::pin, unpin and flush *)

Pinned == {v \in Pages : user[v] # None}

Pin(v) ==
    /\ pc = "idle"
    /\ user[v] = None
    /\ Cardinality(Pinned) < MaxUserPins
    /\ pc' = "pin"
    /\ want' = [page |-> v, caller |-> "user", is_write |-> FALSE]
    /\ last' = NoAccess
    /\ UNCHANGED <<direct, private, user, shared, expected>>

\* The program writes through its own pin, or not, before it unpins.
UserStore(v, x) ==
    /\ pc = "idle"
    /\ user[v] # None
    /\ mem' = [mem EXCEPT ![user[v]] = x]
    /\ expected' = [expected EXCEPT ![v] = x]
    /\ PrivateUnpin(v, TRUE)
    /\ user' = [user EXCEPT ![v] = None]
    /\ last' = NoAccess
    /\ UNCHANGED <<direct, pc, want, where, disk>>

Unpin(v) ==
    /\ pc = "idle"
    /\ user[v] # None
    /\ PrivateUnpin(v, FALSE)
    /\ user' = [user EXCEPT ![v] = None]
    /\ last' = NoAccess
    /\ UNCHANGED <<direct, pc, want, shared, expected>>

\* The dirty bit of page v once the direct cache has unpinned its slots.
DirtyAfterFlush(v) == pte[v].dirty \/ (store[Slot(v)].page = v /\ slot_dirty[Slot(v)])

\* flush(): the direct cache unpins its slots, the private cache evicts all of its
\* pages to the shared cache, and both are deleted.
Flush ==
    /\ pc = "idle"
    /\ Pinned = {}
    /\ store' = [s \in Slots |-> EmptySlot]
    /\ slot_dirty' = [s \in Slots |-> FALSE]
    /\ disk' = [v \in Pages |->
                   IF pte[v].exist /\ DirtyAfterFlush(v) THEN mem[where[v]] ELSE disk[v]]
    /\ where' = [v \in Pages |-> None]
    /\ mem' = [f \in Frames |-> None]
    /\ pte' = [v \in Pages |-> NoEntry]
    /\ pointer' = [v \in Pages |-> None]
    /\ replacement' = [d \in Partitions |-> {}]
    /\ pinned_size' = [d \in Partitions |-> 0]
    /\ last' = NoAccess
    /\ UNCHANGED <<pc, want, user, expected>>

-----------------------------------------------------------------------------
PrivatePin ==
    \/ PinHit
    \/ PinRefused
    \/ \E f \in Frames : PinAllocated(f)
    \/ \E u \in Pages, f \in Frames : PinEvicts(u, f)
    \/ Terminated

\* What the program does with the pages it has.
ProgramStep ==
    \/ \E x \in Values : Store(x)
    \/ \E v \in Pages : Pin(v) \/ Unpin(v) \/ \E x \in Values : UserStore(v, x)
    \/ Flush

-----------------------------------------------------------------------------
\* "The pointer is safe before next memory access" (DirectCache::access): the page
\* the program got a pointer to, or has pinned itself, stays pinned in the shared
\* cache, and at this place.
PointerSafe ==
    /\ last.page # None => last.pointer # None /\ where[last.page] = last.pointer
    /\ \A v \in Pages : user[v] # None => where[v] = user[v]

\* The program reads what it has stored: every dirty bit reaches the shared cache
\* with the unpin that ends the page's stay, through both levels.
StoresKept ==
    \A v \in Pages :
        expected[v] = IF where[v] = None THEN disk[v] ELSE mem[where[v]]

\* The pages of a partition that the direct cache or the program has pinned.  A
\* slot names its page before the pin that access() waits for has succeeded.
InSlot(v) == store[Slot(v)].page = v /\ ~(want.caller = "direct" /\ want.page = v)
InUse(d) == {v \in Pages : Partition(v) = d /\ (InSlot(v) \/ user[v] # None)}

\* pinned_size and the replacement policy follow the reference counts, which are the
\* pins of the direct cache and of the program, and every page of the private cache
\* holds one pin of the shared cache, within its quota.  So pin() gives up only when the
\* program's pins and the slots fill the quota, and the pins of max_num_clients threads
\* leave no thread without frames.
PinsCounted ==
    /\ \A v \in Pages : pte[v].exist <=> where[v] # None
    /\ \A d \in Partitions :
        /\ Cardinality(Mapped(d)) <= Quota
        /\ pinned_size[d] = Cardinality(InUse(d))
        /\ replacement[d] = Mapped(d) \ InUse(d)
        /\ \A v \in Mapped(d) :
            pte[v].ref_count = (IF user[v] # None THEN 1 ELSE 0) + (IF InSlot(v) THEN 1 ELSE 0)
=============================================================================
