----------------------------- MODULE Allocator -----------------------------
(***************************************************************************)
(* InternalCachedAllocator (and InternalMMapAllocator, which repeats it):  *)
(* threads allocate blocks of 2^order units from one region.  A freed      *)
(* block goes to the free list of its order, private to the freeing thread *)
(* for small orders and shared under a mutex for large ones; a new block   *)
(* is cut off the end of the used part with fetch_add.  A thread that gets *)
(* an offset behind the region takes its increment back with fetch_sub,    *)
(* and others may allocate between the two.                                *)
(***************************************************************************)
EXTENDS Integers, FiniteSets

CONSTANTS
    Threads,
    MaxOrder,        \* orders requested are 0 .. MaxOrder, in units of CACHE_PAGE_SIZE
    LargeThreshold,  \* LARGE_BLOCK_ORDER_THRESHOLD
    total_size

ASSUME AllocatorAssumption ==
    /\ IsFiniteSet(Threads)
    /\ MaxOrder \in Nat /\ LargeThreshold \in Nat /\ total_size \in Nat \ {0}

Orders == 0..MaxOrder

VARIABLES
    used_size,
    free_blocks,        \* Threads -> free small blocks of the thread
    large_free_blocks,
    live,               \* blocks handed out and not freed
    lost,               \* free small blocks of threads that have ended
    pc,                 \* Threads -> "idle", or in allocate(): "extend", "undo"
    order               \* Threads -> order of the block being allocated

vars == <<used_size, free_blocks, large_free_blocks, live, lost, pc, order>>

Block == [offset : Nat, order : Orders]

Size(o) == 2 ^ o

\* The units of the blocks that the threads of S deal with, ord[t] being the order of
\* the block of thread t.
Units(S, ord) == UNION {{t} \X (1 .. Size(ord[t])) : t \in S}

TypeOK ==
    /\ used_size \in Nat
    /\ free_blocks \in [Threads -> SUBSET Block]
    /\ large_free_blocks \in SUBSET Block
    /\ live \in SUBSET Block
    /\ lost \in SUBSET Block
    /\ pc \in [Threads -> {"idle", "extend", "undo"}]
    /\ order \in [Threads -> Orders]

Init ==
    /\ used_size = 0
    /\ free_blocks = [t \in Threads |-> {}]
    /\ large_free_blocks = {}
    /\ live = {}
    /\ lost = {}
    /\ pc = [t \in Threads |-> "idle"]
    /\ order = [t \in Threads |-> 0]

-----------------------------------------------------------------------------
Large(o) == o >= LargeThreshold

\* The free list a thread uses for an order.
FreeList(t, o) ==
    {b \in IF Large(o) THEN large_free_blocks ELSE free_blocks[t] : b.order = o}

Unlisted(list, b) == list \ {b}

\* allocate() finds a free block.  The list is a stack; which block of the order
\* it returns makes no difference to what can follow.
Reuse(t, b) ==
    /\ pc[t] = "idle"
    /\ b \in FreeList(t, b.order)
    /\ live' = live \cup {b}
    /\ IF Large(b.order)
       THEN /\ large_free_blocks' = Unlisted(large_free_blocks, b)
            /\ UNCHANGED free_blocks
       ELSE /\ free_blocks' = [free_blocks EXCEPT ![t] = Unlisted(@, b)]
            /\ UNCHANGED large_free_blocks
    /\ UNCHANGED <<used_size, lost, pc, order>>

\* No free block.
Miss(t, o) ==
    /\ pc[t] = "idle"
    /\ FreeList(t, o) = {}
    /\ pc' = [pc EXCEPT ![t] = "extend"]
    /\ order' = [order EXCEPT ![t] = o]
    /\ UNCHANGED <<used_size, free_blocks, large_free_blocks, live, lost>>

\* The check of the offset fetch_add returned.
Fits(offset, o) == offset < total_size

Returns(t) ==
    /\ pc' = [pc EXCEPT ![t] = "idle"]
    /\ order' = [order EXCEPT ![t] = 0]

\* fetch_add: the offset is a new block, or the increment is to be taken back.
Extend(t) ==
    /\ pc[t] = "extend"
    /\ used_size' = used_size + Size(order[t])
    /\ IF Fits(used_size, order[t])
       THEN /\ live' = live \cup {[offset |-> used_size, order |-> order[t]]}
            /\ Returns(t)
       ELSE /\ pc' = [pc EXCEPT ![t] = "undo"]
            /\ UNCHANGED <<live, order>>
    /\ UNCHANGED <<free_blocks, large_free_blocks, lost>>

\* Mutant: the size is rounded up once more before it is taken back.
TakenBackRounded(o) == used_size - Size(o + 1)

TakenBack(o) == used_size - Size(o)

\* fetch_sub, and bad_alloc is thrown.
Undo(t) ==
    /\ pc[t] = "undo"
    /\ used_size' = TakenBack(order[t])
    /\ Returns(t)
    /\ UNCHANGED <<free_blocks, large_free_blocks, live, lost>>

\* deallocate, by any thread
Deallocate(t, b) ==
    /\ pc[t] = "idle"
    /\ b \in live
    /\ live' = live \ {b}
    /\ IF Large(b.order)
       THEN /\ large_free_blocks' = large_free_blocks \cup {b}
            /\ UNCHANGED free_blocks
       ELSE /\ free_blocks' = [free_blocks EXCEPT ![t] = @ \cup {b}]
            /\ UNCHANGED large_free_blocks
    /\ UNCHANGED <<used_size, lost, pc, order>>

\* The thread ends, and thread_specific_ptr deletes its free lists: the blocks in
\* them are never handed out again.  Another thread takes its place.
ThreadEnds(t) ==
    /\ pc[t] = "idle"
    /\ free_blocks[t] # {}
    /\ lost' = lost \cup free_blocks[t]
    /\ free_blocks' = [free_blocks EXCEPT ![t] = {}]
    /\ UNCHANGED <<used_size, large_free_blocks, live, pc, order>>

Next ==
    \E t \in Threads :
        \/ \E b \in free_blocks[t] \cup large_free_blocks : Reuse(t, b)
        \/ \E o \in Orders : Miss(t, o)
        \/ Extend(t) \/ Undo(t)
        \/ \E b \in live : Deallocate(t, b)
        \/ ThreadEnds(t)

Spec == Init /\ [][Next]_vars

-----------------------------------------------------------------------------
Freed == large_free_blocks \cup lost \cup UNION {free_blocks[t] : t \in Threads}

\* No two blocks share a unit, whether in use or free, and a block is in one place: the
\* increments and decrements of threads that run out of memory together never bring
\* used_size below the end of a block that was handed out, and no block is both in use
\* and in a free list, or in two free lists.
BlocksDisjoint ==
    /\ \A a, b \in live \cup Freed :
        a # b => \/ a.offset + Size(a.order) <= b.offset
                 \/ b.offset + Size(b.order) <= a.offset
    /\ live \cap Freed = {}
    /\ large_free_blocks \cap lost = {}
    /\ \A t \in Threads : free_blocks[t] \cap lost = {}
    /\ \A t, u \in Threads : t # u => free_blocks[t] \cap free_blocks[u] = {}
=============================================================================
