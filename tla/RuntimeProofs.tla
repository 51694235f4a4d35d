---------------------------- MODULE RuntimeProofs ----------------------------
(***************************************************************************)
(* Proofs about the allocator and the hooks over it.  The invariant of the *)
(* allocator is about End, the end of the used part once every thread that *)
(* ran out of memory has taken its increment back: no block reaches beyond *)
(* it, and while some increment is still to be taken back End is at or     *)
(* behind the end of the region, so that no thread gets a block there.     *)
(* The invariant of the hooks says which thread holds which of the two     *)
(* locks, and that a file in the table is loaded or being read under its   *)
(* lock.                                                                   *)
(***************************************************************************)
EXTENDS Runtime, FiniteSetTheorems, TLAPS

\* The threads that have passed the end of the region and not taken their increment back.
Undoing == {t \in Threads : pc[t] = "undo"}

\* The end of the used part without their increments.
End == used_size - Cardinality(Units(Undoing, order))

\* No block, in use or free, reaches beyond it.
BlocksEnd == \A b \in live \cup Freed : b.offset + Size(b.order) <= End

\* An increment that is still to be taken back lies behind the region.
RegionFull == Undoing # {} => End >= total_size

\* Large blocks are in the shared free list, small ones in those of the threads.
Sorted ==
    /\ \A b \in large_free_blocks : Large(b.order)
    /\ \A t \in Threads : \A b \in free_blocks[t] : ~Large(b.order)

\* The inductive invariant of the allocator.
AllocInv == TypeOK /\ BlocksEnd /\ RegionFull /\ Sorted /\ BlocksDisjoint

\* A thread in a hook.
Hook ==
    [at : {"none", "add", "sub", "alloc", "lock", "read", "wait", "write"},
     call : {"none", "malloc", "realloc", "mmap"},
     order : Orders,
     file : Files \cup {None}]

\* The types of the variables that the hooks add.
HookTypes ==
    /\ lazy \in BOOLEAN
    /\ hook \in [Threads -> Hook]
    /\ total_real_alloc \in Nat /\ granted \in Nat

FileTypes ==
    /\ map_mutex \in Threads \cup {None}
    /\ file_mutex \in [Files -> Threads \cup {None}]
    /\ file_dict \in [Files -> Block \cup {None}]
    /\ disk \in [Files -> Values \cup {None}]
    /\ memory \in [Files -> Values \cup {None}]
    /\ latest \in [Files -> Values \cup {None}]
    /\ loaded \in SUBSET Files
    /\ maps \in [Threads -> SUBSET Files]

\* The thread allocates the block of a file.
Mapping(t) == At(t, "alloc") /\ hook[t].file # None

\* Where thread t is: which locks it holds, and whether its file is in the table.  In lazy
\* mode a file is read once.
Located(t) ==
    /\ At(t, "add") => hook[t].file = None
    /\ At(t, "write") => hook[t].file \in Files
    /\ hook[t].at \in {"lock", "read", "wait"} =>
          hook[t].file \in Files /\ file_dict[hook[t].file] # None
    /\ Mapping(t) => map_mutex = t /\ file_dict[hook[t].file] = None
    /\ At(t, "lock") => map_mutex = t /\ ~lazy
    /\ At(t, "read") =>
          file_mutex[hook[t].file] = t /\ (lazy => hook[t].file \notin loaded)

\* The block of a file in the table stays allocated, and the file is loaded, or locked by
\* the thread that is to read it.
FileKept(f) ==
    /\ file_dict[f] # None => file_dict[f] \in live
    /\ file_dict[f] = None => f \notin loaded
    /\ file_dict[f] # None /\ f \notin loaded => file_mutex[f] # None
    /\ \A t \in Threads : f \in maps[t] => f \in loaded
    /\ lazy /\ f \in loaded => memory[f] = latest[f]

\* The inductive invariant.
RuntimeInv ==
    /\ AllocInv /\ HookTypes /\ FileTypes
    /\ \A t \in Threads : Located(t)
    /\ \A f \in Files : FileKept(f)
    /\ BudgetKept

-----------------------------------------------------------------------------
\* A block has at least one unit: 2^o is the number of subsets of a set of o elements.
LEMMA SizePositive ==
    ASSUME NEW o \in Orders
    PROVE  Size(o) \in Nat \ {0}
<1>1. o \in Nat /\ 1 \in Int /\ o \in Int
  BY AllocatorAssumption DEF Orders
<1>2. IsFiniteSet(1..o) /\ Cardinality(1..o) = o
  <2>1. IsFiniteSet(1..o) /\ Cardinality(1..o) = IF 1 > o THEN 0 ELSE o - 1 + 1
    BY <1>1, FS_Interval
  <2> QED
    BY <2>1, <1>1
<1>3. IsFiniteSet(SUBSET (1..o)) /\ Cardinality(SUBSET (1..o)) = 2^o
  <2>1. IsFiniteSet(SUBSET (1..o)) /\ Cardinality(SUBSET (1..o)) = 2^Cardinality(1..o)
    BY <1>2, FS_SUBSET
  <2> QED
    BY <2>1, <1>2
<1>4. Cardinality(SUBSET (1..o)) \in Nat
  BY <1>3, FS_CardinalityType
<1>5. SUBSET (1..o) # {}
  OBVIOUS
<1>6. Cardinality(SUBSET (1..o)) # 0
  BY <1>3, <1>5, FS_EmptySet
<1> QED
  BY <1>3, <1>4, <1>6 DEF Size

\* The units of one thread.
LEMMA ColumnSize ==
    ASSUME NEW t, NEW o \in Orders
    PROVE  /\ IsFiniteSet({t} \X (1..Size(o)))
           /\ Cardinality({t} \X (1..Size(o))) = Size(o)
<1>1. Size(o) \in Nat \ {0} /\ 1 \in Int /\ Size(o) \in Int
  BY SizePositive
<1>2. IsFiniteSet(1..Size(o)) /\ Cardinality(1..Size(o)) = Size(o)
  <2>1. /\ IsFiniteSet(1..Size(o))
        /\ Cardinality(1..Size(o)) = IF 1 > Size(o) THEN 0 ELSE Size(o) - 1 + 1
    BY <1>1, FS_Interval
  <2> QED
    BY <2>1, <1>1
<1>3. IsFiniteSet({t}) /\ Cardinality({t}) = 1
  BY FS_Singleton
<1>4. /\ IsFiniteSet({t} \X (1..Size(o)))
      /\ Cardinality({t} \X (1..Size(o))) = Cardinality({t}) * Cardinality(1..Size(o))
  BY <1>2, <1>3, FS_Product
<1> QED
  BY <1>1, <1>2, <1>3, <1>4

\* The units of a set of threads are finitely many.
LEMMA UnitsFinite ==
    ASSUME NEW S \in SUBSET Threads, NEW g \in [Threads -> Orders]
    PROVE  IsFiniteSet(Units(S, g)) /\ Cardinality(Units(S, g)) \in Nat
<1> DEFINE Column(t) == {t} \X (1..Size(g[t]))
           C == {Column(t) : t \in S}
           h == [t \in S |-> Column(t)]
<1>1. IsFiniteSet(S)
  BY AllocatorAssumption, FS_Subset
<1>2. h \in Surjection(S, C)
  <2>1. h \in [S -> C]
    OBVIOUS
  <2>2. \A c \in C : \E t \in S : h[t] = c
    OBVIOUS
  <2> HIDE DEF h, C
  <2> QED
    BY <2>1, <2>2 DEF Surjection
<1>3. IsFiniteSet(C)
  <2> HIDE DEF h, C
  <2> QED
    BY <1>1, <1>2, FS_Surjection
<1>4. \A c \in C : IsFiniteSet(c)
  BY ColumnSize
<1>5. IsFiniteSet(UNION C)
  <2> HIDE DEF C
  <2> QED
    BY <1>3, <1>4, FS_UNION
<1>6. Units(S, g) = UNION C
  BY DEF Units
<1> HIDE DEF C
<1> QED
  BY <1>5, <1>6, FS_CardinalityType

\* They depend on the orders of these threads only.
LEMMA UnitsSame ==
    ASSUME NEW S, NEW g, NEW h, \A t \in S : g[t] = h[t]
    PROVE  Units(S, g) = Units(S, h)
BY DEF Units

\* One thread more brings the size of its block.
LEMMA UnitsAdd ==
    ASSUME NEW S \in SUBSET Threads, NEW g \in [Threads -> Orders], NEW t \in Threads \ S
    PROVE  Cardinality(Units(S \cup {t}, g)) = Cardinality(Units(S, g)) + Size(g[t])
<1> DEFINE c == {t} \X (1..Size(g[t]))
           U == Units(S, g)
<1>1. Units(S \cup {t}, g) = U \cup c
  BY DEF Units
<1>2. U \cap c = {}
  BY DEF Units
<1>3. IsFiniteSet(c) /\ Cardinality(c) = Size(g[t]) /\ Size(g[t]) \in Nat
  BY ColumnSize, SizePositive
<1>4. IsFiniteSet(U) /\ Cardinality(U) \in Nat
  BY UnitsFinite
<1> HIDE DEF c, U
<1>5. Cardinality(U \cup c) = Cardinality(U) + Cardinality(c) - Cardinality(U \cap c)
  BY <1>3, <1>4, FS_Union
<1>6. Cardinality(U \cap c) = 0
  BY <1>2, FS_EmptySet
<1>7. Cardinality(U \cup c) = Cardinality(U) + Size(g[t])
  BY <1>3, <1>4, <1>5, <1>6
<1> QED
  BY <1>1, <1>7 DEF U

\* No threads, no units.
LEMMA UnitsNone ==
    ASSUME NEW g
    PROVE  Cardinality(Units({}, g)) = 0
<1>1. Units({}, g) = {}
  BY DEF Units
<1> QED
  BY <1>1, FS_EmptySet

-----------------------------------------------------------------------------
\* The two blocks share no unit.
Apart(a, b) ==
    \/ a.offset + Size(a.order) <= b.offset
    \/ b.offset + Size(b.order) <= a.offset

\* A block is in use or in one of the free lists.
InOnePlace ==
    /\ live \cap Freed = {}
    /\ large_free_blocks \cap lost = {}
    /\ \A t \in Threads : free_blocks[t] \cap lost = {}
    /\ \A t, u \in Threads : t # u => free_blocks[t] \cap free_blocks[u] = {}

\* BlocksDisjoint in these terms, in this state and in the next.
LEMMA DisjointIs ==
    /\ BlocksDisjoint <=>
          (\A a, b \in live \cup Freed : a # b => Apart(a, b)) /\ InOnePlace
    /\ BlocksDisjoint' <=>
          (\A a, b \in live' \cup Freed' : a # b => Apart(a, b)) /\ InOnePlace'
BY DEF BlocksDisjoint, Apart, InOnePlace

\* Where a free block can be.
LEMMA FreedIs ==
    /\ \A b : b \in Freed <=> \/ b \in large_free_blocks \/ b \in lost
                              \/ \E t \in Threads : b \in free_blocks[t]
    /\ \A b : b \in Freed' <=> \/ b \in large_free_blocks' \/ b \in lost'
                               \/ \E t \in Threads : b \in free_blocks'[t]
BY DEF Freed

\* used_size is End and the increments to be taken back.
LEMMA EndType ==
    ASSUME TypeOK
    PROVE  Cardinality(Units(Undoing, order)) \in Nat /\ End \in Int /\ End <= used_size
<1>1. Cardinality(Units(Undoing, order)) \in Nat /\ used_size \in Nat
  BY UnitsFinite DEF TypeOK, Undoing
<1> QED
  BY <1>1 DEF End

\* Blocks change their places, and End stays where it is.
LEMMA SameEndKeeps ==
    ASSUME AllocInv, TypeOK', Sorted', InOnePlace', RegionFull', End' = End,
           \A b : b \in (live \cup Freed)' => b \in live \cup Freed
    PROVE  AllocInv'
<1> USE DEF AllocInv
<1>1. BlocksEnd'
  BY DEF BlocksEnd
<1>2. \A a, b \in (live \cup Freed)' : a # b => Apart(a, b)
  BY DisjointIs
<1>3. BlocksDisjoint'
  BY <1>2, DisjointIs
<1> QED
  BY <1>1, <1>3

\* Blocks change their places, and no thread is at the end of the region.
LEMMA SameBlocksKeep ==
    ASSUME AllocInv, TypeOK', Sorted', InOnePlace',
           \A b : b \in (live \cup Freed)' => b \in live \cup Freed,
           used_size' = used_size, Undoing' = Undoing, \A t \in Undoing : order'[t] = order[t]
    PROVE  AllocInv'
<1>1. Units(Undoing, order') = Units(Undoing, order)
  BY UnitsSame
<1>2. End' = End
  BY <1>1 DEF End
<1>3. RegionFull'
  BY <1>2 DEF RegionFull, AllocInv
<1> QED
  BY <1>2, <1>3, SameEndKeeps

\* The region is empty at first.
LEMMA InitAlloc == Init => AllocInv
<1> SUFFICES ASSUME Init PROVE AllocInv
  OBVIOUS
<1>1. TypeOK /\ Sorted
  BY AllocatorAssumption DEF Init, TypeOK, Sorted, Orders
<1>2. live = {} /\ Freed = {} /\ Undoing = {}
  BY FreedIs DEF Init, Undoing
<1>3. BlocksEnd /\ RegionFull
  BY <1>2 DEF BlocksEnd, RegionFull
<1>4. BlocksDisjoint
  BY <1>2 DEF BlocksDisjoint, Init
<1> QED
  BY <1>1, <1>3, <1>4 DEF AllocInv

\* A free block is used again: it was in one free list only.
LEMMA ReuseKeeps ==
    ASSUME AllocInv, NEW t \in Threads, NEW b, Reuse(t, b)
    PROVE  AllocInv'
<1> USE DEF AllocInv
<1>1. used_size' = used_size /\ lost' = lost /\ pc' = pc /\ order' = order
  BY DEF Reuse
<1>2. live' = live \cup {b} /\ b \in FreeList(t, b.order)
  BY DEF Reuse
<1>3. b \in Block /\ b \in Freed /\ b \notin live /\ b \notin lost
  <2>1. b \in large_free_blocks \/ b \in free_blocks[t]
    BY <1>2 DEF FreeList
  <2>2. b \in Freed
    BY <2>1, FreedIs
  <2>3. b \in Block
    BY <2>1 DEF TypeOK
  <2> QED
    BY <2>1, <2>2, <2>3, DisjointIs DEF InOnePlace
<1>4. InOnePlace
  BY DisjointIs
<1>5. CASE Large(b.order)
  <2>1. b \in large_free_blocks /\ large_free_blocks' = large_free_blocks \ {b}
        /\ free_blocks' = free_blocks
    BY <1>2, <1>5 DEF Reuse, FreeList, Unlisted
  <2>2. \A u \in Threads : b \notin free_blocks[u]
    BY <1>5 DEF Sorted
  <2>3. TypeOK' /\ Sorted'
    BY <1>1, <1>2, <1>3, <2>1 DEF TypeOK, Sorted, Large
  <2>4. ASSUME NEW x PROVE x \in Freed' <=> x \in Freed /\ x # b
    BY <1>1, <1>3, <2>1, <2>2, FreedIs
  <2>5. InOnePlace'
    BY <1>1, <1>2, <1>4, <2>1, <2>4 DEF InOnePlace
  <2> QED
    BY <1>1, <1>2, <1>3, <2>3, <2>4, <2>5, SameBlocksKeep DEF Undoing
<1>6. CASE ~Large(b.order)
  <2>1. b \in free_blocks[t] /\ free_blocks' = [free_blocks EXCEPT ![t] = free_blocks[t] \ {b}]
        /\ large_free_blocks' = large_free_blocks
    BY <1>2, <1>6 DEF Reuse, FreeList, Unlisted
  <2>2. b \notin large_free_blocks
    BY <1>6 DEF Sorted
  <2>3. free_blocks \in [Threads -> SUBSET Block]
    BY DEF TypeOK
  <2>4. /\ \A u \in Threads :
              free_blocks'[u] = IF u = t THEN free_blocks[t] \ {b} ELSE free_blocks[u]
        /\ free_blocks' \in [Threads -> SUBSET Block]
    BY <2>1, <2>3
  <2>5. \A u \in Threads : u # t => b \notin free_blocks[u]
    BY <2>1, <1>4 DEF InOnePlace
  <2>6. TypeOK' /\ Sorted'
    BY <1>1, <1>2, <1>3, <2>1, <2>4 DEF TypeOK, Sorted, Large
  <2>7. ASSUME NEW x PROVE x \in Freed' <=> x \in Freed /\ x # b
    BY <1>1, <1>3, <2>1, <2>2, <2>4, <2>5, FreedIs
  <2>8. InOnePlace'
    BY <1>1, <1>2, <1>4, <2>1, <2>4, <2>7 DEF InOnePlace
  <2> QED
    BY <1>1, <1>2, <1>3, <2>6, <2>7, <2>8, SameBlocksKeep DEF Undoing
<1> QED
  BY <1>5, <1>6

\* A block is freed: it was in no free list.
LEMMA DeallocateKeeps ==
    ASSUME AllocInv, NEW t \in Threads, NEW b, Deallocate(t, b)
    PROVE  AllocInv'
<1> USE DEF AllocInv
<1>1. used_size' = used_size /\ lost' = lost /\ pc' = pc /\ order' = order
  BY DEF Deallocate
<1>2. live' = live \ {b} /\ b \in live
  BY DEF Deallocate
<1>3. InOnePlace
  BY DisjointIs
<1>4. b \in Block /\ b \notin Freed
  BY <1>2, <1>3 DEF TypeOK, InOnePlace
<1>5. b \notin large_free_blocks /\ b \notin lost /\ \A u \in Threads : b \notin free_blocks[u]
  BY <1>4, FreedIs
<1>6. CASE Large(b.order)
  <2>1. large_free_blocks' = large_free_blocks \cup {b} /\ free_blocks' = free_blocks
    BY <1>6 DEF Deallocate
  <2>2. TypeOK' /\ Sorted'
    BY <1>1, <1>2, <1>4, <1>6, <2>1 DEF TypeOK, Sorted, Large
  <2>3. ASSUME NEW x PROVE x \in Freed' <=> x \in Freed \/ x = b
    BY <1>1, <2>1, FreedIs
  <2>4. InOnePlace'
    BY <1>1, <1>2, <1>3, <1>5, <2>1, <2>3 DEF InOnePlace
  <2> QED
    BY <1>1, <1>2, <2>2, <2>3, <2>4, SameBlocksKeep DEF Undoing
<1>7. CASE ~Large(b.order)
  <2>1. free_blocks' = [free_blocks EXCEPT ![t] = free_blocks[t] \cup {b}]
        /\ large_free_blocks' = large_free_blocks
    BY <1>7 DEF Deallocate
  <2>2. free_blocks \in [Threads -> SUBSET Block]
    BY DEF TypeOK
  <2>3. /\ \A u \in Threads :
              free_blocks'[u] = IF u = t THEN free_blocks[t] \cup {b} ELSE free_blocks[u]
        /\ free_blocks' \in [Threads -> SUBSET Block]
    BY <1>4, <2>1, <2>2
  <2>4. TypeOK' /\ Sorted'
    BY <1>1, <1>2, <1>4, <1>7, <2>1, <2>3 DEF TypeOK, Sorted, Large
  <2>5. ASSUME NEW x PROVE x \in Freed' <=> x \in Freed \/ x = b
    BY <1>1, <2>1, <2>3, FreedIs
  <2>6. InOnePlace'
    BY <1>1, <1>2, <1>3, <1>5, <2>1, <2>3, <2>5 DEF InOnePlace
  <2> QED
    BY <1>1, <1>2, <2>4, <2>5, <2>6, SameBlocksKeep DEF Undoing
<1> QED
  BY <1>6, <1>7

\* The free lists of a thread are lost.
LEMMA ThreadEndsKeeps ==
    ASSUME AllocInv, NEW t \in Threads, ThreadEnds(t)
    PROVE  AllocInv'
<1> USE DEF AllocInv
<1>1. /\ used_size' = used_size /\ pc' = pc /\ order' = order /\ live' = live
      /\ large_free_blocks' = large_free_blocks /\ lost' = lost \cup free_blocks[t]
      /\ free_blocks' = [free_blocks EXCEPT ![t] = {}]
  BY DEF ThreadEnds
<1>2. free_blocks \in [Threads -> SUBSET Block]
  BY DEF TypeOK
<1>3. /\ \A u \in Threads : free_blocks'[u] = IF u = t THEN {} ELSE free_blocks[u]
      /\ free_blocks' \in [Threads -> SUBSET Block]
  BY <1>1, <1>2
<1>4. InOnePlace
  BY DisjointIs
<1>5. TypeOK' /\ Sorted'
  BY <1>1, <1>2, <1>3 DEF TypeOK, Sorted, Large
<1>6. ASSUME NEW x PROVE x \in Freed' <=> x \in Freed
  BY <1>1, <1>3, FreedIs
<1>7. \A b \in free_blocks[t] : b \notin large_free_blocks
  BY DEF Sorted
<1>8. InOnePlace'
  BY <1>1, <1>3, <1>4, <1>6, <1>7 DEF InOnePlace
<1> QED
  BY <1>1, <1>5, <1>6, <1>8, SameBlocksKeep DEF Undoing

\* A thread finds no free block.
LEMMA MissKeeps ==
    ASSUME AllocInv, NEW t \in Threads, NEW o \in Orders, Miss(t, o)
    PROVE  AllocInv'
<1> USE DEF AllocInv
<1>1. /\ UNCHANGED <<used_size, free_blocks, large_free_blocks, live, lost>> /\ pc[t] = "idle"
      /\ pc' = [pc EXCEPT ![t] = "extend"] /\ order' = [order EXCEPT ![t] = o]
  BY DEF Miss
<1>2. TypeOK' /\ Sorted'
  BY <1>1 DEF TypeOK, Sorted, Large
<1>3. Freed' = Freed
  BY <1>1 DEF Freed
<1>4. InOnePlace
  BY DisjointIs
<1>5. InOnePlace'
  BY <1>1, <1>3, <1>4 DEF InOnePlace
<1>6. Undoing' = Undoing /\ \A u \in Undoing : order'[u] = order[u]
  BY <1>1 DEF Undoing, TypeOK
<1> QED
  BY <1>1, <1>2, <1>3, <1>5, <1>6, SameBlocksKeep

\* A new block: its offset is inside the region, so no increment is to be taken back, and
\* all blocks end where it begins.
LEMMA ExtendFits ==
    ASSUME AllocInv, NEW t \in Threads, Extend(t), Fits(used_size, order[t])
    PROVE  AllocInv'
<1> USE DEF AllocInv
<1> DEFINE s == Size(order[t])
           n == [offset |-> used_size, order |-> order[t]]
<1>1. /\ used_size' = used_size + s /\ live' = live \cup {n}
      /\ pc' = [pc EXCEPT ![t] = "idle"] /\ order' = [order EXCEPT ![t] = 0]
      /\ UNCHANGED <<free_blocks, large_free_blocks, lost>>
  BY DEF Extend, Returns
<1>2. order[t] \in Orders /\ 0 \in Orders /\ used_size \in Nat /\ total_size \in Nat
  BY AllocatorAssumption DEF TypeOK, Orders
<1>3. s \in Nat \ {0}
  BY <1>2, SizePositive
<1>4. n \in Block /\ n.offset = used_size /\ n.order = order[t]
  BY <1>2 DEF Block
<1>5. TypeOK' /\ Sorted'
  BY <1>1, <1>2, <1>3, <1>4 DEF TypeOK, Sorted, Large
<1>6. Undoing = {} /\ End = used_size
  <2>1. used_size < total_size
    BY DEF Fits
  <2>2. End \in Int /\ End <= used_size
    BY EndType
  <2>3. Undoing = {}
    BY <1>2, <2>1, <2>2 DEF RegionFull
  <2>4. Cardinality(Units(Undoing, order)) = 0
    BY <2>3, UnitsNone
  <2> QED
    BY <1>2, <2>3, <2>4 DEF End
<1>7. Undoing' = {}
  BY <1>1, <1>6 DEF Undoing, TypeOK
<1>8. End' = used_size + s
  <2>1. Cardinality(Units(Undoing', order')) = 0
    BY <1>7, UnitsNone
  <2> QED
    BY <1>1, <1>2, <1>3, <2>1 DEF End
<1>9. Freed' = Freed
  BY <1>1 DEF Freed
<1>10. ASSUME NEW b \in live \cup Freed
       PROVE  /\ b.offset \in Nat /\ Size(b.order) \in Nat \ {0}
              /\ b.offset + Size(b.order) <= used_size
  <2>1. b \in Block
    BY FreedIs DEF TypeOK
  <2>2. b.offset \in Nat /\ b.order \in Orders
    BY <2>1 DEF Block
  <2> QED
    BY <2>2, <1>6, SizePositive DEF BlocksEnd
<1>11. n \notin live \cup Freed
  <2>1. ~(n.offset + Size(n.order) <= used_size)
    BY <1>2, <1>3, <1>4
  <2> QED
    BY <2>1, <1>10
<1> HIDE DEF n, s
<1>12. BlocksEnd'
  <2>1. ASSUME NEW b \in live \cup Freed PROVE b.offset + Size(b.order) <= End'
    BY <1>2, <1>3, <1>8, <1>10
  <2>2. n.offset + Size(n.order) <= End'
    BY <1>2, <1>3, <1>4, <1>8 DEF s
  <2> QED
    BY <1>1, <1>9, <2>1, <2>2 DEF BlocksEnd
<1>13. RegionFull'
  BY <1>7 DEF RegionFull
<1>14. InOnePlace'
  BY <1>1, <1>9, <1>11, DisjointIs DEF InOnePlace
<1>15. ASSUME NEW b \in live \cup Freed PROVE Apart(n, b) /\ Apart(b, n)
  <2>1. b.offset + Size(b.order) <= n.offset
    BY <1>4, <1>10
  <2> QED
    BY <2>1 DEF Apart
<1>16. \A a, b \in live' \cup Freed' : a # b => Apart(a, b)
  BY <1>1, <1>9, <1>15, DisjointIs
<1> QED
  BY <1>5, <1>12, <1>13, <1>14, <1>16, DisjointIs

\* An offset behind the region: used_size grows, End does not.
LEMMA ExtendFails ==
    ASSUME AllocInv, NEW t \in Threads, Extend(t), ~Fits(used_size, order[t])
    PROVE  AllocInv'
<1> USE DEF AllocInv
<1> DEFINE s == Size(order[t])
<1>1. /\ used_size' = used_size + s /\ pc[t] = "extend"
      /\ pc' = [pc EXCEPT ![t] = "undo"] /\ order' = order /\ live' = live
      /\ UNCHANGED <<free_blocks, large_free_blocks, lost>>
  BY DEF Extend
<1>2. s \in Nat /\ used_size \in Nat /\ total_size \in Nat
  BY SizePositive, AllocatorAssumption DEF TypeOK
<1>3. TypeOK' /\ Sorted'
  BY <1>1, <1>2 DEF TypeOK, Sorted, Large
<1>4. Undoing' = Undoing \cup {t} /\ t \in Threads \ Undoing /\ Undoing \in SUBSET Threads
  BY <1>1 DEF Undoing, TypeOK
<1>5. order \in [Threads -> Orders]
  BY DEF TypeOK
<1>6. Cardinality(Units(Undoing \cup {t}, order)) = Cardinality(Units(Undoing, order)) + s
  BY <1>4, <1>5, UnitsAdd
<1>7. Cardinality(Units(Undoing, order)) \in Nat /\ End \in Int
  BY EndType
<1>8. End' = used_size + s - (Cardinality(Units(Undoing, order)) + s)
  <2>1. Cardinality(Units(Undoing', order')) = Cardinality(Units(Undoing, order)) + s
    BY <1>1, <1>4, <1>6
  <2> HIDE DEF s
  <2> QED
    BY <1>1, <1>2, <1>7, <2>1 DEF End
<1>9. End' = End
  BY <1>2, <1>7, <1>8 DEF End
<1>10. RegionFull'
  <2>1. CASE Undoing = {}
    <3>1. Cardinality(Units(Undoing, order)) = 0
      BY <2>1, UnitsNone
    <3> QED
      BY <1>2, <1>9, <3>1 DEF RegionFull, End, Fits
  <2>2. CASE Undoing # {}
    BY <2>2, <1>9 DEF RegionFull
  <2> QED
    BY <2>1, <2>2
<1>11. Freed' = Freed
  BY <1>1 DEF Freed
<1>12. InOnePlace'
  BY <1>1, <1>11, DisjointIs DEF InOnePlace
<1> QED
  BY <1>1, <1>3, <1>9, <1>10, <1>11, <1>12, SameEndKeeps

\* The increment is taken back: used_size shrinks, End does not, whatever other threads
\* have added in between.
LEMMA UndoKeeps ==
    ASSUME AllocInv, NEW t \in Threads, Undo(t)
    PROVE  AllocInv'
<1> USE DEF AllocInv
<1> DEFINE s == Size(order[t])
           rest == Undoing \ {t}
<1>1. /\ used_size' = used_size - s /\ pc[t] = "undo"
      /\ pc' = [pc EXCEPT ![t] = "idle"] /\ order' = [order EXCEPT ![t] = 0] /\ live' = live
      /\ UNCHANGED <<free_blocks, large_free_blocks, lost>>
  BY DEF Undo, TakenBack, Returns
<1>2. s \in Nat /\ used_size \in Nat /\ total_size \in Nat /\ 0 \in Orders
  BY SizePositive, AllocatorAssumption DEF TypeOK, Orders
<1>3. order \in [Threads -> Orders] /\ order' \in [Threads -> Orders]
  BY <1>1, <1>2 DEF TypeOK
<1>4. /\ Undoing' = rest /\ Undoing = rest \cup {t}
      /\ t \in Threads \ rest /\ rest \in SUBSET Threads
  BY <1>1 DEF Undoing, TypeOK
<1>5. Units(rest, order') = Units(rest, order)
  <2>1. \A u \in rest : order'[u] = order[u]
    BY <1>1, <1>4 DEF TypeOK
  <2> HIDE DEF rest
  <2> QED
    BY <2>1, UnitsSame
<1> HIDE DEF rest
<1>6. Cardinality(Units(Undoing, order)) = Cardinality(Units(rest, order)) + s
  BY <1>3, <1>4, UnitsAdd
<1>7. Cardinality(Units(rest, order)) \in Nat /\ End \in Int
  BY <1>3, <1>4, UnitsFinite, EndType
<1>8. End' = used_size - s - Cardinality(Units(rest, order))
  BY <1>1, <1>4, <1>5 DEF End
<1>9. End' = End
  BY <1>2, <1>6, <1>7, <1>8 DEF End
<1>10. End >= total_size
  BY <1>4 DEF RegionFull
<1>11. used_size' \in Nat
  BY <1>1, <1>2, <1>7, <1>8, <1>9, <1>10
<1>12. TypeOK' /\ Sorted'
  BY <1>1, <1>3, <1>11 DEF TypeOK, Sorted, Large
<1>13. RegionFull'
  BY <1>9, <1>10 DEF RegionFull
<1>14. Freed' = Freed
  BY <1>1 DEF Freed
<1>15. InOnePlace'
  BY <1>1, <1>14, DisjointIs DEF InOnePlace
<1> QED
  BY <1>1, <1>9, <1>12, <1>13, <1>14, <1>15, SameEndKeeps

\* Nothing happens to the allocator.
LEMMA AllocStutterKeeps ==
    ASSUME AllocInv, UNCHANGED vars
    PROVE  AllocInv'
<1>1. UNCHANGED <<used_size, free_blocks, large_free_blocks, live, lost, pc, order>>
  BY DEF vars
<1>2. TypeOK' /\ Sorted' /\ Undoing' = Undoing /\ Freed' = Freed
  BY <1>1 DEF AllocInv, TypeOK, Sorted, Large, Undoing, Freed
<1>3. InOnePlace'
  BY <1>1, <1>2, DisjointIs DEF AllocInv, InOnePlace
<1> QED
  BY <1>1, <1>2, <1>3, SameBlocksKeep

\* Every step of the allocator keeps its invariant.
LEMMA AllocKeeps ==
    ASSUME AllocInv, [Next]_vars
    PROVE  AllocInv'
<1>1. ASSUME NEW t \in Threads, NEW b \in free_blocks[t] \cup large_free_blocks, Reuse(t, b)
      PROVE  AllocInv'
  BY <1>1, ReuseKeeps
<1>2. ASSUME NEW t \in Threads, NEW o \in Orders, Miss(t, o) PROVE AllocInv'
  BY <1>2, MissKeeps
<1>3. ASSUME NEW t \in Threads, Extend(t) PROVE AllocInv'
  BY <1>3, ExtendFits, ExtendFails
<1>4. ASSUME NEW t \in Threads, Undo(t) PROVE AllocInv'
  BY <1>4, UndoKeeps
<1>5. ASSUME NEW t \in Threads, NEW b \in live, Deallocate(t, b) PROVE AllocInv'
  BY <1>5, DeallocateKeeps
<1>6. ASSUME NEW t \in Threads, ThreadEnds(t) PROVE AllocInv'
  BY <1>6, ThreadEndsKeeps
<1> QED
  BY <1>1, <1>2, <1>3, <1>4, <1>5, <1>6, AllocStutterKeeps DEF Next

-----------------------------------------------------------------------------
\* Where in a hook a thread can be.
Places == {"none", "add", "sub", "alloc", "lock", "read", "wait", "write"}

\* A thread outside the hooks.
LEMMA IdleIs ==
    Idle \in Hook /\ Idle.at = "none" /\ Idle.file = None /\ Idle.order = 0
BY AllocatorAssumption DEF Idle, Hook, Orders

\* One thread enters a hook.
LEMMA HookFacts ==
    ASSUME HookTypes, NEW t \in Threads, NEW h \in Hook, hook' = [hook EXCEPT ![t] = h]
    PROVE  /\ hook' \in [Threads -> Hook] /\ hook'[t] = h
           /\ \A u \in Threads : u # t => hook'[u] = hook[u]
BY DEF HookTypes

\* One thread goes on in its hook.
LEMMA GotoFacts ==
    ASSUME HookTypes, NEW t \in Threads, NEW p \in Places, Goto(t, p)
    PROVE  /\ hook' \in [Threads -> Hook]
           /\ hook'[t].at = p /\ hook'[t].order = hook[t].order /\ hook'[t].file = hook[t].file
           /\ \A u \in Threads : u # t => hook'[u] = hook[u]
BY DEF HookTypes, Hook, Goto, Places

\* One thread leaves its hook.
LEMMA LeaveFacts ==
    ASSUME HookTypes, NEW t \in Threads, Leave(t)
    PROVE  /\ hook' \in [Threads -> Hook] /\ hook'[t].at = "none"
           /\ \A u \in Threads : u # t => hook'[u] = hook[u]
BY HookFacts, IdleIs DEF Leave

\* The threads that are about to take back what they have added, and their sizes.
Subtracting == {t \in Threads : At(t, "sub")}
Wanted == [t \in Threads |-> hook[t].order]

\* BudgetKept in these terms, in this state and in the next.
LEMMA BudgetIs ==
    /\ BudgetKept <=>
          /\ granted <= TotalThreshold
          /\ total_real_alloc = granted + Cardinality(Units(Subtracting, Wanted))
    /\ BudgetKept' <=>
          /\ granted' <= TotalThreshold
          /\ total_real_alloc' = granted' + Cardinality(Units(Subtracting', Wanted'))
BY DEF BudgetKept, Subtracting, Wanted

\* What is still to be taken back is a number.
LEMMA SizesType ==
    ASSUME HookTypes
    PROVE  /\ Wanted \in [Threads -> Orders] /\ Subtracting \in SUBSET Threads
           /\ Cardinality(Units(Subtracting, Wanted)) \in Nat
<1>1. Wanted \in [Threads -> Orders] /\ Subtracting \in SUBSET Threads
  BY DEF HookTypes, Hook, Wanted, Subtracting
<1> QED
  BY <1>1, UnitsFinite

\* The budget is not concerned.
LEMMA BudgetSame ==
    ASSUME RuntimeInv, UNCHANGED traceVars,
           \A u \in Threads : /\ hook'[u].at = "sub" <=> hook[u].at = "sub"
                              /\ hook[u].at = "sub" => hook'[u].order = hook[u].order
    PROVE  BudgetKept'
<1>1. Subtracting' = Subtracting
  BY DEF Subtracting, At
<1>2. \A u \in Subtracting : Wanted'[u] = Wanted[u]
  BY DEF Subtracting, At, Wanted
<1>3. Units(Subtracting, Wanted') = Units(Subtracting, Wanted)
  BY <1>2, UnitsSame
<1>4. granted' = granted /\ total_real_alloc' = total_real_alloc
  BY DEF traceVars
<1> QED
  BY <1>1, <1>3, <1>4, BudgetIs DEF RuntimeInv

\* The files are not concerned.
LEMMA FilesSame ==
    ASSUME RuntimeInv, UNCHANGED <<lazy, fileVars>>,
           \A f \in Files : file_dict[f] # None => file_dict[f] \in live'
    PROVE  FileTypes' /\ \A f \in Files : FileKept(f)'
<1>1. UNCHANGED <<lazy, map_mutex, file_mutex, file_dict, disk, memory, loaded, maps, latest>>
  BY DEF fileVars
<1> QED
  BY <1>1 DEF RuntimeInv, FileTypes, FileKept

\* A thread stays where it is.
LEMMA OthersLocated ==
    ASSUME NEW u \in Threads, Located(u), hook'[u] = hook[u],
           UNCHANGED <<lazy, map_mutex, file_mutex, file_dict, loaded>>
    PROVE  Located(u)'
BY DEF Located, Mapping, At

\* A thread that deals with no file.
LEMMA QuietLocated ==
    ASSUME NEW t \in Threads,
           \/ hook'[t].at \in {"none", "sub"}
           \/ hook'[t].at \in {"add", "alloc"} /\ hook'[t].file = None
    PROVE  Located(t)'
BY DEF Located, Mapping, At

\* A thread passes the first check of the budget.
LEMMA CacheAllocHookKeeps ==
    ASSUME RuntimeInv, NEW t \in Threads, NEW call \in {"malloc", "realloc"}, NEW o \in Orders,
           CacheAllocHook(t, call, o)
    PROVE  RuntimeInv'
<1> USE DEF RuntimeInv
<1> DEFINE h == [at |-> IF Size(o) < TraceThreshold THEN "alloc" ELSE "add",
                 call |-> call, order |-> o, file |-> None]
<1>1. /\ hook[t].at = "none" /\ hook' = [hook EXCEPT ![t] = h]
      /\ UNCHANGED <<vars, lazy, traceVars, fileVars>>
  BY DEF CacheAllocHook, At
<1>2. h \in Hook /\ h.at \in {"add", "alloc"} /\ h.file = None
  BY DEF Hook
<1> HIDE DEF h
<1>3. /\ hook' \in [Threads -> Hook] /\ hook'[t] = h
      /\ \A u \in Threads : u # t => hook'[u] = hook[u]
  BY <1>1, <1>2, HookFacts
<1>4. UNCHANGED <<live, total_real_alloc, granted, map_mutex, file_mutex, file_dict, loaded>>
  BY <1>1 DEF vars, traceVars, fileVars
<1>5. AllocInv'
  BY <1>1, AllocKeeps
<1>6. HookTypes'
  BY <1>1, <1>3, <1>4 DEF HookTypes
<1>7. FileTypes' /\ \A f \in Files : FileKept(f)'
  BY <1>1, <1>4, FilesSame DEF FileKept
<1>8. ASSUME NEW u \in Threads PROVE Located(u)'
  BY <1>1, <1>2, <1>3, <1>4, OthersLocated, QuietLocated
<1>9. BudgetKept'
  BY <1>1, <1>2, <1>3, BudgetSame
<1> QED
  BY <1>5, <1>6, <1>7, <1>8, <1>9

\* The second check is of the counter that fetch_add has changed, so that of threads which
\* passed the first one together only as many are granted as the budget allows.
LEMMA TraceAddKeeps ==
    ASSUME RuntimeInv, NEW t \in Threads, TraceAdd(t)
    PROVE  RuntimeInv'
<1> USE DEF RuntimeInv
<1> DEFINE size == Size(hook[t].order)
           taken == Cardinality(Units(Subtracting, Wanted))
<1>1. /\ hook[t].at = "add" /\ total_real_alloc' = total_real_alloc + size
      /\ UNCHANGED <<vars, lazy, fileVars>>
  BY DEF TraceAdd, At
<1>2. UNCHANGED <<live, map_mutex, file_mutex, file_dict, loaded>>
  BY <1>1 DEF vars, fileVars
<1>3. hook[t].file = None
  BY <1>1 DEF Located, At
<1>4. AllocInv'
  BY <1>1, AllocKeeps
<1>5. FileTypes' /\ \A f \in Files : FileKept(f)'
  BY <1>1, <1>2, FilesSame DEF FileKept
<1>6. /\ hook[t].order \in Orders /\ size \in Nat /\ total_real_alloc \in Nat /\ granted \in Nat
      /\ taken \in Nat /\ total_real_alloc = granted + taken /\ granted <= TotalThreshold
      /\ TotalThreshold \in Nat
  <2>1. hook[t].order \in Orders
    BY DEF HookTypes, Hook
  <2> QED
    BY <2>1, SizePositive, SizesType, BudgetIs, RuntimeAssumption DEF HookTypes
<1>7. CASE WithinBudget(size)
  <2>1. /\ granted' = granted + size
        /\ IF hook[t].call = "realloc" THEN Leave(t) ELSE Goto(t, "alloc")
    BY <1>7 DEF TraceAdd
  <2>2. /\ hook' \in [Threads -> Hook]
        /\ hook'[t].at = "none" \/ (hook'[t].at = "alloc" /\ hook'[t].file = None)
        /\ \A u \in Threads : u # t => hook'[u] = hook[u]
    BY <1>3, <2>1, LeaveFacts, GotoFacts DEF Places
  <2>3. ASSUME NEW u \in Threads PROVE Located(u)'
    BY <1>1, <1>2, <2>2, OthersLocated, QuietLocated
  <2>4. HookTypes'
    BY <1>1, <1>6, <2>1, <2>2 DEF HookTypes
  <2>5. Subtracting' = Subtracting /\ \A u \in Subtracting : Wanted'[u] = Wanted[u]
    BY <1>1, <2>2 DEF Subtracting, Wanted, At
  <2>6. Units(Subtracting', Wanted') = Units(Subtracting, Wanted)
    <3>1. Units(Subtracting, Wanted') = Units(Subtracting, Wanted)
      BY <2>5, UnitsSame
    <3> QED
      BY <2>5, <3>1
  <2>7. total_real_alloc + size <= TotalThreshold
    BY <1>7 DEF WithinBudget
  <2> HIDE DEF size, taken
  <2>8. granted' <= TotalThreshold /\ total_real_alloc' = granted' + taken
    BY <1>1, <1>6, <2>1, <2>7
  <2>9. BudgetKept'
    BY <2>6, <2>8, BudgetIs DEF taken
  <2> QED
    BY <1>4, <1>5, <2>3, <2>4, <2>9
<1>8. CASE ~WithinBudget(size)
  <2>1. granted' = granted /\ Goto(t, "sub")
    BY <1>8 DEF TraceAdd
  <2>2. /\ hook' \in [Threads -> Hook] /\ hook'[t].at = "sub" /\ hook'[t].order = hook[t].order
        /\ \A u \in Threads : u # t => hook'[u] = hook[u]
    BY <2>1, GotoFacts DEF Places
  <2>3. ASSUME NEW u \in Threads PROVE Located(u)'
    BY <1>1, <1>2, <2>2, OthersLocated, QuietLocated
  <2>4. HookTypes'
    BY <1>1, <1>6, <2>1, <2>2 DEF HookTypes
  <2>5. Subtracting' = Subtracting \cup {t} /\ t \in Threads \ Subtracting
    BY <1>1, <2>2 DEF Subtracting, At
  <2>6. Wanted' = Wanted /\ Wanted[t] = hook[t].order
    BY <2>2 DEF Wanted
  <2>7. Cardinality(Units(Subtracting \cup {t}, Wanted)) = taken + size
    BY <2>5, <2>6, SizesType, UnitsAdd
  <2>8. Cardinality(Units(Subtracting', Wanted')) = taken + size
    BY <2>5, <2>6, <2>7
  <2> HIDE DEF size, taken
  <2>9. total_real_alloc' = granted' + (taken + size)
    BY <1>1, <1>6, <2>1
  <2>10. BudgetKept'
    BY <1>6, <2>1, <2>8, <2>9, BudgetIs
  <2> QED
    BY <1>4, <1>5, <2>3, <2>4, <2>10
<1> QED
  BY <1>7, <1>8

\* What was added without a grant is taken back.
LEMMA TraceSubKeeps ==
    ASSUME RuntimeInv, NEW t \in Threads, TraceSub(t)
    PROVE  RuntimeInv'
<1> USE DEF RuntimeInv
<1> DEFINE size == Size(hook[t].order)
           rest == Subtracting \ {t}
           left == Cardinality(Units(rest, Wanted))
<1>1. /\ hook[t].at = "sub" /\ total_real_alloc' = total_real_alloc - size /\ granted' = granted
      /\ UNCHANGED <<vars, lazy, fileVars>> /\ Leave(t)
  BY DEF TraceSub, At
<1>2. UNCHANGED <<live, map_mutex, file_mutex, file_dict, loaded>>
  BY <1>1 DEF vars, fileVars
<1>3. AllocInv'
  BY <1>1, AllocKeeps
<1>4. FileTypes' /\ \A f \in Files : FileKept(f)'
  BY <1>1, <1>2, FilesSame DEF FileKept
<1>5. /\ hook' \in [Threads -> Hook] /\ hook'[t].at = "none"
      /\ \A u \in Threads : u # t => hook'[u] = hook[u]
  BY <1>1, LeaveFacts
<1>6. ASSUME NEW u \in Threads PROVE Located(u)'
  BY <1>1, <1>2, <1>5, OthersLocated, QuietLocated
<1>7. /\ Subtracting' = rest /\ Subtracting = rest \cup {t}
      /\ t \in Threads \ rest /\ rest \in SUBSET Threads
  BY <1>1, <1>5 DEF Subtracting, At
<1>8. Wanted[t] = hook[t].order /\ \A u \in rest : Wanted'[u] = Wanted[u]
  BY <1>5, <1>7 DEF Wanted
<1> HIDE DEF rest
<1>9. Units(rest, Wanted') = Units(rest, Wanted)
  BY <1>8, UnitsSame
<1>10. Cardinality(Units(Subtracting, Wanted)) = left + size
  BY <1>7, <1>8, SizesType, UnitsAdd
<1>11. left \in Nat /\ size \in Nat /\ granted \in Nat
  <2>1. hook[t].order \in Orders
    BY DEF HookTypes, Hook
  <2> QED
    BY <2>1, <1>7, SizesType, UnitsFinite, SizePositive DEF HookTypes
<1>12. total_real_alloc = granted + (left + size)
  BY <1>10, BudgetIs
<1>13. Cardinality(Units(Subtracting', Wanted')) = left
  BY <1>7, <1>9
<1> HIDE DEF left, size
<1>14. total_real_alloc' = granted' + left /\ total_real_alloc' \in Nat
  BY <1>1, <1>11, <1>12
<1>15. BudgetKept'
  BY <1>1, <1>13, <1>14, BudgetIs
<1>16. HookTypes'
  BY <1>1, <1>5, <1>14 DEF HookTypes
<1> QED
  BY <1>3, <1>4, <1>6, <1>15, <1>16

\* cache_alloc returns a block.  That of a file enters the table, with the file locked in
\* the same step.
LEMMA AllocatedKeeps ==
    ASSUME RuntimeInv, AllocInv', NEW t \in Threads, NEW b \in Block, hook[t].at = "alloc",
           b \in live', \A c \in live : c \in live', UNCHANGED <<lazy, traceVars>>,
           Allocated(t, b)
    PROVE  RuntimeInv'
<1> USE DEF RuntimeInv
<1>1. total_real_alloc' = total_real_alloc /\ granted' = granted
  BY DEF traceVars
<1>2. CASE hook[t].file = None
  <2>1. Leave(t) /\ UNCHANGED fileVars
    BY <1>2 DEF Allocated
  <2>2. /\ hook' \in [Threads -> Hook] /\ hook'[t].at = "none"
        /\ \A u \in Threads : u # t => hook'[u] = hook[u]
    BY <2>1, LeaveFacts
  <2>3. UNCHANGED <<map_mutex, file_mutex, file_dict, loaded>>
    BY <2>1 DEF fileVars
  <2>4. HookTypes'
    BY <1>1, <2>2 DEF HookTypes
  <2>5. FileTypes' /\ \A f \in Files : FileKept(f)'
    BY <2>1, FilesSame DEF FileKept
  <2>6. ASSUME NEW u \in Threads PROVE Located(u)'
    BY <2>2, <2>3, OthersLocated, QuietLocated
  <2>7. BudgetKept'
    BY <2>2, BudgetSame
  <2> QED
    BY <2>4, <2>5, <2>6, <2>7
<1>3. CASE hook[t].file # None
  <2>1. PICK f \in Files : f = hook[t].file
    BY <1>3 DEF HookTypes, Hook
  <2>2. /\ file_dict' = [file_dict EXCEPT ![f] = b] /\ file_mutex' = [file_mutex EXCEPT ![f] = t]
        /\ map_mutex' = None /\ Goto(t, "read")
        /\ UNCHANGED <<disk, memory, loaded, maps, latest>>
    BY <1>3, <2>1 DEF Allocated
  <2>3. /\ hook' \in [Threads -> Hook] /\ hook'[t].at = "read" /\ hook'[t].file = f
        /\ \A u \in Threads : u # t => hook'[u] = hook[u]
    BY <2>1, <2>2, GotoFacts DEF Places
  <2>4. HookTypes'
    BY <1>1, <2>3 DEF HookTypes
  <2>5. FileTypes'
    BY <2>2 DEF FileTypes
  <2>6. /\ file_dict'[f] = b /\ file_mutex'[f] = t /\ b # None /\ t # None
        /\ \A g \in Files : g # f => file_dict'[g] = file_dict[g] /\ file_mutex'[g] = file_mutex[g]
    BY <2>2, RuntimeAssumption DEF FileTypes
  <2>7. map_mutex = t /\ file_dict[f] = None /\ f \notin loaded
    BY <1>3, <2>1 DEF Located, Mapping, At, FileKept
  <2>8. ASSUME NEW g \in Files PROVE FileKept(g)'
    <3>1. CASE g = f
      BY <3>1, <2>2, <2>6, <2>7 DEF FileKept
    <3>2. CASE g # f
      BY <3>2, <2>2, <2>6 DEF FileKept
    <3> QED
      BY <3>1, <3>2
  <2>9. ASSUME NEW u \in Threads PROVE Located(u)'
    <3>1. CASE u = t
      BY <3>1, <2>2, <2>3, <2>6, <2>7 DEF Located, Mapping, At
    <3>2. CASE u # t
      <4>1. hook'[u] = hook[u] /\ Located(u) /\ hook[u].file \in Files \cup {None}
        BY <3>2, <2>3 DEF HookTypes, Hook
      <4>2. ~Mapping(u) /\ hook[u].at # "lock"
        BY <3>2, <4>1, <2>7 DEF Located, At
      <4>3. hook[u].at \in {"lock", "read", "wait"} => hook[u].file \in Files /\ hook[u].file # f
        BY <4>1, <2>7 DEF Located
      <4> QED
        BY <4>1, <4>2, <4>3, <2>2, <2>6 DEF Located, Mapping, At
    <3> QED
      BY <3>1, <3>2
  <2>10. BudgetKept'
    BY <2>3, BudgetSame
  <2> QED
    BY <2>4, <2>5, <2>8, <2>9, <2>10
<1> QED
  BY <1>2, <1>3

\* Only the allocator takes a step, and no block of a file is freed.
LEMMA AllocOnlyKeeps ==
    ASSUME RuntimeInv, AllocInv', UNCHANGED <<lazy, hook, traceVars, fileVars>>,
           \A f \in Files : file_dict[f] # None => file_dict[f] \in live'
    PROVE  RuntimeInv'
<1> USE DEF RuntimeInv
<1>1. UNCHANGED <<total_real_alloc, granted, map_mutex, file_mutex, file_dict, loaded>>
  BY DEF traceVars, fileVars
<1>2. HookTypes'
  BY <1>1 DEF HookTypes
<1>3. FileTypes' /\ \A f \in Files : FileKept(f)'
  BY FilesSame
<1>4. \A u \in Threads : Located(u)'
  BY <1>1, OthersLocated
<1>5. BudgetKept'
  BY BudgetSame
<1> QED
  BY <1>2, <1>3, <1>4, <1>5

\* The steps of cache_alloc.
LEMMA CacheAllocKeeps ==
    ASSUME RuntimeInv, NEW t \in Threads, CacheAlloc(t)
    PROVE  RuntimeInv'
<1> USE DEF RuntimeInv
<1>1. hook[t].at = "alloc" /\ UNCHANGED <<lazy, traceVars>>
  BY DEF CacheAlloc, At
<1>2. hook[t].order \in Orders
  BY DEF HookTypes, Hook
<1>3. ASSUME NEW b \in FreeList(t, hook[t].order), Reuse(t, b), Allocated(t, b)
      PROVE  RuntimeInv'
  <2>1. b \in free_blocks[t] \cup large_free_blocks
    BY DEF FreeList
  <2>2. AllocInv'
    BY <1>3, <2>1, AllocKeeps DEF Next
  <2>3. b \in Block /\ live' = live \cup {b}
    BY <1>3, <2>1 DEF Reuse, AllocInv, TypeOK
  <2> QED
    BY <1>1, <1>3, <2>2, <2>3, AllocatedKeeps
<1>4. ASSUME Miss(t, hook[t].order), UNCHANGED <<hook, fileVars>>
      PROVE  RuntimeInv'
  <2>1. AllocInv'
    BY <1>2, <1>4, AllocKeeps DEF Next
  <2>2. live' = live
    BY <1>4 DEF Miss
  <2> QED
    BY <1>1, <1>4, <2>1, <2>2, AllocOnlyKeeps DEF FileKept
<1>5. ASSUME Extend(t), pc'[t] = "idle",
             Allocated(t, [offset |-> used_size, order |-> order[t]])
      PROVE  RuntimeInv'
  <2> DEFINE n == [offset |-> used_size, order |-> order[t]]
  <2>1. AllocInv'
    BY <1>5, AllocKeeps DEF Next
  <2>2. n \in Block
    BY DEF AllocInv, TypeOK, Block
  <2>3. live' = live \cup {n}
    <3>1. pc \in [Threads -> {"idle", "extend", "undo"}]
      BY DEF AllocInv, TypeOK
    <3>2. Fits(used_size, order[t])
      BY <1>5, <3>1 DEF Extend
    <3> QED
      BY <1>5, <3>2 DEF Extend
  <2> HIDE DEF n
  <2>4. Allocated(t, n)
    BY <1>5 DEF n
  <2> QED
    BY <1>1, <2>1, <2>2, <2>3, <2>4, AllocatedKeeps
<1>6. ASSUME Extend(t), pc'[t] # "idle", UNCHANGED <<hook, fileVars>>
      PROVE  RuntimeInv'
  <2>1. AllocInv'
    BY <1>6, AllocKeeps DEF Next
  <2>2. \A b \in live : b \in live'
    BY <1>6 DEF Extend
  <2> QED
    BY <1>1, <1>6, <2>1, <2>2, AllocOnlyKeeps DEF FileKept
<1> QED
  BY <1>3, <1>4, <1>5, <1>6 DEF CacheAlloc

\* bad_alloc releases the table.
LEMMA CacheAllocFailsKeeps ==
    ASSUME RuntimeInv, NEW t \in Threads, CacheAllocFails(t)
    PROVE  RuntimeInv'
<1> USE DEF RuntimeInv
<1>1. /\ hook[t].at = "alloc" /\ Undo(t) /\ Leave(t)
      /\ map_mutex' = IF hook[t].file = None THEN map_mutex ELSE None
      /\ UNCHANGED <<lazy, traceVars, file_mutex, file_dict, disk, memory, loaded, maps, latest>>
  BY DEF CacheAllocFails, At
<1>2. AllocInv' /\ live' = live
  BY <1>1, AllocKeeps DEF Next, Undo
<1>3. /\ hook' \in [Threads -> Hook] /\ hook'[t].at = "none"
      /\ \A u \in Threads : u # t => hook'[u] = hook[u]
  BY <1>1, LeaveFacts
<1>4. HookTypes'
  BY <1>1, <1>3 DEF HookTypes, traceVars
<1>5. FileTypes'
  BY <1>1 DEF FileTypes
<1>6. \A f \in Files : FileKept(f)'
  BY <1>1, <1>2 DEF FileKept
<1>7. ASSUME NEW u \in Threads PROVE Located(u)'
  <2>1. CASE u = t
    BY <2>1, <1>3, QuietLocated
  <2>2. CASE u # t /\ hook[t].file = None
    BY <2>2, <1>1, <1>3, OthersLocated
  <2>3. CASE u # t /\ hook[t].file # None
    <3>1. map_mutex = t
      BY <2>3, <1>1 DEF Located, Mapping, At
    <3>2. Located(u) /\ hook'[u] = hook[u] /\ ~Mapping(u) /\ hook[u].at # "lock"
      BY <2>3, <3>1, <1>3 DEF Located, At
    <3> QED
      BY <1>1, <3>2 DEF Located, Mapping, At
  <2> QED
    BY <2>1, <2>2, <2>3
<1>8. BudgetKept'
  BY <1>1, <1>3, BudgetSame
<1> QED
  BY <1>2, <1>4, <1>5, <1>6, <1>7, <1>8

\* The application frees a block that is not the block of a file.
LEMMA CacheFreeKeeps ==
    ASSUME RuntimeInv, NEW t \in Threads, NEW b \in live, CacheFree(t, b)
    PROVE  RuntimeInv'
<1> USE DEF RuntimeInv
<1>1. /\ Deallocate(t, b) /\ UNCHANGED <<lazy, hook, traceVars, fileVars>>
      /\ \A f \in Files : file_dict[f] # b
  BY DEF CacheFree
<1>2. AllocInv'
  BY <1>1, AllocKeeps DEF Next
<1>3. live' = live \ {b}
  BY <1>1 DEF Deallocate
<1> QED
  BY <1>1, <1>2, <1>3, AllocOnlyKeeps DEF FileKept

\* A thread ends.
LEMMA ThreadExitsKeeps ==
    ASSUME RuntimeInv, NEW t \in Threads, ThreadExits(t)
    PROVE  RuntimeInv'
<1> USE DEF RuntimeInv
<1>1. ThreadEnds(t) /\ UNCHANGED <<lazy, hook, traceVars, fileVars>>
  BY DEF ThreadExits
<1>2. AllocInv' /\ live' = live
  BY <1>1, AllocKeeps DEF Next, ThreadEnds
<1> QED
  BY <1>1, <1>2, AllocOnlyKeeps DEF FileKept

-----------------------------------------------------------------------------
\* mmap locks the table and looks the file up.
LEMMA MmapEnterKeeps ==
    ASSUME RuntimeInv, NEW t \in Threads, NEW f \in Files, MmapEnter(t, f)
    PROVE  RuntimeInv'
<1> USE DEF RuntimeInv
<1>1. PICK p \in {"alloc", "wait", "lock"} :
          p = IF file_dict[f] = None THEN "alloc" ELSE KnownFile
  BY DEF KnownFile
<1> DEFINE h == [at |-> p, call |-> "mmap", order |-> FileOrder, file |-> f]
<1>2. /\ hook[t].at = "none" /\ map_mutex = None
      /\ hook' = [hook EXCEPT ![t] = h] /\ map_mutex' = IF p = "wait" THEN None ELSE t
      /\ UNCHANGED <<vars, lazy, traceVars, file_mutex, file_dict, disk, memory, loaded, maps,
                     latest>>
  BY <1>1 DEF MmapEnter, At
<1>3. h \in Hook /\ h.at = p /\ h.file = f
  BY RuntimeAssumption DEF Hook
<1> HIDE DEF h
<1>4. /\ hook' \in [Threads -> Hook] /\ hook'[t] = h
      /\ \A u \in Threads : u # t => hook'[u] = hook[u]
  BY <1>2, <1>3, HookFacts
<1>5. AllocInv' /\ live' = live
  BY <1>2, AllocKeeps DEF vars
<1>6. HookTypes'
  BY <1>2, <1>4 DEF HookTypes, traceVars
<1>7. FileTypes'
  BY <1>2 DEF FileTypes
<1>8. \A g \in Files : FileKept(g)'
  BY <1>2, <1>5 DEF FileKept
<1>9. ASSUME NEW u \in Threads PROVE Located(u)'
  <2>1. CASE u = t
    <3>1. hook'[u].at = p /\ hook'[u].file = f /\ f # None
      BY <2>1, <1>3, <1>4, RuntimeAssumption
    <3>2. /\ p = "alloc" => file_dict[f] = None
          /\ p \in {"wait", "lock"} => file_dict[f] # None
          /\ p = "lock" => ~lazy
      BY <1>1 DEF KnownFile
    <3> QED
      BY <2>1, <3>1, <3>2, <1>2 DEF Located, Mapping, At
  <2>2. CASE u # t
    <3>1. Located(u) /\ hook'[u] = hook[u] /\ map_mutex # u
      BY <2>2, <1>2, <1>4, RuntimeAssumption
    <3> QED
      BY <3>1, <1>2 DEF Located, Mapping, At
  <2> QED
    BY <2>1, <2>2
<1>10. BudgetKept'
  BY <1>2, <1>3, <1>4, BudgetSame
<1> QED
  BY <1>5, <1>6, <1>7, <1>8, <1>9, <1>10

\* A file that is to be read again is locked, and the table is released.
LEMMA MmapLockFileKeeps ==
    ASSUME RuntimeInv, NEW t \in Threads, MmapLockFile(t)
    PROVE  RuntimeInv'
<1> USE DEF RuntimeInv
<1>1. hook[t].at = "lock" /\ hook[t].file \in Files /\ map_mutex = t /\ ~lazy
  BY DEF MmapLockFile, At, Located
<1>2. PICK f \in Files : f = hook[t].file
  BY <1>1
<1>3. /\ file_mutex[f] = None /\ file_mutex' = [file_mutex EXCEPT ![f] = t] /\ map_mutex' = None
      /\ Goto(t, "read")
      /\ UNCHANGED <<vars, lazy, traceVars, file_dict, disk, memory, loaded, maps, latest>>
  BY <1>2 DEF MmapLockFile
<1>4. /\ hook' \in [Threads -> Hook] /\ hook'[t].at = "read" /\ hook'[t].file = f
      /\ \A u \in Threads : u # t => hook'[u] = hook[u]
  BY <1>2, <1>3, GotoFacts DEF Places
<1>5. AllocInv' /\ live' = live
  BY <1>3, AllocKeeps DEF vars
<1>6. HookTypes'
  BY <1>3, <1>4 DEF HookTypes, traceVars
<1>7. FileTypes'
  BY <1>3 DEF FileTypes
<1>8. /\ file_mutex'[f] = t /\ t # None
      /\ \A g \in Files : g # f => file_mutex'[g] = file_mutex[g]
  BY <1>3, RuntimeAssumption DEF FileTypes
<1>9. ASSUME NEW g \in Files PROVE FileKept(g)'
  BY <1>3, <1>5, <1>8 DEF FileKept
<1>10. ASSUME NEW u \in Threads PROVE Located(u)'
  <2>1. CASE u = t
    BY <2>1, <1>1, <1>2, <1>3, <1>4, <1>8 DEF Located, Mapping, At
  <2>2. CASE u # t
    <3>1. Located(u) /\ hook'[u] = hook[u] /\ map_mutex # u
      BY <2>2, <1>1, <1>4
    <3>2. ~Mapping(u) /\ hook[u].at # "lock"
      BY <3>1 DEF Located, At
    <3>3. hook[u].at = "read" => hook[u].file \in Files /\ hook[u].file # f
      BY <2>2, <3>1, <1>3, RuntimeAssumption DEF Located, At
    <3> QED
      BY <3>1, <3>2, <3>3, <1>3, <1>8 DEF Located, Mapping, At
  <2> QED
    BY <2>1, <2>2
<1>11. BudgetKept'
  BY <1>1, <1>3, <1>4, BudgetSame
<1> QED
  BY <1>5, <1>6, <1>7, <1>9, <1>10, <1>11

\* The file is read and unlocked.  In lazy mode this was the first read, so no store is
\* overwritten.
LEMMA MmapReadKeeps ==
    ASSUME RuntimeInv, NEW t \in Threads, MmapRead(t)
    PROVE  RuntimeInv'
<1> USE DEF RuntimeInv
<1>1. hook[t].at = "read" /\ hook[t].file \in Files
  BY DEF MmapRead, At, Located
<1>2. PICK f \in Files : f = hook[t].file
  BY <1>1
<1>3. /\ memory' = [memory EXCEPT ![f] = disk[f]]
      /\ latest' = IF f \in loaded THEN latest ELSE [latest EXCEPT ![f] = disk[f]]
      /\ loaded' = loaded \cup {f} /\ file_mutex' = [file_mutex EXCEPT ![f] = None]
      /\ Goto(t, "wait")
      /\ UNCHANGED <<vars, lazy, traceVars, map_mutex, file_dict, disk, maps>>
  BY <1>2 DEF MmapRead, Unlocked
<1>4. /\ hook' \in [Threads -> Hook] /\ hook'[t].at = "wait" /\ hook'[t].file = f
      /\ \A u \in Threads : u # t => hook'[u] = hook[u]
  BY <1>2, <1>3, GotoFacts DEF Places
<1>5. AllocInv' /\ live' = live
  BY <1>3, AllocKeeps DEF vars
<1>6. HookTypes'
  BY <1>3, <1>4 DEF HookTypes, traceVars
<1>7. FileTypes'
  BY <1>3 DEF FileTypes
<1>8. /\ \A g \in Files : g # f => /\ file_mutex'[g] = file_mutex[g]
                                   /\ memory'[g] = memory[g] /\ latest'[g] = latest[g]
      /\ memory'[f] = disk[f] /\ (f \notin loaded => latest'[f] = disk[f])
  BY <1>3 DEF FileTypes
<1>9. file_mutex[f] = t /\ file_dict[f] # None /\ (lazy => f \notin loaded)
  BY <1>1, <1>2 DEF Located, At
<1>10. ASSUME NEW g \in Files PROVE FileKept(g)'
  <2>1. CASE g = f
    BY <2>1, <1>3, <1>5, <1>8, <1>9 DEF FileKept
  <2>2. CASE g # f
    BY <2>2, <1>3, <1>5, <1>8 DEF FileKept
  <2> QED
    BY <2>1, <2>2
<1>11. ASSUME NEW u \in Threads PROVE Located(u)'
  <2>1. CASE u = t
    BY <2>1, <1>3, <1>4, <1>9 DEF Located, Mapping, At
  <2>2. CASE u # t
    <3>1. Located(u) /\ hook'[u] = hook[u]
      BY <2>2, <1>4
    <3>2. hook[u].at = "read" => hook[u].file \in Files /\ hook[u].file # f
      BY <2>2, <3>1, <1>9 DEF Located, At
    <3> QED
      BY <3>1, <3>2, <1>3, <1>8 DEF Located, Mapping, At
  <2> QED
    BY <2>1, <2>2
<1>12. BudgetKept'
  BY <1>1, <1>3, <1>4, BudgetSame
<1> QED
  BY <1>5, <1>6, <1>7, <1>10, <1>11, <1>12

\* mmap returns once the file is unlocked, and the file has been loaded by then.
LEMMA MmapReturnKeeps ==
    ASSUME RuntimeInv, NEW t \in Threads, MmapReturn(t)
    PROVE  RuntimeInv'
<1> USE DEF RuntimeInv
<1>1. hook[t].at = "wait" /\ hook[t].file \in Files
  BY DEF MmapReturn, At, Located
<1>2. PICK f \in Files : f = hook[t].file
  BY <1>1
<1>3. /\ file_mutex[f] = None /\ maps' = [maps EXCEPT ![t] = maps[t] \cup {f}] /\ Leave(t)
      /\ UNCHANGED <<vars, lazy, traceVars, map_mutex, file_mutex, file_dict, disk, memory,
                     loaded, latest>>
  BY <1>2 DEF MmapReturn, MayReturn
<1>4. f \in loaded
  BY <1>1, <1>2, <1>3 DEF Located, FileKept
<1>5. /\ hook' \in [Threads -> Hook] /\ hook'[t].at = "none"
      /\ \A u \in Threads : u # t => hook'[u] = hook[u]
  BY <1>3, LeaveFacts
<1>6. AllocInv' /\ live' = live
  BY <1>3, AllocKeeps DEF vars
<1>7. HookTypes'
  BY <1>3, <1>5 DEF HookTypes, traceVars
<1>8. FileTypes'
  BY <1>3 DEF FileTypes
<1>9. \A u \in Threads, g \in Files : g \in maps'[u] => g \in maps[u] \/ g = f
  BY <1>3 DEF FileTypes
<1>10. ASSUME NEW g \in Files PROVE FileKept(g)'
  BY <1>3, <1>4, <1>6, <1>9 DEF FileKept
<1>11. ASSUME NEW u \in Threads PROVE Located(u)'
  BY <1>3, <1>5, OthersLocated, QuietLocated
<1>12. BudgetKept'
  BY <1>1, <1>3, <1>5, BudgetSame
<1> QED
  BY <1>6, <1>7, <1>8, <1>10, <1>11, <1>12

\* A store through a mapping.
LEMMA StoreKeeps ==
    ASSUME RuntimeInv, NEW t \in Threads, NEW f \in Files, NEW x \in Values, Store(t, f, x)
    PROVE  RuntimeInv'
<1> USE DEF RuntimeInv
<1>1. /\ memory' = [memory EXCEPT ![f] = x] /\ latest' = [latest EXCEPT ![f] = x]
      /\ UNCHANGED <<vars, lazy, hook, traceVars, map_mutex, file_mutex, file_dict, disk,
                     loaded, maps>>
  BY DEF Store
<1>2. AllocInv' /\ live' = live
  BY <1>1, AllocKeeps DEF vars
<1>3. HookTypes'
  BY <1>1 DEF HookTypes, traceVars
<1>4. FileTypes'
  BY <1>1 DEF FileTypes
<1>5. /\ memory'[f] = x /\ latest'[f] = x
      /\ \A g \in Files : g # f => memory'[g] = memory[g] /\ latest'[g] = latest[g]
  BY <1>1 DEF FileTypes
<1>6. ASSUME NEW g \in Files PROVE FileKept(g)'
  BY <1>1, <1>2, <1>5 DEF FileKept
<1>7. \A u \in Threads : Located(u)'
  BY <1>1, OthersLocated
<1>8. BudgetKept'
  BY <1>1, BudgetSame
<1> QED
  BY <1>2, <1>3, <1>4, <1>6, <1>7, <1>8

\* munmap and msync look the file up.
LEMMA UnmapOrSyncKeeps ==
    ASSUME RuntimeInv, NEW t \in Threads, NEW f \in Files, NEW unmap \in BOOLEAN,
           UnmapOrSync(t, f, unmap)
    PROVE  RuntimeInv'
<1> USE DEF RuntimeInv
<1> DEFINE h == [Idle EXCEPT !.at = "write", !.file = f]
<1>1. /\ hook[t].at = "none"
      /\ maps' = IF unmap THEN [maps EXCEPT ![t] = maps[t] \ {f}] ELSE maps
      /\ IF lazy THEN hook' = hook ELSE hook' = [hook EXCEPT ![t] = h]
      /\ UNCHANGED <<vars, lazy, traceVars, map_mutex, file_mutex, file_dict, disk, memory,
                     loaded, latest>>
  BY DEF UnmapOrSync, At
<1>2. h \in Hook /\ h.at = "write" /\ h.file = f
  BY IdleIs DEF Hook
<1> HIDE DEF h
<1>3. /\ hook' \in [Threads -> Hook]
      /\ hook'[t] = hook[t] \/ hook'[t] = h
      /\ \A u \in Threads : u # t => hook'[u] = hook[u]
  <2>1. CASE lazy
    BY <2>1, <1>1 DEF HookTypes
  <2>2. CASE ~lazy
    BY <2>2, <1>1, <1>2, HookFacts
  <2> QED
    BY <2>1, <2>2
<1>4. AllocInv' /\ live' = live
  BY <1>1, AllocKeeps DEF vars
<1>5. HookTypes'
  BY <1>1, <1>3 DEF HookTypes, traceVars
<1>6. /\ FileTypes'
      /\ \A u \in Threads, g \in Files : g \in maps'[u] => g \in maps[u]
  BY <1>1 DEF FileTypes
<1>7. ASSUME NEW g \in Files PROVE FileKept(g)'
  BY <1>1, <1>4, <1>6 DEF FileKept
<1>8. ASSUME NEW u \in Threads PROVE Located(u)'
  <2>1. CASE hook'[u] = hook[u]
    BY <2>1, <1>1, OthersLocated
  <2>2. CASE u = t /\ hook'[u] = h
    BY <2>2, <1>2 DEF Located, Mapping, At
  <2> QED
    BY <2>1, <2>2, <1>3
<1>9. BudgetKept'
  BY <1>1, <1>2, <1>3, BudgetSame
<1> QED
  BY <1>4, <1>5, <1>6, <1>7, <1>8, <1>9

\* The range is written to the file.
LEMMA WriteBackKeeps ==
    ASSUME RuntimeInv, NEW t \in Threads, WriteBack(t)
    PROVE  RuntimeInv'
<1> USE DEF RuntimeInv
<1>1. hook[t].at = "write" /\ hook[t].file \in Files
  BY DEF WriteBack, At, Located
<1>2. /\ disk' = [disk EXCEPT ![hook[t].file] = memory[hook[t].file]] /\ Leave(t)
      /\ UNCHANGED <<vars, lazy, traceVars, map_mutex, file_mutex, file_dict, memory, loaded,
                     maps, latest>>
  BY DEF WriteBack
<1>3. /\ hook' \in [Threads -> Hook] /\ hook'[t].at = "none"
      /\ \A u \in Threads : u # t => hook'[u] = hook[u]
  BY <1>2, LeaveFacts
<1>4. AllocInv' /\ live' = live
  BY <1>2, AllocKeeps DEF vars
<1>5. HookTypes'
  BY <1>2, <1>3 DEF HookTypes, traceVars
<1>6. FileTypes'
  BY <1>1, <1>2 DEF FileTypes
<1>7. ASSUME NEW g \in Files PROVE FileKept(g)'
  BY <1>2, <1>4 DEF FileKept
<1>8. ASSUME NEW u \in Threads PROVE Located(u)'
  BY <1>2, <1>3, OthersLocated, QuietLocated
<1>9. BudgetKept'
  BY <1>1, <1>2, <1>3, BudgetSame
<1> QED
  BY <1>4, <1>5, <1>6, <1>7, <1>8, <1>9

-----------------------------------------------------------------------------
\* The process starts without allocations and mappings.
LEMMA InitRuntime == RInit => RuntimeInv
<1> SUFFICES ASSUME RInit PROVE RuntimeInv
  OBVIOUS
<1>1. AllocInv
  BY InitAlloc DEF RInit
<1>2. HookTypes /\ \A t \in Threads : hook[t] = Idle
  BY IdleIs DEF RInit, HookTypes
<1>3. FileTypes
  BY DEF RInit, FileTypes
<1>4. \A t \in Threads : Located(t)
  BY <1>2, IdleIs DEF Located, Mapping, At
<1>5. \A f \in Files : FileKept(f)
  BY DEF RInit, FileKept
<1>6. BudgetKept
  <2>1. Subtracting = {}
    BY <1>2, IdleIs DEF Subtracting, At
  <2>2. Cardinality(Units(Subtracting, Wanted)) = 0
    BY <2>1, UnitsNone
  <2> QED
    BY <2>2, BudgetIs, RuntimeAssumption DEF RInit
<1> QED
  BY <1>1, <1>2, <1>3, <1>4, <1>5, <1>6 DEF RuntimeInv

\* Every step keeps the invariant.
LEMMA NextRuntime == RuntimeInv /\ [RNext]_rvars => RuntimeInv'
<1> SUFFICES ASSUME RuntimeInv, [RNext]_rvars PROVE RuntimeInv'
  OBVIOUS
<1>1. CASE UNCHANGED rvars
  <2>1. UNCHANGED <<vars, lazy, hook, traceVars, fileVars>>
    BY <1>1 DEF rvars
  <2>2. AllocInv' /\ live' = live
    BY <2>1, AllocKeeps DEF RuntimeInv, vars
  <2> QED
    BY <2>1, <2>2, AllocOnlyKeeps DEF RuntimeInv, FileKept
<1>2. ASSUME NEW t \in Threads, HookStep(t) PROVE RuntimeInv'
  BY <1>2, TraceAddKeeps, TraceSubKeeps, CacheAllocKeeps, CacheAllocFailsKeeps,
     MmapLockFileKeeps, MmapReadKeeps, MmapReturnKeeps, WriteBackKeeps DEF HookStep
<1>3. ASSUME NEW t \in Threads, NEW fn \in DOMAIN HookedFunc, NEW o \in Orders,
             CacheAllocHook(t, HookedFunc[fn], o)
      PROVE  RuntimeInv'
  <2>1. HookedFunc[fn] \in {"malloc", "realloc"}
    BY DEF HookedFunc
  <2> QED
    BY <1>3, <2>1, CacheAllocHookKeeps
<1>4. ASSUME NEW t \in Threads, AppStep(t) PROVE RuntimeInv'
  BY <1>3, <1>4, CacheFreeKeeps, MmapEnterKeeps, UnmapOrSyncKeeps, StoreKeeps, ThreadExitsKeeps
  DEF AppStep
<1> QED
  BY <1>1, <1>2, <1>4 DEF RNext

\* The inductive invariant holds in every reachable state, for any number of threads,
\* files and orders and any thresholds.
THEOREM RuntimeInvHolds == RSpec => []RuntimeInv
BY InitRuntime, NextRuntime, PTL DEF RSpec

\* The blocks of the allocator never overlap, whichever threads run out of memory together:
\* the fetch_sub of one never brings used_size below the end of a block of another.
THEOREM BlocksAreDisjoint == RSpec => []BlocksDisjoint
<1>1. RuntimeInv => BlocksDisjoint
  BY DEF RuntimeInv, AllocInv
<1> QED
  BY <1>1, RuntimeInvHolds, PTL

\* A mapping that mmap has returned to any thread holds the file, and its block is not
\* handed out again.
THEOREM MappingsAreLoaded == RSpec => []MappingsLoaded
<1>1. RuntimeInv => MappingsLoaded
  BY DEF RuntimeInv, FileTypes, FileKept, MappingsLoaded
<1> QED
  BY <1>1, RuntimeInvHolds, PTL

\* In lazy mode no mmap, munmap or msync overwrites what threads have stored.
THEOREM LazyStoresAreKept == RSpec => []LazyKeepsStores
<1>1. RuntimeInv => LazyKeepsStores
  BY DEF RuntimeInv, FileTypes, FileKept, LazyKeepsStores
<1> QED
  BY <1>1, RuntimeInvHolds, PTL

\* The sizes granted never exceed the budget, and total_real_alloc is off by exactly what
\* is still to be taken back.
THEOREM BudgetIsKept == RSpec => []BudgetKept
<1>1. RuntimeInv => BudgetKept
  BY DEF RuntimeInv
<1> QED
  BY <1>1, RuntimeInvHolds, PTL
=============================================================================
