------------------------- MODULE InstructionsProofs -------------------------
(***************************************************************************)
(* Proofs about the caches of a thread and the instructions that use them. *)
(* CacheInv ties the three levels together: a page in a slot of the direct *)
(* cache or pinned by the program is in the private cache, which counts    *)
(* these pins, and holds one pin of the shared cache; a store has left a   *)
(* dirty mark on some level until the page is unpinned there.  TrapInv     *)
(* follows one fault of a native instruction through the signal handlers:  *)
(* what the interrupted registers were, which of them is rewritten, and    *)
(* that the frame in the rewritten register is still the page's.           *)
(***************************************************************************)
EXTENDS Instructions, FiniteSetTheorems, TLAPS

-----------------------------------------------------------------------------
(* The caches *)

\* The parts of TypeOK, apart.  The bound of pinned_size is a consequence of Sized.
TDirect ==
    /\ store \in [Slots -> [page : Pages \cup {None}, pointer : Frames \cup {None}]]
    /\ slot_dirty \in [Slots -> BOOLEAN]
TPrivate ==
    /\ pte \in [Pages -> Entry]
    /\ pointer \in [Pages -> Frames \cup {None}]
    /\ replacement \in [Partitions -> SUBSET Pages]
    /\ pinned_size \in [Partitions -> Nat]
TControl ==
    /\ pc \in {"idle", "pin", "oom"}
    /\ want \in [page : Pages \cup {None}, caller : {"direct", "user"}, is_write : BOOLEAN]
    /\ user \in [Pages -> Frames \cup {None}]
    /\ last \in [page : Pages \cup {None}, pointer : Frames \cup {None},
                 is_write : BOOLEAN]
TShared ==
    /\ where \in [Pages -> Frames \cup {None}]
    /\ mem \in [Frames -> Values \cup {None}]
    /\ disk \in [Pages -> Values \cup {None}]
    /\ expected \in [Pages -> Values \cup {None}]

\* The thread waits for one pin at a time.  The slot of a waiting access names the page
\* already; the program does not pin a page twice.
Waits ==
    /\ pc = "idle" <=> want.page = None
    /\ want.page = None => want = NoWant
    /\ want.page # None /\ want.caller = "direct" => store[Slot(want.page)].page = want.page
    /\ want.page # None /\ want.caller = "user" => user[want.page] = None

\* A page is only ever in its own slot.
SlotsMatch == \A s \in Slots : store[s].page # None => Slot(store[s].page) = s

\* The levels agree on the frame of page v: the private cache has the page exactly when
\* it holds a pin of the shared cache, and the pointers in its slot and in the program
\* are the frame.
Placed(v) ==
    /\ pointer[v] = where[v]
    /\ pte[v].exist <=> where[v] # None
    /\ ~pte[v].exist => pte[v] = NoEntry
    /\ user[v] # None => where[v] = user[v]
    /\ InSlot(v) => where[v] # None /\ store[Slot(v)].pointer = where[v]

\* Two pages are never in one frame.
Exclusive == \A u, v \in Pages : where[u] = where[v] /\ where[u] # None => u = v

\* The pins of page v: one by the program, one by the direct cache.
Pins(v) == (IF user[v] # None THEN 1 ELSE 0) + (IF InSlot(v) THEN 1 ELSE 0)

\* ref_count counts them, and the page is evictable exactly when nobody has it pinned.
Counted(v) ==
    /\ pte[v].ref_count = Pins(v)
    /\ \A d \in Partitions :
          v \in replacement[d] <=> Partition(v) = d /\ pte[v].exist /\ pte[v].ref_count = 0

\* The private cache stays within its quota, and pinned_size counts the pages in use.
Sized(d) ==
    Cardinality(Mapped(d)) <= Quota /\ pinned_size[d] = Cardinality(InUse(d))

\* The pointer the program got from its latest access is the one in the slot, whose dirty
\* flag is set if the access was for writing.
LastInSlot ==
    /\ last.is_write => last.page # None
    /\ last.page # None =>
          /\ pc = "idle"
          /\ store[Slot(last.page)].page = last.page
          /\ store[Slot(last.page)].pointer = last.pointer
          /\ last.is_write => slot_dirty[Slot(last.page)]

\* The page is marked dirty, in the private cache or in its slot.
Marked(v) == pte[v].dirty \/ (InSlot(v) /\ slot_dirty[Slot(v)])

\* A page in memory without a mark is equal to its block: the reason why no store is lost.
Clean(v) == where[v] # None /\ ~Marked(v) => mem[where[v]] = disk[v]

\* StoresKept, of one page.
Kept(v) == expected[v] = IF where[v] = None THEN disk[v] ELSE mem[where[v]]

\* The invariant of the caches.
CacheInv ==
    /\ TDirect /\ TPrivate /\ TControl /\ TShared
    /\ Waits /\ SlotsMatch /\ Exclusive /\ LastInSlot
    /\ \A v \in Pages : Placed(v) /\ Counted(v) /\ Clean(v) /\ Kept(v)
    /\ \A d \in Partitions : Sized(d)

-----------------------------------------------------------------------------
(* The trap *)

\* Where the handlers can be.
Steps == {"none", "operand", "pin", "exec", "int3", "done", "aborted"}

\* The fault that is handled names a page, and a load is the only instruction whose
\* result can go to the base register.
TTrap ==
    /\ trap \in [at : Steps, op : {"none", "load", "store"}, page : Pages \cup {None},
                 reg : {"rb", "rv"}, has_base : BOOLEAN]
    /\ trap.at # "none" =>
          /\ trap.page \in Pages /\ trap.op # "none"
          /\ trap.reg = "rb" => trap.op = "load"

\* The index register of the interrupted instruction.
Offset == saved["ri"].number

\* The registers at the fault: an operand that is split over base and index, or an
\* address that has no base register.
Interrupted ==
    /\ saved = [r \in Regs |-> saved[r]]
    /\ saved["rv"] = Data(saved["rv"].data) /\ saved["rv"].data \in Values
    /\ IF trap.has_base
       THEN /\ Offset \in Nat /\ saved["ri"] = Number(Offset)
            /\ saved["rb"] = Cached(trap.page - Offset)
       ELSE saved["rb"] = Number(0) /\ saved["ri"] = Cached(trap.page)

\* What the instruction would leave in the registers if memory were flat.
Native ==
    native = IF trap.op = "load" THEN [saved EXCEPT ![trap.reg] = Data(expected[trap.page])]
             ELSE saved

\* The handler's access to the page has returned, and nothing came after it.
Accessed == pc = "idle" /\ last.page = trap.page /\ last.is_write

\* The handler's access waits for the private cache.
Accessing ==
    pc # "idle" /\ want = [page |-> trap.page, caller |-> "direct", is_write |-> TRUE]

\* The handler has not changed any register yet.
Untouched == trap.has_base /\ regs = saved /\ modified = {}

\* The base register, and it alone, points into the frame of the page.
Rewritten ==
    /\ modified = {"rb"} /\ regs = [r \in Regs |-> regs[r]]
    /\ regs["rb"] = RawBase(where[trap.page], Offset)
    /\ \A r \in Regs \ {"rb"} : regs[r] = saved[r]

\* The instruction has run: the registers are the native ones, but for the base register,
\* which is still to be restored.
Performed ==
    /\ trap.has_base /\ modified = {"rb"} /\ native = [r \in Regs |-> native[r]]
    /\ \A r \in Regs \ {"rb"} : regs[r] = native[r]
    /\ trap.reg # "rb" => native["rb"] = saved["rb"]

\* The invariant of the handlers.
TrapInv ==
    /\ TTrap
    /\ trap.at # "none" => Interrupted
    /\ trap.at \in {"operand", "pin", "exec"} => Native
    /\ trap.at = "operand" => Untouched /\ pc = "idle"
    /\ trap.at = "pin" => Untouched /\ (Accessed \/ Accessing)
    /\ trap.at = "exec" =>
          IF trap.has_base THEN Accessed /\ Rewritten ELSE regs = saved
    /\ trap.at = "int3" => Performed
    /\ TrapTransparent
    /\ trap.at = "aborted" => ~trap.has_base

\* The inductive invariant.
IndInv == CacheInv /\ TrapInv

-----------------------------------------------------------------------------
\* Every page has a slot and a partition.
LEMMA Places ==
    ASSUME NEW v \in Pages
    PROVE  Slot(v) \in Slots /\ Partition(v) \in Partitions /\ v # None
<1>1. v \in Nat /\ NumSlots \in Nat \ {0} /\ NumPartitions \in Nat \ {0}
  BY ThreadCacheAssumption DEF Pages
<1>2. v % NumSlots \in 0..NumSlots - 1 /\ v % NumPartitions \in 0..NumPartitions - 1
  BY <1>1
<1>3. v # None
  BY ThreadCacheAssumption DEF Pages
<1> QED
  BY <1>2, <1>3 DEF Slot, Slots, Partition, Partitions

\* Cardinalities of sets of pages.
LEMMA PageSets ==
    ASSUME NEW S \in SUBSET Pages
    PROVE  /\ IsFiniteSet(S) /\ Cardinality(S) \in Nat
           /\ \A v \in Pages \ S : Cardinality(S \cup {v}) = Cardinality(S) + 1
           /\ \A v \in S : Cardinality(S \ {v}) = Cardinality(S) - 1
           /\ \A T \in SUBSET S : Cardinality(T) <= Cardinality(S)
<1>1. IsFiniteSet(Pages)
  BY ThreadCacheAssumption, FS_Interval DEF Pages
<1>2. IsFiniteSet(S)
  BY <1>1, FS_Subset
<1> QED
  BY <1>2, FS_CardinalityType, FS_AddElement, FS_RemoveElement, FS_Subset

\* InUse in terms of the number of pins.
LEMMA InUseIs ==
    ASSUME NEW d \in Partitions
    PROVE  /\ InUse(d) = {v \in Pages : Partition(v) = d /\ Pins(v) # 0}
           /\ InUse(d)' = {v \in Pages : Partition(v) = d /\ Pins(v)' # 0}
BY DEF InUse, Pins

\* A page has at most two pins.
LEMMA PinsRange ==
    ASSUME NEW v \in Pages
    PROVE  Pins(v) \in 0..2 /\ Pins(v)' \in 0..2
BY DEF Pins

\* The constructors establish the invariant of the caches.
LEMMA InitCache == Init => CacheInv
<1> SUFFICES ASSUME Init PROVE CacheInv
  OBVIOUS
<1>1. TDirect /\ TControl /\ TShared
  BY DEF Init, TDirect, TControl, TShared, EmptySlot, NoWant, NoAccess
<1>2. TPrivate
  BY DEF Init, TPrivate, NoEntry, Entry
<1>3. Waits /\ SlotsMatch /\ Exclusive /\ LastInSlot
  BY DEF Init, Waits, SlotsMatch, Exclusive, LastInSlot, EmptySlot, NoWant, NoAccess
<1>4. ASSUME NEW v \in Pages PROVE ~InSlot(v) /\ user[v] = None
  BY Places DEF Init, InSlot, EmptySlot
<1>5. ASSUME NEW v \in Pages PROVE Placed(v) /\ Counted(v) /\ Clean(v) /\ Kept(v)
  BY <1>4 DEF Init, Placed, Counted, Clean, Kept, Pins, NoEntry
<1>6. ASSUME NEW d \in Partitions PROVE Sized(d)
  <2>1. Mapped(d) = {} /\ InUse(d) = {}
    BY <1>4 DEF Init, Mapped, InUse, NoEntry
  <2> QED
    BY <2>1, FS_EmptySet, ThreadCacheAssumption DEF Sized, Init
<1> QED
  BY <1>1, <1>2, <1>3, <1>5, <1>6 DEF CacheInv

-----------------------------------------------------------------------------
\* The sizes are the same when no page is mapped or unmapped, pinned first or unpinned
\* last.
LEMMA SizedSame ==
    ASSUME CacheInv, pinned_size' = pinned_size,
           \A v \in Pages : pte'[v].exist = pte[v].exist /\ (Pins(v)' # 0 <=> Pins(v) # 0)
    PROVE  \A d \in Partitions : Sized(d)'
<1> SUFFICES ASSUME NEW d \in Partitions PROVE Sized(d)'
  OBVIOUS
<1>1. Mapped(d)' = Mapped(d)
  BY DEF Mapped
<1>2. InUse(d)' = InUse(d)
  BY InUseIs
<1> QED
  BY <1>1, <1>2 DEF Sized, CacheInv

\* PrivateUnpin takes one reference from one page and makes the last one evictable.
LEMMA UnpinCounts ==
    ASSUME CacheInv, NEW v \in Pages, NEW is_write \in BOOLEAN, PrivateUnpin(v, is_write),
           Pins(v)' = Pins(v) - 1, \A u \in Pages \ {v} : Pins(u)' = Pins(u)
    PROVE  /\ TPrivate' /\ pointer' = pointer
           /\ \A u \in Pages : Counted(u)'
           /\ \A d \in Partitions : Sized(d)'
           /\ \A u \in Pages \ {v} : pte'[u] = pte[u]
           /\ pte'[v].exist = pte[v].exist /\ (pte'[v].dirty <=> pte[v].dirty \/ is_write)
           /\ pte[v].exist /\ pte'[v].ref_count = pte[v].ref_count - 1
<1> USE DEF CacheInv
<1> DEFINE e == Partition(v)
<1>1. e \in Partitions
  BY Places
<1>2. pte[v].ref_count \in 1..2 /\ pte[v].ref_count = Pins(v) /\ Pins(v) \in 1..2
  BY PinsRange DEF Counted
<1>3. pte[v].exist
  BY <1>2 DEF Placed, NoEntry
<1>4. /\ \A u \in Pages \ {v} : pte'[u] = pte[u]
      /\ pte'[v].exist = pte[v].exist /\ (pte'[v].dirty <=> pte[v].dirty \/ is_write)
      /\ pte'[v].ref_count = pte[v].ref_count - 1
      /\ pte' \in [Pages -> Entry]
  <2>1. pte[v] \in Entry /\ pte' = [pte EXCEPT ![v] = Decremented(pte[v], is_write)]
    BY DEF PrivateUnpin, TPrivate
  <2>2. PICK n \in Entry : n = Decremented(pte[v], is_write)
    <3>1. PICK b \in BOOLEAN : b = (pte[v].dirty \/ is_write)
      OBVIOUS
    <3>2. PICK k \in Nat : k = pte[v].ref_count - 1
      BY <1>2
    <3>3. Decremented(pte[v], is_write) = [pte[v] EXCEPT !.ref_count = k, !.dirty = b]
      BY <3>1, <3>2, Zenon DEF Decremented
    <3> QED
      BY <2>1, <3>3 DEF Entry
  <2>3. /\ n.exist = pte[v].exist /\ n.dirty = (pte[v].dirty \/ is_write)
        /\ n.ref_count = pte[v].ref_count - 1
    BY <2>1, <2>2 DEF Decremented, Entry
  <2>4. pte' = [pte EXCEPT ![v] = n]
    BY <2>1, <2>2
  <2> QED
    BY <2>3, <2>4 DEF TPrivate
<1>5. CASE Pins(v) = 1
  <2>1. /\ pinned_size' = [pinned_size EXCEPT ![e] = @ - 1]
        /\ replacement' = [replacement EXCEPT ![e] = @ \cup {v}]
    BY <1>2, <1>5 DEF PrivateUnpin, LastPin
  <2>2. /\ pinned_size'[e] = pinned_size[e] - 1 /\ replacement'[e] = replacement[e] \cup {v}
        /\ \A d \in Partitions \ {e} :
              pinned_size'[d] = pinned_size[d] /\ replacement'[d] = replacement[d]
    BY <2>1, <1>1 DEF TPrivate
  <2>3. ASSUME NEW u \in Pages PROVE Counted(u)'
    <3>1. CASE u = v
      BY <3>1, <2>2, <1>1, <1>2, <1>3, <1>4, <1>5 DEF Counted
    <3>2. CASE u # v
      BY <3>2, <2>2, <1>1, <1>4 DEF Counted
    <3> QED
      BY <3>1, <3>2
  <2>4. v \in InUse(e) /\ InUse(e)' = InUse(e) \ {v}
    BY InUseIs, <1>1, <1>5
  <2>5. \A d \in Partitions \ {e} : InUse(d)' = InUse(d)
    BY InUseIs, <1>5
  <2>6. InUse(e) \in SUBSET Pages
    BY DEF InUse
  <2>7. Cardinality(InUse(e)') = Cardinality(InUse(e)) - 1 /\ Cardinality(InUse(e)) \in Nat
    BY <2>4, <2>6, PageSets
  <2>8. Cardinality(InUse(e)') \in Nat
    BY <2>4, <2>6, PageSets
  <2>9. \A d \in Partitions : Mapped(d)' = Mapped(d)
    BY <1>4 DEF Mapped
  <2>10. ASSUME NEW d \in Partitions PROVE Sized(d)'
    <3>1. CASE d = e
      BY <3>1, <2>2, <2>7, <2>9 DEF Sized
    <3>2. CASE d # e
      BY <3>2, <2>2, <2>5, <2>9 DEF Sized
    <3> QED
      BY <3>1, <3>2
  <2>11. pinned_size'[e] \in Nat
    BY <2>2, <2>7, <2>8, <1>1 DEF Sized
  <2>12. TPrivate'
    BY <2>1, <2>11, <2>2, <1>4, <1>1 DEF TPrivate, PrivateUnpin
  <2> QED
    BY <2>3, <2>10, <2>12, <1>3, <1>4 DEF PrivateUnpin
<1>6. CASE Pins(v) = 2
  <2>1. pinned_size' = pinned_size /\ replacement' = replacement
    BY <1>2, <1>6 DEF PrivateUnpin, LastPin
  <2>2. \A u \in Pages : Counted(u)'
    BY <2>1, <1>1, <1>2, <1>4, <1>6 DEF Counted
  <2>3. \A d \in Partitions : Sized(d)'
    BY <2>1, <1>4, <1>6, SizedSame
  <2>4. TPrivate'
    BY <2>1, <1>4 DEF TPrivate, PrivateUnpin
  <2> QED
    BY <2>2, <2>3, <2>4, <1>3, <1>4 DEF PrivateUnpin
<1> QED
  BY <1>2, <1>5, <1>6

-----------------------------------------------------------------------------
\* Nothing happens to the caches.
LEMMA StutterKeeps ==
    ASSUME CacheInv, UNCHANGED vars
    PROVE  CacheInv'
<1>1. UNCHANGED <<store, slot_dirty, pte, pointer, replacement, pinned_size, pc, want, user,
                  last, where, mem, disk, expected>>
  BY DEF vars, direct, private, shared
<1>2. /\ TDirect' /\ TPrivate' /\ TControl' /\ TShared'
      /\ Waits' /\ SlotsMatch' /\ Exclusive' /\ LastInSlot'
  BY <1>1 DEF CacheInv, TDirect, TPrivate, TControl, TShared, Waits, SlotsMatch, Exclusive,
              LastInSlot
<1>3. ASSUME NEW v \in Pages
      PROVE  /\ InSlot(v)' = InSlot(v) /\ Pins(v)' = Pins(v)
             /\ Placed(v)' /\ Counted(v)' /\ Clean(v)' /\ Kept(v)'
  BY <1>1 DEF CacheInv, InSlot, Pins, Placed, Counted, Clean, Marked, Kept
<1>4. \A d \in Partitions : Sized(d)'
  BY <1>1, <1>3, SizedSame
<1> QED
  BY <1>2, <1>3, <1>4 DEF CacheInv

\* pin() throws: only the control changes.
LEMMA PinRefusedKeeps ==
    ASSUME CacheInv, PinRefused
    PROVE  CacheInv'
<1> USE DEF CacheInv
<1>1. UNCHANGED <<store, slot_dirty, pte, pointer, replacement, pinned_size, want, user,
                  last, where, mem, disk, expected>>
  BY DEF PinRefused, direct, private, shared
<1>2. pc = "pin" /\ pc' = "oom"
  BY DEF PinRefused
<1>3. /\ TDirect' /\ TPrivate' /\ TControl' /\ TShared'
      /\ Waits' /\ SlotsMatch' /\ Exclusive' /\ LastInSlot'
  BY <1>1, <1>2 DEF TDirect, TPrivate, TControl, TShared, Waits, SlotsMatch, Exclusive,
                    LastInSlot
<1>4. ASSUME NEW v \in Pages
      PROVE  /\ InSlot(v)' = InSlot(v) /\ Pins(v)' = Pins(v)
             /\ Placed(v)' /\ Counted(v)' /\ Clean(v)' /\ Kept(v)'
  BY <1>1 DEF InSlot, Pins, Placed, Counted, Clean, Marked, Kept
<1>5. \A d \in Partitions : Sized(d)'
  BY <1>1, <1>4, SizedSame
<1> QED
  BY <1>3, <1>4, <1>5

\* The program asks for a pin.
LEMMA PinKeeps ==
    ASSUME CacheInv, NEW v \in Pages, Pin(v)
    PROVE  CacheInv'
<1> USE DEF CacheInv
<1>1. UNCHANGED <<store, slot_dirty, pte, pointer, replacement, pinned_size, user, where, mem,
                  disk, expected>>
  BY DEF Pin, direct, private, shared
<1>2. /\ pc = "idle" /\ pc' = "pin" /\ user[v] = None /\ last' = NoAccess
      /\ want' = [page |-> v, caller |-> "user", is_write |-> FALSE]
  BY DEF Pin
<1>3. TDirect' /\ TPrivate' /\ TControl' /\ TShared'
  BY <1>1, <1>2 DEF TDirect, TPrivate, TControl, TShared, NoAccess
<1>4. Waits' /\ SlotsMatch' /\ Exclusive' /\ LastInSlot'
  BY <1>1, <1>2, Places DEF Waits, SlotsMatch, Exclusive, LastInSlot, NoAccess
<1>5. want = NoWant
  BY <1>2 DEF Waits
<1>6. ASSUME NEW u \in Pages
      PROVE  /\ InSlot(u)' = InSlot(u) /\ Pins(u)' = Pins(u)
             /\ Placed(u)' /\ Counted(u)' /\ Clean(u)' /\ Kept(u)'
  <2>1. InSlot(u)' = InSlot(u)
    BY <1>1, <1>2, <1>5 DEF InSlot, NoWant
  <2> QED
    BY <2>1, <1>1 DEF Pins, Placed, Counted, Clean, Marked, Kept
<1>7. \A d \in Partitions : Sized(d)'
  BY <1>1, <1>6, SizedSame
<1> QED
  BY <1>3, <1>4, <1>6, <1>7

\* An access to a page in its slot sets the dirty flag of the slot.
LEMMA AccessHitKeeps ==
    ASSUME CacheInv, NEW v \in Pages, NEW is_write \in BOOLEAN, AccessHit(v, is_write)
    PROVE  CacheInv' /\ pc' = "idle" /\ last'.page = v /\ last'.is_write = is_write
<1> USE DEF CacheInv
<1>1. UNCHANGED <<store, pte, pointer, replacement, pinned_size, pc, want, user, where, mem,
                  disk, expected>>
  BY DEF AccessHit, private, shared
<1>2. Slot(v) \in Slots /\ v # None
  BY Places
<1>3. /\ pc = "idle" /\ store[Slot(v)].page = v
      /\ last'.page = v /\ last'.pointer = store[Slot(v)].pointer /\ last'.is_write = is_write
      /\ last' = [page |-> v, pointer |-> store[Slot(v)].pointer, is_write |-> is_write]
  BY DEF AccessHit
<1>4. /\ slot_dirty' \in [Slots -> BOOLEAN]
      /\ \A s \in Slots : slot_dirty[s] => slot_dirty'[s]
      /\ is_write => slot_dirty'[Slot(v)]
  BY <1>2 DEF AccessHit, TDirect
<1>5. TDirect' /\ TPrivate' /\ TShared'
  BY <1>1, <1>4 DEF TDirect, TPrivate, TShared
<1>6. TControl'
  BY <1>1, <1>2, <1>3 DEF TControl, TDirect
<1>7. Waits' /\ SlotsMatch' /\ Exclusive' /\ LastInSlot'
  BY <1>1, <1>2, <1>3, <1>4 DEF Waits, SlotsMatch, Exclusive, LastInSlot
<1>8. ASSUME NEW u \in Pages
      PROVE  /\ InSlot(u)' = InSlot(u) /\ Pins(u)' = Pins(u)
             /\ Placed(u)' /\ Counted(u)' /\ Clean(u)' /\ Kept(u)'
  <2>1. InSlot(u)' = InSlot(u) /\ (Marked(u) => Marked(u)')
    BY <1>1, <1>4, Places DEF InSlot, Marked
  <2> QED
    BY <2>1, <1>1 DEF Pins, Placed, Counted, Clean, Kept
<1>9. \A d \in Partitions : Sized(d)'
  BY <1>1, <1>8, SizedSame
<1> QED
  BY <1>1, <1>3, <1>5, <1>6, <1>7, <1>8, <1>9

\* An access to another page unpins the page in the slot: the slot's dirty flag becomes
\* the dirty flag of the private cache, so that the mark of a store is not lost.
LEMMA AccessMissKeeps ==
    ASSUME CacheInv, NEW v \in Pages, NEW is_write \in BOOLEAN, AccessMiss(v, is_write)
    PROVE  /\ CacheInv' /\ pc' = "pin" /\ UNCHANGED expected
           /\ want' = [page |-> v, caller |-> "direct", is_write |-> is_write]
<1> USE DEF CacheInv
<1> DEFINE s == Slot(v)
           old == store[s].page
<1>1. UNCHANGED <<slot_dirty, user, where, mem, disk, expected>>
  BY DEF AccessMiss, shared
<1>2. s \in Slots /\ v # None
  BY Places
<1>3. /\ pc = "idle" /\ old # v /\ pc' = "pin" /\ last' = NoAccess
      /\ want' = [page |-> v, caller |-> "direct", is_write |-> is_write]
      /\ store' = [store EXCEPT ![s].page = v]
  BY DEF AccessMiss
<1>4. want = NoWant
  BY <1>3 DEF Waits
<1>5. /\ store'[s].page = v /\ \A r \in Slots \ {s} : store'[r] = store[r]
      /\ store' \in [Slots -> [page : Pages \cup {None}, pointer : Frames \cup {None}]]
  BY <1>2, <1>3 DEF TDirect
<1>6. TDirect' /\ TControl' /\ TShared'
  BY <1>1, <1>3, <1>5 DEF TDirect, TControl, TShared, NoAccess
<1>7. Waits' /\ SlotsMatch' /\ Exclusive' /\ LastInSlot'
  BY <1>1, <1>2, <1>3, <1>5 DEF Waits, SlotsMatch, Exclusive, LastInSlot, NoAccess
<1>8. ASSUME NEW u \in Pages
      PROVE  /\ u = old => InSlot(u) /\ ~InSlot(u)'
             /\ u # old => (InSlot(u)' <=> InSlot(u))
             /\ InSlot(u)' => Slot(u) \in Slots \ {s} /\ store'[Slot(u)] = store[Slot(u)]
  <2>1. Slot(u) \in Slots /\ u # None
    BY Places
  <2>2. InSlot(u) <=> store[Slot(u)].page = u
    BY <1>4 DEF InSlot, NoWant
  <2>3. InSlot(u)' <=> store'[Slot(u)].page = u /\ u # v
    BY <1>3 DEF InSlot
  <2>4. u = old => Slot(u) = s
    BY <1>2, <2>1 DEF SlotsMatch
  <2>5. CASE Slot(u) = s
    <3>1. ~InSlot(u)'
      BY <2>3, <2>5, <1>5
    <3>2. InSlot(u) <=> u = old
      BY <2>2, <2>5
    <3> QED
      BY <3>1, <3>2
  <2>6. CASE Slot(u) # s
    <3>1. u # old /\ u # v /\ store'[Slot(u)] = store[Slot(u)]
      BY <2>1, <2>4, <2>6, <1>5
    <3>2. InSlot(u)' <=> InSlot(u)
      BY <3>1, <2>2, <2>3
    <3> QED
      BY <3>1, <3>2, <2>1, <2>6
  <2> QED
    BY <2>5, <2>6
<1>9. ASSUME NEW u \in Pages, pointer' = pointer, pte'[u].exist <=> pte[u].exist,
             ~pte[u].exist => pte'[u] = pte[u]
      PROVE  Placed(u)'
  <2>1. InSlot(u)' => InSlot(u) /\ store'[Slot(u)] = store[Slot(u)]
    BY <1>8
  <2> QED
    BY <2>1, <1>1, <1>9 DEF Placed
<1>10. CASE old = None
  <2>1. UNCHANGED <<pte, pointer, replacement, pinned_size>>
    BY <1>10 DEF AccessMiss, Occupied, private
  <2>2. ASSUME NEW u \in Pages
        PROVE  (InSlot(u)' <=> InSlot(u)) /\ Pins(u)' = Pins(u)
    <3>1. InSlot(u)' <=> InSlot(u)
      BY <1>8, <1>10, Places
    <3> QED
      BY <3>1, <1>1 DEF Pins
  <2>3. ASSUME NEW u \in Pages PROVE Placed(u)' /\ Counted(u)' /\ Clean(u)' /\ Kept(u)'
    BY <2>1, <2>2, <1>1, <1>5, <1>9 DEF Counted, Clean, Marked, Kept
  <2>4. \A d \in Partitions : Sized(d)'
    BY <2>1, <2>2, SizedSame
  <2>5. TPrivate'
    BY <2>1 DEF TPrivate
  <2> QED
    BY <2>3, <2>4, <2>5, <1>1, <1>3, <1>6, <1>7
<1>11. CASE old # None
  <2>1. PICK o \in Pages : o = old
    BY <1>2, <1>11 DEF TDirect
  <2>2. PrivateUnpin(o, slot_dirty[s]) /\ slot_dirty[s] \in BOOLEAN
    BY <2>1, <1>2, <1>11 DEF AccessMiss, Occupied, TDirect
  <2>3. Pins(o)' = Pins(o) - 1 /\ \A u \in Pages \ {o} : Pins(u)' = Pins(u)
    BY <2>1, <1>1, <1>8 DEF Pins
  <2>4. /\ TPrivate' /\ pointer' = pointer
        /\ \A u \in Pages : Counted(u)'
        /\ \A d \in Partitions : Sized(d)'
        /\ \A u \in Pages \ {o} : pte'[u] = pte[u]
        /\ pte'[o].exist = pte[o].exist
        /\ pte'[o].dirty <=> pte[o].dirty \/ slot_dirty[s]
        /\ pte[o].exist
    BY <2>1, <2>2, <2>3, UnpinCounts
  <2>5. ASSUME NEW u \in Pages PROVE Placed(u)'
    BY <2>4, <1>9
  <2>6. ASSUME NEW u \in Pages PROVE Marked(u) => Marked(u)'
    <3>1. CASE u = o
      <4>1. Slot(u) = s
        BY <3>1, <2>1, <1>2, <1>11 DEF SlotsMatch
      <4> QED
        BY <3>1, <4>1, <2>4 DEF Marked
    <3>2. CASE u # o
      BY <3>2, <2>1, <2>4, <1>1, <1>8 DEF Marked
    <3> QED
      BY <3>1, <3>2
  <2>7. ASSUME NEW u \in Pages PROVE Clean(u)' /\ Kept(u)'
    BY <2>6, <1>1 DEF Clean, Kept
  <2> QED
    BY <2>4, <2>5, <2>7, <1>1, <1>3, <1>6, <1>7
<1> QED
  BY <1>10, <1>11

-----------------------------------------------------------------------------
\* What UserStore and Unpin have in common: the page loses the pin of the program.
LEMMA UserUnpinKeeps ==
    ASSUME CacheInv, NEW v \in Pages, NEW is_write \in BOOLEAN, pc = "idle", user[v] # None,
           PrivateUnpin(v, is_write), user' = [user EXCEPT ![v] = None], last' = NoAccess,
           UNCHANGED <<store, slot_dirty, pc, want, where, disk>>,
           TShared', \A u \in Pages : Clean(u)' /\ Kept(u)'
    PROVE  CacheInv'
<1> USE DEF CacheInv
<1>1. user'[v] = None /\ \A u \in Pages \ {v} : user'[u] = user[u]
  BY DEF TControl
<1>2. ASSUME NEW u \in Pages PROVE InSlot(u)' <=> InSlot(u)
  BY DEF InSlot
<1>3. Pins(v)' = Pins(v) - 1 /\ \A u \in Pages \ {v} : Pins(u)' = Pins(u)
  BY <1>1, <1>2 DEF Pins
<1>4. /\ TPrivate' /\ pointer' = pointer
      /\ \A u \in Pages : Counted(u)'
      /\ \A d \in Partitions : Sized(d)'
      /\ \A u \in Pages \ {v} : pte'[u] = pte[u]
      /\ pte'[v].exist = pte[v].exist /\ pte[v].exist
  BY <1>3, UnpinCounts
<1>5. \A u \in Pages : Placed(u)'
  BY <1>1, <1>2, <1>4 DEF Placed
<1>6. TDirect' /\ TControl'
  BY <1>1 DEF TDirect, TControl, NoAccess
<1>7. want = NoWant
  BY DEF Waits
<1>8. Waits' /\ SlotsMatch' /\ Exclusive' /\ LastInSlot'
  BY <1>7 DEF Waits, SlotsMatch, Exclusive, LastInSlot, NoAccess, NoWant
<1> QED
  BY <1>4, <1>5, <1>6, <1>8

\* An unpin without is_write leaves the contents alone.
LEMMA UnpinKeeps ==
    ASSUME CacheInv, NEW v \in Pages, Unpin(v)
    PROVE  CacheInv'
<1> USE DEF CacheInv
<1>1. /\ pc = "idle" /\ user[v] # None /\ PrivateUnpin(v, FALSE) /\ last' = NoAccess
      /\ user' = [user EXCEPT ![v] = None]
      /\ UNCHANGED <<store, slot_dirty, pc, want, where, disk, mem, expected>>
  BY DEF Unpin, direct, shared
<1>2. TShared'
  BY <1>1 DEF TShared
<1>3. ASSUME NEW u \in Pages PROVE (pte[u].dirty => pte'[u].dirty) /\ (InSlot(u)' <=> InSlot(u))
  <2>1. pte' = [pte EXCEPT ![v] = [pte[v] EXCEPT !.ref_count = @ - 1, !.dirty = @ \/ FALSE]]
    BY <1>1 DEF PrivateUnpin, Decremented
  <2>2. pte[u].dirty => pte'[u].dirty
    BY <2>1 DEF TPrivate, Entry
  <2> QED
    BY <2>2, <1>1 DEF InSlot
<1>4. ASSUME NEW u \in Pages PROVE Clean(u)' /\ Kept(u)'
  BY <1>1, <1>3 DEF Clean, Kept, Marked
<1> QED
  BY <1>1, <1>2, <1>4, UserUnpinKeeps

\* A store through the pin of the program ends with an unpin that marks the page.
LEMMA UserStoreKeeps ==
    ASSUME CacheInv, NEW v \in Pages, NEW x \in Values, UserStore(v, x)
    PROVE  CacheInv'
<1> USE DEF CacheInv
<1>1. /\ pc = "idle" /\ user[v] # None /\ PrivateUnpin(v, TRUE) /\ last' = NoAccess
      /\ user' = [user EXCEPT ![v] = None]
      /\ mem' = [mem EXCEPT ![user[v]] = x] /\ expected' = [expected EXCEPT ![v] = x]
      /\ UNCHANGED <<store, slot_dirty, pc, want, where, disk>>
  BY DEF UserStore, direct
<1>2. TShared'
  BY <1>1 DEF TShared
<1>3. where[v] = user[v] /\ where[v] \in Frames
  BY <1>1 DEF Placed, TShared
<1>4. /\ mem'[where[v]] = x /\ expected'[v] = x
      /\ \A u \in Pages \ {v} : expected'[u] = expected[u]
      /\ \A u \in Pages \ {v} : where[u] # None => mem'[where[u]] = mem[where[u]]
  <2>1. \A u \in Pages \ {v} : where[u] # None => where[u] # where[v] /\ where[u] \in Frames
    BY <1>3, ThreadCacheAssumption DEF Exclusive, TShared
  <2> QED
    BY <1>1, <1>3, <2>1 DEF TShared
<1>5. pte'[v].dirty /\ \A u \in Pages \ {v} : pte'[u] = pte[u]
  <2>1. pte' = [pte EXCEPT ![v] = Decremented(pte[v], TRUE)] /\ pte[v] \in Entry
    BY <1>1 DEF PrivateUnpin, TPrivate
  <2>2. Decremented(pte[v], TRUE).dirty
    BY <2>1 DEF Decremented, Entry
  <2> QED
    BY <2>1, <2>2 DEF TPrivate
<1>6. ASSUME NEW u \in Pages PROVE InSlot(u)' <=> InSlot(u)
  BY <1>1 DEF InSlot
<1>7. ASSUME NEW u \in Pages PROVE Clean(u)' /\ Kept(u)'
  <2>1. CASE u = v
    BY <2>1, <1>1, <1>3, <1>4, <1>5, ThreadCacheAssumption DEF Clean, Kept, Marked
  <2>2. CASE u # v
    BY <2>2, <1>1, <1>4, <1>5, <1>6 DEF Clean, Kept, Marked
  <2> QED
    BY <2>1, <2>2
<1> QED
  BY <1>1, <1>2, <1>7, UserUnpinKeeps

\* A store through the pointer of the latest access.
Stores(x) ==
    /\ pc = "idle" /\ last.is_write
    /\ mem' = [mem EXCEPT ![last.pointer] = x]
    /\ expected' = [expected EXCEPT ![last.page] = x]
    /\ UNCHANGED <<direct, private, pc, want, user, last, where, disk>>

\* The latest pointer points into the frame of its page.
LEMMA LastPlaced ==
    ASSUME CacheInv, last.page # None
    PROVE  /\ last.page \in Pages /\ InSlot(last.page) /\ pc = "idle"
           /\ last.pointer = where[last.page] /\ last.pointer \in Frames /\ last.pointer # None
<1> USE DEF CacheInv
<1>1. last.page \in Pages /\ pc = "idle" /\ store[Slot(last.page)].page = last.page
  BY DEF TControl, LastInSlot
<1>2. InSlot(last.page)
  BY <1>1, Places DEF InSlot, Waits, NoWant
<1>3. where[last.page] # None /\ last.pointer = where[last.page]
  BY <1>1, <1>2 DEF Placed, LastInSlot
<1> QED
  BY <1>1, <1>2, <1>3 DEF TShared

\* A store through the latest pointer changes that page and no other, and the page is
\* marked already.
LEMMA StoresKeep ==
    ASSUME CacheInv, NEW x \in Values, Stores(x)
    PROVE  CacheInv'
<1> USE DEF CacheInv
<1>1. /\ UNCHANGED <<store, slot_dirty, pte, pointer, replacement, pinned_size, pc, want, user,
                     last, where, disk>>
      /\ mem' = [mem EXCEPT ![last.pointer] = x]
      /\ expected' = [expected EXCEPT ![last.page] = x]
  BY DEF Stores, direct, private
<1>2. PICK v \in Pages : v = last.page
  BY LastPlaced DEF Stores, LastInSlot
<1>3. /\ InSlot(v) /\ where[v] = last.pointer /\ where[v] \in Frames /\ where[v] # None
      /\ slot_dirty[Slot(v)]
  BY <1>2, Places, LastPlaced DEF Stores, LastInSlot
<1>4. TDirect' /\ TPrivate' /\ TControl' /\ TShared'
  BY <1>1 DEF TDirect, TPrivate, TControl, TShared
<1>5. Waits' /\ SlotsMatch' /\ Exclusive' /\ LastInSlot'
  BY <1>1 DEF Waits, SlotsMatch, Exclusive, LastInSlot
<1>6. /\ mem'[where[v]] = x /\ expected'[v] = x
      /\ \A u \in Pages \ {v} : expected'[u] = expected[u]
      /\ \A u \in Pages \ {v} : where[u] # None => mem'[where[u]] = mem[where[u]]
  <2>1. \A u \in Pages \ {v} : where[u] # None => where[u] # where[v] /\ where[u] \in Frames
    BY <1>3, ThreadCacheAssumption DEF Exclusive, TShared
  <2> QED
    BY <1>1, <1>2, <1>3, <2>1 DEF TShared
<1>7. ASSUME NEW u \in Pages
      PROVE  (InSlot(u)' <=> InSlot(u)) /\ Pins(u)' = Pins(u) /\ Placed(u)' /\ Counted(u)'
  <2>1. InSlot(u)' <=> InSlot(u)
    BY <1>1 DEF InSlot
  <2> QED
    BY <2>1, <1>1 DEF Pins, Placed, Counted
<1>8. ASSUME NEW u \in Pages PROVE Clean(u)' /\ Kept(u)'
  <2>1. CASE u = v
    BY <2>1, <1>1, <1>3, <1>6, <1>7 DEF Clean, Kept, Marked
  <2>2. CASE u # v
    BY <2>2, <1>1, <1>6, <1>7 DEF Clean, Kept, Marked
  <2> QED
    BY <2>1, <2>2
<1>9. \A d \in Partitions : Sized(d)'
  BY <1>1, <1>7, SizedSame
<1> QED
  BY <1>4, <1>5, <1>7, <1>8, <1>9

\* flush() writes every marked page back and forgets all of them.
LEMMA FlushKeeps ==
    ASSUME CacheInv, Flush
    PROVE  CacheInv'
<1> USE DEF CacheInv
<1>1. /\ pc = "idle" /\ UNCHANGED <<pc, want, user, expected>>
      /\ store' = [s \in Slots |-> EmptySlot] /\ slot_dirty' = [s \in Slots |-> FALSE]
      /\ where' = [v \in Pages |-> None] /\ mem' = [f \in Frames |-> None]
      /\ pte' = [v \in Pages |-> NoEntry] /\ pointer' = [v \in Pages |-> None]
      /\ replacement' = [d \in Partitions |-> {}] /\ pinned_size' = [d \in Partitions |-> 0]
      /\ last' = NoAccess
  BY DEF Flush
<1>2. \A v \in Pages : user[v] = None
  BY DEF Flush, Pinned
<1>3. want = NoWant
  BY <1>1 DEF Waits
<1>4. ASSUME NEW v \in Pages PROVE disk'[v] = expected[v] /\ expected[v] \in Values \cup {None}
  <2>1. disk'[v] = IF pte[v].exist /\ DirtyAfterFlush(v) THEN mem[where[v]] ELSE disk[v]
    BY DEF Flush
  <2>2. DirtyAfterFlush(v) <=> Marked(v)
    BY <1>3, Places DEF DirtyAfterFlush, Marked, InSlot, NoWant
  <2>3. pte[v].exist <=> where[v] # None
    BY DEF Placed
  <2> QED
    BY <2>1, <2>2, <2>3 DEF Clean, Kept, TShared
<1>5. TShared'
  <2>1. disk' = [v \in Pages |-> disk'[v]]
    BY DEF Flush
  <2> QED
    BY <2>1, <1>1, <1>4 DEF TShared
<1>6. TDirect' /\ TControl'
  BY <1>1 DEF TDirect, TControl, EmptySlot, NoAccess
<1>7. TPrivate'
  BY <1>1 DEF TPrivate, NoEntry, Entry
<1>8. Waits' /\ SlotsMatch' /\ Exclusive' /\ LastInSlot'
  BY <1>1, <1>3 DEF Waits, SlotsMatch, Exclusive, LastInSlot, EmptySlot, NoWant, NoAccess
<1>9. ASSUME NEW v \in Pages PROVE ~InSlot(v)' /\ Pins(v)' = 0
  <2>1. ~InSlot(v)'
    BY <1>1, Places DEF InSlot, EmptySlot
  <2> QED
    BY <2>1, <1>1, <1>2 DEF Pins
<1>10. ASSUME NEW v \in Pages PROVE Placed(v)' /\ Counted(v)' /\ Clean(v)' /\ Kept(v)'
  BY <1>1, <1>2, <1>4, <1>9 DEF Placed, Counted, Clean, Kept, NoEntry
<1>11. ASSUME NEW d \in Partitions PROVE Sized(d)'
  <2>1. Mapped(d)' = {} /\ InUse(d)' = {}
    BY <1>1, <1>9, InUseIs DEF Mapped, NoEntry
  <2> QED
    BY <2>1, <1>1, FS_EmptySet, ThreadCacheAssumption DEF Sized
<1> QED
  BY <1>5, <1>6, <1>7, <1>8, <1>10, <1>11

-----------------------------------------------------------------------------
\* The first pin of a page is counted by pinned_size.
LEMMA PinCounts ==
    ASSUME CacheInv, NEW v \in Pages, pinned_size' = NewPin(Partition(v)),
           Pins(v) = 0, Pins(v)' = 1, \A u \in Pages \ {v} : Pins(u)' = Pins(u)
    PROVE  /\ pinned_size' \in [Partitions -> Nat]
           /\ \A d \in Partitions : pinned_size'[d] = Cardinality(InUse(d)')
<1> USE DEF CacheInv
<1> DEFINE e == Partition(v)
<1>1. e \in Partitions
  BY Places
<1>2. /\ pinned_size' \in [Partitions -> Nat] /\ pinned_size'[e] = pinned_size[e] + 1
      /\ \A d \in Partitions \ {e} : pinned_size'[d] = pinned_size[d]
  BY <1>1 DEF NewPin, TPrivate
<1>3. v \notin InUse(e) /\ InUse(e)' = InUse(e) \cup {v} /\ InUse(e) \in SUBSET Pages
  BY <1>1, InUseIs
<1>4. Cardinality(InUse(e)') = Cardinality(InUse(e)) + 1
  BY <1>3, PageSets
<1>5. \A d \in Partitions \ {e} : InUse(d)' = InUse(d)
  BY InUseIs
<1>6. ASSUME NEW d \in Partitions PROVE pinned_size'[d] = Cardinality(InUse(d)')
  <2>1. CASE d = e
    BY <2>1, <1>2, <1>4 DEF Sized
  <2>2. CASE d # e
    BY <2>2, <1>2, <1>5 DEF Sized
  <2> QED
    BY <2>1, <2>2
<1> QED
  BY <1>2, <1>6

\* What a pin that returns gives to the slot or to the program: one pin more of this page
\* and none of the others.
LEMMA ReturnFacts ==
    ASSUME CacheInv, pc = "pin", NEW p \in Frames, NEW v \in Pages, v = want.page, Return(p)
    PROVE  /\ TDirect' /\ TControl' /\ Waits' /\ SlotsMatch' /\ LastInSlot'
           /\ Pins(v)' = Pins(v) + 1
           /\ user'[v] \in {p, user[v]}
           /\ InSlot(v)' =>
                \/ ~InSlot(v) /\ store'[Slot(v)].pointer = p
                \/ InSlot(v) /\ store' = store /\ slot_dirty' = slot_dirty
           /\ InSlot(v) => InSlot(v)'
           /\ \A u \in Pages \ {v} :
                /\ user'[u] = user[u] /\ Pins(u)' = Pins(u) /\ (InSlot(u)' <=> InSlot(u))
                /\ InSlot(u) => /\ store'[Slot(u)] = store[Slot(u)]
                                /\ slot_dirty'[Slot(u)] = slot_dirty[Slot(u)]
           /\ pc' = "idle"
           /\ want.caller = "direct" => last'.page = v /\ last'.is_write = want.is_write
<1> USE DEF CacheInv
<1>1. pc' = "idle" /\ want' = NoWant /\ Slot(v) \in Slots /\ v # None /\ p # None
  BY Places, ThreadCacheAssumption DEF Return
<1>2. CASE want.caller = "direct"
  <2>1. /\ store' = [store EXCEPT ![Slot(v)].pointer = p]
        /\ slot_dirty' = [slot_dirty EXCEPT ![Slot(v)] = want.is_write]
        /\ last' = [page |-> v, pointer |-> p, is_write |-> want.is_write]
        /\ user' = user
    BY <1>2 DEF Return
  <2>2. /\ store'[Slot(v)].page = store[Slot(v)].page /\ store'[Slot(v)].pointer = p
        /\ slot_dirty'[Slot(v)] = want.is_write
        /\ \A s \in Slots \ {Slot(v)} :
              store'[s] = store[s] /\ slot_dirty'[s] = slot_dirty[s]
    BY <2>1, <1>1 DEF TDirect
  <2>3. TDirect'
    BY <2>1, <1>1 DEF TDirect, TControl
  <2>4. TControl'
    BY <2>1, <1>1 DEF TControl, NoWant
  <2>5. store[Slot(v)].page = v
    BY <1>1, <1>2 DEF Waits
  <2>6. Waits' /\ SlotsMatch' /\ LastInSlot'
    BY <2>1, <2>2, <2>5, <1>1 DEF Waits, SlotsMatch, LastInSlot, NoWant
  <2>7. ~InSlot(v) /\ InSlot(v)'
    BY <2>2, <2>5, <1>1, <1>2 DEF InSlot, NoWant
  <2>8. Pins(v)' = Pins(v) + 1
    BY <2>1, <2>7 DEF Pins
  <2>9. ASSUME NEW u \in Pages \ {v}
        PROVE  /\ InSlot(u)' <=> InSlot(u)
               /\ InSlot(u) => /\ store'[Slot(u)] = store[Slot(u)]
                               /\ slot_dirty'[Slot(u)] = slot_dirty[Slot(u)]
    <3>1. Slot(u) \in Slots
      BY Places
    <3>2. (InSlot(u) <=> store[Slot(u)].page = u) /\ (InSlot(u)' <=> store'[Slot(u)].page = u)
      BY <1>1 DEF InSlot, NoWant
    <3>3. CASE Slot(u) = Slot(v)
      BY <3>2, <3>3, <2>2, <2>5
    <3>4. CASE Slot(u) # Slot(v)
      BY <3>1, <3>2, <3>4, <2>2
    <3> QED
      BY <3>3, <3>4
  <2>10. \A u \in Pages \ {v} : user'[u] = user[u] /\ Pins(u)' = Pins(u)
    BY <2>1, <2>9 DEF Pins
  <2> QED
    BY <2>1, <2>2, <2>3, <2>4, <2>6, <2>7, <2>8, <2>9, <2>10, <1>1
<1>3. CASE want.caller # "direct"
  <2>1. /\ UNCHANGED <<store, slot_dirty, last>>
        /\ user' = [user EXCEPT ![v] = p]
    BY <1>3 DEF Return
  <2>2. user'[v] = p /\ \A u \in Pages \ {v} : user'[u] = user[u]
    BY <2>1 DEF TControl
  <2>3. want.caller = "user" /\ user[v] = None
    BY <1>1, <1>3 DEF TControl, Waits
  <2>4. TDirect' /\ TControl'
    BY <2>1, <1>1 DEF TDirect, TControl, NoWant
  <2>5. last.page = None
    BY DEF LastInSlot
  <2>6. Waits' /\ SlotsMatch' /\ LastInSlot'
    BY <2>1, <2>5, <1>1 DEF Waits, SlotsMatch, LastInSlot, NoWant
  <2>7. ASSUME NEW u \in Pages PROVE InSlot(u)' <=> InSlot(u)
    BY <2>1, <2>3, <1>1 DEF InSlot, NoWant
  <2>8. Pins(v)' = Pins(v) + 1 /\ \A u \in Pages \ {v} : Pins(u)' = Pins(u)
    BY <2>2, <2>3, <2>7, <1>1 DEF Pins
  <2> QED
    BY <2>1, <2>2, <2>4, <2>6, <2>7, <2>8, <1>1, <1>3
<1> QED
  BY <1>2, <1>3

\* A pin of a page the private cache has.
LEMMA PinHitKeeps ==
    ASSUME CacheInv, PinHit
    PROVE  /\ CacheInv' /\ pc' = "idle" /\ UNCHANGED expected
           /\ want.caller = "direct" =>
                last'.page = want.page /\ last'.is_write = want.is_write
<1> USE DEF CacheInv
<1>1. PICK v \in Pages : v = want.page
  BY DEF PinHit, Waits, TControl
<1>2. /\ pc = "pin" /\ pte[v].exist /\ Return(pointer[v])
      /\ pte' = [pte EXCEPT ![v].ref_count = @ + 1]
      /\ UNCHANGED <<pointer, where, mem, disk, expected>>
  BY <1>1 DEF PinHit, shared
<1>3. PICK p \in Frames : p = pointer[v] /\ p = where[v]
  BY <1>2 DEF Placed, TPrivate
<1>4. /\ TDirect' /\ TControl' /\ Waits' /\ SlotsMatch' /\ LastInSlot'
      /\ Pins(v)' = Pins(v) + 1
      /\ user'[v] \in {p, user[v]}
      /\ InSlot(v)' =>
           \/ ~InSlot(v) /\ store'[Slot(v)].pointer = p
           \/ InSlot(v) /\ store' = store /\ slot_dirty' = slot_dirty
      /\ InSlot(v) => InSlot(v)'
      /\ \A u \in Pages \ {v} :
           /\ user'[u] = user[u] /\ Pins(u)' = Pins(u) /\ (InSlot(u)' <=> InSlot(u))
           /\ InSlot(u) => /\ store'[Slot(u)] = store[Slot(u)]
                           /\ slot_dirty'[Slot(u)] = slot_dirty[Slot(u)]
      /\ pc' = "idle"
      /\ want.caller = "direct" => last'.page = v /\ last'.is_write = want.is_write
  BY <1>1, <1>2, <1>3, ReturnFacts
<1>5. /\ \A u \in Pages : pte'[u].exist = pte[u].exist /\ pte'[u].dirty = pte[u].dirty
      /\ \A u \in Pages \ {v} : pte'[u] = pte[u]
      /\ pte'[v].ref_count = pte[v].ref_count + 1 /\ pte' \in [Pages -> Entry]
  BY <1>2 DEF TPrivate, Entry
<1>6. TShared' /\ Exclusive'
  BY <1>2 DEF TShared, Exclusive
<1>7. ASSUME NEW u \in Pages PROVE Placed(u)' /\ Clean(u)' /\ Kept(u)'
  <2>1. CASE u = v
    <3>1. Marked(v) => Marked(v)'
      BY <1>4, <1>5 DEF Marked
    <3>2. InSlot(v)' => where[v] # None /\ store'[Slot(v)].pointer = where[v]
      BY <1>3, <1>4, ThreadCacheAssumption DEF Placed
    <3>3. user'[v] # None => where[v] = user'[v]
      BY <1>3, <1>4 DEF Placed
    <3> QED
      BY <2>1, <3>1, <3>2, <3>3, <1>2, <1>5 DEF Placed, Clean, Kept
  <2>2. CASE u # v
    <3>1. Marked(u)' <=> Marked(u)
      BY <2>2, <1>4, <1>5 DEF Marked
    <3> QED
      BY <2>2, <3>1, <1>2, <1>4, <1>5 DEF Placed, Clean, Kept
  <2> QED
    BY <2>1, <2>2
<1>8. Partition(v) \in Partitions /\ pte[v].ref_count = Pins(v) /\ Pins(v) \in 0..2
  BY Places, PinsRange DEF Counted
<1>9. CASE pte[v].ref_count = 0
  <2>1. /\ pinned_size' = NewPin(Partition(v))
        /\ replacement' = [replacement EXCEPT ![Partition(v)] = @ \ {v}]
    BY <1>1, <1>9 DEF PinHit, FirstPin
  <2>2. /\ pinned_size' \in [Partitions -> Nat]
        /\ \A d \in Partitions : pinned_size'[d] = Cardinality(InUse(d)')
    <3>1. Pins(v) = 0 /\ Pins(v)' = 1
      BY <1>4, <1>8, <1>9
    <3> QED
      BY <3>1, <2>1, <1>4, PinCounts
  <2>3. TPrivate'
    BY <2>1, <2>2, <1>2, <1>5 DEF TPrivate
  <2>4. \A d \in Partitions : Mapped(d)' = Mapped(d)
    BY <1>5 DEF Mapped
  <2>5. \A d \in Partitions : Sized(d)'
    BY <2>2, <2>4 DEF Sized
  <2>6. ASSUME NEW u \in Pages PROVE Counted(u)'
    <3>1. Counted(u) /\ pte[u].ref_count = Pins(u)
      BY DEF Counted
    <3>2. ASSUME NEW d \in Partitions
          PROVE  replacement'[d] = IF d = Partition(v) THEN replacement[d] \ {v} ELSE replacement[d]
      BY <2>1 DEF TPrivate
    <3>3. CASE u = v
      <4>1. pte'[u].ref_count = 1 /\ Pins(u)' = 1
        BY <3>3, <1>4, <1>5, <1>8, <1>9
      <4>2. ASSUME NEW d \in Partitions PROVE u \notin replacement'[d]
        BY <3>1, <3>2, <3>3 DEF Counted
      <4> QED
        BY <4>1, <4>2 DEF Counted
    <3>4. CASE u # v
      <4>1. pte'[u] = pte[u] /\ Pins(u)' = Pins(u)
        BY <3>4, <1>4, <1>5
      <4>2. ASSUME NEW d \in Partitions PROVE u \in replacement'[d] <=> u \in replacement[d]
        BY <3>2, <3>4
      <4> QED
        BY <3>1, <4>1, <4>2 DEF Counted
    <3> QED
      BY <3>3, <3>4
  <2> QED
    BY <2>3, <2>5, <2>6, <1>1, <1>2, <1>4, <1>6, <1>7
<1>10. CASE pte[v].ref_count # 0
  <2>1. pinned_size' = pinned_size /\ replacement' = replacement
    BY <1>1, <1>10 DEF PinHit, FirstPin
  <2>2. \A u \in Pages : Pins(u)' # 0 <=> Pins(u) # 0
    BY <1>4, <1>8, <1>10
  <2>3. \A d \in Partitions : Sized(d)'
    BY <2>1, <2>2, <1>5, SizedSame
  <2>4. TPrivate'
    BY <2>1, <1>2, <1>5 DEF TPrivate
  <2>5. ASSUME NEW u \in Pages PROVE Counted(u)'
    <3>1. CASE u = v
      BY <3>1, <2>1, <1>4, <1>5, <1>8, <1>10 DEF Counted
    <3>2. CASE u # v
      BY <3>2, <2>1, <1>4, <1>5 DEF Counted
    <3> QED
      BY <3>1, <3>2
  <2> QED
    BY <2>3, <2>4, <2>5, <1>1, <1>2, <1>4, <1>6, <1>7
<1> QED
  BY <1>9, <1>10

-----------------------------------------------------------------------------
\* A page comes into frame f, another one leaves its frame, the others stay.
Arrives(v, f) ==
    /\ ~pte[v].exist /\ pte'[v] = [exist |-> TRUE, dirty |-> FALSE, ref_count |-> 1]
    /\ pointer'[v] = f /\ where'[v] = f /\ mem'[f] = disk[v] /\ disk'[v] = disk[v]
    /\ \A d \in Partitions : v \notin replacement'[d]
Leaves(u) ==
    /\ pte[u].exist /\ pte[u].ref_count = 0
    /\ pte'[u] = NoEntry /\ pointer'[u] = None /\ where'[u] = None
    /\ disk'[u] = IF pte[u].dirty THEN mem[where[u]] ELSE disk[u]
    /\ \A d \in Partitions : u \notin replacement'[d]
Stays(u, f) ==
    /\ pte'[u] = pte[u] /\ pointer'[u] = pointer[u] /\ where'[u] = where[u]
    /\ disk'[u] = disk[u]
    /\ where[u] # None => where[u] # f /\ mem'[where[u]] = mem[where[u]]
    /\ \A d \in Partitions : u \in replacement'[d] <=> u \in replacement[d]

\* A page comes in, at most some unpinned pages leave: a page that leaves unmarked was
\* equal to its block, a marked one is written to it.
LEMMA ReplacesKeeps ==
    ASSUME CacheInv, pc = "pin", NEW f \in Frames, NEW v \in Pages, v = want.page, Return(f),
           pinned_size' = NewPin(Partition(v)), expected' = expected,
           Arrives(v, f), \A u \in Pages \ {v} : Leaves(u) \/ Stays(u, f),
           pte' \in [Pages -> Entry], pointer' \in [Pages -> Frames \cup {None}],
           replacement' \in [Partitions -> SUBSET Pages], TShared',
           \A d \in Partitions : Cardinality(Mapped(d)') <= Quota
    PROVE  /\ CacheInv' /\ pc' = "idle"
           /\ want.caller = "direct" =>
                last'.page = want.page /\ last'.is_write = want.is_write
<1> USE DEF CacheInv
<1>1. /\ TDirect' /\ TControl' /\ Waits' /\ SlotsMatch' /\ LastInSlot'
      /\ Pins(v)' = Pins(v) + 1
      /\ user'[v] \in {f, user[v]}
      /\ InSlot(v)' =>
           \/ ~InSlot(v) /\ store'[Slot(v)].pointer = f
           \/ InSlot(v) /\ store' = store /\ slot_dirty' = slot_dirty
      /\ \A u \in Pages \ {v} :
           /\ user'[u] = user[u] /\ Pins(u)' = Pins(u) /\ (InSlot(u)' <=> InSlot(u))
           /\ InSlot(u) => /\ store'[Slot(u)] = store[Slot(u)]
                           /\ slot_dirty'[Slot(u)] = slot_dirty[Slot(u)]
      /\ pc' = "idle"
      /\ want.caller = "direct" => last'.page = v /\ last'.is_write = want.is_write
  BY ReturnFacts
<1>2. f # None
  BY ThreadCacheAssumption
<1>3. Pins(v) = 0 /\ user[v] = None /\ ~InSlot(v) /\ where[v] = None
  <2>1. pte[v] = NoEntry /\ where[v] = None
    BY DEF Arrives, Placed
  <2>2. Pins(v) = 0
    BY <2>1 DEF Counted, NoEntry
  <2> QED
    BY <2>1, <2>2 DEF Pins
<1>4. Pins(v)' = 1
  BY <1>1, <1>3
<1>5. /\ pinned_size' \in [Partitions -> Nat]
      /\ \A d \in Partitions : pinned_size'[d] = Cardinality(InUse(d)')
  BY <1>1, <1>3, <1>4, PinCounts
<1>6. TPrivate' /\ \A d \in Partitions : Sized(d)'
  BY <1>5 DEF TPrivate, Sized
<1>7. Placed(v)' /\ Counted(v)' /\ Clean(v)' /\ Kept(v)'
  <2>1. pte'[v].exist /\ pte'[v].ref_count = 1
    BY DEF Arrives
  <2>2. Placed(v)'
    BY <2>1, <1>1, <1>2, <1>3 DEF Arrives, Placed
  <2>3. Counted(v)'
    BY <2>1, <1>4 DEF Arrives, Counted
  <2>4. Clean(v)' /\ Kept(v)'
    BY <1>2, <1>3 DEF Arrives, Clean, Kept
  <2> QED
    BY <2>2, <2>3, <2>4
<1>8. ASSUME NEW u \in Pages \ {v}, Leaves(u)
      PROVE  Placed(u)' /\ Counted(u)' /\ Clean(u)' /\ Kept(u)'
  <2>1. Pins(u) = 0 /\ Pins(u)' = 0
    BY <1>1, <1>8 DEF Counted, Leaves
  <2>2. user[u] = None /\ ~InSlot(u)
    BY <2>1 DEF Pins
  <2>3. Placed(u)' /\ Counted(u)'
    BY <2>1, <2>2, <1>1, <1>8 DEF Leaves, Placed, Counted, NoEntry
  <2>4. where[u] # None
    BY <1>8 DEF Placed, Leaves
  <2>5. ~pte[u].dirty => mem[where[u]] = disk[u]
    BY <2>2, <2>4 DEF Clean, Marked
  <2>6. Clean(u)' /\ Kept(u)'
    BY <2>4, <2>5, <1>8 DEF Clean, Kept, Leaves
  <2> QED
    BY <2>3, <2>6
<1>9. ASSUME NEW u \in Pages \ {v}, Stays(u, f)
      PROVE  Placed(u)' /\ Counted(u)' /\ Clean(u)' /\ Kept(u)'
  <2>1. Placed(u)'
    BY <1>1, <1>9 DEF Stays, Placed
  <2>2. Counted(u)'
    BY <1>1, <1>9 DEF Stays, Counted
  <2>3. Marked(u)' <=> Marked(u)
    BY <1>1, <1>9 DEF Stays, Marked
  <2>4. Clean(u)' /\ Kept(u)'
    BY <2>3, <1>9 DEF Stays, Clean, Kept
  <2> QED
    BY <2>1, <2>2, <2>4
<1>10. Exclusive'
  <2> SUFFICES ASSUME NEW u \in Pages, NEW w \in Pages, where'[u] = where'[w],
                      where'[u] # None, u # w
               PROVE  FALSE
    BY DEF Exclusive
  <2>1. ASSUME NEW x \in Pages \ {v}, where'[x] # None PROVE where'[x] = where[x] /\ where[x] # f
    BY <2>1 DEF Leaves, Stays
  <2>2. CASE u = v \/ w = v
    BY <2>1, <2>2 DEF Arrives
  <2>3. CASE u # v /\ w # v
    BY <2>1, <2>3 DEF Exclusive
  <2> QED
    BY <2>2, <2>3
<1> QED
  BY <1>1, <1>6, <1>7, <1>8, <1>9, <1>10

\* A page comes in while the quota is not used up.
LEMMA PinAllocatedKeeps ==
    ASSUME CacheInv, NEW f \in Frames, PinAllocated(f)
    PROVE  /\ CacheInv' /\ pc' = "idle" /\ UNCHANGED expected
           /\ want.caller = "direct" =>
                last'.page = want.page /\ last'.is_write = want.is_write
<1> USE DEF CacheInv
<1>1. PICK v \in Pages : v = want.page
  BY DEF PinAllocated, Waits, TControl
<1>2. /\ pc = "pin" /\ ~pte[v].exist /\ ~full(Partition(v)) /\ FreeFrame(f) /\ Return(f)
      /\ pinned_size' = NewPin(Partition(v))
      /\ pte' = [pte EXCEPT ![v] = [exist |-> TRUE, dirty |-> FALSE, ref_count |-> 1]]
      /\ pointer' = [pointer EXCEPT ![v] = f] /\ where' = [where EXCEPT ![v] = f]
      /\ mem' = [mem EXCEPT ![f] = disk[v]]
      /\ UNCHANGED <<replacement, disk, expected>>
  BY <1>1 DEF PinAllocated
<1>3. Partition(v) \in Partitions
  BY Places
<1>4. /\ pte' \in [Pages -> Entry] /\ pointer' \in [Pages -> Frames \cup {None}]
      /\ replacement' \in [Partitions -> SUBSET Pages]
  BY <1>2 DEF TPrivate, Entry
<1>5. TShared'
  BY <1>2 DEF TShared
<1>6. Arrives(v, f)
  BY <1>2 DEF Arrives, Counted, TPrivate, TShared
<1>7. ASSUME NEW u \in Pages \ {v} PROVE Stays(u, f)
  <2>1. where[u] # None => where[u] # f /\ where[u] \in Frames
    BY <1>2 DEF FreeFrame, TShared
  <2> QED
    BY <2>1, <1>2 DEF Stays, TPrivate, TShared
<1>8. ASSUME NEW d \in Partitions PROVE Cardinality(Mapped(d)') <= Quota
  <2>1. /\ pte'[v].exist /\ \A u \in Pages \ {v} : pte'[u] = pte[u]
    BY <1>6, <1>7 DEF Arrives, Stays
  <2>2. CASE d = Partition(v)
    <3>1. v \notin Mapped(d) /\ Mapped(d)' = Mapped(d) \cup {v} /\ Mapped(d) \in SUBSET Pages
      BY <2>1, <2>2, <1>2 DEF Mapped
    <3>2. Cardinality(Mapped(d)') = Cardinality(Mapped(d)) + 1 /\ Cardinality(Mapped(d)) \in Nat
      BY <3>1, PageSets
    <3>3. ~(Cardinality(Mapped(d)) >= Quota)
      BY <2>2, <1>2 DEF full
    <3> QED
      BY <3>2, <3>3, ThreadCacheAssumption
  <2>3. CASE d # Partition(v)
    <3>1. Mapped(d)' = Mapped(d)
      BY <2>1, <2>3 DEF Mapped
    <3> QED
      BY <3>1 DEF Sized
  <2> QED
    BY <2>2, <2>3
<1> QED
  BY <1>1, <1>2, <1>4, <1>5, <1>6, <1>7, <1>8, ReplacesKeeps

\* A page comes in for another one of its partition, perhaps into the same frame.
LEMMA PinEvictsKeeps ==
    ASSUME CacheInv, NEW u \in Pages, NEW f \in Frames, PinEvicts(u, f)
    PROVE  /\ CacheInv' /\ pc' = "idle" /\ UNCHANGED expected
           /\ want.caller = "direct" =>
                last'.page = want.page /\ last'.is_write = want.is_write
<1> USE DEF CacheInv
<1>1. PICK v \in Pages : v = want.page
  BY DEF PinEvicts, Waits, TControl
<1> DEFINE e == Partition(v)
<1>2. /\ pc = "pin" /\ ~pte[v].exist /\ u \in replacement[e] /\ Return(f)
      /\ FreeFrame(f) \/ f = where[u]
      /\ pinned_size' = NewPin(e)
      /\ replacement' = [replacement EXCEPT ![e] = @ \ {u}]
      /\ pte' = [pte EXCEPT ![u] = NoEntry,
                            ![v] = [exist |-> TRUE, dirty |-> FALSE, ref_count |-> 1]]
      /\ pointer' = [pointer EXCEPT ![u] = None, ![v] = f]
      /\ disk' = IF pte[u].dirty THEN [disk EXCEPT ![u] = mem[where[u]]] ELSE disk
      /\ where' = [where EXCEPT ![u] = None, ![v] = f]
      /\ mem' = [mem EXCEPT ![where[u]] = None, ![f] = disk[v]]
      /\ expected' = expected
  BY <1>1 DEF PinEvicts, SharedUnpin
<1>3. e \in Partitions
  BY Places
<1>4. Partition(u) = e /\ pte[u].exist /\ pte[u].ref_count = 0 /\ u # v
  BY <1>2, <1>3 DEF Counted
<1>5. where[u] \in Frames /\ where[v] = None
  BY <1>2, <1>4 DEF Placed, TShared
<1>6. /\ pte' \in [Pages -> Entry] /\ pointer' \in [Pages -> Frames \cup {None}]
      /\ replacement' \in [Partitions -> SUBSET Pages]
  BY <1>2 DEF TPrivate, Entry, NoEntry
<1>7. TShared'
  BY <1>2, <1>5 DEF TShared
<1>8. \A d \in Partitions :
        replacement'[d] = IF d = e THEN replacement[d] \ {u} ELSE replacement[d]
  BY <1>2, <1>3 DEF TPrivate
<1>9. Arrives(v, f)
  <2>1. \A d \in Partitions : v \notin replacement'[d]
    BY <1>2, <1>8 DEF Counted
  <2>2. disk'[v] = disk[v]
    BY <1>2, <1>4 DEF TShared
  <2> QED
    BY <2>1, <2>2, <1>2, <1>4 DEF Arrives, TPrivate, TShared
<1>10. Leaves(u)
  <2>1. \A d \in Partitions : u \notin replacement'[d]
    BY <1>4, <1>8 DEF Counted
  <2>2. disk'[u] = IF pte[u].dirty THEN mem[where[u]] ELSE disk[u]
    BY <1>2 DEF TShared
  <2> QED
    BY <2>1, <2>2, <1>2, <1>4 DEF Leaves, TPrivate, TShared
<1>11. ASSUME NEW w \in Pages \ {u, v} PROVE Stays(w, f)
  <2>1. where[w] # None => where[w] # f /\ where[w] # where[u] /\ where[w] \in Frames
    BY <1>2, <1>5 DEF FreeFrame, Exclusive, TShared
  <2>2. where[w] # None => mem'[where[w]] = mem[where[w]]
    BY <2>1, <1>2, <1>5 DEF TShared
  <2>3. \A d \in Partitions : w \in replacement'[d] <=> w \in replacement[d]
    BY <1>8
  <2>4. disk'[w] = disk[w]
    BY <1>2 DEF TShared
  <2> QED
    BY <2>1, <2>2, <2>3, <2>4, <1>2 DEF Stays, TPrivate, TShared
<1>12. ASSUME NEW d \in Partitions PROVE Cardinality(Mapped(d)') <= Quota
  <2>1. /\ pte'[v].exist /\ ~pte'[u].exist
        /\ \A w \in Pages \ {u, v} : pte'[w] = pte[w]
    BY <1>9, <1>10, <1>11 DEF Arrives, Leaves, Stays, NoEntry
  <2>2. CASE d = e
    <3>1. /\ v \notin Mapped(d) /\ u \in Mapped(d) /\ Mapped(d) \in SUBSET Pages
          /\ Mapped(d)' = (Mapped(d) \ {u}) \cup {v}
      BY <2>1, <2>2, <1>2, <1>4 DEF Mapped
    <3>2. /\ Cardinality(Mapped(d)) \in Nat
          /\ Cardinality(Mapped(d) \ {u}) = Cardinality(Mapped(d)) - 1
      BY <3>1, PageSets
    <3>3. /\ Mapped(d) \ {u} \in SUBSET Pages /\ v \in Pages \ (Mapped(d) \ {u})
      BY <3>1
    <3>4. Cardinality(Mapped(d)') = Cardinality(Mapped(d) \ {u}) + 1
      BY <3>1, <3>3, PageSets
    <3>5. Cardinality(Mapped(d)') = Cardinality(Mapped(d))
      BY <3>2, <3>4
    <3> QED
      BY <3>5 DEF Sized
  <2>3. CASE d # e
    <3>1. Mapped(d)' = Mapped(d)
      BY <2>1, <2>3, <1>4 DEF Mapped
    <3> QED
      BY <3>1 DEF Sized
  <2> QED
    BY <2>2, <2>3
<1> QED
  BY <1>1, <1>2, <1>6, <1>7, <1>9, <1>10, <1>11, <1>12, ReplacesKeeps

-----------------------------------------------------------------------------
\* Every way in which a pin can end.
LEMMA PrivatePinKeeps ==
    ASSUME CacheInv, PrivatePin
    PROVE  /\ CacheInv' /\ UNCHANGED expected
           /\ \/ pc' = "oom" /\ want' = want
              \/ /\ pc' = "idle"
                 /\ want.caller = "direct" =>
                      last'.page = want.page /\ last'.is_write = want.is_write
<1>1. CASE PinHit
  BY <1>1, PinHitKeeps
<1>2. CASE PinRefused
  BY <1>2, PinRefusedKeeps DEF PinRefused
<1>3. CASE \E f \in Frames : PinAllocated(f)
  BY <1>3, PinAllocatedKeeps
<1>4. CASE \E u \in Pages, f \in Frames : PinEvicts(u, f)
  BY <1>4, PinEvictsKeeps
<1>5. CASE Terminated
  BY <1>5, StutterKeeps DEF Terminated, vars
<1> QED
  BY <1>1, <1>2, <1>3, <1>4, <1>5 DEF PrivatePin

\* Everything the program does with the pages it has.
LEMMA ProgramKeeps ==
    ASSUME CacheInv, ProgramStep
    PROVE  CacheInv'
<1>1. ASSUME NEW x \in Values, Store(x) PROVE CacheInv'
  BY <1>1, StoresKeep DEF Store, Stores
<1> QED
  BY <1>1, PinKeeps, UnpinKeeps, UserStoreKeeps, FlushKeeps DEF ProgramStep

\* An access returns with the pointer or waits for the pin.
LEMMA AccessKeeps ==
    ASSUME CacheInv, NEW v \in Pages, NEW is_write \in BOOLEAN,
           AccessHit(v, is_write) \/ AccessMiss(v, is_write)
    PROVE  /\ CacheInv' /\ UNCHANGED expected
           /\ \/ pc' = "idle" /\ last'.page = v /\ last'.is_write = is_write
              \/ /\ pc' = "pin"
                 /\ want' = [page |-> v, caller |-> "direct", is_write |-> is_write]
<1>1. CASE AccessHit(v, is_write)
  BY <1>1, AccessHitKeeps DEF AccessHit
<1>2. CASE AccessMiss(v, is_write)
  BY <1>2, AccessMissKeeps
<1> QED
  BY <1>1, <1>2

-----------------------------------------------------------------------------
\* No fault is being handled at first.
LEMMA InitTrap == IInit => TrapInv
BY DEF IInit, TrapInv, TTrap, Steps, NoTrap, TrapTransparent

\* Steps of the program outside the handlers.
LEMMA NoTrapKeeps ==
    ASSUME TrapInv, trap.at = "none", UNCHANGED tvars
    PROVE  TrapInv'
BY DEF TrapInv, TTrap, TrapTransparent, tvars

\* The fault saves the registers.
LEMMA SegfaultKeeps ==
    ASSUME IndInv, NEW op \in {"load", "store"}, NEW v \in Pages, NEW k \in {0, 1},
           NEW has_base \in BOOLEAN, NEW reg \in {"rb", "rv"}, NEW x \in Values,
           Segfault(op, v, k, has_base, reg, x)
    PROVE  TrapInv'
<1>1. /\ pc = "idle" /\ (reg = "rb" => op = "load") /\ v >= k
      /\ saved' = regs' /\ modified' = {} /\ UNCHANGED vars
      /\ trap' = [at |-> IF has_base THEN "operand" ELSE "exec",
                  op |-> op, page |-> v, reg |-> reg, has_base |-> has_base]
      /\ native' = IF op = "load" THEN [regs' EXCEPT ![reg] = Data(expected[v])] ELSE regs'
  BY DEF Segfault
<1>2. /\ regs' = [r \in Regs |-> regs'[r]]
      /\ regs'["rb"] = IF has_base THEN Cached(v - k) ELSE Number(0)
      /\ regs'["ri"] = IF has_base THEN Number(k) ELSE Cached(v)
      /\ regs'["rv"] = Data(x)
  BY DEF Segfault, Regs
<1>3. pc' = pc /\ expected' = expected
  BY <1>1 DEF vars
<1>4. TTrap'
  BY <1>1 DEF TTrap, Steps
<1>5. Data(x).data = x /\ Number(k).number = k /\ k \in Nat
  BY DEF Data, Number
<1>6. Interrupted'
  BY <1>1, <1>2, <1>5 DEF Interrupted, Offset
<1>7. Native'
  BY <1>1, <1>3 DEF Native
<1>8. trap'.at \in {"operand", "exec"}
  BY <1>1
<1>9. trap'.at = "operand" => Untouched' /\ pc' = "idle"
  BY <1>1, <1>3 DEF Untouched
<1>10. trap'.at = "exec" => ~trap'.has_base /\ regs' = saved'
  BY <1>1
<1> QED
  BY <1>4, <1>6, <1>7, <1>8, <1>9, <1>10 DEF TrapInv, TrapTransparent

\* The handler moves on to its next step, with the same instruction.
LEMMA Onward ==
    ASSUME TTrap, NEW s \in Steps \ {"none"}, trap.at # "none", trap' = [trap EXCEPT !.at = s]
    PROVE  /\ trap'.at = s /\ trap'.op = trap.op /\ trap'.page = trap.page
           /\ trap'.reg = trap.reg /\ trap'.has_base = trap.has_base /\ TTrap'
BY DEF TTrap

\* The saved registers stay what they were.
LEMMA SameContext ==
    ASSUME trap'.page = trap.page, trap'.has_base = trap.has_base, saved' = saved, Interrupted
    PROVE  Interrupted' /\ Offset' = Offset
BY DEF Interrupted, Offset

\* The handler recognises the address in base plus index and accesses its page.
LEMMA TrapAccessKeeps ==
    ASSUME IndInv, TrapAccess
    PROVE  IndInv'
<1> USE DEF IndInv
<1>1. trap.at = "operand" /\ Interrupted /\ Native /\ Untouched /\ TTrap
  BY DEF TrapAccess, TrapInv
<1>2. trap.page \in Pages
  BY <1>1 DEF TTrap
<1>3. regs["rb"].page = trap.page - Offset /\ regs["ri"].number = Offset /\ Offset \in Nat
  BY <1>1 DEF Untouched, Interrupted, Cached, Number
<1>4. trap.page - Offset + Offset = trap.page
  BY <1>2, <1>3 DEF Pages
<1>5. AccessHit(trap.page, TRUE) \/ AccessMiss(trap.page, TRUE)
  BY <1>3, <1>4 DEF TrapAccess
<1>6. /\ CacheInv' /\ expected' = expected
      /\ \/ pc' = "idle" /\ last'.page = trap.page /\ last'.is_write = TRUE
         \/ /\ pc' = "pin"
            /\ want' = [page |-> trap.page, caller |-> "direct", is_write |-> TRUE]
  BY <1>2, <1>5, AccessKeeps
<1>7. trap' = [trap EXCEPT !.at = "pin"] /\ UNCHANGED <<regs, saved, modified, native>>
  BY DEF TrapAccess
<1>8. /\ trap'.at = "pin" /\ trap'.op = trap.op /\ trap'.page = trap.page
      /\ trap'.reg = trap.reg /\ trap'.has_base = trap.has_base /\ TTrap'
  BY <1>1, <1>7, Onward DEF Steps
<1>9. Interrupted' /\ Native' /\ Untouched'
  BY <1>1, <1>6, <1>7, <1>8, SameContext DEF Native, Untouched
<1>10. Accessed' \/ Accessing'
  BY <1>6, <1>8 DEF Accessed, Accessing
<1>11. TrapInv'
  BY <1>8, <1>9, <1>10 DEF TrapInv, TrapTransparent
<1> QED
  BY <1>6, <1>11

\* The access of the handler waits for its pin.
LEMMA TrapPinKeeps ==
    ASSUME IndInv, TrapPin
    PROVE  IndInv'
<1> USE DEF IndInv
<1>1. /\ trap.at = "pin" /\ Interrupted /\ Native /\ Untouched /\ TTrap /\ PrivatePin
      /\ UNCHANGED <<trap, regs, saved, modified, native>>
  BY DEF TrapPin, TrapInv, tvars
<1>2. pc # "idle"
  BY <1>1 DEF PrivatePin, PinHit, PinRefused, PinAllocated, PinEvicts, Terminated
<1>3. want = [page |-> trap.page, caller |-> "direct", is_write |-> TRUE]
  BY <1>1, <1>2 DEF TrapInv, Accessed, Accessing
<1>4. /\ CacheInv' /\ expected' = expected
      /\ \/ pc' = "oom" /\ want' = want
         \/ pc' = "idle" /\ last'.page = trap.page /\ last'.is_write = TRUE
  BY <1>1, <1>3, PrivatePinKeeps
<1>5. Accessed' \/ Accessing'
  BY <1>1, <1>3, <1>4 DEF Accessed, Accessing
<1>6. Interrupted' /\ Native' /\ Untouched' /\ TTrap'
  BY <1>1, <1>4 DEF Interrupted, Offset, Native, Untouched, TTrap
<1>7. TrapInv'
  BY <1>1, <1>5, <1>6 DEF TrapInv, TrapTransparent
<1> QED
  BY <1>4, <1>7

\* The base register gets the address of the frame less the offset.
LEMMA TrapRewriteKeeps ==
    ASSUME IndInv, TrapRewrite
    PROVE  TrapInv'
<1> USE DEF IndInv
<1>1. /\ trap.at = "pin" /\ pc = "idle" /\ Interrupted /\ Native /\ Untouched /\ TTrap
      /\ regs' = [regs EXCEPT !["rb"] = RawBase(last.pointer, regs["ri"].number)]
      /\ modified' = modified \cup {"rb"} /\ trap' = [trap EXCEPT !.at = "exec"]
      /\ UNCHANGED <<vars, saved, native>>
  BY DEF TrapRewrite, TrapInv
<1>2. Accessed /\ trap.page \in Pages
  BY <1>1 DEF TrapInv, Accessing, TTrap
<1>3. last.pointer = where[trap.page]
  BY <1>2, Places, LastPlaced DEF Accessed
<1>4. UNCHANGED <<pc, last, where, expected>>
  BY <1>1 DEF vars, shared
<1>5. /\ trap'.at = "exec" /\ trap'.op = trap.op /\ trap'.page = trap.page
      /\ trap'.reg = trap.reg /\ trap'.has_base = trap.has_base /\ TTrap'
  BY <1>1, Onward DEF Steps
<1>6. Interrupted' /\ Offset' = Offset
  BY <1>1, <1>5, SameContext
<1>7. regs = [r \in Regs |-> saved[r]] /\ regs["ri"].number = Offset
  BY <1>1 DEF Untouched, Interrupted, Offset
<1>8. Rewritten'
  BY <1>1, <1>3, <1>4, <1>5, <1>6, <1>7 DEF Rewritten, Untouched, Regs
<1>9. Accessed' /\ Native' /\ trap'.has_base
  BY <1>1, <1>2, <1>4, <1>5 DEF Accessed, Native, Untouched
<1> QED
  BY <1>5, <1>6, <1>8, <1>9 DEF TrapInv, TrapTransparent

\* After the rewriting base plus index is the byte in the frame; without a base register
\* the address is the one that faulted.
LEMMA TargetIs ==
    ASSUME IndInv, trap.at = "exec"
    PROVE  /\ trap.has_base => Target = Raw(where[trap.page], 0)
           /\ ~trap.has_base => Target.kind = "cached" /\ Target # Raw(where[trap.page], 0)
<1> USE DEF IndInv
<1>1. Interrupted /\ TTrap /\ (~trap.has_base => regs = saved) /\ (trap.has_base => Rewritten)
  BY DEF TrapInv
<1>2. CASE trap.has_base
  <2>1. regs["rb"] = Raw(where[trap.page], 0 - Offset) /\ regs["ri"] = Number(Offset)
        /\ Offset \in Nat
    BY <1>1, <1>2 DEF Rewritten, RawBase, Interrupted, Regs
  <2>2. /\ regs["rb"].kind = "raw" /\ regs["rb"].frame = where[trap.page]
        /\ regs["rb"].off = 0 - Offset /\ regs["ri"].number = Offset
    BY <2>1 DEF Raw, Number
  <2>3. Target = Raw(where[trap.page], (0 - Offset) + Offset)
    BY <2>2, <1>2 DEF Target
  <2>4. (0 - Offset) + Offset = 0
    BY <2>1
  <2> QED
    BY <2>3, <2>4, <1>2
<1>3. CASE ~trap.has_base
  <2>1. Target = Cached(trap.page)
    BY <1>1, <1>3 DEF Target, Interrupted, Number
  <2> QED
    BY <2>1, <1>3 DEF Cached, Raw
<1> QED
  BY <1>2, <1>3

\* The instruction runs in the frame of its page, whose content is what the program
\* expects, and a store leaves what the native one would.
LEMMA ExecKeeps ==
    ASSUME IndInv, Exec
    PROVE  IndInv'
<1> USE DEF IndInv
<1>1. trap.at = "exec" /\ Target = Raw(where[trap.page], 0)
  BY DEF Exec
<1>2. trap.has_base
  BY <1>1, TargetIs
<1>3. Interrupted /\ Native /\ TTrap /\ Accessed /\ Rewritten
  BY <1>1, <1>2 DEF TrapInv
<1>4. trap.page \in Pages /\ last.page = trap.page /\ last.is_write /\ pc = "idle"
  BY <1>1, <1>3 DEF TTrap, Accessed
<1>5. last.pointer = where[trap.page] /\ where[trap.page] # None
  BY <1>4, Places, LastPlaced
<1>6. mem[where[trap.page]] = expected[trap.page]
  BY <1>4, <1>5 DEF CacheInv, Kept
<1>7. /\ trap' = [trap EXCEPT !.at = "int3"]
      /\ UNCHANGED <<direct, private, pc, want, user, last, where, disk, saved, modified, native>>
  BY DEF Exec
<1>8. /\ trap'.at = "int3" /\ trap'.op = trap.op /\ trap'.page = trap.page
      /\ trap'.reg = trap.reg /\ trap'.has_base = trap.has_base /\ TTrap'
  BY <1>1, <1>3, <1>7, Onward DEF Steps
<1>9. Interrupted'
  BY <1>3, <1>7, <1>8, SameContext
<1>10. trap.reg \in Regs /\ (trap.op # "load" => trap.op = "store" /\ trap.reg # "rb")
  BY <1>1, <1>3 DEF TTrap, Regs
<1>11. saved = [r \in Regs |-> saved[r]] /\ "rb" \in Regs /\ "rv" \in Regs
  BY <1>3 DEF Interrupted, Regs
<1>12. CASE trap.op = "load"
  <2>1. regs' = [regs EXCEPT ![trap.reg] = Data(expected[trap.page])] /\ UNCHANGED <<mem, expected>>
    BY <1>6, <1>12 DEF Exec
  <2>2. native = [saved EXCEPT ![trap.reg] = Data(expected[trap.page])]
    BY <1>3, <1>12 DEF Native
  <2>3. Performed'
    BY <2>1, <2>2, <1>2, <1>3, <1>7, <1>8, <1>10, <1>11 DEF Performed, Rewritten
  <2>4. CacheInv'
    BY <2>1, <1>7, StutterKeeps DEF vars, shared
  <2> QED
    BY <2>3, <2>4, <1>8, <1>9 DEF TrapInv, TrapTransparent
<1>13. CASE trap.op # "load"
  <2>1. PICK x \in Values : x = saved["rv"].data
    BY <1>3 DEF Interrupted
  <2>2. regs["rv"] = saved["rv"]
    BY <1>3 DEF Rewritten, Regs
  <2>3. /\ mem' = [mem EXCEPT ![where[trap.page]] = x]
        /\ expected' = [expected EXCEPT ![trap.page] = x] /\ regs' = regs
    BY <2>1, <2>2, <1>13 DEF Exec
  <2>4. CacheInv'
    BY <2>3, <1>4, <1>5, <1>7, StoresKeep DEF Stores
  <2>5. Performed'
    BY <2>3, <1>2, <1>3, <1>7, <1>8, <1>11, <1>13 DEF Performed, Rewritten, Native
  <2> QED
    BY <2>4, <2>5, <1>8, <1>9 DEF TrapInv, TrapTransparent
<1> QED
  BY <1>12, <1>13

\* The instruction faults again.
LEMMA ExecFailsKeeps ==
    ASSUME IndInv, ExecFails
    PROVE  TrapInv'
<1> USE DEF IndInv
<1>1. trap.at = "exec" /\ Interrupted /\ TTrap /\ UNCHANGED <<vars, regs, saved, modified, native>>
  BY DEF ExecFails, TrapInv
<1>2. ~trap.has_base /\ Target.kind = "cached"
  BY <1>1, TargetIs DEF ExecFails
<1>3. trap' = [trap EXCEPT !.at = "aborted"]
  BY <1>2 DEF ExecFails
<1>4. /\ trap'.at = "aborted" /\ trap'.op = trap.op /\ trap'.page = trap.page
      /\ trap'.reg = trap.reg /\ trap'.has_base = trap.has_base /\ TTrap'
  BY <1>1, <1>3, Onward DEF Steps
<1>5. Interrupted'
  BY <1>1, <1>4, SameContext
<1> QED
  BY <1>2, <1>4, <1>5 DEF TrapInv, TrapTransparent

\* The int3 behind the copy restores the base register, also over a value just loaded.
LEMMA SigtrapKeeps ==
    ASSUME IndInv, Sigtrap
    PROVE  TrapInv'
<1> USE DEF IndInv
<1>1. /\ trap.at = "int3" /\ Interrupted /\ TTrap /\ Performed
      /\ trap' = [trap EXCEPT !.at = "done"] /\ UNCHANGED <<vars, saved, modified, native>>
      /\ regs' = [r \in Regs |-> Restored(r)]
  BY DEF Sigtrap, TrapInv
<1>2. /\ trap'.at = "done" /\ trap'.op = trap.op /\ trap'.page = trap.page
      /\ trap'.reg = trap.reg /\ trap'.has_base = trap.has_base /\ TTrap'
  BY <1>1, Onward DEF Steps
<1>3. Interrupted'
  BY <1>1, <1>2, SameContext
<1>4. ASSUME trap.reg # "rb" PROVE regs' = native
  <2>1. ASSUME NEW r \in Regs PROVE Restored(r) = native[r]
    BY <1>1, <1>4 DEF Restored, Performed
  <2> QED
    BY <2>1, <1>1 DEF Performed
<1>5. TrapTransparent'
  BY <1>1, <1>2, <1>4 DEF TrapTransparent, Performed
<1> QED
  BY <1>2, <1>3, <1>5 DEF TrapInv

\* The program goes on.
LEMMA ResumeKeeps ==
    ASSUME Resume
    PROVE  TrapInv'
BY DEF Resume, TrapInv, TTrap, Steps, NoTrap, TrapTransparent

-----------------------------------------------------------------------------
\* Every step keeps the invariant.
LEMMA NextKeeps == IndInv /\ [INext]_ivars => IndInv'
<1> SUFFICES ASSUME IndInv, [INext]_ivars PROVE IndInv'
  OBVIOUS
<1>1. ASSUME UNCHANGED ivars PROVE IndInv'
  <2>1. UNCHANGED <<vars, trap, regs, saved, modified, native>>
    BY <1>1 DEF ivars, tvars
  <2>2. CacheInv'
    BY <2>1, StutterKeeps DEF IndInv
  <2>3. UNCHANGED <<pc, want, last, where, expected>>
    BY <2>1 DEF vars, shared
  <2>4. /\ Offset' = Offset /\ (TTrap' <=> TTrap) /\ (Interrupted' <=> Interrupted)
        /\ (Native' <=> Native) /\ (Untouched' <=> Untouched) /\ (Accessed' <=> Accessed)
        /\ (Accessing' <=> Accessing) /\ (Performed' <=> Performed)
        /\ (TrapTransparent' <=> TrapTransparent)
    BY <2>1, <2>3 DEF TTrap, Interrupted, Offset, Native, Untouched, Accessed, Accessing,
                      Performed, TrapTransparent
  <2>5. Rewritten' <=> Rewritten
    BY <2>1, <2>3, <2>4 DEF Rewritten
  <2>6. trap' = trap /\ regs' = regs /\ saved' = saved /\ pc' = pc
    BY <2>1, <2>3
  <2>7. TrapInv'
    BY <2>4, <2>5, <2>6 DEF IndInv, TrapInv
  <2> QED
    BY <2>2, <2>7 DEF IndInv
<1>2. ASSUME NEW op \in {"load", "store", "atomicrmw", "cmpxchg"}, NEW v \in Pages,
             ReplaceAddrOp(op, v)
      PROVE  IndInv'
  BY <1>2, AccessKeeps, NoTrapKeeps DEF ReplaceAddrOp, IndInv
<1>3. CASE trap.at = "none" /\ (PrivatePin \/ ProgramStep) /\ UNCHANGED tvars
  BY <1>3, PrivatePinKeeps, ProgramKeeps, NoTrapKeeps DEF IndInv
<1>4. ASSUME NEW op \in {"load", "store"}, NEW v \in Pages, NEW k \in {0, 1},
             NEW has_base \in BOOLEAN, NEW reg \in {"rb", "rv"}, NEW x \in Values,
             Segfault(op, v, k, has_base, reg, x)
      PROVE  IndInv'
  BY <1>4, SegfaultKeeps, StutterKeeps DEF IndInv, Segfault
<1>5. CASE TrapRewrite
  BY <1>5, TrapRewriteKeeps, StutterKeeps DEF IndInv, TrapRewrite
<1>6. CASE ExecFails
  BY <1>6, ExecFailsKeeps, StutterKeeps DEF IndInv, ExecFails
<1>7. CASE Sigtrap
  BY <1>7, SigtrapKeeps, StutterKeeps DEF IndInv, Sigtrap
<1>8. CASE Resume
  BY <1>8, ResumeKeeps, StutterKeeps DEF IndInv, Resume
<1>9. CASE Aborted
  BY <1>9, <1>1 DEF Aborted
<1> QED
  BY <1>1, <1>2, <1>3, <1>4, <1>5, <1>6, <1>7, <1>8, <1>9, TrapAccessKeeps, TrapPinKeeps,
     ExecKeeps DEF INext

\* The inductive invariant holds in every reachable state, for any number of pages, slots,
\* partitions and frames and any quota.
THEOREM InstructionsInvHolds == ISpec => []IndInv
<1>1. IInit => IndInv
  BY InitCache, InitTrap DEF IInit, IndInv
<1> QED
  BY <1>1, NextKeeps, PTL DEF ISpec

\* The caches of a thread keep their types; pinned_size never passes the quota of its
\* partition.
THEOREM ThreadTypeCorrect == ISpec => []TypeOK
<1>1. IndInv => TypeOK
  <2> SUFFICES ASSUME IndInv PROVE TypeOK
    OBVIOUS
  <2> USE DEF IndInv, CacheInv
  <2>1. ASSUME NEW d \in Partitions PROVE pinned_size[d] \in 0..Quota
    <3>1. InUse(d) \in SUBSET Mapped(d) /\ Mapped(d) \in SUBSET Pages
      BY DEF InUse, Mapped, Placed
    <3>2. Cardinality(InUse(d)) <= Cardinality(Mapped(d))
      BY <3>1, PageSets
    <3>3. Cardinality(InUse(d)) \in Nat /\ Cardinality(Mapped(d)) \in Nat
      BY <3>1, PageSets
    <3> QED
      BY <3>2, <3>3, ThreadCacheAssumption DEF Sized
  <2>2. pinned_size \in [Partitions -> 0..Quota]
    BY <2>1 DEF TPrivate
  <2> QED
    BY <2>2 DEF TypeOK, TDirect, TPrivate, TControl, TShared
<1> QED
  BY <1>1, InstructionsInvHolds, PTL

\* "The pointer is safe before next memory access": the frame the program got from
\* DirectCache::access or from its own pin stays the frame of that page, whatever the
\* private cache evicts in between.
THEOREM PointersAreSafe == ISpec => []PointerSafe
<1>1. IndInv => PointerSafe
  BY LastPlaced DEF IndInv, CacheInv, Placed, PointerSafe
<1> QED
  BY <1>1, InstructionsInvHolds, PTL

\* The program reads what it has stored: the dirty bit of the slot and the one of the
\* private cache reach the shared cache before the page leaves it.
THEOREM StoresAreKept == ISpec => []StoresKept
<1>1. IndInv => StoresKept
  BY DEF IndInv, CacheInv, Kept, StoresKept
<1> QED
  BY <1>1, InstructionsInvHolds, PTL

\* The reference counts, pinned_size and the replacement policy of the private cache agree
\* with the pins of the direct cache and of the program, and the quota is kept.
THEOREM PinsAreCounted == ISpec => []PinsCounted
<1>1. IndInv => PinsCounted
  <2> SUFFICES ASSUME IndInv PROVE PinsCounted
    OBVIOUS
  <2> USE DEF IndInv, CacheInv
  <2>1. \A v \in Pages : pte[v].exist <=> where[v] # None
    BY DEF Placed
  <2>2. ASSUME NEW d \in Partitions PROVE replacement[d] = Mapped(d) \ InUse(d)
    <3>1. replacement[d] \in SUBSET Pages
      BY DEF TPrivate
    <3>2. ASSUME NEW v \in Pages PROVE v \in replacement[d] <=> v \in Mapped(d) \ InUse(d)
      <4>1. pte[v].ref_count = Pins(v)
        BY DEF Counted
      <4>2. v \in InUse(d) <=> Partition(v) = d /\ Pins(v) # 0
        BY InUseIs
      <4> QED
        BY <4>1, <4>2 DEF Counted, Mapped
    <3> QED
      BY <3>1, <3>2 DEF Mapped
  <2>3. \A v \in Pages :
          pte[v].ref_count = (IF user[v] # None THEN 1 ELSE 0) + (IF InSlot(v) THEN 1 ELSE 0)
    BY DEF Counted, Pins
  <2> QED
    BY <2>1, <2>2, <2>3 DEF PinsCounted, Sized, Mapped
<1> QED
  BY <1>1, InstructionsInvHolds, PTL

\* A native instruction that faults on a cached address leaves the registers that it would
\* have left in flat memory, through the segmentation fault, the rewritten base register,
\* the int3 behind the copy and the restored register, unless it is a load into its own
\* base register.
THEOREM TrapsAreTransparent == ISpec => []TrapTransparent
<1>1. IndInv => TrapTransparent
  BY DEF IndInv, TrapInv
<1> QED
  BY <1>1, InstructionsInvHolds, PTL

\* The copy of an instruction never runs with a raw address that is not where its page
\* is, and the handlers abort only on an operand without a base register.
THEOREM OperandsAreSafe == ISpec => []OperandsSafe
<1>1. IndInv => OperandsSafe
  BY DEF IndInv, TrapInv, TTrap, Steps, OperandsSafe
<1> QED
  BY <1>1, InstructionsInvHolds, PTL
=============================================================================
