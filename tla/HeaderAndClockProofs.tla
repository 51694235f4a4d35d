----------------------- MODULE HeaderAndClockProofs ------------------------
(***************************************************************************)
(* Proofs about two small modules of the server: the header of a page      *)
(* table entry, and the clock that chooses what is evicted.                *)
(*                                                                         *)
(* PteHeader, for any number of client threads: the reference count of a   *)
(* page table entry is exact, its lock excludes references, and the        *)
(* reports of the first pin and the last unpin are balanced up to those    *)
(* that stray references leave out.                                        *)
(***************************************************************************)
EXTENDS PteHeader, Clock, FiniteSetTheorems, TLAPS

\* A subset of the clients is finite and fits the ref_count field.
LEMMA HoldersFit ==
    ASSUME NEW S \in SUBSET Clients
    PROVE  /\ IsFiniteSet(S)
           /\ Cardinality(S) \in 0..(RefCounts - 1)
           /\ S = {} <=> Cardinality(S) = 0
<1>1. IsFiniteSet(S) /\ Cardinality(S) <= Cardinality(Clients)
  BY ClientsAssumption, FS_Subset
<1>2. Cardinality(S) \in Nat /\ Cardinality(Clients) \in Nat
  BY <1>1, ClientsAssumption, FS_CardinalityType
<1>3. S = {} <=> Cardinality(S) = 0
  BY <1>1, FS_EmptySet
<1>. QED  BY <1>1, <1>2, <1>3, RefCountsAssumption

\* A client without a reference gets one: the field does not overflow.
LEMMA OneMore ==
    ASSUME NEW S \in SUBSET Clients, NEW t \in Clients, t \notin S
    PROVE  /\ Cardinality(S \cup {t}) = Cardinality(S) + 1
           /\ (Cardinality(S) + 1) % RefCounts = Cardinality(S) + 1
<1>1. Cardinality(S \cup {t}) = Cardinality(S) + 1
  BY HoldersFit, FS_AddElement
<1>2. Cardinality(S \cup {t}) \in 0..(RefCounts - 1) /\ Cardinality(S) \in Nat
  BY HoldersFit
<1>. QED  BY <1>1, <1>2, RefCountsAssumption

\* A client gives its reference back: the field does not wrap around.
LEMMA OneLess ==
    ASSUME NEW S \in SUBSET Clients, NEW t \in S
    PROVE  /\ Cardinality(S \ {t}) = Cardinality(S) - 1
           /\ Cardinality(S) >= 1
           /\ (Cardinality(S) + RefCounts - 1) % RefCounts = Cardinality(S) - 1
<1>1. Cardinality(S \ {t}) = Cardinality(S) - 1
  BY HoldersFit, FS_RemoveElement
<1>2. Cardinality(S) \in 0..(RefCounts - 1) /\ Cardinality(S) # 0
  BY HoldersFit
<1>. QED  BY <1>1, <1>2, RefCountsAssumption

-----------------------------------------------------------------------------
\* The comparison of an exchange and the word it stores are abbreviations.
USE DEF Exchanges, ServerExchanges, Pinnable, Lockable, FirstPin, LastPin,
        Incremented, Decremented, Referencing

\* The empty entry satisfies the invariant.
LEMMA InitIndInv == Init => IndInv
<1>. SUFFICES ASSUME Init PROVE IndInv
  OBVIOUS
<1>1. Cardinality({}) = 0 /\ Cardinality({}) \in 0..(RefCounts - 1)
  BY FS_EmptySet, HoldersFit
<1>1a. EMPTY_HEADER \in Header
  BY <1>1 DEF EMPTY_HEADER, Header
<1>2. TypeOK
 <2>1. header \in Header /\ srv_old \in Header
  BY <1>1a DEF Init
 <2>2. old \in [Clients -> Header]
  BY <1>1a DEF Init
 <2>3. /\ pc \in [Clients -> {"idle", "waits", "inc", "held", "dec", "stray", "undo"}]
       /\ is_write \in [Clients -> BOOLEAN]
  BY DEF Init
 <2>4. /\ srv_pc \in {"idle", "lock", "load", "store", "unlock"}
       /\ todo \in Stores
       /\ for \in SUBSET Clients /\ holders \in SUBSET Clients
       /\ noted \in Int /\ drift \in Int
  BY DEF Init, Stores
 <2>5. modified \in BOOLEAN
  BY Zenon DEF Init
 <2>. QED  BY <2>1, <2>2, <2>3, <2>4, <2>5 DEF TypeOK
<1>3. RefCountExact /\ ReportsBalanced
  BY <1>1 DEF Init, EMPTY_HEADER, RefCountExact, ReportsBalanced
<1>4. LockExcludesPins /\ DecAssertion /\ DirtyKept
  BY DEF Init, EMPTY_HEADER, LockExcludesPins, DecAssertion, DirtyKept
<1>5. HoldersExact /\ ServerOwnsBusy
  BY DEF Init, EMPTY_HEADER, HoldersExact, ServerOwnsBusy
<1>. QED  BY <1>2, <1>3, <1>4, <1>5 DEF IndInv

-----------------------------------------------------------------------------
(* Every step preserves the invariant, one lemma for each step that changes *)
(* the word or the set of holders.                                          *)

\* A successful increment adds one holder and one to the count.
LEMMA IncCasIndInv == ASSUME IndInv, NEW t \in Clients, IncCas(t) PROVE IndInv'
<1>1. t \notin holders /\ holders' = holders \cup {t}
  BY DEF IndInv, TypeOK, HoldersExact, IncCas
<1>2. /\ header.ref_count = Cardinality(holders)
      /\ Cardinality(holders) \in 0..(RefCounts - 1)
      /\ Cardinality(holders') \in 0..(RefCounts - 1)
      /\ Cardinality(holders') = Cardinality(holders) + 1
      /\ (Cardinality(holders) + 1) % RefCounts = Cardinality(holders')
  BY <1>1, OneMore, HoldersFit DEF IndInv, TypeOK, RefCountExact
<1>3. /\ header'.ref_count = Cardinality(holders')
      /\ header' \in Header
  BY <1>2 DEF IndInv, TypeOK, Header, IncCas
<1>4. TypeOK'
  BY <1>1, <1>3 DEF IndInv, TypeOK, IncCas, server
<1>5. RefCountExact'
  BY <1>3 DEF RefCountExact
<1>6. ReportsBalanced'
  BY <1>2, <1>3 DEF IndInv, TypeOK, ReportsBalanced, RefCountExact, IncCas
<1>7. HoldersExact'
 <2>1. ~header.busy /\ pc[t] = "inc"
  BY DEF IncCas
 <2>2. \A u \in for : u \notin holders /\ u # t
  BY <2>1 DEF IndInv, TypeOK, HoldersExact, ServerOwnsBusy
 <2>. QED
  BY <1>1, <2>1, <2>2 DEF IndInv, TypeOK, HoldersExact, IncCas, server
<1>8. LockExcludesPins' /\ DecAssertion' /\ DirtyKept'
  BY DEF IndInv, TypeOK, Header, LockExcludesPins, DecAssertion, DirtyKept, IncCas
<1>9. ServerOwnsBusy'
  BY DEF IndInv, TypeOK, Header, ServerOwnsBusy, IncCas, server
<1>. QED  BY <1>4, <1>5, <1>6, <1>7, <1>8, <1>9 DEF IndInv

\* A successful decrement removes one holder and one from the count.
LEMMA DecCasIndInv == ASSUME IndInv, NEW t \in Clients, DecCas(t) PROVE IndInv'
<1>1. t \in holders /\ holders' = holders \ {t}
  BY DEF IndInv, TypeOK, HoldersExact, DecCas
<1>2. /\ header.ref_count = Cardinality(holders)
      /\ Cardinality(holders) \in 0..(RefCounts - 1)
      /\ Cardinality(holders') \in 0..(RefCounts - 1)
      /\ Cardinality(holders) = Cardinality(holders') + 1
      /\ (Cardinality(holders) + RefCounts - 1) % RefCounts = Cardinality(holders')
  BY <1>1, OneLess, HoldersFit DEF IndInv, TypeOK, RefCountExact
<1>3. /\ header'.ref_count = Cardinality(holders')
      /\ header' \in Header
  BY <1>2 DEF IndInv, TypeOK, Header, DecCas
<1>4. TypeOK'
  BY <1>1, <1>3 DEF IndInv, TypeOK, DecCas, server
<1>5. RefCountExact'
  BY <1>3 DEF RefCountExact
<1>6. ReportsBalanced'
  BY <1>2, <1>3 DEF IndInv, TypeOK, Header, ReportsBalanced, RefCountExact, DecCas
<1>7. LockExcludesPins' /\ DecAssertion' /\ DirtyKept'
  BY DEF IndInv, TypeOK, Header, LockExcludesPins, DecAssertion, DirtyKept, DecCas
<1>8. HoldersExact' /\ ServerOwnsBusy'
  BY DEF IndInv, TypeOK, Header, LockExcludesPins, HoldersExact, ServerOwnsBusy,
         DecCas, server
<1>. QED  BY <1>4, <1>5, <1>6, <1>7, <1>8 DEF IndInv

\* A stray reference is counted like any other; what nobody reports is in the drift.
LEMMA StrayCasIndInv == ASSUME IndInv, NEW t \in Clients, StrayCas(t) PROVE IndInv'
<1>1. t \notin holders /\ holders' = holders \cup {t}
  BY DEF IndInv, TypeOK, HoldersExact, StrayCas
<1>2. /\ header.ref_count = Cardinality(holders)
      /\ Cardinality(holders) \in 0..(RefCounts - 1)
      /\ Cardinality(holders') \in 0..(RefCounts - 1)
      /\ Cardinality(holders') = Cardinality(holders) + 1
      /\ (Cardinality(holders) + 1) % RefCounts = Cardinality(holders')
  BY <1>1, OneMore, HoldersFit DEF IndInv, TypeOK, RefCountExact
<1>3. /\ header'.ref_count = Cardinality(holders')
      /\ header' \in Header
  BY <1>2 DEF IndInv, TypeOK, Header, StrayCas
<1>4. TypeOK'
  BY <1>1, <1>3 DEF IndInv, TypeOK, StrayCas, server
<1>5. RefCountExact'
  BY <1>3 DEF RefCountExact
<1>6. ReportsBalanced'
  BY <1>2, <1>3 DEF IndInv, TypeOK, ReportsBalanced, RefCountExact, StrayCas
<1>7. HoldersExact'
 <2>1. ~header.busy /\ pc[t] = "inc"
  BY DEF StrayCas
 <2>2. \A u \in for : u \notin holders /\ u # t
  BY <2>1 DEF IndInv, TypeOK, HoldersExact, ServerOwnsBusy
 <2>. QED
  BY <1>1, <2>1, <2>2 DEF IndInv, TypeOK, HoldersExact, StrayCas, server
<1>8. LockExcludesPins' /\ DecAssertion' /\ DirtyKept'
  BY DEF IndInv, TypeOK, Header, LockExcludesPins, DecAssertion, DirtyKept, StrayCas
<1>9. ServerOwnsBusy'
  BY DEF IndInv, TypeOK, Header, ServerOwnsBusy, StrayCas, server
<1>. QED  BY <1>4, <1>5, <1>6, <1>7, <1>8, <1>9 DEF IndInv

\* So is its return, by a client that has written nothing.
LEMMA StrayDecCasIndInv == ASSUME IndInv, NEW t \in Clients, StrayDecCas(t) PROVE IndInv'
<1>1. t \in holders /\ holders' = holders \ {t}
  BY DEF IndInv, TypeOK, HoldersExact, StrayDecCas
<1>2. /\ header.ref_count = Cardinality(holders)
      /\ Cardinality(holders) \in 0..(RefCounts - 1)
      /\ Cardinality(holders') \in 0..(RefCounts - 1)
      /\ Cardinality(holders) = Cardinality(holders') + 1
      /\ (Cardinality(holders) + RefCounts - 1) % RefCounts = Cardinality(holders')
  BY <1>1, OneLess, HoldersFit DEF IndInv, TypeOK, RefCountExact
<1>3. /\ header'.ref_count = Cardinality(holders')
      /\ header' \in Header
  BY <1>2 DEF IndInv, TypeOK, Header, StrayDecCas
<1>4. TypeOK'
  BY <1>1, <1>3 DEF IndInv, TypeOK, StrayDecCas, server
<1>5. RefCountExact'
  BY <1>3 DEF RefCountExact
<1>6. ReportsBalanced'
  BY <1>2, <1>3 DEF IndInv, TypeOK, Header, ReportsBalanced, RefCountExact, StrayDecCas
<1>7. LockExcludesPins' /\ DecAssertion' /\ DirtyKept'
  BY DEF IndInv, TypeOK, Header, LockExcludesPins, DecAssertion, DirtyKept, StrayDecCas
<1>8. HoldersExact' /\ ServerOwnsBusy'
  BY DEF IndInv, TypeOK, Header, LockExcludesPins, HoldersExact, ServerOwnsBusy,
         StrayDecCas, server
<1>. QED  BY <1>4, <1>5, <1>6, <1>7, <1>8 DEF IndInv

\* A plain store under the lock writes back the word it has loaded: nobody else
\* has changed it, because no exchange succeeds on a busy entry.
LEMMA StoreIndInv == ASSUME IndInv, Store PROVE IndInv'
<1>0. /\ srv_old = header
      /\ header.busy /\ header.ref_count = 0 /\ holders = {} /\ Cardinality({}) = 0
  <2>1. Cardinality({}) = 0 BY FS_EmptySet
  <2>. QED BY <2>1 DEF IndInv, TypeOK, Stores, RefCountExact, ServerOwnsBusy, HoldersExact, Store
<1>1. TypeOK' /\ RefCountExact' /\ ReportsBalanced' /\ HoldersExact' /\ ServerOwnsBusy'
  <2>1. CASE todo = "exist"
    <3>1. header' = [header EXCEPT !.exist = TRUE]
      BY <1>0, <2>1 DEF Store, Stored
    <3>. QED
      BY <1>0, <2>1, <3>1
         DEF IndInv, TypeOK, Header, Stores, RefCountExact, ReportsBalanced,
             HoldersExact, ServerOwnsBusy, Store, After
  <2>2. CASE todo = "ref_count"
    <3>1. header' = [header EXCEPT !.ref_count = 1]
      BY <1>0, <2>2 DEF Store, Stored
    <3>2. PICK u \in Clients : for = {u}
      BY <2>2 DEF IndInv, TypeOK, HoldersExact, ServerOwnsBusy
    <3>3. Cardinality({u}) = 1 /\ Cardinality({u}) \in 0..(RefCounts - 1)
      BY FS_Singleton, HoldersFit
    <3>3a. holders' = {u}
      BY <1>0, <2>2, <3>2 DEF Store
    <3>4. TypeOK'
      BY <1>0, <2>2, <3>1, <3>2, <3>3, <3>3a DEF IndInv, TypeOK, Header, Stores, Store, After
    <3>5. RefCountExact' /\ ReportsBalanced'
      BY <1>0, <2>2, <3>1, <3>2, <3>3, <3>3a DEF IndInv, TypeOK, Header, RefCountExact, ReportsBalanced, Store
    <3>6. HoldersExact'
      BY <1>0, <2>2, <3>1, <3>2, <3>3, <3>3a DEF IndInv, TypeOK, HoldersExact, Store, After
    <3>7. ServerOwnsBusy'
      BY <1>0, <2>2, <3>1, <3>2, <3>3, <3>3a DEF IndInv, TypeOK, Header, ServerOwnsBusy, Store, After
    <3>. QED BY <3>4, <3>5, <3>6, <3>7
  <2>3. CASE todo = "clear exist"
    <3>1. header' = [header EXCEPT !.exist = FALSE]
      BY <1>0, <2>3 DEF Store, Stored
    <3>. QED
      BY <1>0, <2>3, <3>1
         DEF IndInv, TypeOK, Header, Stores, RefCountExact, ReportsBalanced,
             HoldersExact, ServerOwnsBusy, Store, After
  <2>4. CASE todo = "clear dirty"
    <3>1. header' = [header EXCEPT !.dirty = FALSE]
      BY <1>0, <2>4 DEF Store, Stored
    <3>. QED
      BY <1>0, <2>4, <3>1
         DEF IndInv, TypeOK, Header, Stores, RefCountExact, ReportsBalanced,
             HoldersExact, ServerOwnsBusy, Store, After
  <2>. QED
    BY <2>1, <2>2, <2>3, <2>4 DEF IndInv, TypeOK, Stores, ServerOwnsBusy, Store
<1>2. LockExcludesPins' /\ DecAssertion'
  BY <1>0 DEF IndInv, TypeOK, LockExcludesPins, DecAssertion, HoldersExact, Store
<1>3. DirtyKept'
  BY <1>0 DEF IndInv, TypeOK, Header, Stores, DirtyKept, ServerOwnsBusy, Store, Stored
<1>. QED  BY <1>1, <1>2, <1>3 DEF IndInv

\* A holder that loads the word finds the entry mapped, unlocked and referenced.
LEMMA HolderSees ==
    ASSUME IndInv, NEW t \in Clients, pc[t] \in Referencing
    PROVE  header.exist /\ ~header.busy /\ header.ref_count > 0
  BY HoldersFit
     DEF IndInv, TypeOK, Header, HoldersExact, LockExcludesPins, RefCountExact

\* The steps that change neither the word nor the holders, and the two that only
\* set or clear busy.
LEMMA NextIndInv == IndInv /\ [Next]_vars => IndInv'
<1>. SUFFICES ASSUME IndInv, [Next]_vars PROVE IndInv'
  OBVIOUS
<1>1. ASSUME NEW t \in Clients, IncLoad(t) PROVE IndInv'
  <2>1. TypeOK'
    BY <1>1
       DEF IndInv, TypeOK, Header, Stores, IncLoad, server
  <2>2. RefCountExact' /\ ReportsBalanced' /\ DirtyKept'
    BY <1>1
       DEF IndInv, TypeOK, Header, RefCountExact, ReportsBalanced, DirtyKept, IncLoad, server
  <2>3. LockExcludesPins' /\ DecAssertion'
    BY <1>1
       DEF IndInv, TypeOK, Header, LockExcludesPins, DecAssertion, RefCountExact,
           HoldersExact, ServerOwnsBusy, IncLoad, server
  <2>4. HoldersExact' /\ ServerOwnsBusy'
    BY <1>1
       DEF IndInv, TypeOK, Header, Stores, RefCountExact, HoldersExact,
           ServerOwnsBusy, IncLoad, server
  <2>. QED  BY <2>1, <2>2, <2>3, <2>4 DEF IndInv
<1>2. ASSUME NEW t \in Clients, IncRefused(t) PROVE IndInv'
  <2>1. TypeOK'
    BY <1>2
       DEF IndInv, TypeOK, Header, Stores, IncRefused, server
  <2>2. RefCountExact' /\ ReportsBalanced' /\ DirtyKept'
    BY <1>2
       DEF IndInv, TypeOK, Header, RefCountExact, ReportsBalanced, DirtyKept, IncRefused, server
  <2>3. LockExcludesPins' /\ DecAssertion'
    BY <1>2
       DEF IndInv, TypeOK, Header, LockExcludesPins, DecAssertion, RefCountExact,
           HoldersExact, ServerOwnsBusy, IncRefused, server
  <2>4. HoldersExact' /\ ServerOwnsBusy'
    BY <1>2
       DEF IndInv, TypeOK, Header, Stores, RefCountExact, HoldersExact,
           ServerOwnsBusy, IncRefused, server
  <2>. QED  BY <2>1, <2>2, <2>3, <2>4 DEF IndInv
<1>3. ASSUME NEW t \in Clients, CasFails(t) PROVE IndInv'
  <2>1. TypeOK'
    BY <1>3
       DEF IndInv, TypeOK, Header, Stores, CasFails, server
  <2>2. RefCountExact' /\ ReportsBalanced' /\ DirtyKept'
    BY <1>3
       DEF IndInv, TypeOK, Header, RefCountExact, ReportsBalanced, DirtyKept, CasFails, server
  <2>3. LockExcludesPins' /\ DecAssertion'
    BY <1>3, HolderSees
       DEF IndInv, TypeOK, Header, LockExcludesPins, DecAssertion, RefCountExact,
           HoldersExact, ServerOwnsBusy, CasFails, server
  <2>4. HoldersExact' /\ ServerOwnsBusy'
    BY <1>3, HolderSees
       DEF IndInv, TypeOK, Header, Stores, RefCountExact, HoldersExact,
           ServerOwnsBusy, CasFails, server
  <2>. QED  BY <2>1, <2>2, <2>3, <2>4 DEF IndInv
<1>4. ASSUME NEW t \in Clients, NEW w \in BOOLEAN, DecLoad(t, w) PROVE IndInv'
  <2>1. TypeOK'
    BY <1>4
       DEF IndInv, TypeOK, Header, Stores, DecLoad, server
  <2>2. RefCountExact' /\ ReportsBalanced' /\ DirtyKept'
    BY <1>4
       DEF IndInv, TypeOK, Header, RefCountExact, ReportsBalanced, DirtyKept, DecLoad, server
  <2>3. LockExcludesPins' /\ DecAssertion'
    BY <1>4, HolderSees
       DEF IndInv, TypeOK, Header, LockExcludesPins, DecAssertion, RefCountExact,
           HoldersExact, ServerOwnsBusy, DecLoad, server
  <2>4. HoldersExact' /\ ServerOwnsBusy'
    BY <1>4, HolderSees
       DEF IndInv, TypeOK, Header, Stores, RefCountExact, HoldersExact,
           ServerOwnsBusy, DecLoad, server
  <2>. QED  BY <2>1, <2>2, <2>3, <2>4 DEF IndInv
<1>5. ASSUME NEW t \in Clients, Retry(t) PROVE IndInv'
  <2>1. TypeOK'
    BY <1>5
       DEF IndInv, TypeOK, Header, Stores, Retry, server
  <2>2. RefCountExact' /\ ReportsBalanced' /\ DirtyKept'
    BY <1>5
       DEF IndInv, TypeOK, Header, RefCountExact, ReportsBalanced, DirtyKept, Retry, server
  <2>3. LockExcludesPins' /\ DecAssertion'
    BY <1>5
       DEF IndInv, TypeOK, Header, LockExcludesPins, DecAssertion, RefCountExact,
           HoldersExact, ServerOwnsBusy, Retry, server
  <2>4. HoldersExact' /\ ServerOwnsBusy'
    BY <1>5
       DEF IndInv, TypeOK, Header, Stores, RefCountExact, HoldersExact,
           ServerOwnsBusy, Retry, server
  <2>. QED  BY <2>1, <2>2, <2>3, <2>4 DEF IndInv
<1>6. ASSUME NEW t \in Clients, CreateLoad(t) PROVE IndInv'
  <2>1. TypeOK'
    BY <1>6
       DEF IndInv, TypeOK, Header, Stores, CreateLoad, server
  <2>2. RefCountExact' /\ ReportsBalanced' /\ DirtyKept'
    BY <1>6
       DEF IndInv, TypeOK, Header, RefCountExact, ReportsBalanced, DirtyKept, CreateLoad, server
  <2>3. LockExcludesPins' /\ DecAssertion'
    BY <1>6
       DEF IndInv, TypeOK, Header, LockExcludesPins, DecAssertion, RefCountExact,
           HoldersExact, ServerOwnsBusy, CreateLoad, server
  <2>4. HoldersExact' /\ ServerOwnsBusy'
    BY <1>6
       DEF IndInv, TypeOK, Header, Stores, RefCountExact, HoldersExact,
           ServerOwnsBusy, CreateLoad, server
  <2>. QED  BY <2>1, <2>2, <2>3, <2>4 DEF IndInv
<1>7. CASE DeleteLoad
  <2>1. TypeOK'
    BY <1>7
       DEF IndInv, TypeOK, Header, Stores, DeleteLoad, server
  <2>2. RefCountExact' /\ ReportsBalanced' /\ DirtyKept'
    BY <1>7
       DEF IndInv, TypeOK, Header, RefCountExact, ReportsBalanced, DirtyKept, DeleteLoad, server
  <2>3. LockExcludesPins' /\ DecAssertion'
    BY <1>7
       DEF IndInv, TypeOK, Header, LockExcludesPins, DecAssertion, RefCountExact,
           HoldersExact, ServerOwnsBusy, DeleteLoad, server
  <2>4. HoldersExact' /\ ServerOwnsBusy'
    BY <1>7
       DEF IndInv, TypeOK, Header, Stores, RefCountExact, HoldersExact,
           ServerOwnsBusy, DeleteLoad, server
  <2>. QED  BY <2>1, <2>2, <2>3, <2>4 DEF IndInv
<1>8. CASE LockRefused
  <2>1. TypeOK'
    BY <1>8
       DEF IndInv, TypeOK, Header, Stores, LockRefused, server
  <2>2. RefCountExact' /\ ReportsBalanced' /\ DirtyKept'
    BY <1>8
       DEF IndInv, TypeOK, Header, RefCountExact, ReportsBalanced, DirtyKept, LockRefused, server
  <2>3. LockExcludesPins' /\ DecAssertion'
    BY <1>8, HoldersFit
       DEF IndInv, TypeOK, Header, LockExcludesPins, DecAssertion, RefCountExact,
           HoldersExact, ServerOwnsBusy, LockRefused, server
  <2>4. HoldersExact' /\ ServerOwnsBusy'
    BY <1>8, HoldersFit
       DEF IndInv, TypeOK, Header, Stores, RefCountExact, HoldersExact,
           ServerOwnsBusy, LockRefused, server
  <2>. QED  BY <2>1, <2>2, <2>3, <2>4 DEF IndInv
<1>9. CASE LockCas
  <2>1. TypeOK'
    BY <1>9
       DEF IndInv, TypeOK, Header, Stores, LockCas, server
  <2>2. RefCountExact' /\ ReportsBalanced' /\ DirtyKept'
    BY <1>9
       DEF IndInv, TypeOK, Header, RefCountExact, ReportsBalanced, DirtyKept, LockCas, server
  <2>3. LockExcludesPins' /\ DecAssertion'
    BY <1>9, HoldersFit
       DEF IndInv, TypeOK, Header, LockExcludesPins, DecAssertion, RefCountExact,
           HoldersExact, ServerOwnsBusy, LockCas, server
  <2>4. HoldersExact' /\ ServerOwnsBusy'
    BY <1>9, HoldersFit
       DEF IndInv, TypeOK, Header, Stores, RefCountExact, HoldersExact,
           ServerOwnsBusy, LockCas, server
  <2>. QED  BY <2>1, <2>2, <2>3, <2>4 DEF IndInv
<1>10. CASE ServerCasFails
  <2>1. TypeOK'
    BY <1>10
       DEF IndInv, TypeOK, Header, Stores, ServerCasFails, server
  <2>2. RefCountExact' /\ ReportsBalanced' /\ DirtyKept'
    BY <1>10
       DEF IndInv, TypeOK, Header, RefCountExact, ReportsBalanced, DirtyKept, ServerCasFails, server
  <2>3. LockExcludesPins' /\ DecAssertion'
    BY <1>10
       DEF IndInv, TypeOK, Header, LockExcludesPins, DecAssertion, RefCountExact,
           HoldersExact, ServerOwnsBusy, ServerCasFails, server
  <2>4. HoldersExact' /\ ServerOwnsBusy'
    BY <1>10
       DEF IndInv, TypeOK, Header, Stores, RefCountExact, HoldersExact,
           ServerOwnsBusy, ServerCasFails, server
  <2>. QED  BY <2>1, <2>2, <2>3, <2>4 DEF IndInv
<1>11. CASE StoreLoad
  <2>1. TypeOK'
    BY <1>11
       DEF IndInv, TypeOK, Header, Stores, StoreLoad, server
  <2>2. RefCountExact' /\ ReportsBalanced' /\ DirtyKept'
    BY <1>11
       DEF IndInv, TypeOK, Header, RefCountExact, ReportsBalanced, DirtyKept, StoreLoad, server
  <2>3. LockExcludesPins' /\ DecAssertion'
    BY <1>11
       DEF IndInv, TypeOK, Header, LockExcludesPins, DecAssertion, RefCountExact,
           HoldersExact, ServerOwnsBusy, StoreLoad, server
  <2>4. HoldersExact' /\ ServerOwnsBusy'
    BY <1>11
       DEF IndInv, TypeOK, Header, Stores, RefCountExact, HoldersExact,
           ServerOwnsBusy, StoreLoad, server
  <2>. QED  BY <2>1, <2>2, <2>3, <2>4 DEF IndInv
<1>12. CASE UnlockLoad
  <2>1. TypeOK'
    BY <1>12
       DEF IndInv, TypeOK, Header, Stores, UnlockLoad, server
  <2>2. RefCountExact' /\ ReportsBalanced' /\ DirtyKept'
    BY <1>12
       DEF IndInv, TypeOK, Header, RefCountExact, ReportsBalanced, DirtyKept, UnlockLoad, server
  <2>3. LockExcludesPins' /\ DecAssertion'
    BY <1>12
       DEF IndInv, TypeOK, Header, LockExcludesPins, DecAssertion, RefCountExact,
           HoldersExact, ServerOwnsBusy, UnlockLoad, server
  <2>4. HoldersExact' /\ ServerOwnsBusy'
    BY <1>12
       DEF IndInv, TypeOK, Header, Stores, RefCountExact, HoldersExact,
           ServerOwnsBusy, UnlockLoad, server
  <2>. QED  BY <2>1, <2>2, <2>3, <2>4 DEF IndInv
<1>13. CASE UnlockCas
  <2>1. TypeOK'
    BY <1>13
       DEF IndInv, TypeOK, Header, Stores, UnlockCas, server
  <2>2. RefCountExact' /\ ReportsBalanced' /\ DirtyKept'
    BY <1>13
       DEF IndInv, TypeOK, Header, RefCountExact, ReportsBalanced, DirtyKept, UnlockCas, server
  <2>3. LockExcludesPins' /\ DecAssertion'
    BY <1>13
       DEF IndInv, TypeOK, Header, LockExcludesPins, DecAssertion, RefCountExact,
           HoldersExact, ServerOwnsBusy, UnlockCas, server
  <2>4. HoldersExact' /\ ServerOwnsBusy'
    BY <1>13
       DEF IndInv, TypeOK, Header, Stores, RefCountExact, HoldersExact,
           ServerOwnsBusy, UnlockCas, server
  <2>. QED  BY <2>1, <2>2, <2>3, <2>4 DEF IndInv
<1>14. ASSUME NEW t \in Clients, StrayLoad(t) PROVE IndInv'
  <2>1. TypeOK'
    BY <1>14
       DEF IndInv, TypeOK, Header, Stores, StrayLoad, server
  <2>2. RefCountExact' /\ ReportsBalanced' /\ DirtyKept'
    BY <1>14
       DEF IndInv, TypeOK, Header, RefCountExact, ReportsBalanced, DirtyKept, StrayLoad, server
  <2>3. LockExcludesPins' /\ DecAssertion'
    BY <1>14, HolderSees
       DEF IndInv, TypeOK, Header, LockExcludesPins, DecAssertion, RefCountExact,
           HoldersExact, ServerOwnsBusy, StrayLoad, server
  <2>4. HoldersExact' /\ ServerOwnsBusy'
    BY <1>14, HolderSees
       DEF IndInv, TypeOK, Header, Stores, RefCountExact, HoldersExact,
           ServerOwnsBusy, StrayLoad, server
  <2>. QED  BY <2>1, <2>2, <2>3, <2>4 DEF IndInv
<1>15. CASE UNCHANGED vars
  <2>1. TypeOK' /\ RefCountExact' /\ ReportsBalanced' /\ LockExcludesPins'
    BY <1>15 DEF IndInv, vars, TypeOK, RefCountExact, ReportsBalanced, LockExcludesPins
  <2>2. DecAssertion' /\ DirtyKept' /\ HoldersExact' /\ ServerOwnsBusy'
    BY <1>15 DEF IndInv, vars, DecAssertion, DirtyKept, HoldersExact, ServerOwnsBusy
  <2>. QED  BY <2>1, <2>2 DEF IndInv
<1>. QED
  BY <1>1, <1>2, <1>3, <1>4, <1>5, <1>6, <1>7, <1>8, <1>9, <1>10, <1>11, <1>12, <1>13, <1>14,
     <1>15, IncCasIndInv, DecCasIndInv, StrayCasIndInv, StrayDecCasIndInv, StoreIndInv
     DEF Next, ServerStep, ClientStep

-----------------------------------------------------------------------------
\* The invariant holds in every behaviour of the entry.
THEOREM IndInvHolds == Spec => []IndInv
  BY InitIndInv, NextIndInv, PTL DEF Spec

\* For any number of threads that pin, unpin and evict concurrently, the reference
\* count is the number of threads with a reference.
THEOREM RefCountIsExact == Spec => []RefCountExact
<1>1. IndInv => RefCountExact
  BY DEF IndInv
<1>. QED  BY <1>1, IndInvHolds, PTL

\* The reports of first pins and last unpins, from which the server computes
\* pinned_size, are balanced in every interleaving, but for the first pins and last
\* unpins of the stray references that pin() takes back, which are off by the drift.
THEOREM ReportsAreBalanced == Spec => []ReportsBalanced
<1>1. IndInv => ReportsBalanced
  BY DEF IndInv
<1>. QED  BY <1>1, IndInvHolds, PTL

\* An entry is never locked for eviction while a thread has a reference, strays
\* included.
THEOREM PinsAreSafe == Spec => []LockExcludesPins
<1>1. IndInv => LockExcludesPins
  BY DEF IndInv
<1>. QED  BY <1>1, IndInvHolds, PTL

\* The assertion of dec_ref_count never fails, in unpin() and in the decrement with which
\* pin() takes a stray reference back.
THEOREM DecAssertionHolds == Spec => []DecAssertion
<1>1. IndInv => DecAssertion
  BY DEF IndInv
<1>. QED  BY <1>1, IndInvHolds, PTL

\* The dirty bit of a writer is kept until the mapping is deleted.
THEOREM DirtyIsKept == Spec => []DirtyKept
<1>1. IndInv => DirtyKept
  BY DEF IndInv
<1>. QED  BY <1>1, IndInvHolds, PTL

-----------------------------------------------------------------------------
(***************************************************************************)
(* Clock, for any number of frames and any length of the prefetch loop:    *)
(* pop starves no frame, although the prefetch loop jumps over frames that *)
(* have their second chance, count is the number of frames, and the clock  *)
(* implements Replacement.                                                 *)
(***************************************************************************)

\* The number of frames, short.
N == max_ppage_id

\* How far frame x is ahead of frame p, in the order the hand turns.
Pos(p, x) == IF x >= p THEN x - p ELSE x - p + N

\* How far the hand is ahead of frame p.
H(p) == Pos(p, hand)

\* In this round of the hand after p at most k frames were taken: the hand takes each
\* frame it passes at most once.
Counted(p, k) == k = 0 \/ k < H(p) \/ (k = H(p) /\ states[hand] # 1)

\* No frame from that distance on can be taken.
Gap(p, from) == \A x \in PPages : Pos(p, x) >= from => states[x] # 1

\* While the prefetch loop runs, k is the place of the frame just popped, unless the hand
\* has passed p since; what the loop has passed could not be taken, and each place cost
\* one iteration.
InRound(p, k) ==
    \/ k = 0
    \/ /\ k = Pos(p, popped) /\ k <= H(p) /\ loops + (H(p) - k) = MaxLoops
       /\ \A x \in PPages : Pos(p, x) \in k .. H(p) - 1 => states[x] # 1

\* Frame p is referenced: the hand has jumped over it at most N - b times, for each of
\* them at most N - 1 frames were taken, and in the present round at most k.  The frames
\* from b on cannot be taken, so the last frame of a round
\* is at a smaller distance ahead of p than that of the round before.
Rounds(p, b, k) ==
    /\ age[p] <= (N - b) * (N - 1) + k
    /\ Counted(p, k) \/ (H(p) = 0 /\ pop_pc = "sweep")
    /\ Gap(p, b) \/ (pop_pc = "sweep" /\ (H(p) = 0 \/ (H(p) >= b /\ Gap(p, H(p)))))
    /\ pop_pc = "prefetch" => InRound(p, k)

\* The places a jump can have started from: the prefetch loop covers the distance to p in
\* less than MaxLoops iterations.
Barriers == {b \in 1 .. N : N - b < MaxLoops}

\* Frame p has its second chance.
Referenced(p) == \E b \in Barriers : \E k \in 0 .. b - 1 : Rounds(p, b, k)

\* Frame p has lost its second chance after the rounds before and j frames of the round
\* it was lost in; since then at most k frames were taken.
Last(p, b, j, k) ==
    /\ age[p] <= (N - b) * (N - 1) + j + k
    /\ Counted(p, k) \/ H(p) = 0

\* Frame p is taken when the hand comes to it again.
LastRound(p) ==
    \E b \in Barriers : \E j \in 0 .. b - 1 : \E k \in 0 .. N - 1 : Last(p, b, j, k)

\* What bounds the age of frame p, by its state.
PageInv(p) ==
    /\ states[p] = 0 => age[p] = 0
    /\ states[p] = 1 => LastRound(p)
    /\ states[p] = 2 => Referenced(p)

\* The inductive invariant.  The bound itself is not inductive: it takes the distance of
\* the hand and the frames that cannot be taken to know that a jump uses up a place.
ClockInv ==
    /\ ClockTypeOK
    /\ count = Cardinality(InClock)
    /\ pop_pc = "prefetch" => loops >= 1
    /\ \A p \in PPages : PageInv(p)

\* One more factor is at least one more summand.
LEMMA MulStep ==
    ASSUME NEW a \in Nat, NEW c \in Nat, NEW m \in Nat, a < c
    PROVE  a * m + m <= c * m
<1>1. PICK d \in Nat : c = a + 1 + d  BY c - a - 1 \in Nat, c = a + 1 + (c - a - 1)
<1>2. c * m = a * m + m + d * m  BY <1>1
<1>3. d * m >= 0 /\ a * m \in Nat /\ d * m \in Nat  OBVIOUS
<1>. QED  BY <1>2, <1>3

\* Products of natural numbers are natural numbers.
LEMMA MulType == \A a, b \in Nat : a * b \in Nat
  OBVIOUS

\* Distances are less than N, and only p is at distance 0 from itself.
LEMMA PosType ==
    ASSUME NEW p \in PPages, NEW x \in PPages
    PROVE  /\ Pos(p, x) \in 0 .. N - 1
           /\ Pos(p, x) = 0 <=> x = p
           /\ N \in Nat \ {0}
  BY SizeAssumption DEF Pos, PPages, N

\* Different frames are at different distances.
LEMMA PosInjective ==
    ASSUME NEW p \in PPages, NEW x \in PPages, NEW y \in PPages, Pos(p, x) = Pos(p, y)
    PROVE  x = y
  BY SizeAssumption DEF Pos, PPages, N

\* The hand moves one place, and from the last place to p.
LEMMA PosAdvance ==
    ASSUME NEW p \in PPages, hand \in PPages, Advance
    PROVE  /\ hand' \in PPages
           /\ H(p)' = IF H(p) = N - 1 THEN 0 ELSE H(p) + 1
<1>1. hand' = IF hand = N - 1 THEN 0 ELSE hand + 1
  BY SizeAssumption DEF Advance, PPages, N
<1>. QED  BY <1>1, SizeAssumption DEF H, Pos, PPages, N

\* Every set of frames is finite.
LEMMA InClockFinite == \A S \in SUBSET PPages : IsFiniteSet(S) /\ Cardinality(S) \in Nat
<1>1. IsFiniteSet(PPages)
  BY SizeAssumption, FS_Interval, 0 \in Int, max_ppage_id - 1 \in Int DEF PPages
<1>. QED  BY <1>1, FS_Subset, FS_CardinalityType

\* The invariant holds of an empty clock.
LEMMA InitClockInv == ClockInit => ClockInv
<1>. SUFFICES ASSUME ClockInit PROVE ClockInv  OBVIOUS
<1>1. InClock = {}  BY DEF ClockInit, InClock
<1>2. Cardinality(InClock) = 0  BY <1>1, FS_EmptySet
<1>. QED  BY <1>2, SizeAssumption DEF ClockInit, ClockInv, ClockTypeOK, PageInv, PPages, None

\* push of a new frame makes one frame more.
LEMMA FramePushed ==
    ASSUME ClockInv, NEW q \in PPages, states[q] = 0, states' = [states EXCEPT ![q] = 2]
    PROVE  Cardinality(InClock)' = Cardinality(InClock) + 1
<1>1. InClock' = InClock \cup {q} /\ q \notin InClock
  BY DEF InClock, ClockInv, ClockTypeOK
<1>. QED  BY <1>1, InClockFinite, FS_AddElement DEF InClock

\* erase and pop of a frame make one frame less, so count does not go below 0.
LEMMA FrameRemoved ==
    ASSUME ClockInv, NEW q \in PPages, states[q] # 0, Removed(q)
    PROVE  count' = Cardinality(InClock)' /\ count' \in Nat
<1>1. InClock' = InClock \ {q} /\ q \in InClock
  BY DEF InClock, ClockInv, ClockTypeOK, Removed
<1>2. Cardinality(InClock)' = Cardinality(InClock) - 1
  BY <1>1, InClockFinite, FS_RemoveElement DEF InClock
<1>3. Cardinality(InClock)' \in Nat
  BY InClockFinite DEF InClock
<1>. QED  BY <1>2, <1>3 DEF ClockInv, Removed

\* Where no frame comes or goes, count stays right.
LEMMA SameClock ==
    ASSUME ClockInv, \A x \in PPages : states'[x] = 0 <=> states[x] = 0, count' = count
    PROVE  count' = Cardinality(InClock)' /\ count' \in Nat
<1>1. InClock' = InClock  BY DEF InClock
<1>. QED  BY <1>1 DEF ClockInv, ClockTypeOK

\* The invariant implies the bound: there are less than MaxLoops and less than N jumps,
\* of at most N - 1 frames each, and the last two rounds.
LEMMA BoundFollows == ClockInv => SecondChanceBound
<1>. SUFFICES ASSUME ClockInv, NEW p \in PPages
     PROVE /\ age[p] <= (MaxLoops + 1) * (N - 1)
           /\ age[p] <= N * (N - 1)
  BY DEF SecondChanceBound, N
<1>0. N \in Nat \ {0} /\ MaxLoops \in Nat \ {0} /\ age[p] \in Nat
  BY SizeAssumption DEF N, ClockInv, ClockTypeOK
<1>1. SUFFICES ASSUME NEW b \in Barriers, NEW j \in 0 .. (b - 1), NEW k \in 0 .. N - 1,
                      age[p] <= (N - b) * (N - 1) + j + k
      PROVE  /\ age[p] <= (MaxLoops + 1) * (N - 1)
             /\ age[p] <= N * (N - 1)
  <2>0. N \in Barriers /\ 0 \in 0 .. N - 1  BY <1>0 DEF Barriers
  <2>1. CASE states[p] = 0
    <3>1. age[p] = 0  BY <2>1 DEF ClockInv, PageInv
    <3>. QED  BY <3>1, <1>0, <1>1, <2>0, MulType
  <2>2. CASE states[p] = 1
    BY <2>2, <1>1 DEF ClockInv, PageInv, LastRound, Last
  <2>3. CASE states[p] = 2
    <3>0. PICK b \in Barriers : \E k \in 0 .. b - 1 : age[p] <= (N - b) * (N - 1) + k
      BY <2>3 DEF ClockInv, PageInv, Referenced, Rounds
    <3>1. PICK k \in 0 .. b - 1 : age[p] <= (N - b) * (N - 1) + k  BY <3>0
    <3>2. age[p] <= (N - b) * (N - 1) + k + 0
      BY <3>1, <1>0 DEF Barriers
    <3>. QED  BY <3>2, <2>0, <1>1
  <2>. QED  BY <2>1, <2>2, <2>3 DEF ClockInv, ClockTypeOK
<1>2. b \in 1 .. N /\ N - b < MaxLoops /\ N - b \in Nat /\ N - 1 \in Nat
  BY <1>0 DEF Barriers
<1>. DEFINE A == (N - b) * (N - 1)
<1>3. A \in Nat  BY <1>2, MulType
<1>4. age[p] <= (MaxLoops + 1) * (N - 1)
  <2>1. (N - b) * (N - 1) + (N - 1) <= MaxLoops * (N - 1)
    BY <1>2, <1>0, MulStep
  <2>2. MaxLoops * (N - 1) + (N - 1) <= (MaxLoops + 1) * (N - 1)
    BY <1>2, <1>0, MulStep
  <2>3. MaxLoops * (N - 1) \in Nat /\ (MaxLoops + 1) * (N - 1) \in Nat  BY <1>2, <1>0, MulType
  <2>4. j <= N - 1 /\ k <= N - 1 /\ j \in Nat /\ k \in Nat  BY <1>0, <1>2
  <2>. HIDE DEF N
  <2>. QED  BY <2>1, <2>2, <2>3, <2>4, <1>1, <1>0, <1>3, <1>2
<1>5. age[p] <= N * (N - 1)
  <2>1. CASE b = 1
    <3>1. j = 0  BY <2>1
    <3>2. A + (N - 1) <= N * (N - 1)  BY <2>1, <1>0, <1>2, MulStep
    <3>3. N * (N - 1) \in Nat  BY <1>0, <1>2, MulType
    <3>. QED  BY <3>1, <3>2, <3>3, <1>1, <1>3, <1>0, <1>2
  <2>2. CASE b >= 2
    <3>1. (N - b) * (N - 1) + (N - 1) <= (N - b + 1) * (N - 1)
      BY <1>2, <1>0, MulStep
    <3>2. (N - b + 1) * (N - 1) + (N - 1) <= N * (N - 1)
      BY <1>2, <1>0, <2>2, N - b + 1 < N, N - b + 1 \in Nat, MulStep
    <3>3. N * (N - 1) \in Nat /\ (N - b + 1) * (N - 1) \in Nat  BY <1>0, <1>2, MulType
    <3>4. j <= N - 1 /\ k <= N - 1 /\ j \in Nat /\ k \in Nat  BY <1>0, <1>2
    <3>. QED  BY <3>1, <3>2, <3>3, <3>4, <1>1, <1>3, <1>0, <1>2
  <2>. QED  BY <2>1, <2>2, <1>2, <1>0
<1>. QED  BY <1>4, <1>5

\* A step outside the loops that touches neither p nor the hand, and makes no frame
\* takeable, preserves what is known of p.
LEMMA Kept ==
    ASSUME NEW p \in PPages, ClockInv, pop_pc # "sweep", pop_pc' # "prefetch",
           hand' = hand, age'[p] = age[p], states'[p] = states[p],
           \A x \in PPages : states[x] # 1 => states'[x] # 1
    PROVE  PageInv(p)'
<1>0. hand \in PPages  BY DEF ClockInv, ClockTypeOK
<1>1. \A k : Counted(p, k) => Counted(p, k)'
  BY <1>0 DEF Counted, H
<1>2. \A b : Gap(p, b) => Gap(p, b)'
  BY DEF Gap
<1>3. H(p)' = H(p)
  BY DEF H
<1>4. LastRound(p) => LastRound(p)'
  BY <1>1, <1>3 DEF LastRound, Last
<1>5. Referenced(p) => Referenced(p)'
  BY <1>1, <1>2 DEF Referenced, Rounds
<1>. QED  BY <1>4, <1>5 DEF ClockInv, PageInv

\* A frame that was just pushed or accessed has had no rounds.
LEMMA FreshReference ==
    ASSUME NEW p \in PPages, age'[p] = 0, pop_pc' = "idle"
    PROVE  Referenced(p)'
<1>1. N \in Barriers /\ 0 \in 0 .. N - 1
  BY SizeAssumption DEF Barriers, N
<1>2. Gap(p, N)'
  BY PosType DEF Gap
<1>3. age'[p] <= (N - N) * (N - 1) + 0
  BY SizeAssumption DEF N
<1>4. Rounds(p, N, 0)'
  BY <1>2, <1>3 DEF Rounds, Counted
<1>. QED  BY <1>1, <1>4 DEF Referenced

\* The hand passes a frame in the sweep.  If the frame is p, its last round begins; else
\* the frame is behind the hand, and the places from b on stay out of reach.
LEMMA SweepKeeps ==
    ASSUME ClockInv, Sweep, NEW p \in PPages
    PROVE  PageInv(p)'
<1>0. /\ hand \in PPages /\ states \in [PPages -> 0..2] /\ age[p] \in Nat
      /\ pop_pc = "sweep" /\ pop_pc' = "sweep"
      /\ age' = age /\ states[hand] # 1
      /\ N \in Nat \ {0}
      /\ H(p) \in 0 .. N - 1
  BY PosType, SizeAssumption DEF ClockInv, ClockTypeOK, Sweep, Takeable, N, H
<1>1. /\ hand' \in PPages
      /\ H(p)' = IF H(p) = N - 1 THEN 0 ELSE H(p) + 1
  BY <1>0, PosAdvance DEF Sweep
<1>2. \A x \in PPages : x # hand => states'[x] = states[x]
  BY <1>0 DEF Sweep
<1>3. states'[hand] = IF states[hand] = 2 THEN 1 ELSE 0
  BY <1>0 DEF Sweep, Cleared
<1>4. CASE p = hand
  <2>1. states[p] = 0 => age[p] = 0  BY DEF ClockInv, PageInv
  <2>2. states[p] = 2 => LastRound(p)'
    <3>. HAVE states[p] = 2
    <3>1. PICK b \in Barriers : \E k \in 0 .. b - 1 : Rounds(p, b, k)
      BY DEF ClockInv, PageInv, Referenced
    <3>2. PICK k \in 0 .. b - 1 : Rounds(p, b, k)  BY <3>1
    <3>3. (N - b) * (N - 1) \in Nat
      BY <1>0, MulType, N - b \in Nat, N - 1 \in Nat DEF Barriers
    <3>4. age'[p] <= (N - b) * (N - 1) + k + 0
      BY <3>2, <3>3, <1>0 DEF Rounds, Barriers
    <3>5. Last(p, b, k, 0)'
      BY <3>4 DEF Last, Counted
    <3>. QED  BY <3>5, <1>0 DEF LastRound
  <2>. QED  BY <1>4, <1>3, <2>1, <2>2, <1>0 DEF PageInv
<1>5. CASE p # hand
  <2>0. states'[p] = states[p] /\ H(p) # 0
    BY <1>5, <1>2, <1>0, PosType DEF H
  <2>1. ASSUME states[p] = 1 PROVE LastRound(p)'
    <3>1. PICK b \in Barriers : \E j \in 0 .. b - 1 : \E k \in 0 .. N - 1 : Last(p, b, j, k)
      BY <2>1 DEF ClockInv, PageInv, LastRound
    <3>2. PICK j \in 0 .. b - 1, k \in 0 .. N - 1 : Last(p, b, j, k)  BY <3>1
    <3>3. Counted(p, k)' \/ H(p)' = 0
      BY <3>2, <2>0, <1>1, <1>0 DEF Last, Counted
    <3>4. Last(p, b, j, k)'
      BY <3>2, <3>3, <1>0 DEF Last
    <3>. QED  BY <3>4 DEF LastRound
  <2>2. ASSUME states[p] = 2 PROVE Referenced(p)'
    <3>1. PICK b \in Barriers : \E k \in 0 .. b - 1 : Rounds(p, b, k)
      BY <2>2 DEF ClockInv, PageInv, Referenced
    <3>2. PICK k \in 0 .. b - 1 : Rounds(p, b, k)  BY <3>1
    <3>3. Counted(p, k)' \/ H(p)' = 0
      BY <3>2, <2>0, <1>1, <1>0 DEF Rounds, Counted
    <3>4. CASE H(p) < b /\ Gap(p, b)
      <4>1. \A x \in PPages : Pos(p, x) >= b => x # hand
        BY <3>4, <1>0 DEF H, Barriers
      <4>2. Gap(p, b)'
        BY <3>4, <4>1, <1>2 DEF Gap
      <4>. QED  BY <3>2, <3>3, <4>2, <1>0 DEF Referenced, Rounds
    <3>5. CASE H(p) >= b /\ Gap(p, H(p))
      <4>1. ASSUME H(p) # N - 1 PROVE Gap(p, H(p))'
        <5>1. \A x \in PPages : Pos(p, x) >= H(p) + 1 => x # hand /\ states[x] # 1
          BY <3>5, <1>0, PosType DEF H, Gap
        <5>. QED  BY <5>1, <1>1, <1>2, <4>1 DEF Gap
      <4>2. H(p)' = 0 \/ (H(p)' >= b /\ Gap(p, H(p))')
        BY <4>1, <1>1, <3>5, <1>0 DEF Barriers
      <4>. QED  BY <3>2, <3>3, <4>2, <1>0 DEF Referenced, Rounds
    <3>6. H(p) >= b /\ Gap(p, b) => Gap(p, H(p))
      BY <1>0, PosType DEF Gap, Barriers
    <3>. QED  BY <3>2, <3>4, <3>5, <3>6, <2>0, <1>0 DEF Rounds, Barriers
  <2>3. states[p] = 0 => age[p] = 0  BY DEF ClockInv, PageInv
  <2>. QED  BY <2>0, <2>1, <2>2, <2>3, <1>0 DEF PageInv
<1>. QED  BY <1>4, <1>5

\* The hand takes a frame.  It is the first one of this round at this distance, so the
\* count of the round can become the distance of the hand.
LEMMA TakeKeeps ==
    ASSUME ClockInv, TakeFrame, NEW p \in PPages
    PROVE  PageInv(p)'
<1>0. /\ hand \in PPages /\ states \in [PPages -> 0..2] /\ age[p] \in Nat
      /\ pop_pc = "sweep" /\ pop_pc' = "prefetch" /\ loops' = MaxLoops /\ popped' = hand
      /\ states[hand] = 1 /\ hand' = hand
      /\ N \in Nat \ {0}
      /\ H(p) \in 0 .. N - 1 /\ H(p)' = H(p)
      /\ MaxLoops \in Nat
  BY PosType, SizeAssumption DEF ClockInv, ClockTypeOK, TakeFrame, Takeable, N, H
<1>2. \A x \in PPages : x # hand => states'[x] = states[x]
  BY <1>0 DEF TakeFrame, Removed
<1>3. states'[hand] = 0
  BY <1>0 DEF TakeFrame, Removed
<1>4. age'[p] = IF states[p] = 0 \/ p = hand THEN 0 ELSE age[p] + 1
  BY <1>0 DEF TakeFrame
<1>5. CASE p = hand \/ states[p] = 0
  BY <1>5, <1>4, <1>3, <1>2 DEF PageInv
<1>6. CASE p # hand /\ states[p] # 0
  <2>0. states'[p] = states[p] /\ H(p) # 0 /\ age'[p] = age[p] + 1
    BY <1>6, <1>2, <1>4, <1>0, PosType DEF H
  <2>1. ASSUME states[p] = 1 PROVE LastRound(p)'
    <3>1. PICK b \in Barriers : \E j \in 0 .. b - 1 : \E k \in 0 .. N - 1 : Last(p, b, j, k)
      BY <2>1 DEF ClockInv, PageInv, LastRound
    <3>2. PICK j \in 0 .. b - 1, k \in 0 .. N - 1 : Last(p, b, j, k)  BY <3>1
    <3>3. k < H(p)
      BY <3>2, <2>0, <1>0 DEF Last, Counted
    <3>4. (N - b) * (N - 1) \in Nat
      BY <1>0, MulType, N - b \in Nat, N - 1 \in Nat DEF Barriers
    <3>5. age'[p] <= (N - b) * (N - 1) + j + H(p)
      BY <3>2, <3>3, <3>4, <2>0, <1>0 DEF Last, Barriers
    <3>6. Last(p, b, j, H(p))'
      BY <3>5, <1>0, <1>3 DEF Last, Counted
    <3>. QED  BY <3>6, <1>0 DEF LastRound
  <2>2. ASSUME states[p] = 2 PROVE Referenced(p)'
    <3>1. PICK b \in Barriers : \E k \in 0 .. b - 1 : Rounds(p, b, k)
      BY <2>2 DEF ClockInv, PageInv, Referenced
    <3>2. PICK k \in 0 .. b - 1 : Rounds(p, b, k)  BY <3>1
    <3>3. k < H(p)
      BY <3>2, <2>0, <1>0 DEF Rounds, Counted
    <3>4. ~ Gap(p, H(p))
      BY <1>0 DEF Gap, H
    <3>5. Gap(p, b)
      BY <3>2, <3>4, <2>0 DEF Rounds
    <3>6. H(p) < b
      BY <3>5, <1>0 DEF Gap, H, Barriers
    <3>7. Gap(p, b)'
      BY <3>5, <1>2, <1>3 DEF Gap
    <3>8. (N - b) * (N - 1) \in Nat
      BY <1>0, MulType, N - b \in Nat, N - 1 \in Nat DEF Barriers
    <3>9. age'[p] <= (N - b) * (N - 1) + H(p)
      BY <3>2, <3>3, <3>8, <2>0, <1>0 DEF Rounds, Barriers
    <3>10. InRound(p, H(p))'
      BY <1>0 DEF InRound, H
    <3>11. Rounds(p, b, H(p))'
      BY <3>9, <3>7, <3>10, <1>0, <1>3 DEF Rounds, Counted
    <3>12. H(p) \in 0 .. b - 1  BY <3>6, <1>0 DEF Barriers
    <3>. QED  BY <3>11, <3>12, <1>0 DEF Referenced
  <2>. QED  BY <2>0, <2>1, <2>2, <1>0, <1>6 DEF PageInv
<1>. QED  BY <1>5, <1>6

\* The prefetch loop moves the hand on.  When it passes p, everything from the popped
\* frame to p cannot be taken: the popped frame's place is the next barrier, at a smaller distance.
LEMMA AdvanceKeeps ==
    ASSUME ClockInv, Prefetch, loops > 1, NEW p \in PPages
    PROVE  PageInv(p)'
<1>0. /\ hand \in PPages /\ states \in [PPages -> 0..2] /\ age[p] \in Nat
      /\ pop_pc = "prefetch" /\ pop_pc' = "prefetch" /\ loops' = loops - 1 /\ popped' = popped
      /\ states[hand] # 1 /\ states' = states /\ age' = age /\ Advance
      /\ N \in Nat \ {0}
      /\ H(p) \in 0 .. N - 1
      /\ MaxLoops \in Nat /\ loops \in Nat
  BY PosType, SizeAssumption DEF ClockInv, ClockTypeOK, Prefetch, Takeable, N, H
<1>1. /\ hand' \in PPages
      /\ H(p)' = IF H(p) = N - 1 THEN 0 ELSE H(p) + 1
  BY <1>0, PosAdvance
<1>2. ASSUME states[p] = 1 PROVE LastRound(p)'
  <2>0. H(p) # 0  BY <1>2, <1>0, PosType DEF H
  <2>1. PICK b \in Barriers : \E j \in 0 .. b - 1 : \E k \in 0 .. N - 1 : Last(p, b, j, k)
    BY <1>2 DEF ClockInv, PageInv, LastRound
  <2>2. PICK j \in 0 .. b - 1, k \in 0 .. N - 1 : Last(p, b, j, k)  BY <2>1
  <2>3. Counted(p, k)' \/ H(p)' = 0
    BY <2>2, <2>0, <1>1, <1>0 DEF Last, Counted
  <2>4. Last(p, b, j, k)'
    BY <2>2, <2>3, <1>0 DEF Last
  <2>. QED  BY <2>4 DEF LastRound
<1>3. ASSUME states[p] = 2 PROVE Referenced(p)'
  <2>1. PICK b \in Barriers : \E k \in 0 .. b - 1 : Rounds(p, b, k)
    BY <1>3 DEF ClockInv, PageInv, Referenced
  <2>2. PICK k \in 0 .. b - 1 : Rounds(p, b, k)  BY <2>1
  <2>3. Gap(p, b) /\ Gap(p, b)' /\ b \in 1 .. N /\ k \in Nat
    BY <2>2, <1>0 DEF Rounds, Gap, Barriers
  <2>4. CASE k = 0
    <3>1. Rounds(p, b, k)'
      BY <2>4, <2>2, <2>3, <1>0 DEF Rounds, Counted, InRound
    <3>. QED  BY <3>1 DEF Referenced
  <2>5. CASE k # 0
    <3>1. /\ k = Pos(p, popped) /\ k <= H(p) /\ loops + (H(p) - k) = MaxLoops
          /\ \A x \in PPages : Pos(p, x) \in k .. H(p) - 1 => states[x] # 1
      BY <2>5, <2>2, <1>0 DEF Rounds, InRound
    <3>2. \A x \in PPages : Pos(p, x) \in k .. H(p) => states[x] # 1
      <4>1. ASSUME NEW x \in PPages, Pos(p, x) \in k .. H(p) PROVE states[x] # 1
        <5>1. CASE x = hand  BY <5>1, <1>0
        <5>2. CASE Pos(p, x) # H(p)  BY <5>2, <3>1, <4>1, <1>0, <2>3
        <5>. QED  BY <5>1, <5>2, <1>0, PosInjective DEF H
      <4>. QED  BY <4>1
    <3>3. CASE H(p) # N - 1
      <4>1. InRound(p, k)'
        BY <3>1, <3>2, <3>3, <1>0, <1>1, <2>3 DEF InRound
      <4>2. Counted(p, k)'
        BY <3>1, <3>3, <1>0, <1>1, <2>3 DEF Counted
      <4>3. Rounds(p, b, k)'
        BY <4>1, <4>2, <2>2, <2>3, <1>0 DEF Rounds
      <4>. QED  BY <4>3 DEF Referenced
    <3>4. CASE H(p) = N - 1
      <4>1. k \in 1 .. N /\ N - k < MaxLoops
        BY <3>1, <3>4, <2>3, <2>5, <1>0
      <4>2. Gap(p, k)'
        BY <3>2, <3>4, <4>1, <1>0, PosType DEF Gap
      <4>3. age'[p] <= (N - k) * (N - 1) + 0
        <5>1. (N - b) * (N - 1) + (N - 1) <= (N - k) * (N - 1)
          BY <2>3, <4>1, <1>0, MulStep, N - b \in Nat, N - k \in Nat, N - 1 \in Nat, N - b < N - k
        <5>2. (N - b) * (N - 1) \in Nat /\ (N - k) * (N - 1) \in Nat
          BY <2>3, <4>1, <1>0, MulType, N - b \in Nat, N - k \in Nat, N - 1 \in Nat
        <5>3. age[p] <= (N - b) * (N - 1) + k
          BY <2>2 DEF Rounds
        <5>. QED  BY <5>1, <5>2, <5>3, <4>1, <1>0, <2>3
      <4>4. Rounds(p, k, 0)'
        BY <4>2, <4>3, <1>0 DEF Rounds, Counted, InRound
      <4>5. k \in Barriers /\ 0 \in 0 .. k - 1  BY <4>1 DEF Barriers
      <4>. QED  BY <4>4, <4>5 DEF Referenced
    <3>. QED  BY <3>3, <3>4
  <2>. QED  BY <2>4, <2>5
<1>. QED  BY <1>2, <1>3, <1>0 DEF PageInv, ClockInv

\* Every step preserves the invariant.
LEMMA NextClockInv == ClockInv /\ [ClockNext]_clock_vars => ClockInv'
<1>. SUFFICES ASSUME ClockInv, [ClockNext]_clock_vars PROVE ClockInv'
  OBVIOUS
<1>. USE DEF ClockInv
<1>0. ClockTypeOK /\ N \in Nat \ {0} /\ MaxLoops \in Nat \ {0}
  BY SizeAssumption DEF N
<1>1. ASSUME NEW q \in PPages, Push(q) PROVE ClockInv'
  <2>0. Cardinality(InClock)' = Cardinality(InClock) + 1
    BY <1>1, FramePushed DEF Push
  <2>1. count' = Cardinality(InClock)' /\ ClockTypeOK'
    BY <1>0, <1>1, <2>0 DEF ClockTypeOK, Push
  <2>2. ASSUME NEW p \in PPages PROVE PageInv(p)'
    <3>1. CASE p = q
      BY <3>1, <1>0, <1>1, FreshReference DEF Push, PageInv, ClockTypeOK
    <3>2. CASE p # q
      BY <3>2, <1>0, <1>1, Kept DEF Push, ClockTypeOK
    <3>. QED  BY <3>1, <3>2
  <2>. QED  BY <2>1, <2>2, <1>1 DEF Push
<1>2. ASSUME NEW q \in PPages, Access(q) PROVE ClockInv'
  <2>1. count' = Cardinality(InClock)' /\ ClockTypeOK'
    BY <1>0, <1>2, SameClock DEF ClockTypeOK, Access
  <2>2. ASSUME NEW p \in PPages PROVE PageInv(p)'
    <3>1. CASE p = q
      BY <3>1, <1>0, <1>2, FreshReference DEF Access, PageInv, ClockTypeOK
    <3>2. CASE p # q
      BY <3>2, <1>0, <1>2, Kept DEF Access, ClockTypeOK
    <3>. QED  BY <3>1, <3>2
  <2>. QED  BY <2>1, <2>2, <1>2 DEF Access
<1>3. ASSUME NEW q \in PPages, Erase(q) PROVE ClockInv'
  <2>0. count' = Cardinality(InClock)' /\ count' \in Nat
    BY <1>3, FrameRemoved DEF Erase
  <2>1. count' = Cardinality(InClock)' /\ ClockTypeOK'
    BY <1>0, <1>3, <2>0 DEF ClockTypeOK, Erase, Removed
  <2>2. ASSUME NEW p \in PPages PROVE PageInv(p)'
    <3>1. CASE p = q
      BY <3>1, <1>0, <1>3 DEF Erase, Removed, PageInv, ClockTypeOK
    <3>2. CASE p # q
      BY <3>2, <1>0, <1>3, Kept DEF Erase, Removed, ClockTypeOK
    <3>. QED  BY <3>1, <3>2
  <2>. QED  BY <2>1, <2>2, <1>3 DEF Erase
<1>4. CASE PopCalled
  <2>1. count' = Cardinality(InClock)' /\ ClockTypeOK'
    BY <1>0, <1>4 DEF ClockTypeOK, PopCalled, InClock
  <2>2. ASSUME NEW p \in PPages PROVE PageInv(p)'
    BY <1>0, <1>4, Kept DEF PopCalled, ClockTypeOK
  <2>. QED  BY <2>1, <2>2, <1>4 DEF PopCalled
<1>5. CASE Sweep
  <2>1. hand' \in PPages  BY <1>0, <1>5, PosAdvance DEF Sweep, ClockTypeOK
  <2>2. count' = Cardinality(InClock)' /\ count' \in Nat
    BY <1>0, <1>5, SameClock DEF Sweep, Cleared, Takeable, ClockTypeOK
  <2>3. ClockTypeOK'
    BY <1>0, <1>5, <2>1, <2>2 DEF Sweep, Cleared, ClockTypeOK
  <2>. QED  BY <2>2, <2>3, <1>5, SweepKeeps DEF Sweep
<1>6. CASE TakeFrame
  <2>1. count' = Cardinality(InClock)' /\ count' \in Nat
    BY <1>0, <1>6, FrameRemoved DEF TakeFrame, Takeable, ClockTypeOK
  <2>2. ClockTypeOK'
    BY <1>0, <1>6, <2>1 DEF TakeFrame, Removed, ClockTypeOK
  <2>. QED  BY <2>1, <2>2, <1>0, <1>6, TakeKeeps DEF TakeFrame
<1>7. CASE Prefetch
  <2>1. loops >= 1 /\ loops \in 0 .. MaxLoops  BY <1>0, <1>7 DEF Prefetch, ClockTypeOK
  <2>2. hand' \in PPages  BY <1>0, <1>7, PosAdvance DEF Prefetch, ClockTypeOK
  <2>3. count' = Cardinality(InClock)' /\ ClockTypeOK'
    BY <1>0, <1>7, <2>1, <2>2 DEF Prefetch, ClockTypeOK, InClock
  <2>4. CASE loops > 1
    BY <2>3, <2>4, <1>7, <1>0, AdvanceKeeps DEF Prefetch, ClockTypeOK
  <2>5. CASE ~ (loops > 1)
    <3>1. pop_pc # "sweep" /\ pop_pc' = "idle" /\ hand' = hand /\ age' = age /\ states' = states
      BY <2>5, <1>7 DEF Prefetch
    <3>. QED  BY <3>1, <2>3, Kept
  <2>. QED  BY <2>4, <2>5
<1>8. CASE PopReturns
  <2>1. count' = Cardinality(InClock)' /\ ClockTypeOK'
    BY <1>0, <1>8 DEF ClockTypeOK, PopReturns, InClock
  <2>2. ASSUME NEW p \in PPages PROVE PageInv(p)'
    BY <1>0, <1>8, Kept DEF PopReturns, ClockTypeOK
  <2>. QED  BY <2>1, <2>2, <1>8 DEF PopReturns
<1>9. CASE UNCHANGED clock_vars
  <2>1. ClockTypeOK' /\ count' = Cardinality(InClock)'
    BY <1>0, <1>9 DEF clock_vars, ClockTypeOK, InClock
  <2>2. ASSUME NEW p \in PPages PROVE PageInv(p)'
    BY <1>9 DEF clock_vars, PageInv, LastRound, Last, Referenced, Rounds, Counted, H, Gap, InRound
  <2>. QED  BY <2>1, <2>2, <1>9 DEF clock_vars
<1>. QED  BY <1>1, <1>2, <1>3, <1>4, <1>5, <1>6, <1>7, <1>8, <1>9 DEF ClockNext, PopStep

\* Clock::pop starves no frame, for every number of frames and every MaxLoops: a frame
\* that stays in the clock and is not accessed again is popped before N * (N - 1) + 1, and
\* before (MaxLoops + 1) * (N - 1) + 1, other frames are.
THEOREM SecondChanceHolds == ClockSpec => []SecondChanceBound
<1>1. ClockSpec => []ClockInv
  BY InitClockInv, NextClockInv, PTL DEF ClockSpec
<1>. QED  BY <1>1, BoundFollows, PTL

\* The variables of the clock have their types, and count is the number of frames in the
\* clock: assert(count > 0) in pop asks what it is meant to ask.
THEOREM ClockTypes == ClockSpec => [](ClockTypeOK /\ count = Cardinality(InClock))
<1>1. ClockSpec => []ClockInv
  BY InitClockInv, NextClockInv, PTL DEF ClockSpec
<1>2. ClockInv => ClockTypeOK /\ count = Cardinality(InClock)
  BY DEF ClockInv
<1>. QED  BY <1>1, <1>2, PTL

\* Every step of the clock is a step of Replacement or leaves the set of frames alone.
LEMMA StepRefines == ClockInv /\ [ClockNext]_clock_vars => [R!Next]_<<InClock, popped>>
<1>. SUFFICES ASSUME ClockInv, [ClockNext]_clock_vars PROVE [R!Next]_<<InClock, popped>>
  OBVIOUS
<1>0. ClockTypeOK  BY DEF ClockInv
<1>1. ASSUME NEW q \in PPages, Push(q) PROVE R!Push(q)
  BY <1>0, <1>1 DEF Push, R!Push, InClock, ClockTypeOK
<1>2. ASSUME NEW q \in PPages, Access(q) PROVE R!Push(q)
  BY <1>0, <1>2 DEF Access, R!Push, InClock, ClockTypeOK
<1>3. ASSUME NEW q \in PPages, Erase(q) PROVE R!Erase(q)
  BY <1>0, <1>3 DEF Erase, Removed, R!Erase, InClock, ClockTypeOK
<1>4. CASE PopCalled
  BY <1>4 DEF PopCalled, InClock
<1>5. CASE Sweep
  BY <1>0, <1>5 DEF Sweep, Cleared, Takeable, InClock, ClockTypeOK
<1>6. CASE TakeFrame
  <2>1. hand \in PPages /\ R!Pop(hand)
    BY <1>0, <1>6 DEF TakeFrame, Takeable, Removed, R!Pop, InClock, ClockTypeOK
  <2>. QED  BY <2>1 DEF R!Next
<1>7. CASE Prefetch \/ PopReturns
  BY <1>7 DEF Prefetch, PopReturns, InClock
<1>8. CASE UNCHANGED clock_vars
  BY <1>8 DEF clock_vars, InClock
<1>. QED  BY <1>1, <1>2, <1>3, <1>4, <1>5, <1>6, <1>7, <1>8 DEF ClockNext, PopStep, R!Next

\* The clock is a set of frames from which pop takes a member, as SharedCache assumes of
\* its replacement policy.
THEOREM ClockImplementsReplacement == ClockSpec => ImplementsReplacement
<1>1. ClockInit => R!Init
  BY DEF ClockInit, R!Init, InClock
<1>. QED  BY <1>1, StepRefines, InitClockInv, NextClockInv, PTL
     DEF ClockSpec, R!Spec, ImplementsReplacement
=============================================================================
