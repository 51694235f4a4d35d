----------------------------- MODULE PteHeader -----------------------------
(***************************************************************************)
(* The 16-bit header of one page table entry, which client threads and the *)
(* server thread of the partition share without a lock.  inc_ref_count,    *)
(* dec_ref_count, lock and unlock are loops of a load and a compare-and-   *)
(* swap of the whole word; between lock and unlock the server changes bit  *)
(* fields with plain stores, each a load and a store of the word.          *)
(*                                                                         *)
(* The module follows one entry through its life: created for a waiting    *)
(* client with one reference, pinned and unpinned directly, deleted.  A    *)
(* client that pins another page may increment this count too: the walk of *)
(* pin() looks at the tag of the cache line again only after the increment *)
(* and then takes a stray reference back, without a report to the server.  *)
(***************************************************************************)
EXTENDS Integers, FiniteSets

CONSTANTS
    Clients,    \* client threads
    RefCounts,  \* number of values of the ref_count field, 2^13
    MaxDrift    \* drift at which no further stray reference is taken; unbounded
                \* in the code

ASSUME ClientsAssumption == IsFiniteSet(Clients)
\* MAX_THREADS clients of MAX_FIBERS_PER_THREAD fibers fit the field
ASSUME RefCountsAssumption == RefCounts \in Nat /\ Cardinality(Clients) < RefCounts
ASSUME DriftAssumption == MaxDrift \in Nat

VARIABLES
    header,    \* the packed word
    pc,        \* Clients -> "idle", "waits", "inc", "held", "dec", "stray", "undo"
    old,       \* Clients -> old_packed of the client's loop
    is_write,  \* Clients -> argument of dec_ref_count
    srv_pc,    \* "idle", "lock", "load", "store", "unlock"
    srv_old,   \* old_packed of the server's loop, or the word a plain store loaded
    todo,      \* the bit field the server stores to next under the lock
    for,       \* the clients the mapping is being created for, none or one
    holders,   \* history: clients with a reference
    noted,     \* history: reports "first pin" minus reports "last unpin"
    drift,     \* history: last unpins minus first pins by strays, which nobody reports
    modified   \* history: a writer has unpinned since the mapping was created

vars == <<header, pc, old, is_write, srv_pc, srv_old, todo, for, holders, noted,
          drift, modified>>

Header == [exist : BOOLEAN, busy : BOOLEAN, dirty : BOOLEAN, ref_count : 0..(RefCounts - 1)]

EMPTY_HEADER == [exist |-> FALSE, busy |-> FALSE, dirty |-> FALSE, ref_count |-> 0]

\* The stores of create_mapping are exist and ref_count, those of delete_mapping
\* clear exist and dirty.
Stores == {"exist", "ref_count", "clear exist", "clear dirty", "none"}

After(field) ==
    CASE field = "exist" -> "ref_count"
      [] field = "clear exist" -> "clear dirty"
      [] OTHER -> "none"

TypeOK ==
    /\ header \in Header
    /\ pc \in [Clients -> {"idle", "waits", "inc", "held", "dec", "stray", "undo"}]
    /\ old \in [Clients -> Header]
    /\ is_write \in [Clients -> BOOLEAN]
    /\ srv_pc \in {"idle", "lock", "load", "store", "unlock"}
    /\ srv_old \in Header
    /\ todo \in Stores
    /\ for \in SUBSET Clients
    /\ holders \in SUBSET Clients
    /\ noted \in Int
    /\ drift \in Int
    /\ modified \in BOOLEAN

Init ==
    /\ header = EMPTY_HEADER
    /\ pc = [t \in Clients |-> "idle"]
    /\ old = [t \in Clients |-> EMPTY_HEADER]
    /\ is_write = [t \in Clients |-> FALSE]
    /\ srv_pc = "idle"
    /\ srv_old = EMPTY_HEADER
    /\ todo = "none"
    /\ for = {}
    /\ holders = {}
    /\ noted = 0
    /\ drift = 0
    /\ modified = FALSE

server == <<srv_pc, srv_old, todo, for>>

-----------------------------------------------------------------------------
(* Client threads *)

\* Mutant: the increment or decrement is stored whatever the word is by now.
ExchangesAlways(t) == TRUE

\* Mutant: inc_ref_count succeeds on a locked entry.
PinnableBusy(h) == h.exist

\* Mutant: every direct pin is reported to the server.
FirstPinAlways(h) == TRUE

\* Mutant: a reader that unpins clears the dirty bit.
DecrementedOverwrites(h, w) ==
    [h EXCEPT !.ref_count = (@ + RefCounts - 1) % RefCounts, !.dirty = w]

\* The exchange compares the word with what the loop has loaded.
Exchanges(t) == header = old[t]

Pinnable(h) == h.exist /\ ~h.busy
FirstPin(h) == h.ref_count = 0
LastPin(h) == h.ref_count = 1

Incremented(h) == [h EXCEPT !.ref_count = (@ + 1) % RefCounts]

Decremented(h, w) ==
    [h EXCEPT !.ref_count = (@ + RefCounts - 1) % RefCounts, !.dirty = @ \/ w]

\* inc_ref_count: the load before the loop
IncLoad(t) ==
    /\ pc[t] = "idle"
    /\ pc' = [pc EXCEPT ![t] = "inc"]
    /\ old' = [old EXCEPT ![t] = header]
    /\ UNCHANGED <<header, is_write, server, holders, noted, drift, modified>>

\* The entry does not exist or is locked: inc_ref_count returns {false, 0}, and
\* the client asks the server for the page.
IncRefused(t) ==
    /\ pc[t] = "inc"
    /\ ~Pinnable(old[t])
    /\ pc' = [pc EXCEPT ![t] = "waits"]
    /\ UNCHANGED <<header, old, is_write, server, holders, noted, drift, modified>>

\* The exchange succeeds: {true, old_ref_count}; 0 is reported to the server.
IncCas(t) ==
    /\ pc[t] = "inc"
    /\ Pinnable(old[t])
    /\ Exchanges(t)
    /\ header' = Incremented(old[t])
    /\ pc' = [pc EXCEPT ![t] = "held"]
    /\ holders' = holders \cup {t}
    /\ noted' = IF FirstPin(old[t]) THEN noted + 1 ELSE noted
    /\ UNCHANGED <<old, is_write, server, drift, modified>>

\* The exchange fails, because the word has changed or spuriously: load it again.
CasFails(t) ==
    /\ pc[t] \in {"inc", "dec", "undo"}
    /\ old' = [old EXCEPT ![t] = header]
    /\ UNCHANGED <<header, pc, is_write, server, holders, noted, drift, modified>>

\* dec_ref_count: the load before the loop
DecLoad(t, w) ==
    /\ pc[t] = "held"
    /\ pc' = [pc EXCEPT ![t] = "dec"]
    /\ old' = [old EXCEPT ![t] = header]
    /\ is_write' = [is_write EXCEPT ![t] = w]
    /\ UNCHANGED <<header, server, holders, noted, drift, modified>>

\* The exchange succeeds; an old count of 1 is reported to the server.
DecCas(t) ==
    /\ pc[t] = "dec"
    /\ Exchanges(t)
    /\ header' = Decremented(old[t], is_write[t])
    /\ pc' = [pc EXCEPT ![t] = "idle"]
    /\ holders' = holders \ {t}
    /\ noted' = IF LastPin(old[t]) THEN noted - 1 ELSE noted
    /\ modified' = (modified \/ is_write[t])
    /\ UNCHANGED <<old, is_write, server, drift>>

\* The exchange succeeds, but the line has got the tag of this entry's page since the
\* client's walk: the reference is a stray, and the old count is not reported.
StrayCas(t) ==
    /\ pc[t] = "inc"
    /\ Pinnable(old[t])
    /\ Exchanges(t)
    /\ -MaxDrift < drift /\ drift < MaxDrift
    /\ header' = Incremented(old[t])
    /\ pc' = [pc EXCEPT ![t] = "stray"]
    /\ holders' = holders \cup {t}
    /\ drift' = IF FirstPin(old[t]) THEN drift - 1 ELSE drift
    /\ UNCHANGED <<old, is_write, server, noted, modified>>

\* dec_ref_count() takes it back: the load before the loop
StrayLoad(t) ==
    /\ pc[t] = "stray"
    /\ pc' = [pc EXCEPT ![t] = "undo"]
    /\ old' = [old EXCEPT ![t] = header]
    /\ UNCHANGED <<header, is_write, server, holders, noted, drift, modified>>

\* The exchange succeeds; pin() ignores the old count.
StrayDecCas(t) ==
    /\ pc[t] = "undo"
    /\ Exchanges(t)
    /\ header' = Decremented(old[t], FALSE)
    /\ pc' = [pc EXCEPT ![t] = "idle"]
    /\ holders' = holders \ {t}
    /\ drift' = IF LastPin(old[t]) THEN drift + 1 ELSE drift
    /\ UNCHANGED <<old, is_write, server, noted, modified>>

\* The page is mapped by now (the server pins it for the client with the same
\* inc_ref_count), or the request was refused: the client tries again.
Retry(t) ==
    /\ pc[t] = "waits"
    /\ t \notin for
    /\ pc' = [pc EXCEPT ![t] = "idle"]
    /\ UNCHANGED <<header, old, is_write, server, holders, noted, drift, modified>>

-----------------------------------------------------------------------------
(* Server thread *)

\* Mutant: lock() does not look at ref_count.
LockableShared(h) == ~h.busy

Lockable(h) == h.ref_count = 0 /\ ~h.busy

ServerExchanges == header = srv_old

\* create_mapping for a waiting client: the load of lock()
CreateLoad(t) ==
    /\ srv_pc = "idle"
    /\ ~header.exist
    /\ pc[t] = "waits"
    /\ srv_pc' = "lock"
    /\ srv_old' = header
    /\ todo' = "exist"
    /\ for' = {t}
    /\ UNCHANGED <<header, pc, old, is_write, holders, noted, drift, modified>>

\* delete_mapping of a victim: the load of lock()
DeleteLoad ==
    /\ srv_pc = "idle"
    /\ header.exist
    /\ srv_pc' = "lock"
    /\ srv_old' = header
    /\ todo' = "clear exist"
    /\ UNCHANGED <<header, for, pc, old, is_write, holders, noted, drift, modified>>

\* lock() returns false: someone has a reference.
LockRefused ==
    /\ srv_pc = "lock"
    /\ ~Lockable(srv_old)
    /\ srv_pc' = "idle"
    /\ todo' = "none"
    /\ for' = {}
    /\ UNCHANGED <<header, srv_old, pc, old, is_write, holders, noted, drift, modified>>

LockCas ==
    /\ srv_pc = "lock"
    /\ Lockable(srv_old)
    /\ ServerExchanges
    /\ header' = [srv_old EXCEPT !.busy = TRUE]
    /\ srv_pc' = "load"
    /\ UNCHANGED <<srv_old, todo, for, pc, old, is_write, holders, noted, drift, modified>>

\* An exchange of lock() or unlock() fails: load the word again.
ServerCasFails ==
    /\ srv_pc \in {"lock", "unlock"}
    /\ srv_old' = header
    /\ UNCHANGED <<header, srv_pc, todo, for, pc, old, is_write, holders, noted, drift, modified>>

\* A plain store to a bit field loads the word ...
StoreLoad ==
    /\ srv_pc = "load"
    /\ todo # "none"
    /\ srv_pc' = "store"
    /\ srv_old' = header
    /\ UNCHANGED <<header, todo, for, pc, old, is_write, holders, noted, drift, modified>>

\* ... and writes all of it back with the field changed.
Stored(field) ==
    CASE field = "exist"       -> [srv_old EXCEPT !.exist = TRUE]
      [] field = "ref_count"   -> [srv_old EXCEPT !.ref_count = 1]
      [] field = "clear exist" -> [srv_old EXCEPT !.exist = FALSE]
      [] OTHER                 -> [srv_old EXCEPT !.dirty = FALSE]

Store ==
    /\ srv_pc = "store"
    /\ header' = Stored(todo)
    /\ srv_pc' = "load"
    /\ todo' = After(todo)
    /\ IF todo = "ref_count"
       THEN holders' = holders \cup for /\ noted' = noted + 1
       ELSE UNCHANGED <<holders, noted>>
    /\ modified' = (modified /\ todo # "clear dirty")
    /\ UNCHANGED <<srv_old, for, pc, old, is_write, drift>>

\* release_mapping_lock: unlock(), at once for a clean victim, after the I/O otherwise
UnlockLoad ==
    /\ srv_pc = "load"
    /\ todo = "none"
    /\ srv_pc' = "unlock"
    /\ srv_old' = header
    /\ UNCHANGED <<header, todo, for, pc, old, is_write, holders, noted, drift, modified>>

UnlockCas ==
    /\ srv_pc = "unlock"
    /\ srv_old.busy
    /\ ServerExchanges
    /\ header' = [srv_old EXCEPT !.busy = FALSE]
    /\ srv_pc' = "idle"
    /\ for' = {}
    /\ pc' = [t \in Clients |-> IF t \in for THEN "held" ELSE pc[t]]
    /\ UNCHANGED <<srv_old, todo, old, is_write, holders, noted, drift, modified>>

-----------------------------------------------------------------------------
ClientStep(t) ==
    \/ IncLoad(t) \/ IncRefused(t) \/ IncCas(t) \/ CasFails(t)
    \/ \E w \in BOOLEAN : DecLoad(t, w)
    \/ DecCas(t)
    \/ StrayCas(t) \/ StrayLoad(t) \/ StrayDecCas(t)
    \/ Retry(t)

ServerStep ==
    \/ \E t \in Clients : CreateLoad(t)
    \/ DeleteLoad \/ LockRefused \/ LockCas \/ ServerCasFails
    \/ StoreLoad \/ Store \/ UnlockLoad \/ UnlockCas

Next == ServerStep \/ \E t \in Clients : ClientStep(t)

Spec == Init /\ [][Next]_vars

-----------------------------------------------------------------------------
(* Safety *)

\* Where a thread is that has a reference and has not given it back.
Referencing == {"held", "dec", "stray", "undo"}

\* The count in the word is the number of threads with a reference: no increment
\* or decrement is lost, and none of the server's plain stores overwrites one.
RefCountExact == header.ref_count = Cardinality(holders)

\* Of the threads that pin and unpin concurrently, the reports "first pin" and
\* "last unpin" alternate, one report being open exactly while the page is pinned,
\* except for the first pins and last unpins that strays make: each of them leaves the
\* sum off by one for good.  SharedSingleThreadCache::pinned_size is the sum of these
\* reports.
ReportsBalanced == noted = (IF header.ref_count > 0 THEN 1 ELSE 0) + drift

\* lock() succeeds only without references and keeps new ones out until unlock().
LockExcludesPins ==
    \A t \in Clients : pc[t] \in Referencing => header.exist /\ ~header.busy

\* The assertion of dec_ref_count holds for every word it loads, whatever the other
\* clients and the server store between the increment and the decrement.
DecAssertion ==
    \A t \in Clients : pc[t] \in {"dec", "undo"} =>
        old[t].exist /\ ~old[t].busy /\ old[t].ref_count > 0

\* The dirty bit of a writer survives every interleaving until the mapping is
\* deleted.
DirtyKept == modified => header.dirty

-----------------------------------------------------------------------------
(* The inductive invariant behind these properties *)

\* Who has a reference: the clients that hold one, and the client the mapping was
\* created for once its ref_count is stored.
HoldersExact ==
    /\ \A t \in Clients : pc[t] \in Referencing => t \in holders
    /\ \A t \in holders : pc[t] \in Referencing \/ t \in for
    /\ \A t \in for : pc[t] = "waits"
    /\ \A t \in for : t \in holders =>
          srv_pc \in {"load", "unlock"} /\ todo = "none" /\ holders = for
    /\ \A t, u \in for : t = u

\* What the server knows about the word while it changes it.
ServerOwnsBusy ==
    /\ header.busy <=> srv_pc \in {"load", "store", "unlock"}
    /\ ~header.exist => holders = {}
    /\ srv_pc = "store" => srv_old = header /\ todo # "none"
    /\ srv_pc = "idle" => todo = "none" /\ for = {}
    /\ srv_pc = "lock" => todo \in {"exist", "clear exist"}
    /\ srv_pc = "unlock" => todo = "none"
    /\ todo \in {"exist", "ref_count"} => for # {} /\ holders = {}
    /\ todo = "exist" => ~header.exist
    /\ todo = "ref_count" => header.exist
    /\ todo \in {"clear exist", "clear dirty"} => for = {}
    /\ header.busy /\ for # {} /\ todo = "none" => header.exist /\ holders = for
    /\ header.busy /\ for = {} => holders = {}

IndInv ==
    /\ TypeOK
    /\ RefCountExact
    /\ ReportsBalanced
    /\ LockExcludesPins
    /\ DecAssertion
    /\ DirtyKept
    /\ HoldersExact
    /\ ServerOwnsBusy
=============================================================================
