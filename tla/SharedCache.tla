---------------------------- MODULE SharedCache ----------------------------
(***************************************************************************)
(* One partition of the shared cache: the client threads that pin pages    *)
(* directly in the partition's page table, and the server thread that runs *)
(* SharedSingleThreadCache over it (misses, evictions, asynchronous I/O).  *)
(*                                                                         *)
(* Atomicity.  The server thread is the only writer of the cache's own     *)
(* fields; what it shares with the clients is the packed header of every   *)
(* page table entry, which both sides change by compare-and-swap.  A step  *)
(* of this module is therefore at most one access to the header of an      *)
(* entry that a client could change too, with the thread's private work    *)
(* around it.  In particular the read of the victim's entry (ServerPop)    *)
(* and the lock that follows it (ServerLock) are two steps.                *)
(*                                                                         *)
(* Abstractions.  The replacement policy is the set of evictable pages     *)
(* (module Replacement; Clock implements it).  The request mailbox         *)
(* is the exactly-once queue of module Channel.  A page's bytes are one    *)
(* member of Values, or None for whatever they are before the first store. *)
(* Unpin and DirtyUnpin requests never occur, because ENABLE_DIRECT_UNPIN  *)
(* is true: unpinning is done by the client itself.                        *)
(*                                                                         *)
(* Stray references.  The walk of a client ends at a cache line, and pin   *)
(* increments a count in it before it looks again at the tag of the line.  *)
(* If the server has reused the line for another page by then, the client  *)
(* has a reference to that page and takes it back; nobody is told of       *)
(* either change of the count.  Which lines can be reused under a walk is  *)
(* the subject of PageTable; here the other page is any page but its own.  *)
(***************************************************************************)
EXTENDS Integers, Sequences, FiniteSets

CONSTANTS
    Clients,    \* threads with a PartitionClient of this server
    VPages,     \* blocks of the partition
    PPages,     \* page frames of the partition; max_ppage_id is their number
    Values,     \* contents of a page
    MaxComms,   \* message_type::MAX_COMMS, requests per message
    MaxHeld,    \* pages one client keeps pinned at a time (PrivateCache quota)
    MaxRetry,   \* refused Pin requests before pin() throws "oom" (2^20 in the code)
    MaxDrift,   \* drift of pinned_size at which no further stray reference is
                \* taken; unbounded in the code, 0 is a cache without strays
    None        \* no page, no frame, no client, no content yet

ASSUME FiniteAssumption ==
    IsFiniteSet(Clients) /\ IsFiniteSet(VPages) /\ IsFiniteSet(PPages)
ASSUME BoundAssumption ==
    MaxComms \in Nat \ {0} /\ MaxHeld \in Nat \ {0} /\ MaxRetry \in Nat
    /\ MaxDrift \in Nat
ASSUME NoneAssumption == None \notin Clients \cup VPages \cup PPages
\* num_local_ppages_per_partition = num_ppages_per_partition * ratio / max_num_clients
ASSUME QuotaAssumption == Cardinality(Clients) * MaxHeld <= Cardinality(PPages)

VARIABLES
    pte,          \* VPages -> unpacked_pte
    owner,        \* PPages -> page whose bytes the frame holds (states[].internal.vpage_id)
    replacement,  \* set of evictable frames
    pinned_size,  \* the server's count of pinned pages
    allocated,    \* frames handed out by alloc(): the ids below cur_id
    first_loaded, \* MemoryPool::first_loaded
    srv_pc,       \* where the server thread is: "loop", "pop", "lock", "spin"
    serving,      \* client whose message the server is in the middle of
    job,          \* client whose Pin is in the eviction loop
    victim,       \* frame taken from the replacement policy (context.ppage_id)
    pre_dirty,    \* pre_pte.dirty, read before the victim was locked
    ctx,          \* Clients -> context of the client's asynchronous Pin
    posted,       \* Clients -> requests of the submitted message not yet processed
    batch,        \* Clients -> local_message_pool: requests not yet submitted
    pc,           \* Clients -> "idle", "notify", "stray", "request", "wait", "oom"
    req,          \* Clients -> the request being made
    retries,      \* Clients -> refused attempts of the current pin
    held,         \* Clients -> pages the client has a reference to -> frame
    wrote,        \* Clients -> held pages it will unpin with is_write
    mem,          \* PPages -> content of the frame
    disk,         \* VPages -> content of the block
    stray,        \* Clients -> page the client has a stray reference to
    silent,       \* history: mapped pages whose latest change between no reference
                  \* and one was made by a stray
    drift         \* history: such changes to no reference minus those to one

server == <<srv_pc, serving, job, victim, pre_dirty, ctx>>
cache  == <<owner, replacement, pinned_size, allocated, first_loaded>>
client == <<batch, pc, req, retries, held, wrote>>
data   == <<mem, disk>>
strays == <<stray, silent, drift>>
vars   == <<pte, cache, server, posted, client, data, strays>>

-----------------------------------------------------------------------------
(* Types *)

Request == [type : {"Pin", "NotifyDirectPin", "NotifyDirectUnpin"}, page : VPages]

NoRequest == [type |-> "None", page |-> None]

Pte == [exist : BOOLEAN, busy : BOOLEAN, dirty : BOOLEAN, ref_count : Nat,
        ppage_id : PPages \cup {None}]

EmptyPte == [exist |-> FALSE, busy |-> FALSE, dirty |-> FALSE, ref_count |-> 0,
             ppage_id |-> None]

Context == [phase : {"End", "Begin", "Evicting", "Loading"},
            io : {"none", "deferred", "submitted", "finished"},
            ppage_id : PPages \cup {None}, pre_vpage_id : VPages \cup {None}]

NoContext == [phase |-> "End", io |-> "none", ppage_id |-> None, pre_vpage_id |-> None]

TypeOK ==
    /\ pte \in [VPages -> Pte]
    /\ owner \in [PPages -> VPages \cup {None}]
    /\ replacement \in SUBSET PPages
    /\ pinned_size \in Int
    /\ allocated \in SUBSET PPages
    /\ first_loaded \in [PPages -> BOOLEAN]
    /\ srv_pc \in {"loop", "pop", "lock", "spin"}
    /\ serving \in Clients \cup {None}
    /\ job \in Clients \cup {None}
    /\ victim \in PPages \cup {None}
    /\ pre_dirty \in BOOLEAN
    /\ ctx \in [Clients -> Context]
    /\ posted \in [Clients -> Seq(Request)]
    /\ batch \in [Clients -> Seq(Request)]
    /\ pc \in [Clients -> {"idle", "notify", "stray", "request", "wait", "oom"}]
    /\ req \in [Clients -> Request \cup {NoRequest}]
    /\ retries \in [Clients -> 0..MaxRetry]
    /\ held \in [Clients -> [VPages -> PPages \cup {None}]]
    /\ wrote \in [Clients -> SUBSET VPages]
    /\ mem \in [PPages -> Values \cup {None}]
    /\ disk \in [VPages -> Values \cup {None}]
    /\ stray \in [Clients -> VPages \cup {None}]
    /\ silent \in SUBSET VPages
    /\ drift \in Int

\* The constructors: an empty page table, no frame handed out.  first_loaded is
\* memory nobody initialises, so each flag starts with an arbitrary value.
Init ==
    /\ pte = [v \in VPages |-> EmptyPte]
    /\ owner = [p \in PPages |-> None]
    /\ replacement = {}
    /\ pinned_size = 0
    /\ allocated = {}
    /\ first_loaded \in [PPages -> BOOLEAN]
    /\ srv_pc = "loop" /\ serving = None /\ job = None
    /\ victim = None /\ pre_dirty = FALSE
    /\ ctx = [c \in Clients |-> NoContext]
    /\ posted = [c \in Clients |-> <<>>]
    /\ batch = [c \in Clients |-> <<>>]
    /\ pc = [c \in Clients |-> "idle"]
    /\ req = [c \in Clients |-> NoRequest]
    /\ retries = [c \in Clients |-> 0]
    /\ held = [c \in Clients |-> [v \in VPages |-> None]]
    /\ wrote = [c \in Clients |-> {}]
    /\ mem = [p \in PPages |-> None]
    /\ disk = [v \in VPages |-> None]
    /\ stray = [c \in Clients |-> None]
    /\ silent = {}
    /\ drift = 0

-----------------------------------------------------------------------------
(* Client threads: SharedCache::pin, unpin and the use of the pointer *)

HeldBy(c) == {v \in VPages : held[c][v] # None}

full_pin == pinned_size >= Cardinality(PPages)

full == allocated = PPages

\* Mutant: every pin counts as the first.
FirstPinAlways(e) == TRUE

\* Mutant: lock() does not look at ref_count.
LockableShared(e) == ~e.busy

\* Mutant: dec_ref_count ignores is_write.
DecrementedClean(e, is_write) == [e EXCEPT !.ref_count = @ - 1]

\* What inc_ref_count, dec_ref_count and lock do with the header of an entry
\* (module PteHeader).
Pinnable(e) == e.exist /\ ~e.busy
FirstPin(e) == e.ref_count = 0
LastPin(e) == e.ref_count = 1
Incremented(e) == [e EXCEPT !.ref_count = @ + 1]
Decremented(e, is_write) == [e EXCEPT !.ref_count = @ - 1, !.dirty = @ \/ is_write]
Lockable(e) == e.ref_count = 0 /\ ~e.busy

\* The change of the pages' counts between no reference and one is known to the
\* server, or a notification of it is made: what strays did before no longer counts.
Reported(pages) ==
    /\ silent' = silent \ pages
    /\ UNCHANGED <<stray, drift>>

\* pin() starts on a page the client has no reference to, within its quota: this is
\* how PrivateCache uses it.  (IntegratedCache::shared_pin, which the program may
\* call beside it, has neither limit.)
MayPin(c, v) ==
    /\ pc[c] = "idle"
    /\ held[c][v] = None
    /\ Cardinality(HeldBy(c)) < MaxHeld

\* The direct pin succeeds: inc_ref_count.  The client that takes the count
\* from 0 to 1 owes the server a NotifyDirectPin.
DirectPin(c, v) ==
    /\ MayPin(c, v)
    /\ Pinnable(pte[v])
    /\ pte' = [pte EXCEPT ![v] = Incremented(@)]
    /\ held' = [held EXCEPT ![c][v] = pte[v].ppage_id]
    /\ IF FirstPin(pte[v])
       THEN /\ pc' = [pc EXCEPT ![c] = "notify"]
            /\ req' = [req EXCEPT ![c] = [type |-> "NotifyDirectPin", page |-> v]]
            /\ Reported({v})
       ELSE UNCHANGED <<pc, req, strays>>
    /\ UNCHANGED <<cache, server, posted, batch, retries, wrote, data>>

\* The direct pin fails: the client falls back on a Pin request.  The page may be
\* mapped all the same: a walk whose line is moved to another chain misses it.
PinMiss(c, v) ==
    /\ MayPin(c, v)
    /\ pc' = [pc EXCEPT ![c] = "request"]
    /\ req' = [req EXCEPT ![c] = [type |-> "Pin", page |-> v]]
    /\ UNCHANGED <<pte, cache, server, posted, batch, retries, held, wrote, data, strays>>

\* pin(v) increments the count of page w, for which the server has reused the line
\* that the walk found.  It does not report the increment, whatever the count was.
StrayPin(c, v, w) ==
    /\ MayPin(c, v)
    /\ w # v
    /\ Pinnable(pte[w])
    /\ -MaxDrift < drift /\ drift < MaxDrift
    /\ pte' = [pte EXCEPT ![w] = Incremented(@)]
    /\ stray' = [stray EXCEPT ![c] = w]
    /\ pc' = [pc EXCEPT ![c] = "stray"]
    /\ req' = [req EXCEPT ![c] = [type |-> "Pin", page |-> v]]
    /\ IF FirstPin(pte[w])
       THEN silent' = silent \cup {w} /\ drift' = drift - 1
       ELSE UNCHANGED <<silent, drift>>
    /\ UNCHANGED <<cache, server, posted, batch, retries, held, wrote, data>>

\* Mutant: the client goes to the server without giving the stray reference back.
StrayUnpinKept(c) ==
    /\ pc[c] = "stray"
    /\ stray' = [stray EXCEPT ![c] = None]
    /\ pc' = [pc EXCEPT ![c] = "request"]
    /\ UNCHANGED <<pte, cache, server, posted, batch, req, retries, held, wrote, data,
                   silent, drift>>

\* The tag of the line is not that of v: dec_ref_count, whose result is ignored, and
\* the client falls back on a Pin request.
StrayUnpin(c) ==
    LET w == stray[c] IN
    /\ pc[c] = "stray"
    /\ pte' = [pte EXCEPT ![w] = Decremented(@, FALSE)]
    /\ stray' = [stray EXCEPT ![c] = None]
    /\ pc' = [pc EXCEPT ![c] = "request"]
    /\ IF LastPin(pte[w])
       THEN silent' = silent \cup {w} /\ drift' = drift + 1
       ELSE UNCHANGED <<silent, drift>>
    /\ UNCHANGED <<cache, server, posted, batch, req, retries, held, wrote, data>>

\* A store through the pinned pointer.
Write(c, v, x) ==
    /\ pc[c] = "idle"
    /\ held[c][v] # None
    /\ mem' = [mem EXCEPT ![held[c][v]] = x]
    /\ wrote' = [wrote EXCEPT ![c] = @ \cup {v}]
    /\ UNCHANGED <<pte, cache, server, posted, batch, pc, req, retries, held, disk, strays>>

\* unpin(): dec_ref_count, which also sets dirty for a writer.  The client that
\* takes the count to 0 owes the server a NotifyDirectUnpin.
Unpin(c, v) ==
    /\ pc[c] = "idle"
    /\ held[c][v] # None
    /\ pte' = [pte EXCEPT ![v] = Decremented(@, v \in wrote[c])]
    /\ held' = [held EXCEPT ![c][v] = None]
    /\ wrote' = [wrote EXCEPT ![c] = @ \ {v}]
    /\ IF LastPin(pte[v])
       THEN /\ pc' = [pc EXCEPT ![c] = "notify"]
            /\ req' = [req EXCEPT ![c] = [type |-> "NotifyDirectUnpin", page |-> v]]
            /\ Reported({v})
       ELSE UNCHANGED <<pc, req, strays>>
    /\ UNCHANGED <<cache, server, posted, batch, retries, data>>

\* PartitionClient::request for a notification: wait until the previous message
\* has been answered, append to the batch, submit the batch when it is full.
Notify(c) ==
    /\ pc[c] = "notify"
    /\ posted[c] = <<>>
    /\ LET b == Append(batch[c], req[c])
       IN  IF Len(b) = MaxComms
           THEN /\ posted' = [posted EXCEPT ![c] = b]
                /\ batch' = [batch EXCEPT ![c] = <<>>]
           ELSE /\ batch' = [batch EXCEPT ![c] = b]
                /\ UNCHANGED posted
    /\ pc' = [pc EXCEPT ![c] = "idle"]
    /\ req' = [req EXCEPT ![c] = NoRequest]
    /\ UNCHANGED <<pte, cache, server, retries, held, wrote, data, strays>>

\* The Pin request joins the batch and poll_message submits it at once: a Pin is
\* always the last request of its message.
RequestPin(c) ==
    /\ pc[c] = "request"
    /\ posted[c] = <<>>
    /\ posted' = [posted EXCEPT ![c] = Append(batch[c], req[c])]
    /\ batch' = [batch EXCEPT ![c] = <<>>]
    /\ pc' = [pc EXCEPT ![c] = "wait"]
    /\ UNCHANGED <<pte, cache, server, req, retries, held, wrote, data, strays>>

-----------------------------------------------------------------------------
(* Answers of the server, written to the client's response *)

\* A pointer to frame p: the pin returns.
AnswerPointer(c, p) ==
    /\ pc' = [pc EXCEPT ![c] = "idle"]
    /\ req' = [req EXCEPT ![c] = NoRequest]
    /\ retries' = [retries EXCEPT ![c] = 0]
    /\ held' = [held EXCEPT ![c][req[c].page] = p]

TriesAgain(c) == retries[c] < MaxRetry

\* EMPTY_POINTER: the client asks again, and throws once it has tried too often.
AnswerEmpty(c) ==
    /\ IF TriesAgain(c)
       THEN /\ pc' = [pc EXCEPT ![c] = "request"]
            /\ retries' = [retries EXCEPT ![c] = @ + 1]
            /\ UNCHANGED req
       ELSE /\ pc' = [pc EXCEPT ![c] = "oom"]
            /\ req' = [req EXCEPT ![c] = NoRequest]
            /\ retries' = [retries EXCEPT ![c] = 0]
    /\ UNCHANGED held

-----------------------------------------------------------------------------
(* Server thread: the requests of a message *)

\* The server takes the next request of client c: it finishes one message before
\* it looks at another client or lets the asynchronous fiber run.
Turn(c, type) ==
    /\ srv_pc = "loop"
    /\ serving \in {None, c}
    /\ posted[c] # <<>>
    /\ Head(posted[c]).type = type

Take(c) ==
    /\ posted' = [posted EXCEPT ![c] = Tail(@)]
    /\ serving' = IF Len(posted[c]) > 1 THEN c ELSE None

\* The fiber with the asynchronous requests runs between messages.
FiberRuns == srv_pc = "loop" /\ serving = None

\* notify_pin
ServeNotifyPin(c) ==
    /\ Turn(c, "NotifyDirectPin")
    /\ Take(c)
    /\ pinned_size' = pinned_size + 1
    /\ LET e == pte[Head(posted[c]).page]
       IN  replacement' = IF e.ref_count > 0
                          THEN replacement \ {e.ppage_id} ELSE replacement
    /\ UNCHANGED <<pte, owner, allocated, first_loaded, srv_pc, job, victim,
                   pre_dirty, ctx, client, data, strays>>

\* Mutant: notify_unpin only counts.
EvictableNever(e) == FALSE

\* Mutant: notify_unpin trusts the notification and not the entry.
EvictableStale(e) == e.exist

Evictable(e) == e.exist /\ e.ref_count = 0

\* notify_unpin
ServeNotifyUnpin(c) ==
    /\ Turn(c, "NotifyDirectUnpin")
    /\ Take(c)
    /\ pinned_size' = pinned_size - 1
    /\ LET e == pte[Head(posted[c]).page]
       IN  replacement' = IF Evictable(e)
                          THEN replacement \cup {e.ppage_id} ELSE replacement
    /\ UNCHANGED <<pte, owner, allocated, first_loaded, srv_pc, job, victim,
                   pre_dirty, ctx, client, data, strays>>

\* A Pin reaches process() from its message, or again from the fiber while it is
\* still in phase Begin; it leaves the client's context as k.
Dispatched(c, k) ==
    /\ \/ Turn(c, "Pin") /\ Take(c)
       \/ FiberRuns /\ ctx[c].phase = "Begin" /\ UNCHANGED <<posted, serving>>
    /\ ctx' = [ctx EXCEPT ![c] = k]

\* Begin: the entry is busy (being loaded or written back), try again later.
ServePinBusy(c) ==
    /\ Turn(c, "Pin")
    /\ pte[req[c].page].busy
    /\ Take(c)
    /\ ctx' = [ctx EXCEPT ![c].phase = "Begin"]
    /\ UNCHANGED <<pte, cache, srv_pc, job, victim, pre_dirty, client, data, strays>>

\* The page is mapped: pin it like a client would, with the bookkeeping in place.
PinHit(c) ==
    LET v == req[c].page IN
    /\ Dispatched(c, NoContext)
    /\ Pinnable(pte[v])
    /\ pte' = [pte EXCEPT ![v] = Incremented(@)]
    /\ IF FirstPin(pte[v])
       THEN /\ replacement' = replacement \ {pte[v].ppage_id}
            /\ pinned_size' = pinned_size + 1
            /\ Reported({v})
       ELSE UNCHANGED <<replacement, pinned_size, strays>>
    /\ AnswerPointer(c, pte[v].ppage_id)
    /\ UNCHANGED <<owner, allocated, first_loaded, srv_pc, job, victim, pre_dirty,
                   batch, wrote, data>>

\* A miss, and every frame counts as pinned: refuse.
PinRefused(c) ==
    /\ Dispatched(c, NoContext)
    /\ ~pte[req[c].page].exist /\ ~pte[req[c].page].busy
    /\ full_pin
    /\ AnswerEmpty(c)
    /\ UNCHANGED <<pte, cache, srv_pc, job, victim, pre_dirty, batch, wrote, data, strays>>

\* evict_func and load_func return false when first called: the context is copied
\* to the fiber, and the command is issued from there.
Deferred(phase, p, w) == [phase |-> phase, io |-> "deferred", ppage_id |-> p,
                          pre_vpage_id |-> w]

\* Mutant: create_mapping leaves out the reference of the waiting client.
NewMappingUnreferenced(p, busy) == [exist |-> TRUE, busy |-> busy, dirty |-> FALSE,
                                    ref_count |-> 0, ppage_id |-> p]

\* Mutant: create_mapping does not keep the entry locked until the page is loaded.
NewMappingOpen(p, busy) == [exist |-> TRUE, busy |-> FALSE, dirty |-> FALSE,
                            ref_count |-> 1, ppage_id |-> p]

NewMapping(p, busy) == [exist |-> TRUE, busy |-> busy, dirty |-> FALSE,
                        ref_count |-> 1, ppage_id |-> p]

\* A miss while a frame has never been used: create_mapping and the first call of
\* load_func, which skips the read of a frame that is used for the first time.
PinAllocated(c, p) ==
    LET v == req[c].page IN
    /\ Dispatched(c, NoContext)
    /\ ~pte[v].exist /\ ~pte[v].busy
    /\ ~full_pin /\ p \notin allocated
    /\ ~first_loaded[p]
    /\ pinned_size' = pinned_size + 1
    /\ allocated' = allocated \cup {p}
    /\ pte' = [pte EXCEPT ![v] = NewMapping(p, FALSE)]
    /\ owner' = [owner EXCEPT ![p] = v]
    /\ first_loaded' = [first_loaded EXCEPT ![p] = TRUE]
    /\ Reported({v})
    /\ AnswerPointer(c, p)
    /\ UNCHANGED <<replacement, srv_pc, job, victim, pre_dirty, batch, wrote, data>>

\* The same when first_loaded happens to hold TRUE already: the block is read.
PinAllocatedRead(c, p) ==
    LET v == req[c].page IN
    /\ Dispatched(c, Deferred("Loading", p, None))
    /\ ~pte[v].exist /\ ~pte[v].busy
    /\ ~full_pin /\ p \notin allocated
    /\ first_loaded[p]
    /\ pinned_size' = pinned_size + 1
    /\ allocated' = allocated \cup {p}
    /\ pte' = [pte EXCEPT ![v] = NewMapping(p, TRUE)]
    /\ owner' = [owner EXCEPT ![p] = v]
    /\ Reported({v})
    /\ UNCHANGED <<replacement, first_loaded, srv_pc, job, victim, pre_dirty,
                   client, data>>

\* A miss with every frame in use: enter the eviction loop.
PinEvicts(c) ==
    /\ Dispatched(c, NoContext)
    /\ ~pte[req[c].page].exist /\ ~pte[req[c].page].busy
    /\ ~full_pin /\ full
    /\ pinned_size' = pinned_size + 1
    /\ srv_pc' = "pop"
    /\ job' = c
    /\ UNCHANGED <<pte, owner, replacement, allocated, first_loaded, victim,
                   pre_dirty, client, data, strays>>

-----------------------------------------------------------------------------
(* Server thread: the eviction loop *)

Popped(p) == replacement \ {p}

\* replacement.pop() and the read of the victim's entry.  A victim in use is
\* dropped and the loop goes on.
ServerPop(p) ==
    /\ srv_pc = "pop"
    /\ p \in replacement
    /\ replacement' = Popped(p)
    /\ LET e == pte[owner[p]]
       IN  IF ~Lockable(e)
           THEN UNCHANGED <<srv_pc, victim, pre_dirty>>
           ELSE /\ srv_pc' = "lock"
                /\ victim' = p
                /\ pre_dirty' = e.dirty
    /\ UNCHANGED <<pte, owner, pinned_size, allocated, first_loaded, serving, job,
                   ctx, posted, client, data, strays>>

\* Clock::pop with no evictable frame: the hand turns for ever.
ServerPopEmpty ==
    /\ srv_pc = "pop"
    /\ replacement = {}
    /\ srv_pc' = "spin"
    /\ UNCHANGED <<pte, cache, serving, job, victim, pre_dirty, ctx, posted,
                   client, data, strays>>

ServerSpin ==
    /\ srv_pc = "spin"
    /\ UNCHANGED vars

\* delete_mapping loses the race for the entry to a client: next victim.
ServerLockFails ==
    /\ srv_pc = "lock"
    /\ ~Lockable(pte[owner[victim]])
    /\ srv_pc' = "pop"
    /\ victim' = None
    /\ pre_dirty' = FALSE
    /\ UNCHANGED <<pte, cache, serving, job, ctx, posted, client, data, strays>>

\* Mutant: the entry of a dirty victim is released before it is written.
EmptiedReleased(dirty) == EmptyPte

Emptied(dirty) == [EmptyPte EXCEPT !.busy = dirty]

\* delete_mapping locks the victim's entry and empties it, create_mapping gives
\* the frame to the new page, and evict_func is called for the first time.  A
\* clean victim is released at once; a dirty one stays busy until it is written.
ServerLock ==
    LET v == req[job].page
        w == owner[victim]
    IN
    /\ srv_pc = "lock"
    /\ Lockable(pte[w])
    /\ pte' = [pte EXCEPT ![w] = Emptied(pre_dirty),
                          ![v] = NewMapping(victim, TRUE)]
    /\ IF pre_dirty
       THEN /\ ctx' = [ctx EXCEPT ![job] = Deferred("Evicting", victim, w)]
            /\ UNCHANGED owner
       ELSE /\ ctx' = [ctx EXCEPT ![job] = Deferred("Loading", victim, None)]
            /\ owner' = [owner EXCEPT ![victim] = v]
    /\ srv_pc' = "loop"
    /\ job' = None /\ victim' = None /\ pre_dirty' = FALSE
    /\ Reported({v, w})
    /\ UNCHANGED <<replacement, pinned_size, allocated, first_loaded, serving,
                   posted, client, data>>

-----------------------------------------------------------------------------
(* Server thread: the asynchronous fiber, and the device *)

\* evict_func or load_func issues the command.
FiberSubmit(c) ==
    /\ FiberRuns
    /\ ctx[c].io = "deferred"
    /\ ctx' = [ctx EXCEPT ![c].io = "submitted"]
    /\ UNCHANGED <<pte, cache, srv_pc, serving, job, victim, pre_dirty, posted,
                   client, data, strays>>

\* Mutant: the completion callback does not set finish.
CompletedNever(c) == UNCHANGED ctx

Completed(c) == ctx' = [ctx EXCEPT ![c].io = "finished"]

\* The device completes the write-back of a victim.
DeviceWrite(c) ==
    /\ ctx[c].phase = "Evicting" /\ ctx[c].io = "submitted"
    /\ disk' = [disk EXCEPT ![ctx[c].pre_vpage_id] = mem[ctx[c].ppage_id]]
    /\ Completed(c)
    /\ UNCHANGED <<pte, cache, srv_pc, serving, job, victim, pre_dirty, posted,
                   client, mem, strays>>

\* The device completes the read of the wanted page.
DeviceRead(c) ==
    /\ ctx[c].phase = "Loading" /\ ctx[c].io = "submitted"
    /\ mem' = [mem EXCEPT ![ctx[c].ppage_id] = disk[req[c].page]]
    /\ Completed(c)
    /\ UNCHANGED <<pte, cache, srv_pc, serving, job, victim, pre_dirty, posted,
                   client, disk, strays>>

\* Evicting: the victim is on disk, release its entry and start the load.
FiberEvicted(c) ==
    /\ FiberRuns
    /\ ctx[c].phase = "Evicting" /\ ctx[c].io = "finished"
    /\ pte' = [pte EXCEPT ![ctx[c].pre_vpage_id].busy = FALSE]
    /\ owner' = [owner EXCEPT ![ctx[c].ppage_id] = req[c].page]
    /\ ctx' = [ctx EXCEPT ![c] = Deferred("Loading", ctx[c].ppage_id, None)]
    /\ UNCHANGED <<replacement, pinned_size, allocated, first_loaded, srv_pc,
                   serving, job, victim, pre_dirty, posted, client, data, strays>>

\* Loading: the page is in, release its entry and write the response.
FiberLoaded(c) ==
    /\ FiberRuns
    /\ ctx[c].phase = "Loading" /\ ctx[c].io = "finished"
    /\ pte' = [pte EXCEPT ![req[c].page].busy = FALSE]
    /\ ctx' = [ctx EXCEPT ![c] = NoContext]
    /\ AnswerPointer(c, ctx[c].ppage_id)
    /\ UNCHANGED <<cache, srv_pc, serving, job, victim, pre_dirty, posted, batch,
                   wrote, data, strays>>

-----------------------------------------------------------------------------
ClientStep(c) ==
    \/ \E v \in VPages : DirectPin(c, v) \/ PinMiss(c, v) \/ Unpin(c, v)
    \/ \E v, w \in VPages : StrayPin(c, v, w)
    \/ StrayUnpin(c)
    \/ \E v \in VPages, x \in Values : Write(c, v, x)
    \/ Notify(c)
    \/ RequestPin(c)

\* What the server thread does for client c.
ServerStep(c) ==
    \/ ServeNotifyPin(c)
    \/ ServeNotifyUnpin(c)
    \/ ServePinBusy(c)
    \/ PinHit(c)
    \/ PinRefused(c)
    \/ \E p \in PPages : PinAllocated(c, p) \/ PinAllocatedRead(c, p)
    \/ PinEvicts(c)
    \/ FiberSubmit(c)
    \/ FiberEvicted(c)
    \/ FiberLoaded(c)

EvictionStep ==
    \/ \E p \in PPages : ServerPop(p)
    \/ ServerPopEmpty
    \/ ServerLockFails
    \/ ServerLock

DeviceStep(c) == DeviceWrite(c) \/ DeviceRead(c)

Next ==
    \/ \E c \in Clients : ClientStep(c) \/ ServerStep(c) \/ DeviceStep(c)
    \/ EvictionStep
    \/ ServerSpin

Spec == Init /\ [][Next]_vars

\* The server loop scans every client and runs the fiber in each round, the
\* device completes what it was given, and a client inside pin() or unpin() goes on.
Fairness ==
    /\ \A c \in Clients :
        /\ SF_vars(ServerStep(c))
        /\ WF_vars(DeviceStep(c))
        /\ WF_vars(StrayUnpin(c) \/ Notify(c) \/ RequestPin(c))
    /\ WF_vars(EvictionStep)

FairSpec == Spec /\ Fairness

-----------------------------------------------------------------------------
(* Safety *)

\* Pin requests whose page is being moved into a frame.
InTransit(c) == ctx[c].phase \in {"Evicting", "Loading"}

\* A page some client has pinned stays where the client's pointer says it is:
\* mapped, not locked, in that frame, and the frame holds this page.  The pointer
\* returned by SharedCache::pin is used until unpin, so no interleaving of
\* eviction, write-back and load may touch a pinned page.
PinnedStays ==
    \A c \in Clients, v \in VPages :
        held[c][v] # None =>
            /\ pte[v].exist /\ ~pte[v].busy
            /\ pte[v].ppage_id = held[c][v]
            /\ owner[held[c][v]] = v

\* ref_count is the number of clients that hold the page, plus the Pin in progress
\* that created the mapping, plus the stray references: no reference is lost or
\* counted twice.
RefCounted ==
    \A v \in VPages :
        pte[v].ref_count =
            Cardinality({c \in Clients : held[c][v] # None})
            + Cardinality({c \in Clients : InTransit(c) /\ req[c].page = v})
            + Cardinality({c \in Clients : stray[c] = v})

\* A frame under I/O belongs to one request: no client has a pointer into it and
\* no other request moves a page through it.
FrameExclusive ==
    \A c \in Clients : InTransit(c) =>
        /\ \A d \in Clients, v \in VPages : held[d][v] # ctx[c].ppage_id
        /\ \A d \in Clients \ {c} : InTransit(d) => ctx[d].ppage_id # ctx[c].ppage_id

\* A block is never read while its write-back is outstanding: a Pin of a page that
\* is being evicted waits in phase Begin until the write has finished.
NoReadDuringWriteBack ==
    \A c, d \in Clients :
        ctx[c].phase = "Evicting" /\ ctx[d].phase = "Loading"
            => ctx[c].pre_vpage_id # req[d].page

\* Where the requests of client c are that the server has not processed yet: the one
\* being made, the batch, and the rest of the submitted message.
Places == {"made", "batch", "posted"}
Place(c, q) == CASE q = "posted" -> posted[c]
                 [] q = "batch" -> batch[c]
                 [] q = "made" -> IF pc[c] = "notify" THEN <<req[c]>> ELSE <<>>

\* The requests of this type that the clients still owe the server, by their places.
Owing(type) ==
    UNION {{<<c, q, i>> : i \in {j \in DOMAIN Place(c, q) : Place(c, q)[j].type = type}}
             : c \in Clients, q \in Places}

\* A notification of this type for page v is on its way.
Coming(type, v) ==
    LET r == [type |-> type, page |-> v] IN
    \E c \in Clients :
        \/ \E i \in DOMAIN posted[c] : posted[c][i] = r
        \/ \E i \in DOMAIN batch[c] : batch[c][i] = r
        \/ pc[c] = "notify" /\ req[c] = r

\* pinned_size, which decides whether a miss is refused, differs from the number
\* of pinned pages exactly by the notifications under way, in whatever order the
\* messages of different clients arrive, and by the drift: one more for each time
\* the tag check of pin() hid a last unpin, one less for each first pin.  The drift
\* stays when everything else has come to rest.
PinnedSizeExact ==
    pinned_size = Cardinality({v \in VPages : pte[v].ref_count > 0})
                  + (IF srv_pc = "loop" THEN 0 ELSE 1)
                  + Cardinality(Owing("NotifyDirectUnpin"))
                  - Cardinality(Owing("NotifyDirectPin"))
                  + drift

\* No frame leaks unless a stray took the last reference back: a mapped page nobody
\* has pinned can be evicted now, or is the victim being evicted, or the notification
\* that will make it evictable is coming, or it was a stray that changed its count
\* last, and the next pin and unpin of the page mend it.
NoFrameLeaks ==
    \A v \in VPages :
        pte[v].exist /\ ~pte[v].busy /\ pte[v].ref_count = 0 =>
            \/ pte[v].ppage_id \in replacement \cup {victim}
            \/ Coming("NotifyDirectUnpin", v)
            \/ v \in silent

\* The replacement policy holds only frames that back a mapped page, and a pinned one
\* only while the server has yet to hear of the pin (notify_pin takes it out, and
\* nothing puts it back) or if a stray made the first reference, so that nobody
\* reports it.
EvictableSound ==
    \A p \in replacement :
        /\ owner[p] # None
        /\ pte[owner[p]].exist /\ ~pte[owner[p]].busy
        /\ pte[owner[p]].ppage_id = p
        /\ pte[owner[p]].ref_count > 0 =>
              Coming("NotifyDirectPin", owner[p]) \/ owner[p] \in silent

\* The loop in Clock::pop is entered with a frame to find (assert(count > 0)).
PopFindsFrame == srv_pc # "spin"

-----------------------------------------------------------------------------
(* The address space a cache implements *)

\* Where the current content of page v is: in its frame once loaded, in the frame
\* it is being evicted from, otherwise on disk.
ContentOf(v) ==
    IF pte[v].exist /\ ~pte[v].busy THEN mem[pte[v].ppage_id]
    ELSE IF \E c \in Clients : ctx[c].phase = "Evicting" /\ ctx[c].pre_vpage_id = v
    THEN mem[ctx[CHOOSE c \in Clients : ctx[c].phase = "Evicting"
                                        /\ ctx[c].pre_vpage_id = v].ppage_id]
    ELSE disk[v]

AS == INSTANCE AddressSpace WITH
        content <- [v \in VPages |-> ContentOf(v)],
        pinned <- [c \in Clients |-> HeldBy(c)]

\* The shared cache implements the address space: no eviction, write-back, load or
\* notification changes what a page contains.
ImplementsAddressSpace == AS!Spec

-----------------------------------------------------------------------------
(* Liveness *)

\* A client that waits in SharedCache::pin for the server is answered: the
\* eviction loop ends, the I/O of the victim and of the page is issued and
\* completed, and the response is written.
PinAnswered == \A c \in Clients : pc[c] = "wait" ~> pc[c] # "wait"
=============================================================================
