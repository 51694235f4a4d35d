----------------------------- MODULE PageTable -----------------------------
(***************************************************************************)
(* The hash chains of CompactHashPageTable.  A cache line holds the        *)
(* entries of Pack neighbouring pages, which share a tag; a bucket is a    *)
(* chain of lines whose first line is fixed and whose others come from a   *)
(* pool.  The server thread appends and unlinks lines while clients walk   *)
(* the chain without a lock: a client may stand on a line that is          *)
(* unlinked, returned to the pool and used again for another tag.          *)
(*                                                                         *)
(* A step is one access to a tag, a next pointer or a header.  Operations  *)
(* on a header are atomic (module PteHeader).  What the server does with   *)
(* the entries is kept as far as the chains depend on it: contents and     *)
(* I/O are left out, and a notification reaches the server at once (module *)
(* SharedCache has both).                                                  *)
(***************************************************************************)
EXTENDS Integers, Sequences, SequencesExt, FiniteSets

CONSTANTS
    Clients,
    Pages,       \* pages the clients use
    Pack,        \* NUM_PACK_PAGES
    NumFrames,   \* max_ppage_id: frames, and lines of the pool
    MaxPinned,   \* bound: pin is called with fewer pages counted as pinned
    None         \* nullptr, EMPTY_TAG, EMPTY_PPAGE_ID

ASSUME PagesAssumption == Pages \subseteq Nat /\ IsFiniteSet(Pages)
ASSUME SizesAssumption == Pack \in Nat \ {0} /\ NumFrames \in Nat \ {0} /\ MaxPinned \in Nat
ASSUME ClientsAssumption == IsFiniteSet(Clients)
ASSUME NoneAssumption == None \notin Nat \cup Clients

VARIABLES
    line,        \* Lines -> tag, next and num_using of the cache line
    header,      \* Lines -> Offsets -> header and frame of the entry
    pool,        \* lines in no chain, a stack
    pinned_size, \* first pins reported minus last unpins reported
    evictable,   \* pages whose frames are in the replacement policy
    allocated,   \* cur_id: number of frames handed out
    srv_pc,      \* "loop", "link", "init", "cut", "push"
    job,         \* what the server is in the middle of: client, line, predecessor
    ctx,         \* Clients -> context of the client's asynchronous Pin
    pc,          \* Clients -> control point inside pin and unpin
    op,          \* Clients -> "pin", "unpin": the call the client is in
    page,        \* Clients -> page of the call, or the page held
    at,          \* Clients -> line the walk has reached
    first,       \* Clients -> inc_ref_count returned 0
    frame        \* Clients -> frame whose pointer the client has

table  == <<line, header, pool>>
policy == <<pinned_size, evictable, allocated>>
server == <<srv_pc, job, ctx>>
client == <<pc, op, page, at, first, frame>>
vars   == <<table, policy, server, client>>

bucket_size == 2 * NumFrames

Tag(v) == v \div Pack
Offset(v) == v % Pack
get_bucket(t) == t % bucket_size

Lines == 0 .. bucket_size + NumFrames - 1
Offsets == 0 .. Pack - 1

EmptyHeader == [exist |-> FALSE, busy |-> FALSE, ref_count |-> 0, ppage_id |-> None]
NoJob == [client |-> None, line |-> None, pre |-> None]
NoContext == [phase |-> "End", hint |-> None, victim |-> None, pre_hint |-> None]

-----------------------------------------------------------------------------
(* Chains, as the server thread sees them: it is the only writer *)

\* The lines of bucket b in the order of a walk: its first line, and at most every
\* line of the pool.
Chain(b) ==
    LET walk[n \in 0 .. NumFrames] ==
            IF n = 0 THEN <<b>>
            ELSE LET w == walk[n - 1]
                 IN  IF line[Last(w)].next = None THEN w
                     ELSE Append(w, line[Last(w)].next)
    IN  walk[NumFrames]

\* find_cacheline, find_cacheline_hint
LinesOf(t) == {l \in ToSet(Chain(get_bucket(t))) : line[l].tag = t}
HasLine(t) == LinesOf(t) # {}
LineOf(t) == CHOOSE l \in LinesOf(t) : TRUE

\* find_pre_cacheline: None for the first line of a bucket
PreOf(l) ==
    LET w == Chain(get_bucket(line[l].tag))
        i == CHOOSE n \in DOMAIN w : w[n] = l
    IN  IF i = 1 THEN None ELSE w[i - 1]

Entry(v) == IF HasLine(Tag(v)) THEN header[LineOf(Tag(v))][Offset(v)] ELSE EmptyHeader

Init ==
    /\ line = [l \in Lines |-> [tag |-> None, next |-> None, num_using |-> 0]]
    /\ header = [l \in Lines |-> [o \in Offsets |-> EmptyHeader]]
    /\ pool = [i \in 1 .. NumFrames |-> bucket_size + i - 1]
    /\ pinned_size = 0 /\ evictable = {} /\ allocated = 0
    /\ srv_pc = "loop" /\ job = NoJob
    /\ ctx = [c \in Clients |-> NoContext]
    /\ pc = [c \in Clients |-> "idle"]
    /\ op = [c \in Clients |-> "pin"]
    /\ page = [c \in Clients |-> None]
    /\ at = [c \in Clients |-> None]
    /\ first = [c \in Clients |-> FALSE]
    /\ frame = [c \in Clients |-> None]

-----------------------------------------------------------------------------
(* Clients: pin and unpin walk the chain *)

\* What a client's call does to a header.
Pinnable(e) == e.exist /\ ~e.busy
Lockable(e) == e.ref_count = 0 /\ ~e.busy
Counted(l, v, d) == [header EXCEPT ![l][Offset(v)].ref_count = @ + d]

\* The call returns to the program.
Return(c) ==
    /\ pc' = [pc EXCEPT ![c] = "idle"]
    /\ op' = [op EXCEPT ![c] = "pin"]
    /\ page' = [page EXCEPT ![c] = None]
    /\ at' = [at EXCEPT ![c] = None]
    /\ frame' = [frame EXCEPT ![c] = None]

\* The client has a pointer to frame f.
Holds(c, f) ==
    /\ pc' = [pc EXCEPT ![c] = "held"]
    /\ at' = [at EXCEPT ![c] = None]
    /\ first' = [first EXCEPT ![c] = FALSE]
    /\ frame' = [frame EXCEPT ![c] = f]

StartWalk(c, v, call) ==
    /\ pc' = [pc EXCEPT ![c] = "tag"]
    /\ op' = [op EXCEPT ![c] = call]
    /\ page' = [page EXCEPT ![c] = v]
    /\ at' = [at EXCEPT ![c] = get_bucket(Tag(v))]
    /\ UNCHANGED <<table, policy, server, first, frame>>

PinCall(c, v) ==
    /\ pc[c] = "idle"
    /\ pinned_size \in 0 .. MaxPinned - 1
    /\ StartWalk(c, v, "pin")

UnpinCall(c) == pc[c] = "held" /\ StartWalk(c, page[c], "unpin")

\* find_cacheline: the tag of the line
ReadTag(c) ==
    /\ pc[c] = "tag"
    /\ pc' = [pc EXCEPT ![c] = IF line[at[c]].tag = Tag(page[c]) THEN "found" ELSE "next"]
    /\ UNCHANGED <<table, policy, server, op, page, at, first, frame>>

\* What the end of the chain means: pin gives up and asks the server, unpin knows
\* that the page is mapped and walks again.
AtEnd(c) == IF op[c] = "pin" THEN "wait" ELSE "tag"

\* find_cacheline: the next line of the chain
ReadNext(c) ==
    /\ pc[c] = "next"
    /\ LET n == line[at[c]].next
       IN  IF n # None
           THEN /\ at' = [at EXCEPT ![c] = n]
                /\ pc' = [pc EXCEPT ![c] = "tag"]
           ELSE /\ pc' = [pc EXCEPT ![c] = AtEnd(c)]
                /\ at' = [at EXCEPT ![c] = IF AtEnd(c) = "tag"
                                           THEN get_bucket(Tag(page[c])) ELSE None]
    /\ UNCHANGED <<table, policy, server, op, page, first, frame>>

\* pin: inc_ref_count on the line found, whatever it is used for by now
Inc(c) ==
    LET e == header[at[c]][Offset(page[c])] IN
    /\ pc[c] = "found" /\ op[c] = "pin"
    /\ IF Pinnable(e)
       THEN /\ header' = Counted(at[c], page[c], 1)
            /\ first' = [first EXCEPT ![c] = e.ref_count = 0]
            /\ pc' = [pc EXCEPT ![c] = "check"]
            /\ UNCHANGED at
       ELSE /\ pc' = [pc EXCEPT ![c] = "wait"]
            /\ at' = [at EXCEPT ![c] = None]
            /\ UNCHANGED <<header, first>>
    /\ UNCHANGED <<line, pool, policy, server, op, page, frame>>

\* Mutant: pin does not look at the tag again.
SameLineUnchecked(c) == TRUE

SameLine(c) == line[at[c]].tag = Tag(page[c])

\* pin: the tag is still that of the page.  The first pin is reported.
Check(c) ==
    /\ pc[c] = "check"
    /\ SameLine(c)
    /\ Holds(c, header[at[c]][Offset(page[c])].ppage_id)
    /\ pinned_size' = IF first[c] THEN pinned_size + 1 ELSE pinned_size
    /\ evictable' = IF first[c] THEN evictable \ {page[c]} ELSE evictable
    /\ UNCHANGED <<table, allocated, server, op, page>>

\* pin: "Check Tag Error".  The reference to somebody else's entry is given back,
\* and nobody hears of it.
CheckFails(c) ==
    /\ pc[c] = "check"
    /\ ~SameLine(c)
    /\ header' = Counted(at[c], page[c], -1)
    /\ pc' = [pc EXCEPT ![c] = "wait"]
    /\ at' = [at EXCEPT ![c] = None]
    /\ first' = [first EXCEPT ![c] = FALSE]
    /\ UNCHANGED <<line, pool, policy, server, op, page, frame>>

\* unpin: dec_ref_count.  The last unpin is reported.
Dec(c) ==
    /\ pc[c] = "found" /\ op[c] = "unpin"
    /\ header' = Counted(at[c], page[c], -1)
    /\ Return(c)
    /\ IF header[at[c]][Offset(page[c])].ref_count = 1
       THEN /\ pinned_size' = pinned_size - 1
            /\ evictable' = evictable \cup {page[c]}
       ELSE UNCHANGED <<pinned_size, evictable>>
    /\ UNCHANGED <<line, pool, allocated, server, first>>

-----------------------------------------------------------------------------
(* Server: a Pin request finds or creates the line of its page *)

Waits(c) == pc[c] = "wait" /\ op[c] = "pin" /\ ctx[c].phase = "End"

\* find_or_create_hint when the line exists
ServeFind(c) ==
    /\ srv_pc = "loop"
    /\ Waits(c)
    /\ HasLine(Tag(page[c]))
    /\ ~Entry(page[c]).busy
    /\ srv_pc' = "init"
    /\ job' = [client |-> c, line |-> LineOf(Tag(page[c])), pre |-> None]
    /\ UNCHANGED <<table, policy, ctx, client>>

\* create_cacheline in the first line of the bucket, when no tag uses it
ServeCreateHead(c) ==
    LET b == get_bucket(Tag(page[c])) IN
    /\ srv_pc = "loop"
    /\ Waits(c)
    /\ ~HasLine(Tag(page[c])) /\ line[b].tag = None
    /\ line' = [line EXCEPT ![b].tag = Tag(page[c])]
    /\ srv_pc' = "init"
    /\ job' = [client |-> c, line |-> b, pre |-> None]
    /\ UNCHANGED <<header, pool, policy, ctx, client>>

\* create_cacheline in a line of the pool: its tag is stored before it is linked
ServeCreatePool(c) ==
    LET b == get_bucket(Tag(page[c])) IN
    /\ srv_pc = "loop"
    /\ Waits(c)
    /\ ~HasLine(Tag(page[c])) /\ line[b].tag # None
    /\ pool # <<>>
    /\ line' = [line EXCEPT ![Last(pool)].tag = Tag(page[c])]
    /\ pool' = Front(pool)
    /\ srv_pc' = "link"
    /\ job' = [client |-> c, line |-> Last(pool), pre |-> Last(Chain(b))]
    /\ UNCHANGED <<header, policy, ctx, client>>

\* Mutant: the new line becomes the second of its bucket.
LinkedInFront(l, pre) ==
    LET b == get_bucket(line[l].tag)
    IN  [line EXCEPT ![l].next = line[b].next, ![b].next = l]

Linked(l, pre) == [line EXCEPT ![pre].next = l]

ServeLink ==
    /\ srv_pc = "link"
    /\ line' = Linked(job.line, job.pre)
    /\ srv_pc' = "init"
    /\ job' = [job EXCEPT !.pre = None]
    /\ UNCHANGED <<header, pool, policy, ctx, client>>

-----------------------------------------------------------------------------
(* Server: the phase Initing of the request *)

JobPage == page[job.client]
JobEntry == header[job.line][Offset(JobPage)]

\* The page is mapped: pin with the hint.
InitHit ==
    /\ srv_pc = "init"
    /\ JobEntry.exist
    /\ header' = Counted(job.line, JobPage, 1)
    /\ Holds(job.client, JobEntry.ppage_id)
    /\ IF JobEntry.ref_count = 0
       THEN pinned_size' = pinned_size + 1 /\ evictable' = evictable \ {JobPage}
       ELSE UNCHANGED <<pinned_size, evictable>>
    /\ srv_pc' = "loop" /\ job' = NoJob
    /\ UNCHANGED <<line, pool, allocated, ctx, op, page>>

\* full_pin(): the request is refused and made again.  The line that was created
\* for it stays.  The count that full_pin() looks at lags behind the pins, so
\* with every frame in use either outcome is possible.
InitRefused ==
    /\ srv_pc = "init"
    /\ ~JobEntry.exist
    /\ allocated = NumFrames
    /\ srv_pc' = "loop" /\ job' = NoJob
    /\ UNCHANGED <<table, policy, ctx, client>>

\* Mutant: create_mapping leaves out the reference of the waiting client.
MappedUnreferenced(h, f) == [h EXCEPT ![job.line][Offset(JobPage)] =
                    [exist |-> TRUE, busy |-> TRUE, ref_count |-> 0, ppage_id |-> f]]

\* create_mapping of the job's page to frame f, locked until the page is loaded,
\* with the reference of the waiting client
Mapped(h, f) == [h EXCEPT ![job.line][Offset(JobPage)] =
                    [exist |-> TRUE, busy |-> TRUE, ref_count |-> 1, ppage_id |-> f]]

\* A frame that was never used.
InitAlloc ==
    /\ srv_pc = "init"
    /\ ~JobEntry.exist
    /\ allocated < NumFrames
    /\ allocated' = allocated + 1
    /\ header' = Mapped(header, allocated + 1)
    /\ line' = [line EXCEPT ![job.line].num_using = @ + 1]
    /\ pinned_size' = pinned_size + 1
    /\ ctx' = [ctx EXCEPT ![job.client] = [NoContext EXCEPT !.phase = "Loading",
                                                            !.hint = job.line]]
    /\ srv_pc' = "loop" /\ job' = NoJob
    /\ UNCHANGED <<pool, evictable, client>>

\* delete_mapping: the entry is locked and emptied, its line keeps num_using
Unmapped(l, u) == [header EXCEPT ![l][Offset(u)] = [EmptyHeader EXCEPT !.busy = TRUE]]

\* The frame of page u is taken.
InitEvict(u) ==
    LET l == LineOf(Tag(u))
        e == header[l][Offset(u)] IN
    /\ srv_pc = "init"
    /\ ~JobEntry.exist
    /\ allocated = NumFrames
    /\ u \in evictable
    /\ Lockable(e)
    /\ evictable' = evictable \ {u}
    /\ header' = Mapped(Unmapped(l, u), e.ppage_id)
    /\ line' = [line EXCEPT ![job.line].num_using = @ + 1]
    /\ pinned_size' = pinned_size + 1
    /\ ctx' = [ctx EXCEPT ![job.client] = [phase |-> "Evicting", hint |-> job.line,
                                           victim |-> u, pre_hint |-> l]]
    /\ srv_pc' = "loop" /\ job' = NoJob
    /\ UNCHANGED <<pool, allocated, client>>

\* The victim is in use: it is dropped and the loop goes on.
InitEvictFails(u) ==
    /\ srv_pc = "init"
    /\ ~JobEntry.exist
    /\ allocated = NumFrames
    /\ u \in evictable
    /\ ~Lockable(Entry(u))
    /\ evictable' = evictable \ {u}
    /\ UNCHANGED <<table, pinned_size, allocated, server, client>>

-----------------------------------------------------------------------------
(* Server: release_mapping_lock *)

Unlocked(l, v) == [header EXCEPT ![l][Offset(v)].busy = FALSE]

\* Mutant: release_mapping_lock deletes the line when an entry is emptied.
LastOfLineAlways(l) == TRUE

\* Whether the entry that is released was the last one of its line.
LastOfLine(l) == line[l].num_using = 1

\* Mutant: deleting the first line of a bucket also clears its next pointer.
HeadDeletedCut(l) == [line EXCEPT ![l] = [tag |-> None, next |-> None, num_using |-> 0]]

HeadDeleted(l) == [line EXCEPT ![l].tag = None, ![l].num_using = 0]

Used(l) == [line EXCEPT ![l].num_using = @ - 1]

\* The write-back is done: the victim's entry is unlocked, and its line deleted
\* with the last entry.  The first line of a bucket only loses its tag; a line of
\* the pool is unlinked first.
ReleaseVictim(c) ==
    LET l == ctx[c].pre_hint
        pre == PreOf(l) IN
    /\ srv_pc = "loop"
    /\ ctx[c].phase = "Evicting"
    /\ header' = Unlocked(l, ctx[c].victim)
    /\ ctx' = [ctx EXCEPT ![c].phase = "Loading", ![c].victim = None, ![c].pre_hint = None]
    /\ IF ~LastOfLine(l)
       THEN line' = Used(l) /\ UNCHANGED <<srv_pc, job>>
       ELSE IF pre = None
       THEN line' = HeadDeleted(l) /\ UNCHANGED <<srv_pc, job>>
       ELSE /\ line' = [Used(l) EXCEPT ![pre].next = line[l].next]
            /\ srv_pc' = "cut"
            /\ job' = [NoJob EXCEPT !.line = l]
    /\ UNCHANGED <<pool, policy, client>>

\* delete_cacheline: next of the unlinked line
DeleteCut ==
    /\ srv_pc = "cut"
    /\ line' = [line EXCEPT ![job.line].next = None]
    /\ srv_pc' = "push"
    /\ UNCHANGED <<header, pool, policy, job, ctx, client>>

\* delete_cacheline: back to the pool
DeletePush ==
    /\ srv_pc = "push"
    /\ pool' = Append(pool, job.line)
    /\ line' = [line EXCEPT ![job.line].tag = None]
    /\ srv_pc' = "loop" /\ job' = NoJob
    /\ UNCHANGED <<header, policy, ctx, client>>

\* The page is loaded: the client gets its pointer.
ReleaseLoaded(c) ==
    LET l == ctx[c].hint IN
    /\ srv_pc = "loop"
    /\ ctx[c].phase = "Loading"
    /\ header' = Unlocked(l, page[c])
    /\ Holds(c, header[l][Offset(page[c])].ppage_id)
    /\ ctx' = [ctx EXCEPT ![c] = NoContext]
    /\ UNCHANGED <<line, pool, policy, srv_pc, job, op, page>>

-----------------------------------------------------------------------------

InCall(c) ==
    \/ ReadTag(c) \/ ReadNext(c) \/ Inc(c) \/ Check(c) \/ CheckFails(c) \/ Dec(c)

Serve ==
    \/ \E c \in Clients : \/ ServeFind(c) \/ ServeCreateHead(c) \/ ServeCreatePool(c)
                          \/ ReleaseVictim(c) \/ ReleaseLoaded(c)
    \/ ServeLink \/ InitHit \/ InitRefused \/ InitAlloc
    \/ \E u \in Pages : InitEvict(u) \/ InitEvictFails(u)
    \/ DeleteCut \/ DeletePush

Next ==
    \/ \E c \in Clients : InCall(c) \/ UnpinCall(c) \/ \E v \in Pages : PinCall(c, v)
    \/ Serve

Spec == Init /\ [][Next]_vars

-----------------------------------------------------------------------------
(* Properties *)

\* Clients with a pointer that they have not given back: between the calls of pin
\* and unpin, and while unpin looks for the line.
Holders == {c \in Clients : pc[c] = "held" \/ op[c] = "unpin"}

\* A client's pointer is to the frame that the page table maps its page to, with a
\* reference counted for it, however the lines moved since its walk; holders of
\* different pages have different frames.
PointersMapped ==
    \A c \in Holders :
        /\ Entry(page[c]).exist /\ ~Entry(page[c]).busy
        /\ Entry(page[c]).ppage_id = frame[c]
        /\ \A d \in Holders : frame[c] = frame[d] <=> page[c] = page[d]

\* dec_ref_count always meets a counted reference, on whatever line it is: the
\* count of an entry is the number of clients that will still decrement it, the
\* ones that are about to look at the tag again, the holders of the page and the
\* client it is being loaded for.
RefsOnLine ==
    LET ref == [c \in Clients |->
                   IF pc[c] = "check" THEN at[c]
                   ELSE IF c \in Holders THEN LineOf(Tag(page[c]))
                   ELSE ctx[c].hint]
    IN  \A l \in Lines, o \in Offsets :
            header[l][o].ref_count
              = Cardinality({c \in Clients : ref[c] = l /\ Offset(page[c]) = o})

\* No cache line is lost, doubled or shared between buckets: between two requests
\* each line is in one chain or in the pool, once; lines of the pool are empty,
\* and a tag has at most one line.
LinesConserved ==
    srv_pc = "loop" =>
    LET chains == [b \in 0 .. bucket_size - 1 |-> ToSet(Chain(b))]
    IN  /\ \A l \in Lines :
               Cardinality({b \in DOMAIN chains : l \in chains[b]})
               + Cardinality({i \in DOMAIN pool : pool[i] = l}) = 1
        /\ \A i \in DOMAIN pool :
               /\ line[pool[i]] = [tag |-> None, next |-> None, num_using |-> 0]
               /\ header[pool[i]] = [o \in Offsets |-> EmptyHeader]
        /\ \A v \in Pages : Cardinality(LinesOf(Tag(v))) <= 1

\* The lines remembered in a context (hint, pre_hint) across asynchronous I/O are
\* still the lines of their pages when the context runs again.
HintsStay ==
    \A c \in Clients :
        /\ ctx[c].phase # "End" =>
               line[ctx[c].hint].tag = Tag(page[c]) /\ ctx[c].hint \in LinesOf(Tag(page[c]))
        /\ ctx[c].phase = "Evicting" => ctx[c].pre_hint \in LinesOf(Tag(ctx[c].victim))

\* Where the line of page v stands in its chain.
Position(v) ==
    LET w == Chain(get_bucket(Tag(v)))
    IN  CHOOSE n \in DOMAIN w : w[n] = LineOf(Tag(v))

\* No line ever gets in front of the line of a page that is held.  This is why the
\* loop of find_cacheline(tag, true) in unpin ends: a walk that goes astray on a
\* line that is unlinked under it starts again, and each time there is one line
\* less that this can happen on.
WalksGetShorter ==
    [][\A c \in Holders \cap Holders' :
           page'[c] = page[c] => Position(page[c])' <= Position(page[c])]_line

=============================================================================
