------------------------- MODULE SharedCacheProofs -------------------------
(***************************************************************************)
(* Proofs about one partition of the shared cache.  The inductive          *)
(* invariant IndInv says, beside the types, where a client and its request *)
(* can be at the same time, that mapped entries and frames point at each   *)
(* other, that a page on its way in or out is locked and owned by one Pin, *)
(* and that ref_count is the number of clients that count on the page.     *)
(* The proof that a step preserves it has one lemma per action.            *)
(***************************************************************************)
EXTENDS SharedCache, FiniteSetTheorems, SequenceTheorems, TLAPS

\* What a client asks for fits where it is in pin() or unpin().
RequestsShaped ==
    \A c \in Clients :
        /\ pc[c] = "notify" => req[c] \in Request /\ req[c].type # "Pin"
        /\ pc[c] \in {"stray", "request", "wait"} =>
             req[c] \in Request /\ req[c].type = "Pin" /\ held[c][req[c].page] = None

\* A Pin is the last request of its message, its client waits for it, and the server
\* has not begun it: no second Pin of the client is under way.
MessagesShaped ==
    \A c \in Clients :
        /\ \A i \in DOMAIN batch[c] : batch[c][i].type # "Pin"
        /\ \A i \in DOMAIN posted[c] : posted[c][i].type = "Pin" =>
             i = Len(posted[c]) /\ pc[c] = "wait" /\ ctx[c].phase = "End" /\ job # c

\* A context of the server belongs to a client that waits, and names the frame and the
\* victim its phase needs.
ContextsShaped ==
    \A c \in Clients :
        /\ ctx[c].phase \in {"End", "Begin"} => ctx[c].io = "none"
        /\ ctx[c].phase # "End" => pc[c] = "wait" /\ job # c
        /\ InTransit(c) => ctx[c].ppage_id \in PPages
        /\ ctx[c].phase = "Evicting" => ctx[c].pre_vpage_id \in VPages

\* The eviction loop runs for a Pin of an unmapped page with every frame handed out,
\* and its victim is a mapped page that left the replacement policy.
JobShaped ==
    /\ job = None <=> srv_pc = "loop"
    /\ job # None => /\ pc[job] = "wait" /\ ctx[job].phase = "End"
                     /\ ~pte[req[job].page].exist /\ ~pte[req[job].page].busy
                     /\ full
    /\ victim = None <=> srv_pc # "lock"
    /\ victim # None => /\ owner[victim] # None
                        /\ pte[owner[victim]].exist /\ ~pte[owner[victim]].busy
                        /\ pte[owner[victim]].ppage_id = victim
                        /\ victim \notin replacement

\* The frames of the replacement policy back mapped pages.
EvictableMapped ==
    \A p \in replacement :
        /\ owner[p] # None
        /\ pte[owner[p]].exist /\ ~pte[owner[p]].busy
        /\ pte[owner[p]].ppage_id = p

\* A mapped entry has a frame that was handed out, no other page has that frame, and
\* the frame knows its page; an entry that is being loaded is referenced.
EntriesShaped ==
    \A v \in VPages :
        /\ pte[v].exist => pte[v].ppage_id \in allocated
        /\ ~pte[v].exist => pte[v].ref_count = 0
        /\ pte[v].exist /\ pte[v].busy => pte[v].ref_count # 0
        /\ pte[v].exist /\ ~pte[v].busy => owner[pte[v].ppage_id] = v
        /\ \A w \in VPages \ {v} :
             pte[v].exist /\ pte[w].exist => pte[v].ppage_id # pte[w].ppage_id

\* The Pin that moves a page keeps the entries of the page and of its victim locked,
\* and no other Pin moves either of them.
TransitSound ==
    \A c \in Clients : InTransit(c) =>
        /\ pte[req[c].page].exist /\ pte[req[c].page].busy
        /\ pte[req[c].page].ppage_id = ctx[c].ppage_id
        /\ ctx[c].phase = "Loading" => owner[ctx[c].ppage_id] = req[c].page
        /\ ctx[c].phase = "Evicting" =>
             /\ owner[ctx[c].ppage_id] = ctx[c].pre_vpage_id
             /\ ~pte[ctx[c].pre_vpage_id].exist /\ pte[ctx[c].pre_vpage_id].busy
        /\ \A d \in Clients \ {c} : InTransit(d) =>
             /\ req[d].page # req[c].page
             /\ ctx[c].phase = "Evicting" /\ ctx[d].phase = "Evicting" =>
                  ctx[c].pre_vpage_id # ctx[d].pre_vpage_id

\* The clients that hold page v, the Pins that are moving it in, and the clients with a
\* stray reference to it.
Holders(v) == {c \in Clients : held[c][v] # None}
Movers(v) == {c \in Clients : InTransit(c) /\ req[c].page = v}
Strays(v) == {c \in Clients : stray[c] = v}

\* RefCounted, with the three sets named.
RefExact ==
    \A v \in VPages :
        pte[v].ref_count = Cardinality(Holders(v)) + Cardinality(Movers(v))
                           + Cardinality(Strays(v))

\* The parts of TypeOK, apart, so that a proof step can use one of them.
PteType == pte \in [VPages -> Pte]
CacheType ==
    /\ owner \in [PPages -> VPages \cup {None}]
    /\ replacement \in SUBSET PPages
    /\ allocated \in SUBSET PPages
JobType ==
    /\ srv_pc \in {"loop", "pop", "lock", "spin"}
    /\ job \in Clients \cup {None}
    /\ victim \in PPages \cup {None}
ContextType == ctx \in [Clients -> Context]
PostedType == posted \in [Clients -> Seq(Request)]
BatchType == batch \in [Clients -> Seq(Request)]
MessageType == PostedType /\ BatchType
ClientType ==
    /\ pc \in [Clients -> {"idle", "notify", "stray", "request", "wait", "oom"}]
    /\ req \in [Clients -> Request \cup {NoRequest}]
HeldType == held \in [Clients -> [VPages -> PPages \cup {None}]]
OtherType ==
    /\ pinned_size \in Int
    /\ first_loaded \in [PPages -> BOOLEAN]
    /\ serving \in Clients \cup {None}
    /\ pre_dirty \in BOOLEAN
    /\ retries \in [Clients -> 0..MaxRetry]
    /\ wrote \in [Clients -> SUBSET VPages]
    /\ mem \in [PPages -> Values \cup {None}]
    /\ disk \in [VPages -> Values \cup {None}]

\* The type invariant.
Types == PteType /\ CacheType /\ JobType /\ ContextType /\ MessageType /\ ClientType
         /\ HeldType /\ OtherType

\* A client has a stray reference exactly between the increment and the decrement of
\* its failed pin, and meanwhile the page stays mapped and unlocked.
StraysSound ==
    /\ stray \in [Clients -> VPages \cup {None}]
    /\ silent \in SUBSET VPages
    /\ drift \in Int
    /\ \A c \in Clients :
         /\ stray[c] # None <=> pc[c] = "stray"
         /\ stray[c] # None => pte[stray[c]].exist /\ ~pte[stray[c]].busy

\* The inductive invariant is IndInv with StraysSound.
IndInv ==
    /\ Types /\ RequestsShaped /\ MessagesShaped /\ ContextsShaped /\ JobShaped
    /\ EvictableMapped /\ EntriesShaped /\ TransitSound /\ PinnedStays /\ RefExact

-----------------------------------------------------------------------------

\* Cardinalities of sets of clients.
LEMMA SubsetsFinite ==
    ASSUME NEW S \in SUBSET Clients
    PROVE  IsFiniteSet(S) /\ Cardinality(S) \in Nat /\ (S = {} <=> Cardinality(S) = 0)
BY FiniteAssumption, FS_Subset, FS_CardinalityType, FS_EmptySet

LEMMA OneMore ==
    ASSUME NEW S \in SUBSET Clients, NEW c \in Clients, c \notin S
    PROVE  Cardinality(S \cup {c}) = Cardinality(S) + 1
BY SubsetsFinite, FS_AddElement

LEMMA OneLess ==
    ASSUME NEW S \in SUBSET Clients, NEW c \in S
    PROVE  Cardinality(S \ {c}) = Cardinality(S) - 1
BY SubsetsFinite, FS_RemoveElement


\* How many references a page has, from who has them.
LEMMA CountsAreNat ==
    ASSUME NEW v \in VPages
    PROVE  /\ Cardinality(Holders(v)) \in Nat /\ Cardinality(Movers(v)) \in Nat
           /\ Cardinality(Strays(v)) \in Nat
BY SubsetsFinite DEF Holders, Movers, Strays

\* A page without references has no holders, no Pin that is moving it and no strays.
LEMMA NoReferences ==
    ASSUME RefExact, NEW v \in VPages, pte[v].ref_count = 0
    PROVE  /\ \A c \in Clients : held[c][v] = None
           /\ \A c \in Clients : InTransit(c) => req[c].page # v
           /\ \A c \in Clients : stray[c] # v
<1>1. /\ Cardinality(Holders(v)) = 0 /\ Cardinality(Movers(v)) = 0
      /\ Cardinality(Strays(v)) = 0
  BY CountsAreNat DEF RefExact
<1>2. /\ Holders(v) \in SUBSET Clients /\ Movers(v) \in SUBSET Clients
      /\ Strays(v) \in SUBSET Clients
  BY DEF Holders, Movers, Strays
<1>3. Holders(v) = {} /\ Movers(v) = {} /\ Strays(v) = {}
  BY <1>1, <1>2, SubsetsFinite
<1>. QED  BY <1>3 DEF Holders, Movers, Strays

\* The first reference to a page: its new holder, or the Pin that is moving it.
LEMMA FirstReference ==
    ASSUME RefExact, NEW v \in VPages, NEW c \in Clients, pte[v].ref_count = 0,
           pte'[v].ref_count = 1, UNCHANGED stray,
           \A u \in VPages \ {v} : /\ pte'[u].ref_count = pte[u].ref_count
                                    /\ Holders(u)' = Holders(u) /\ Movers(u)' = Movers(u),
           \/ Holders(v)' = Holders(v) \cup {c} /\ Movers(v)' = Movers(v)
           \/ Holders(v)' = Holders(v) /\ Movers(v)' = Movers(v) \cup {c}
    PROVE  RefExact'
<1>1. /\ Cardinality(Holders(v)) = 0 /\ Cardinality(Movers(v)) = 0
      /\ Cardinality(Strays(v)) = 0
  BY CountsAreNat DEF RefExact
<1>2. Holders(v) \in SUBSET Clients /\ Movers(v) \in SUBSET Clients
  BY DEF Holders, Movers
<1>3. Holders(v) = {} /\ Movers(v) = {}
  BY <1>1, <1>2, SubsetsFinite
<1>4. Cardinality({c}) = 1
  BY FS_Singleton
<1>5. Cardinality(Holders(v)') + Cardinality(Movers(v)') = 1
 <2>1. CASE Holders(v)' = Holders(v) \cup {c} /\ Movers(v)' = Movers(v)
  <3>1. Holders(v)' = {c} /\ Movers(v)' = {}
    BY <1>3, <2>1
  <3>. QED  BY <1>1, <1>3, <1>4, <3>1
 <2>2. CASE Holders(v)' = Holders(v) /\ Movers(v)' = Movers(v) \cup {c}
  <3>1. Holders(v)' = {} /\ Movers(v)' = {c}
    BY <1>3, <2>2
  <3>. QED  BY <1>1, <1>3, <1>4, <3>1
 <2>. QED  BY <2>1, <2>2
<1>6. \A u \in VPages : Strays(u)' = Strays(u)
  BY DEF Strays
<1>. QED  BY <1>1, <1>5, <1>6 DEF RefExact

-----------------------------------------------------------------------------
USE DEF Pinnable, FirstPin, LastPin, Incremented, Decremented, Lockable, InTransit
USE DEF strays, Reported
USE NoneAssumption

\* Steps that change neither the page table nor who has a reference.
LEMMA TableKept ==
    ASSUME IndInv, UNCHANGED <<pte, owner, allocated, held, stray>>,
           \A c \in Clients :
             /\ InTransit(c)' <=> InTransit(c)
             /\ InTransit(c) => /\ req'[c] = req[c]
                                /\ ctx'[c].phase = ctx[c].phase
                                /\ ctx'[c].ppage_id = ctx[c].ppage_id
                                /\ ctx'[c].pre_vpage_id = ctx[c].pre_vpage_id
    PROVE  EntriesShaped' /\ TransitSound' /\ PinnedStays' /\ RefExact'
<1>1. EntriesShaped' /\ PinnedStays'
  BY DEF IndInv, EntriesShaped, PinnedStays
<1>2. TransitSound'
  BY DEF IndInv, TransitSound
<1>3. RefExact'
 <2>1. \A u \in VPages : Holders(u)' = Holders(u)
  BY DEF Holders
 <2>2. \A u \in VPages : Movers(u)' = Movers(u)
  BY DEF Movers
 <2>3. \A u \in VPages : Strays(u)' = Strays(u)
  BY DEF Strays
 <2>. QED  BY <2>1, <2>2, <2>3 DEF IndInv, RefExact
<1>. QED  BY <1>1, <1>2, <1>3

\* What the server knows of a Pin it is about to process.
LEMMA PinTaken ==
    ASSUME IndInv, NEW c \in Clients, Turn(c, "Pin"), Take(c)
    PROVE  /\ srv_pc = "loop" /\ pc[c] = "wait" /\ ctx[c].phase = "End" /\ job = None
           /\ PostedType' /\ serving' \in Clients \cup {None}
           /\ \A d \in Clients : d # c => posted'[d] = posted[d]
           /\ \A i \in DOMAIN posted'[c] : posted'[c][i].type # "Pin"
<1>. USE DEF IndInv, Types
<1>1. /\ posted[c] \in Seq(Request) /\ posted[c] # <<>>
      /\ Len(posted[c]) \in Nat /\ 1 \in DOMAIN posted[c]
      /\ posted[c][1].type = "Pin"
  BY DEF Turn, MessageType, PostedType, BatchType
<1>2. /\ Len(posted[c]) = 1 /\ pc[c] = "wait" /\ ctx[c].phase = "End"
      /\ srv_pc = "loop" /\ job = None
  BY <1>1 DEF MessagesShaped, JobShaped, Turn
<1>3. Tail(posted[c]) \in Seq(Request) /\ Len(Tail(posted[c])) = 0
  BY <1>1, <1>2, HeadTailProperties
<1>4. Tail(posted[c]) = <<>>
  BY <1>3, EmptySeq
<1>5. posted' = [posted EXCEPT ![c] = <<>>]
  BY <1>4 DEF Take
<1>6. PostedType'
  BY <1>3, <1>4, <1>5 DEF MessageType, PostedType
<1>7. /\ \A d \in Clients : d # c => posted'[d] = posted[d]
      /\ posted'[c] = <<>>
  BY <1>5 DEF MessageType, PostedType
<1>8. serving' \in Clients \cup {None}
  BY DEF Take
<1>9. \A i \in DOMAIN posted'[c] : posted'[c][i].type # "Pin"
  BY <1>7
<1>. QED  BY <1>2, <1>6, <1>7, <1>8, <1>9

\* What the server knows of a Pin that reaches process(), by either way.
LEMMA DispatchedFacts ==
    ASSUME IndInv, NEW c \in Clients, NEW k, Dispatched(c, k)
    PROVE  /\ pc[c] = "wait" /\ srv_pc = "loop" /\ job = None /\ victim = None
           /\ ctx[c].phase \in {"End", "Begin"}
           /\ req[c] \in Request /\ req[c].page \in VPages /\ held[c][req[c].page] = None
           /\ ctx' = [ctx EXCEPT ![c] = k]
           /\ PostedType'
           /\ serving' \in Clients \cup {None}
           /\ \A d \in Clients : d # c => posted'[d] = posted[d]
           /\ \A i \in DOMAIN posted'[c] : posted'[c][i].type # "Pin"
<1>. USE DEF IndInv, Types
<1>1. ctx' = [ctx EXCEPT ![c] = k] /\ srv_pc = "loop"
  BY DEF Dispatched, Turn, FiberRuns
<1>2. CASE Turn(c, "Pin") /\ Take(c)
  BY <1>1, <1>2, PinTaken DEF RequestsShaped, JobShaped, Request
<1>3. CASE /\ FiberRuns /\ ctx[c].phase = "Begin" /\ UNCHANGED <<posted, serving>>
  BY <1>1, <1>3 DEF FiberRuns, MessageType, PostedType, BatchType, OtherType, ContextsShaped, MessagesShaped,
     RequestsShaped, JobShaped, Request
<1>. QED  BY <1>2, <1>3 DEF Dispatched

\* A client pins a mapped page by itself: one more holder and one more reference.
LEMMA DirectPinStep ==
    ASSUME IndInv, NEW c \in Clients, NEW v \in VPages, DirectPin(c, v)
    PROVE  IndInv'
<1>. USE DEF IndInv, Types
<1>1. /\ pc[c] = "idle" /\ held[c][v] = None
      /\ pte[v].exist /\ ~pte[v].busy 
      /\ pte[v].ppage_id \in PPages
      /\ owner[pte[v].ppage_id] = v
  BY DEF DirectPin, MayPin, EntriesShaped, CacheType
<1>2. /\ pte' \in [VPages -> Pte]
      /\ pte'[v].exist /\ ~pte'[v].busy /\ pte'[v].ppage_id = pte[v].ppage_id
      /\ pte'[v].ref_count = pte[v].ref_count + 1
      /\ \A u \in VPages \ {v} : pte'[u] = pte[u]
 <2>1. pte' = [pte EXCEPT ![v] = Incremented(pte[v])]
  BY DEF DirectPin
 <2>2. Incremented(pte[v]) \in Pte
  BY DEF PteType, Pte
 <2>. QED  BY <1>1, <2>1, <2>2 DEF PteType, Pte
<1>3. /\ held' \in [Clients -> [VPages -> PPages \cup {None}]]
      /\ held'[c][v] = pte[v].ppage_id
      /\ \A d \in Clients, u \in VPages : d # c \/ u # v => held'[d][u] = held[d][u]
  BY <1>1 DEF DirectPin, HeldType
<1>4. \/ UNCHANGED <<pc, req>>
      \/ /\ pc' = [pc EXCEPT ![c] = "notify"]
         /\ req' = [req EXCEPT ![c] = [type |-> "NotifyDirectPin", page |-> v]]
  BY DEF DirectPin
<1>5. /\ UNCHANGED <<owner, replacement, pinned_size, allocated, first_loaded>>
      /\ UNCHANGED <<srv_pc, serving, job, victim, pre_dirty, ctx>>
      /\ UNCHANGED <<posted, batch, retries, wrote, mem, disk>>
      /\ UNCHANGED stray
  BY DEF DirectPin, cache, server, data
<1>6. Types'
 <2>1. PteType' /\ CacheType' /\ JobType' /\ ContextType' /\ HeldType'
  BY <1>2, <1>3, <1>5 DEF PteType, CacheType, JobType, ContextType, HeldType
 <2>2. MessageType'
  BY <1>5 DEF MessageType, PostedType, BatchType
 <2>3. ClientType'
  BY <1>4 DEF ClientType, Request
 <2>4. OtherType'
  BY <1>5 DEF OtherType
 <2>. QED  BY <2>1, <2>2, <2>3, <2>4
<1>7. RequestsShaped'
  BY <1>1, <1>3, <1>4 DEF ClientType, RequestsShaped, Request
<1>8. MessagesShaped' /\ ContextsShaped'
  BY <1>1, <1>4, <1>5 DEF ClientType, MessagesShaped, ContextsShaped
<1>9. JobShaped'
  BY <1>1, <1>2, <1>4, <1>5 DEF ClientType, JobType, CacheType, JobShaped, RequestsShaped, full, Request
<1>10. EvictableMapped' /\ EntriesShaped'
  BY <1>1, <1>2, <1>5 DEF CacheType, EvictableMapped, EntriesShaped
<1>11. TransitSound'
 <2>1. \A d \in Clients : InTransit(d) =>
            d # c /\ req'[d] = req[d] /\ req[d].page \in VPages
  BY <1>1, <1>4 DEF ClientType, ContextsShaped, RequestsShaped, Request
 <2>. QED  BY <1>1, <1>2, <1>5, <2>1 DEF TransitSound, ContextsShaped
<1>12. PinnedStays'
  BY <1>1, <1>2, <1>3, <1>5 DEF PinnedStays
<1>13. RefExact'
 <2>1. Holders(v)' = Holders(v) \cup {c} /\ c \notin Holders(v)
  BY <1>1, <1>3 DEF Holders
 <2>2. \A u \in VPages \ {v} : Holders(u)' = Holders(u)
  BY <1>1, <1>3 DEF Holders
 <2>3. \A u \in VPages : Movers(u)' = Movers(u)
  BY <1>1, <1>4, <1>5 DEF Movers, ClientType, ContextsShaped
 <2>4. Cardinality(Holders(v)') = Cardinality(Holders(v)) + 1
  BY <2>1, OneMore DEF Holders
 <2>5. \A u \in VPages : Strays(u)' = Strays(u)
  BY <1>5 DEF Strays
 <2>. QED
  BY <1>2, <2>2, <2>3, <2>4, <2>5, CountsAreNat DEF RefExact
<1>. QED  BY <1>6, <1>7, <1>8, <1>9, <1>10, <1>11, <1>12, <1>13

\* The steps of a client that leave the table alone.
LEMMA PinMissStep ==
    ASSUME IndInv, NEW c \in Clients, NEW v \in VPages, PinMiss(c, v)
    PROVE  IndInv'
<1>. USE DEF IndInv, Types
<1>1. /\ pc[c] = "idle" /\ held[c][v] = None
      /\ pc' = [pc EXCEPT ![c] = "request"]
      /\ req' = [req EXCEPT ![c] = [type |-> "Pin", page |-> v]]
  BY DEF PinMiss, MayPin
<1>2. /\ UNCHANGED <<pte, owner, replacement, pinned_size, allocated, first_loaded>>
      /\ UNCHANGED <<srv_pc, serving, job, victim, pre_dirty, ctx>>
      /\ UNCHANGED <<posted, batch, retries, held, wrote, mem, disk>>
      /\ UNCHANGED stray
  BY DEF PinMiss, cache, server, data
<1>3. Types'
 <2>1. PteType' /\ CacheType' /\ JobType' /\ ContextType' /\ HeldType' /\ MessageType'
  BY <1>2 DEF PteType, CacheType, JobType, ContextType, HeldType, MessageType, PostedType, BatchType
 <2>2. ClientType'
  BY <1>1 DEF ClientType, Request
 <2>3. OtherType'
  BY <1>2 DEF OtherType
 <2>. QED  BY <2>1, <2>2, <2>3
<1>4. RequestsShaped'
  BY <1>1, <1>2 DEF ClientType, RequestsShaped, Request
<1>5. MessagesShaped' /\ ContextsShaped'
  BY <1>1, <1>2 DEF ClientType, MessagesShaped, ContextsShaped
<1>6. JobShaped' /\ EvictableMapped'
  BY <1>1, <1>2 DEF ClientType, JobShaped, EvictableMapped, full
<1>7. EntriesShaped' /\ TransitSound' /\ PinnedStays' /\ RefExact'
  BY <1>1, <1>2, TableKept DEF ClientType, ContextsShaped
<1>. QED  BY <1>3, <1>4, <1>5, <1>6, <1>7

\* A store changes no entry and no reference.
LEMMA WriteStep ==
    ASSUME IndInv, NEW c \in Clients, NEW v \in VPages, NEW x \in Values, Write(c, v, x)
    PROVE  IndInv'
<1>. USE DEF IndInv, Types
<1>1. /\ held[c][v] \in PPages
      /\ mem' = [mem EXCEPT ![held[c][v]] = x]
      /\ wrote' = [wrote EXCEPT ![c] = @ \cup {v}]
  BY DEF Write, HeldType
<1>2. /\ UNCHANGED <<pte, owner, replacement, pinned_size, allocated, first_loaded>>
      /\ UNCHANGED <<srv_pc, serving, job, victim, pre_dirty, ctx>>
      /\ UNCHANGED <<posted, batch, pc, req, retries, held, disk>>
      /\ UNCHANGED stray
  BY DEF Write, cache, server
<1>3. Types'
 <2>1. /\ PteType' /\ CacheType' /\ JobType' /\ ContextType' /\ HeldType' /\ MessageType'
       /\ ClientType'
  BY <1>2 DEF PteType, CacheType, JobType, ContextType, HeldType, MessageType, PostedType, BatchType, ClientType
 <2>2. OtherType'
  BY <1>1, <1>2 DEF OtherType
 <2>. QED  BY <2>1, <2>2
<1>4. RequestsShaped' /\ MessagesShaped' /\ ContextsShaped'
  BY <1>2 DEF RequestsShaped, MessagesShaped, ContextsShaped
<1>5. JobShaped' /\ EvictableMapped'
  BY <1>2 DEF JobShaped, EvictableMapped, full
<1>6. EntriesShaped' /\ TransitSound' /\ PinnedStays' /\ RefExact'
  BY <1>2, TableKept
<1>. QED  BY <1>3, <1>4, <1>5, <1>6

\* The batch of a client with one more notification, submitted or not.
LEMMA NotifyStep ==
    ASSUME IndInv, NEW c \in Clients, Notify(c)
    PROVE  IndInv'
<1>. USE DEF IndInv, Types
<1>1. /\ pc[c] = "notify" /\ posted[c] = <<>>
      /\ pc' = [pc EXCEPT ![c] = "idle"]
      /\ req' = [req EXCEPT ![c] = NoRequest]
  BY DEF Notify
<1>2. /\ UNCHANGED <<pte, owner, replacement, pinned_size, allocated, first_loaded>>
      /\ UNCHANGED <<srv_pc, serving, job, victim, pre_dirty, ctx>>
      /\ UNCHANGED <<retries, held, wrote, mem, disk>>
      /\ UNCHANGED stray
  BY DEF Notify, cache, server, data
<1>. DEFINE b == Append(batch[c], req[c])
<1>3. /\ b \in Seq(Request)
      /\ \A i \in DOMAIN b : b[i].type # "Pin"
 <2>1. batch[c] \in Seq(Request) /\ req[c] \in Request /\ req[c].type # "Pin"
  BY <1>1 DEF RequestsShaped, MessageType, PostedType, BatchType
 <2>2. /\ b \in Seq(Request) /\ Len(b) = Len(batch[c]) + 1
       /\ \A i \in 1..Len(batch[c]) : b[i] = batch[c][i]
       /\ b[Len(batch[c]) + 1] = req[c]
  BY <2>1, AppendProperties
 <2>3. DOMAIN b = 1..Len(b) /\ DOMAIN batch[c] = 1..Len(batch[c]) /\ Len(batch[c]) \in Nat
  BY <2>1, <2>2, LenProperties
 <2>. QED  BY <2>1, <2>2, <2>3 DEF MessagesShaped
<1>4. \/ /\ posted' = [posted EXCEPT ![c] = b] /\ batch' = [batch EXCEPT ![c] = <<>>]
      \/ /\ batch' = [batch EXCEPT ![c] = b] /\ posted' = posted
  BY DEF Notify
<1>. HIDE DEF b
<1>5. /\ MessageType'
      /\ \A d \in Clients : d # c => posted'[d] = posted[d] /\ batch'[d] = batch[d]
      /\ \A i \in DOMAIN posted'[c] : posted'[c][i].type # "Pin"
      /\ \A i \in DOMAIN batch'[c] : batch'[c][i].type # "Pin"
 <2>1. <<>> \in Seq(Request)
  BY EmptySeq
 <2>2. CASE /\ posted' = [posted EXCEPT ![c] = b] /\ batch' = [batch EXCEPT ![c] = <<>>]
  BY <1>3, <2>1, <2>2 DEF MessageType, PostedType, BatchType
 <2>3. CASE /\ batch' = [batch EXCEPT ![c] = b] /\ posted' = posted
  BY <1>1, <1>3, <2>3 DEF MessageType, PostedType, BatchType
 <2>. QED  BY <1>4, <2>2, <2>3
<1>6. Types'
 <2>1. PteType' /\ CacheType' /\ JobType' /\ ContextType' /\ HeldType'
  BY <1>2 DEF PteType, CacheType, JobType, ContextType, HeldType
 <2>2. ClientType'
  BY <1>1 DEF ClientType
 <2>3. OtherType'
  BY <1>2 DEF OtherType
 <2>. QED  BY <1>5, <2>1, <2>2, <2>3
<1>7. RequestsShaped'
  BY <1>1, <1>2 DEF ClientType, RequestsShaped
<1>8. MessagesShaped' /\ ContextsShaped'
 <2>1. ContextsShaped'
  BY <1>1, <1>2 DEF ClientType, ContextsShaped
 <2>2. ASSUME NEW d \in Clients, d # c
       PROVE  posted'[d] = posted[d] /\ batch'[d] = batch[d] /\ pc'[d] = pc[d]
  BY <1>1, <1>5, <2>2 DEF ClientType
 <2>. QED  BY <1>2, <1>5, <2>1, <2>2 DEF MessagesShaped
<1>9. JobShaped' /\ EvictableMapped'
  BY <1>1, <1>2 DEF ClientType, JobShaped, EvictableMapped, full
<1>10. EntriesShaped' /\ TransitSound' /\ PinnedStays' /\ RefExact'
  BY <1>1, <1>2, TableKept DEF ClientType, ContextsShaped
<1>. QED  BY <1>6, <1>7, <1>8, <1>9, <1>10

\* The Pin joins the batch as the last request of its message.
LEMMA RequestPinStep ==
    ASSUME IndInv, NEW c \in Clients, RequestPin(c)
    PROVE  IndInv'
<1>. USE DEF IndInv, Types
<1>. DEFINE b == Append(batch[c], req[c])
<1>1. /\ pc[c] = "request"
      /\ posted' = [posted EXCEPT ![c] = b]
      /\ batch' = [batch EXCEPT ![c] = <<>>]
      /\ pc' = [pc EXCEPT ![c] = "wait"]
  BY DEF RequestPin
<1>2. /\ UNCHANGED <<pte, owner, replacement, pinned_size, allocated, first_loaded>>
      /\ UNCHANGED <<srv_pc, serving, job, victim, pre_dirty, ctx>>
      /\ UNCHANGED <<req, retries, held, wrote, mem, disk>>
      /\ UNCHANGED stray
  BY DEF RequestPin, cache, server, data
<1>3. /\ b \in Seq(Request)
      /\ \A i \in DOMAIN b : b[i].type = "Pin" => i = Len(b)
 <2>1. batch[c] \in Seq(Request) /\ req[c] \in Request
  BY <1>1 DEF RequestsShaped, MessageType, PostedType, BatchType
 <2>2. /\ b \in Seq(Request) /\ Len(b) = Len(batch[c]) + 1
       /\ \A i \in 1..Len(batch[c]) : b[i] = batch[c][i]
  BY <2>1, AppendProperties
 <2>3. DOMAIN b = 1..Len(b) /\ DOMAIN batch[c] = 1..Len(batch[c]) /\ Len(batch[c]) \in Nat
  BY <2>1, <2>2, LenProperties
 <2>. QED  BY <2>1, <2>2, <2>3 DEF MessagesShaped
<1>. HIDE DEF b
<1>4. ctx[c].phase = "End" /\ job # c
  BY <1>1 DEF ContextsShaped, JobShaped
<1>5. /\ MessageType'
      /\ \A d \in Clients : d # c => posted'[d] = posted[d] /\ batch'[d] = batch[d]
      /\ posted'[c] = b
      /\ \A i \in DOMAIN batch'[c] : batch'[c][i].type # "Pin"
 <2>1. <<>> \in Seq(Request)
  BY EmptySeq
 <2>. QED  BY <1>1, <1>3, <2>1 DEF MessageType, PostedType, BatchType
<1>6. Types'
 <2>1. PteType' /\ CacheType' /\ JobType' /\ ContextType' /\ HeldType'
  BY <1>2 DEF PteType, CacheType, JobType, ContextType, HeldType
 <2>2. ClientType'
  BY <1>1, <1>2 DEF ClientType
 <2>3. OtherType'
  BY <1>2 DEF OtherType
 <2>. QED  BY <1>5, <2>1, <2>2, <2>3
<1>7. RequestsShaped'
  BY <1>1, <1>2 DEF ClientType, RequestsShaped
<1>8. MessagesShaped' /\ ContextsShaped'
 <2>1. ContextsShaped'
  BY <1>1, <1>2 DEF ClientType, ContextsShaped
 <2>2. ASSUME NEW d \in Clients PROVE \A i \in DOMAIN batch'[d] : batch'[d][i].type # "Pin"
  BY <1>5 DEF MessagesShaped
 <2>3. ASSUME NEW d \in Clients, NEW i \in DOMAIN posted'[d], posted'[d][i].type = "Pin"
       PROVE i = Len(posted'[d]) /\ pc'[d] = "wait" /\ ctx'[d].phase = "End" /\ job' # d
  BY <1>1, <1>2, <1>3, <1>4, <1>5, <2>3 DEF ClientType, MessagesShaped
 <2>. QED  BY <2>1, <2>2, <2>3 DEF MessagesShaped
<1>9. JobShaped' /\ EvictableMapped'
  BY <1>1, <1>2, <1>4 DEF ClientType, JobShaped, EvictableMapped, full
<1>10. EntriesShaped' /\ TransitSound' /\ PinnedStays' /\ RefExact'
  BY <1>1, <1>2, TableKept DEF ClientType, ContextsShaped
<1>. QED  BY <1>6, <1>7, <1>8, <1>9, <1>10

-----------------------------------------------------------------------------
(* The steps of the server that leave the table alone. *)

\* What is left of a message after its first notification.
LEMMA NotificationTaken ==
    ASSUME IndInv, NEW c \in Clients, NEW type, type # "Pin", Turn(c, type), Take(c)
    PROVE  /\ srv_pc = "loop" /\ job = None /\ victim = None
           /\ Head(posted[c]).page \in VPages
           /\ PostedType' /\ serving' \in Clients \cup {None}
           /\ UNCHANGED <<batch, pc, ctx, job>> => MessagesShaped'
<1>. USE DEF IndInv, Types
<1>1. posted[c] \in Seq(Request) /\ posted[c] # <<>> /\ srv_pc = "loop"
  BY DEF Turn, MessageType, PostedType
<1>2. /\ Head(posted[c]) \in Request
      /\ Tail(posted[c]) \in Seq(Request)
      /\ Len(Tail(posted[c])) = Len(posted[c]) - 1
      /\ \A i \in 1..Len(Tail(posted[c])) : Tail(posted[c])[i] = posted[c][i + 1]
  BY <1>1, HeadTailProperties
<1>3. /\ Len(posted[c]) \in Nat
      /\ DOMAIN posted[c] = 1..Len(posted[c])
      /\ DOMAIN Tail(posted[c]) = 1..Len(Tail(posted[c]))
  BY <1>1, <1>2, LenProperties
<1>4. posted' = [posted EXCEPT ![c] = Tail(posted[c])]
  BY DEF Take
<1>5. PostedType' /\ serving' \in Clients \cup {None}
  BY <1>2, <1>4 DEF Take, MessageType, PostedType
<1>6. posted'[c] = Tail(posted[c]) /\ \A d \in Clients : d # c => posted'[d] = posted[d]
  BY <1>4 DEF MessageType, PostedType
<1>7. ASSUME UNCHANGED <<batch, pc, ctx, job>> PROVE MessagesShaped'
 <2>1. ASSUME NEW i \in DOMAIN posted'[c], posted'[c][i].type = "Pin"
       PROVE  i = Len(posted'[c]) /\ pc[c] = "wait" /\ ctx[c].phase = "End" /\ job # c
  <3>1. i \in 1..(Len(posted[c]) - 1) /\ posted[c][i + 1].type = "Pin"
    BY <1>2, <1>3, <1>6, <2>1
  <3>2. i + 1 \in DOMAIN posted[c] /\ i \in Int
    BY <1>3, <3>1
  <3>3. i + 1 = Len(posted[c]) /\ pc[c] = "wait" /\ ctx[c].phase = "End" /\ job # c
    BY <3>1, <3>2 DEF MessagesShaped
  <3>. QED  BY <1>2, <1>3, <1>6, <3>2, <3>3
 <2>. QED  BY <1>6, <1>7, <2>1 DEF MessagesShaped
<1>. QED  BY <1>1, <1>2, <1>5, <1>7 DEF JobShaped, Request

\* notify_pin removes from the policy and changes no entry.
LEMMA ServeNotifyPinStep ==
    ASSUME IndInv, NEW c \in Clients, ServeNotifyPin(c)
    PROVE  IndInv'
<1>. USE DEF IndInv, Types
<1>1. /\ replacement' \subseteq replacement
      /\ pinned_size' = pinned_size + 1
  BY DEF ServeNotifyPin
<1>2. /\ UNCHANGED <<pte, owner, allocated, first_loaded>>
      /\ UNCHANGED <<srv_pc, job, victim, pre_dirty, ctx>>
      /\ UNCHANGED <<batch, pc, req, retries, held, wrote, mem, disk>>
      /\ UNCHANGED stray
  BY DEF ServeNotifyPin, client, data
<1>3. /\ srv_pc = "loop" /\ job = None /\ victim = None
      /\ PostedType' /\ serving' \in Clients \cup {None} /\ MessagesShaped'
  BY <1>2, NotificationTaken DEF ServeNotifyPin
<1>4. Types'
 <2>1. PteType' /\ CacheType' /\ JobType' /\ ContextType' /\ HeldType' /\ ClientType'
  BY <1>1, <1>2 DEF PteType, CacheType, JobType, ContextType, HeldType, ClientType
 <2>2. BatchType'
  BY <1>2 DEF MessageType, BatchType
 <2>3. OtherType'
  BY <1>1, <1>2, <1>3 DEF OtherType
 <2>. QED  BY <1>3, <2>1, <2>2, <2>3 DEF MessageType
<1>5. RequestsShaped' /\ ContextsShaped'
  BY <1>2 DEF RequestsShaped, ContextsShaped
<1>6. JobShaped' /\ EvictableMapped'
  BY <1>1, <1>2, <1>3 DEF JobShaped, EvictableMapped
<1>7. EntriesShaped' /\ TransitSound' /\ PinnedStays' /\ RefExact'
  BY <1>2, TableKept
<1>. QED  BY <1>3, <1>4, <1>5, <1>6, <1>7

\* notify_unpin adds the frame of a mapped page without references, which cannot be
\* locked.
LEMMA ServeNotifyUnpinStep ==
    ASSUME IndInv, NEW c \in Clients, ServeNotifyUnpin(c)
    PROVE  IndInv'
<1>. USE DEF IndInv, Types
<1>1. /\ Turn(c, "NotifyDirectUnpin") /\ Take(c)
      /\ pinned_size' = pinned_size - 1
  BY DEF ServeNotifyUnpin
<1>2. /\ UNCHANGED <<pte, owner, allocated, first_loaded>>
      /\ UNCHANGED <<srv_pc, job, victim, pre_dirty, ctx>>
      /\ UNCHANGED <<batch, pc, req, retries, held, wrote, mem, disk>>
      /\ UNCHANGED stray
  BY DEF ServeNotifyUnpin, client, data
<1>3. /\ srv_pc = "loop" /\ job = None /\ victim = None
      /\ PostedType' /\ serving' \in Clients \cup {None} /\ MessagesShaped'
      /\ Head(posted[c]).page \in VPages
  BY <1>1, <1>2, NotificationTaken
<1>. DEFINE v == Head(posted[c]).page
<1>4. \/ replacement' = replacement
      \/ /\ pte[v].exist /\ pte[v].ref_count = 0
         /\ replacement' = replacement \cup {pte[v].ppage_id}
  BY DEF ServeNotifyUnpin, Evictable
<1>. HIDE DEF v
<1>5. v \in VPages
  BY <1>3 DEF v
<1>6. CacheType' /\ EvictableMapped'
 <2>1. CASE replacement' = replacement
  BY <1>2, <2>1 DEF CacheType, EvictableMapped
 <2>2. CASE /\ pte[v].exist /\ pte[v].ref_count = 0
            /\ replacement' = replacement \cup {pte[v].ppage_id}
  <3>1. ~pte[v].busy
    BY <1>5, <2>2 DEF EntriesShaped
  <3>2. /\ pte[v].ppage_id \in PPages /\ owner[pte[v].ppage_id] = v
    BY <1>5, <2>2, <3>1 DEF EntriesShaped, CacheType
  <3>. QED  BY <1>2, <1>5, <2>2, <3>1, <3>2 DEF CacheType, EvictableMapped
 <2>. QED  BY <1>4, <2>1, <2>2
<1>7. Types'
 <2>1. PteType' /\ JobType' /\ ContextType' /\ HeldType' /\ ClientType'
  BY <1>2 DEF PteType, JobType, ContextType, HeldType, ClientType
 <2>2. BatchType'
  BY <1>2 DEF MessageType, BatchType
 <2>3. OtherType'
  BY <1>1, <1>2, <1>3 DEF OtherType
 <2>. QED  BY <1>3, <1>6, <2>1, <2>2, <2>3 DEF MessageType
<1>8. RequestsShaped' /\ ContextsShaped'
  BY <1>2 DEF RequestsShaped, ContextsShaped
<1>9. JobShaped'
  BY <1>2, <1>3 DEF JobShaped
<1>10. EntriesShaped' /\ TransitSound' /\ PinnedStays' /\ RefExact'
  BY <1>2, TableKept
<1>. QED  BY <1>3, <1>6, <1>7, <1>8, <1>9, <1>10

\* A Pin of a locked entry is put off: its context enters phase Begin.
LEMMA ServePinBusyStep ==
    ASSUME IndInv, NEW c \in Clients, ServePinBusy(c)
    PROVE  IndInv'
<1>. USE DEF IndInv, Types
<1>1. /\ srv_pc = "loop" /\ pc[c] = "wait" /\ ctx[c].phase = "End" /\ job = None
      /\ PostedType' /\ serving' \in Clients \cup {None}
      /\ \A d \in Clients : d # c => posted'[d] = posted[d]
      /\ \A i \in DOMAIN posted'[c] : posted'[c][i].type # "Pin"
  BY PinTaken DEF ServePinBusy
<1>2. /\ UNCHANGED <<pte, owner, replacement, pinned_size, allocated, first_loaded>>
      /\ UNCHANGED <<srv_pc, job, victim, pre_dirty>>
      /\ UNCHANGED <<batch, pc, req, retries, held, wrote, mem, disk>>
      /\ UNCHANGED stray
  BY DEF ServePinBusy, cache, client, data
<1>3. /\ ContextType'
      /\ ctx'[c].phase = "Begin" /\ ctx'[c].io = ctx[c].io
      /\ \A d \in Clients : d # c => ctx'[d] = ctx[d]
 <2>1. ctx' = [ctx EXCEPT ![c] = [ctx[c] EXCEPT !.phase = "Begin"]]
  BY DEF ServePinBusy
 <2>2. [ctx[c] EXCEPT !.phase = "Begin"] \in Context
  BY DEF ContextType, Context
 <2>. QED  BY <2>1, <2>2 DEF ContextType, Context
<1>4. Types'
 <2>1. PteType' /\ CacheType' /\ JobType' /\ HeldType' /\ ClientType'
  BY <1>2 DEF PteType, CacheType, JobType, HeldType, ClientType
 <2>2. BatchType'
  BY <1>2 DEF MessageType, BatchType
 <2>3. OtherType'
  BY <1>1, <1>2 DEF OtherType
 <2>. QED  BY <1>1, <1>3, <2>1, <2>2, <2>3 DEF MessageType
<1>5. RequestsShaped' /\ JobShaped' /\ EvictableMapped'
  BY <1>1, <1>2 DEF RequestsShaped, JobShaped, EvictableMapped
<1>6. MessagesShaped'
  BY <1>1, <1>2, <1>3 DEF MessagesShaped
<1>7. ContextsShaped'
  BY <1>1, <1>2, <1>3 DEF ContextsShaped
<1>8. EntriesShaped' /\ TransitSound' /\ PinnedStays' /\ RefExact'
  BY <1>1, <1>2, <1>3, TableKept
<1>. QED  BY <1>4, <1>5, <1>6, <1>7, <1>8

\* A refused Pin leaves the server as it was; the client asks again or gives up.
LEMMA PinRefusedStep ==
    ASSUME IndInv, NEW c \in Clients, PinRefused(c)
    PROVE  IndInv'
<1>. USE DEF IndInv, Types
<1>1. Dispatched(c, NoContext) /\ AnswerEmpty(c)
  BY DEF PinRefused
<1>2. /\ pc[c] = "wait" /\ srv_pc = "loop" /\ job = None /\ victim = None
      /\ ctx[c].phase \in {"End", "Begin"}
      /\ ctx' = [ctx EXCEPT ![c] = NoContext]
      /\ PostedType' /\ serving' \in Clients \cup {None}
      /\ \A d \in Clients : d # c => posted'[d] = posted[d]
      /\ \A i \in DOMAIN posted'[c] : posted'[c][i].type # "Pin"
  BY <1>1, DispatchedFacts
<1>3. /\ UNCHANGED <<pte, owner, replacement, pinned_size, allocated, first_loaded>>
      /\ UNCHANGED <<srv_pc, job, victim, pre_dirty>>
      /\ UNCHANGED <<batch, wrote, held, mem, disk>>
      /\ UNCHANGED stray
  BY <1>1 DEF PinRefused, AnswerEmpty, cache, data
<1>4. \/ /\ pc' = [pc EXCEPT ![c] = "request"] /\ req' = req
         /\ retries[c] < MaxRetry /\ retries' = [retries EXCEPT ![c] = @ + 1]
      \/ /\ pc' = [pc EXCEPT ![c] = "oom"] /\ req' = [req EXCEPT ![c] = NoRequest]
         /\ retries' = [retries EXCEPT ![c] = 0]
  BY <1>1 DEF AnswerEmpty, TriesAgain
<1>5. /\ ContextType'
      /\ ctx'[c].phase = "End" /\ ctx'[c].io = "none"
      /\ \A d \in Clients : d # c => ctx'[d] = ctx[d]
  BY <1>2 DEF ContextType, Context, NoContext
<1>6. Types'
 <2>1. PteType' /\ CacheType' /\ JobType' /\ HeldType'
  BY <1>3 DEF PteType, CacheType, JobType, HeldType
 <2>2. ClientType'
  BY <1>4 DEF ClientType
 <2>3. BatchType'
  BY <1>3 DEF MessageType, BatchType
 <2>4. retries' \in [Clients -> 0..MaxRetry]
  BY <1>4, BoundAssumption DEF OtherType
 <2>5. OtherType'
  BY <1>2, <1>3, <2>4 DEF OtherType
 <2>. QED  BY <1>2, <1>5, <2>1, <2>2, <2>3, <2>5 DEF MessageType
<1>7. RequestsShaped'
  BY <1>2, <1>3, <1>4 DEF ClientType, RequestsShaped
<1>8. JobShaped' /\ EvictableMapped'
  BY <1>2, <1>3 DEF JobShaped, EvictableMapped
<1>9. MessagesShaped'
 <2>1. \A d \in Clients : d # c => pc'[d] = pc[d]
  BY <1>4 DEF ClientType
 <2>. QED  BY <1>2, <1>3, <1>5, <2>1 DEF MessagesShaped
<1>10. ContextsShaped'
  BY <1>2, <1>3, <1>4, <1>5 DEF ClientType, ContextsShaped
<1>11. EntriesShaped' /\ TransitSound' /\ PinnedStays' /\ RefExact'
  BY <1>2, <1>3, <1>4, <1>5, TableKept DEF ClientType
<1>. QED  BY <1>6, <1>7, <1>8, <1>9, <1>10, <1>11

\* A Pin enters the eviction loop: the page is unmapped and all frames are handed out.
LEMMA PinEvictsStep ==
    ASSUME IndInv, NEW c \in Clients, PinEvicts(c)
    PROVE  IndInv'
<1>. USE DEF IndInv, Types
<1>1. Dispatched(c, NoContext)
  BY DEF PinEvicts
<1>2. /\ pc[c] = "wait" /\ srv_pc = "loop" /\ job = None /\ victim = None
      /\ ctx[c].phase \in {"End", "Begin"}
      /\ ctx' = [ctx EXCEPT ![c] = NoContext]
      /\ PostedType' /\ serving' \in Clients \cup {None}
      /\ \A d \in Clients : d # c => posted'[d] = posted[d]
      /\ \A i \in DOMAIN posted'[c] : posted'[c][i].type # "Pin"
  BY <1>1, DispatchedFacts
<1>3. /\ UNCHANGED <<pte, owner, replacement, allocated, first_loaded>>
      /\ UNCHANGED <<victim, pre_dirty>>
      /\ UNCHANGED <<batch, pc, req, retries, held, wrote, mem, disk>>
      /\ UNCHANGED stray
  BY DEF PinEvicts, client, data
<1>4. /\ srv_pc' = "pop" /\ job' = c /\ full
      /\ pinned_size' = pinned_size + 1
      /\ ~pte[req[c].page].exist /\ ~pte[req[c].page].busy
  BY DEF PinEvicts
<1>5. /\ ContextType'
      /\ ctx'[c].phase = "End" /\ ctx'[c].io = "none"
      /\ \A d \in Clients : d # c => ctx'[d] = ctx[d]
  BY <1>2 DEF ContextType, Context, NoContext
<1>6. Types'
 <2>1. PteType' /\ CacheType' /\ JobType' /\ HeldType' /\ ClientType'
  BY <1>3, <1>4 DEF PteType, CacheType, JobType, HeldType, ClientType
 <2>2. BatchType'
  BY <1>3 DEF MessageType, BatchType
 <2>3. OtherType'
  BY <1>2, <1>3, <1>4 DEF OtherType
 <2>. QED  BY <1>2, <1>5, <2>1, <2>2, <2>3 DEF MessageType
<1>7. RequestsShaped' /\ EvictableMapped'
  BY <1>3 DEF RequestsShaped, EvictableMapped
<1>8. JobShaped'
  BY <1>2, <1>3, <1>4, <1>5 DEF JobShaped, full
<1>9. MessagesShaped'
  BY <1>2, <1>3, <1>4, <1>5 DEF MessagesShaped
<1>10. ContextsShaped'
  BY <1>2, <1>3, <1>4, <1>5 DEF ContextsShaped
<1>11. EntriesShaped' /\ TransitSound' /\ PinnedStays' /\ RefExact'
  BY <1>2, <1>3, <1>5, TableKept
<1>. QED  BY <1>6, <1>7, <1>8, <1>9, <1>10, <1>11

\* The eviction loop before it has locked a victim.
LEMMA ServerPopStep ==
    ASSUME IndInv, NEW p \in PPages, ServerPop(p)
    PROVE  IndInv'
<1>. USE DEF IndInv, Types
<1>1. srv_pc = "pop" /\ p \in replacement /\ replacement' = replacement \ {p}
  BY DEF ServerPop, Popped
<1>2. \/ UNCHANGED <<srv_pc, victim, pre_dirty>>
      \/ /\ srv_pc' = "lock" /\ victim' = p
         /\ pre_dirty' = pte[owner[p]].dirty
  BY DEF ServerPop
<1>3. /\ UNCHANGED <<pte, owner, pinned_size, allocated, first_loaded>>
      /\ UNCHANGED <<serving, job, ctx, posted>>
      /\ UNCHANGED <<batch, pc, req, retries, held, wrote, mem, disk>>
      /\ UNCHANGED stray
  BY DEF ServerPop, client, data
<1>4. /\ owner[p] \in VPages
      /\ pte[owner[p]].exist /\ ~pte[owner[p]].busy /\ pte[owner[p]].ppage_id = p
  BY <1>1 DEF EvictableMapped, CacheType
<1>5. Types'
 <2>1. /\ PteType' /\ CacheType' /\ JobType' /\ ContextType' /\ HeldType' /\ ClientType'
  BY <1>1, <1>2, <1>3 DEF PteType, CacheType, JobType, ContextType, HeldType, ClientType
 <2>2. MessageType'
  BY <1>3 DEF MessageType, PostedType, BatchType
 <2>3. pre_dirty' \in BOOLEAN
  BY <1>2, <1>4 DEF OtherType, PteType, Pte
 <2>4. OtherType'
  BY <1>3, <2>3 DEF OtherType
 <2>. QED  BY <2>1, <2>2, <2>4
<1>6. RequestsShaped' /\ MessagesShaped' /\ ContextsShaped'
  BY <1>3 DEF RequestsShaped, MessagesShaped, ContextsShaped
<1>7. EvictableMapped'
  BY <1>1, <1>3 DEF EvictableMapped
<1>8. JobShaped'
  BY <1>1, <1>2, <1>3, <1>4 DEF JobShaped, full
<1>9. EntriesShaped' /\ TransitSound' /\ PinnedStays' /\ RefExact'
  BY <1>3, TableKept
<1>. QED  BY <1>5, <1>6, <1>7, <1>8, <1>9

\* The eviction loop finds no frame, or loses the victim to a client.
LEMMA ServerGivesUpStep ==
    ASSUME IndInv, ServerPopEmpty \/ ServerLockFails
    PROVE  IndInv'
<1>. USE DEF IndInv, Types
<1>1. \/ srv_pc = "pop" /\ srv_pc' = "spin" /\ UNCHANGED <<victim, pre_dirty>>
      \/ srv_pc = "lock" /\ srv_pc' = "pop" /\ victim' = None /\ pre_dirty' = FALSE
  BY DEF ServerPopEmpty, ServerLockFails
<1>2. /\ UNCHANGED <<pte, owner, replacement, pinned_size, allocated, first_loaded>>
      /\ UNCHANGED <<serving, job, ctx, posted>>
      /\ UNCHANGED <<batch, pc, req, retries, held, wrote, mem, disk>>
      /\ UNCHANGED stray
  BY DEF ServerPopEmpty, ServerLockFails, cache, client, data
<1>3. Types'
 <2>1. /\ PteType' /\ CacheType' /\ JobType' /\ ContextType' /\ HeldType' /\ ClientType'
  BY <1>1, <1>2 DEF PteType, CacheType, JobType, ContextType, HeldType, ClientType
 <2>2. MessageType'
  BY <1>2 DEF MessageType, PostedType, BatchType
 <2>3. OtherType'
  BY <1>1, <1>2 DEF OtherType
 <2>. QED  BY <2>1, <2>2, <2>3
<1>4. RequestsShaped' /\ MessagesShaped' /\ ContextsShaped' /\ EvictableMapped'
  BY <1>2 DEF RequestsShaped, MessagesShaped, ContextsShaped, EvictableMapped
<1>5. JobShaped'
  BY <1>1, <1>2 DEF JobShaped, full
<1>6. EntriesShaped' /\ TransitSound' /\ PinnedStays' /\ RefExact'
  BY <1>2, TableKept
<1>. QED  BY <1>3, <1>4, <1>5, <1>6

\* A command is issued, or the device completes it.
LEMMA CommandStep ==
    ASSUME IndInv, NEW c \in Clients, FiberSubmit(c) \/ DeviceWrite(c) \/ DeviceRead(c)
    PROVE  IndInv'
<1>. USE DEF IndInv, Types
<1>1. InTransit(c)
  BY DEF FiberSubmit, DeviceWrite, DeviceRead, ContextsShaped, ContextType, Context
<1>2. /\ UNCHANGED <<pte, owner, replacement, pinned_size, allocated, first_loaded>>
      /\ UNCHANGED <<srv_pc, serving, job, victim, pre_dirty, posted>>
      /\ UNCHANGED <<batch, pc, req, retries, held, wrote>>
      /\ UNCHANGED stray
  BY DEF FiberSubmit, DeviceWrite, DeviceRead, cache, client, data
<1>3. PICK st \in {"submitted", "finished"} : ctx' = [ctx EXCEPT ![c].io = st]
  BY DEF FiberSubmit, DeviceWrite, DeviceRead, Completed
<1>4. /\ ContextType'
      /\ \A d \in Clients : /\ ctx'[d].phase = ctx[d].phase
                            /\ ctx'[d].ppage_id = ctx[d].ppage_id
                            /\ ctx'[d].pre_vpage_id = ctx[d].pre_vpage_id
                            /\ d # c => ctx'[d].io = ctx[d].io
 <2>1. [ctx[c] EXCEPT !.io = st] \in Context
  BY DEF ContextType, Context
 <2>2. ctx' = [ctx EXCEPT ![c] = [ctx[c] EXCEPT !.io = st]]
  BY <1>3
 <2>. QED  BY <2>1, <2>2 DEF ContextType, Context
<1>5. mem' \in [PPages -> Values \cup {None}] /\ disk' \in [VPages -> Values \cup {None}]
 <2>1. /\ ctx[c].ppage_id \in PPages
       /\ ctx[c].phase = "Evicting" => ctx[c].pre_vpage_id \in VPages
       /\ req[c].page \in VPages
  BY <1>1 DEF ContextsShaped, RequestsShaped, Request
 <2>2. CASE FiberSubmit(c)
  BY <2>2 DEF FiberSubmit, data, OtherType
 <2>3. CASE DeviceWrite(c)
  BY <2>1, <2>3 DEF DeviceWrite, OtherType
 <2>4. CASE DeviceRead(c)
  BY <2>1, <2>4 DEF DeviceRead, OtherType
 <2>. QED  BY <2>2, <2>3, <2>4
<1>6. Types'
 <2>1. /\ PteType' /\ CacheType' /\ JobType' /\ HeldType' /\ ClientType'
  BY <1>2 DEF PteType, CacheType, JobType, HeldType, ClientType
 <2>2. MessageType'
  BY <1>2 DEF MessageType, PostedType, BatchType
 <2>3. OtherType'
  BY <1>2, <1>5 DEF OtherType
 <2>. QED  BY <1>4, <2>1, <2>2, <2>3
<1>7. RequestsShaped' /\ EvictableMapped'
  BY <1>2 DEF RequestsShaped, EvictableMapped
<1>8. MessagesShaped' /\ ContextsShaped'
  BY <1>1, <1>2, <1>4 DEF MessagesShaped, ContextsShaped
<1>9. JobShaped'
  BY <1>2, <1>4 DEF JobShaped, JobType, full
<1>10. EntriesShaped' /\ TransitSound' /\ PinnedStays' /\ RefExact'
  BY <1>2, <1>4, TableKept
<1>. QED  BY <1>6, <1>7, <1>8, <1>9, <1>10

-----------------------------------------------------------------------------
(* The steps that change the table: one reference more or less, a new mapping, *)
(* the end of a write-back and of a load.                                      *)

\* A client gives back its reference: one holder less and one reference less.
LEMMA UnpinStep ==
    ASSUME IndInv, NEW c \in Clients, NEW v \in VPages, Unpin(c, v)
    PROVE  IndInv'
<1>. USE DEF IndInv, Types
<1>1. /\ pc[c] = "idle" /\ held[c][v] # None
      /\ pte[v].exist /\ ~pte[v].busy /\ pte[v].ppage_id = held[c][v]
  BY DEF Unpin, PinnedStays
<1>2. /\ Cardinality(Holders(v)) \in Nat /\ Cardinality(Movers(v)) \in Nat
      /\ c \in Holders(v) /\ Holders(v) \in SUBSET Clients
      /\ Cardinality(Holders(v)) # 0
      /\ Cardinality(Strays(v)) \in Nat
      /\ pte[v].ref_count = Cardinality(Holders(v)) + Cardinality(Movers(v))
                            + Cardinality(Strays(v))
  BY <1>1, CountsAreNat, SubsetsFinite DEF Holders, RefExact
<1>3. /\ PteType'
      /\ pte'[v].exist /\ ~pte'[v].busy /\ pte'[v].ppage_id = pte[v].ppage_id
      /\ pte'[v].ref_count = pte[v].ref_count - 1
      /\ \A u \in VPages \ {v} : pte'[u] = pte[u]
 <2>1. pte' = [pte EXCEPT ![v] = Decremented(pte[v], v \in wrote[c])]
  BY DEF Unpin
 <2>2. pte[v].ref_count - 1 \in Nat
  BY <1>2
 <2>3. (pte[v].dirty \/ v \in wrote[c]) \in BOOLEAN
  OBVIOUS
 <2>4. Decremented(pte[v], v \in wrote[c]) \in Pte
  BY <2>2, <2>3 DEF PteType, Pte
 <2>. QED  BY <1>1, <2>1, <2>4 DEF PteType, Pte
<1>4. /\ HeldType'
      /\ held'[c][v] = None
      /\ \A d \in Clients, u \in VPages : d # c \/ u # v => held'[d][u] = held[d][u]
  BY <1>1 DEF Unpin, HeldType
<1>5. \/ UNCHANGED <<pc, req>>
      \/ /\ pc' = [pc EXCEPT ![c] = "notify"]
         /\ req' = [req EXCEPT ![c] = [type |-> "NotifyDirectUnpin", page |-> v]]
  BY DEF Unpin
<1>6. /\ wrote' = [wrote EXCEPT ![c] = @ \ {v}]
      /\ UNCHANGED <<owner, replacement, pinned_size, allocated, first_loaded>>
      /\ UNCHANGED <<srv_pc, serving, job, victim, pre_dirty, ctx>>
      /\ UNCHANGED <<posted, batch, retries, mem, disk>>
      /\ UNCHANGED stray
  BY DEF Unpin, cache, server, data
<1>7. Types'
 <2>1. CacheType' /\ JobType' /\ ContextType'
  BY <1>6 DEF CacheType, JobType, ContextType
 <2>2. MessageType'
  BY <1>6 DEF MessageType, PostedType, BatchType
 <2>3. ClientType'
  BY <1>5 DEF ClientType, Request
 <2>4. OtherType'
  BY <1>6 DEF OtherType
 <2>. QED  BY <1>3, <1>4, <2>1, <2>2, <2>3, <2>4
<1>8. RequestsShaped'
  BY <1>1, <1>4, <1>5 DEF ClientType, RequestsShaped, Request
<1>9. MessagesShaped' /\ ContextsShaped'
  BY <1>1, <1>5, <1>6 DEF ClientType, MessagesShaped, ContextsShaped
<1>10. JobShaped'
  BY <1>1, <1>3, <1>5, <1>6 DEF ClientType, JobType, CacheType, JobShaped, RequestsShaped,
     full, Request
<1>11. EvictableMapped' /\ EntriesShaped'
  BY <1>1, <1>3, <1>6 DEF CacheType, EvictableMapped, EntriesShaped
<1>12. TransitSound'
  BY <1>1, <1>3, <1>5, <1>6 DEF ClientType, TransitSound, RequestsShaped, ContextsShaped,
     Request
<1>13. PinnedStays'
  BY <1>1, <1>3, <1>4, <1>6 DEF PinnedStays
<1>14. RefExact'
 <2>1. Holders(v)' = Holders(v) \ {c}
  BY <1>4 DEF Holders
 <2>2. \A u \in VPages \ {v} : Holders(u)' = Holders(u)
  BY <1>4 DEF Holders
 <2>3. \A u \in VPages : Movers(u)' = Movers(u)
  BY <1>1, <1>5, <1>6 DEF Movers, ClientType, ContextsShaped
 <2>4. Cardinality(Holders(v)') = Cardinality(Holders(v)) - 1
  BY <1>2, <2>1, OneLess
 <2>5. \A u \in VPages : Strays(u)' = Strays(u)
  BY <1>6 DEF Strays
 <2>. QED
  BY <1>2, <1>3, <2>2, <2>3, <2>4, <2>5 DEF RefExact
<1>. QED  BY <1>7, <1>8, <1>9, <1>10, <1>11, <1>12, <1>13, <1>14

\* The server pins a mapped page for the waiting client.
LEMMA PinHitStep ==
    ASSUME IndInv, NEW c \in Clients, PinHit(c)
    PROVE  IndInv'
<1>. USE DEF IndInv, Types
<1>1. Dispatched(c, NoContext)
  BY DEF PinHit
<1>. PICK v \in VPages : v = req[c].page
  BY <1>1, DispatchedFacts
<1>2. /\ pc[c] = "wait" /\ srv_pc = "loop" /\ job = None /\ victim = None
      /\ ctx[c].phase \in {"End", "Begin"}
      /\ v \in VPages /\ held[c][v] = None
      /\ ctx' = [ctx EXCEPT ![c] = NoContext]
      /\ PostedType' /\ serving' \in Clients \cup {None}
      /\ \A d \in Clients : d # c => posted'[d] = posted[d]
      /\ \A i \in DOMAIN posted'[c] : posted'[c][i].type # "Pin"
  BY <1>1, DispatchedFacts
<1>3. /\ pte[v].exist /\ ~pte[v].busy
      /\ pte' = [pte EXCEPT ![v] = Incremented(pte[v])]
      /\ replacement' \subseteq replacement /\ pinned_size' \in Int
  BY DEF PinHit, OtherType
<1>4. /\ UNCHANGED <<owner, allocated, first_loaded, srv_pc, job, victim, pre_dirty>>
      /\ UNCHANGED <<batch, wrote, mem, disk>>
      /\ UNCHANGED stray
  BY DEF PinHit, data
<1>5. /\ pc' = [pc EXCEPT ![c] = "idle"] /\ req' = [req EXCEPT ![c] = NoRequest]
      /\ retries' = [retries EXCEPT ![c] = 0]
      /\ held' = [held EXCEPT ![c][v] = pte[v].ppage_id]
  BY DEF PinHit, AnswerPointer
<1>6. pte[v].ppage_id \in PPages /\ owner[pte[v].ppage_id] = v
  BY <1>2, <1>3 DEF EntriesShaped, CacheType
<1>7. /\ PteType'
      /\ pte'[v].exist /\ ~pte'[v].busy /\ pte'[v].ppage_id = pte[v].ppage_id
      /\ pte'[v].ref_count = pte[v].ref_count + 1
      /\ \A u \in VPages \ {v} : pte'[u] = pte[u]
 <2>1. Incremented(pte[v]) \in Pte
  BY <1>2 DEF PteType, Pte
 <2>. QED  BY <1>2, <1>3, <2>1 DEF PteType, Pte
<1>8. /\ HeldType'
      /\ held'[c][v] = pte[v].ppage_id
      /\ \A d \in Clients, u \in VPages : d # c \/ u # v => held'[d][u] = held[d][u]
  BY <1>2, <1>5, <1>6 DEF HeldType
<1>9. /\ ContextType'
      /\ ctx'[c].phase = "End" /\ ctx'[c].io = "none"
      /\ \A d \in Clients : d # c => ctx'[d] = ctx[d]
  BY <1>2 DEF ContextType, Context, NoContext
<1>10. Types'
 <2>1. CacheType' /\ JobType'
  BY <1>3, <1>4 DEF CacheType, JobType
 <2>2. ClientType'
  BY <1>5 DEF ClientType
 <2>3. BatchType'
  BY <1>4 DEF MessageType, BatchType
 <2>4. retries' \in [Clients -> 0..MaxRetry]
  BY <1>5, BoundAssumption DEF OtherType
 <2>5. OtherType'
  BY <1>2, <1>3, <1>4, <2>4 DEF OtherType
 <2>. QED  BY <1>2, <1>7, <1>8, <1>9, <2>1, <2>2, <2>3, <2>5 DEF MessageType
<1>11. RequestsShaped'
  BY <1>2, <1>5, <1>8 DEF ClientType, RequestsShaped, Request
<1>12. JobShaped'
  BY <1>2, <1>4 DEF JobShaped
<1>13. MessagesShaped' /\ ContextsShaped'
 <2>1. \A d \in Clients : d # c => pc'[d] = pc[d]
  BY <1>5 DEF ClientType
 <2>. QED  BY <1>2, <1>4, <1>9, <2>1 DEF MessagesShaped, ContextsShaped
<1>14. EvictableMapped' /\ EntriesShaped'
  BY <1>2, <1>3, <1>4, <1>7 DEF CacheType, EvictableMapped, EntriesShaped
<1>15. \A d \in Clients : InTransit(d)' <=> InTransit(d)
  BY <1>2, <1>9
<1>16. \A d \in Clients : InTransit(d) => d # c /\ req'[d] = req[d] /\ ctx'[d] = ctx[d]
                                         /\ req[d].page # v
  BY <1>2, <1>3, <1>5, <1>9 DEF ClientType, TransitSound
<1>17. TransitSound'
 <2>1. \A d \in Clients : InTransit(d) => req[d].page \in VPages
                            /\ (ctx[d].phase = "Evicting" => ctx[d].pre_vpage_id \in VPages
                                 /\ ctx[d].pre_vpage_id # v)
  BY <1>3 DEF RequestsShaped, ContextsShaped, TransitSound, Request
 <2>. QED  BY <1>4, <1>7, <1>15, <1>16, <2>1 DEF TransitSound
<1>18. PinnedStays'
  BY <1>2, <1>4, <1>6, <1>7, <1>8 DEF PinnedStays
<1>19. RefExact'
 <2>1. Holders(v)' = Holders(v) \cup {c} /\ c \notin Holders(v)
  BY <1>2, <1>6, <1>8 DEF Holders
 <2>2. \A u \in VPages \ {v} : Holders(u)' = Holders(u)
  BY <1>8 DEF Holders
 <2>3. \A u \in VPages : Movers(u)' = Movers(u)
  BY <1>15, <1>16 DEF Movers
 <2>4. Cardinality(Holders(v)') = Cardinality(Holders(v)) + 1
  BY <2>1, OneMore DEF Holders
 <2>5. \A u \in VPages : Strays(u)' = Strays(u)
  BY DEF PinHit, Strays
 <2>. QED
  BY <1>2, <1>7, <2>2, <2>3, <2>4, <2>5, CountsAreNat DEF RefExact
<1>. QED  BY <1>10, <1>11, <1>12, <1>13, <1>14, <1>17, <1>18, <1>19

\* A page gets a frame that was never handed out, at once or with a read.
LEMMA PinAllocatedStep ==
    ASSUME IndInv, NEW c \in Clients, NEW p \in PPages,
           PinAllocated(c, p) \/ PinAllocatedRead(c, p)
    PROVE  IndInv'
<1>. USE DEF IndInv, Types
<1>. DEFINE k == IF PinAllocated(c, p) THEN NoContext ELSE Deferred("Loading", p, None)
<1>1. Dispatched(c, k)
  BY DEF PinAllocated, PinAllocatedRead
<1>2. PICK v \in VPages : v = req[c].page
  BY <1>1, DispatchedFacts
<1>3. PICK loading \in BOOLEAN : /\ loading <=> ~PinAllocated(c, p)
                                 /\ pte' = [pte EXCEPT ![v] = NewMapping(p, loading)]
  BY <1>2 DEF PinAllocated, PinAllocatedRead
<1>4. /\ pc[c] = "wait" /\ srv_pc = "loop" /\ job = None /\ victim = None
      /\ ctx[c].phase \in {"End", "Begin"}
      /\ held[c][v] = None
      /\ ctx' = [ctx EXCEPT ![c] = k]
      /\ PostedType' /\ serving' \in Clients \cup {None}
      /\ \A d \in Clients : d # c => posted'[d] = posted[d]
      /\ \A i \in DOMAIN posted'[c] : posted'[c][i].type # "Pin"
  BY <1>1, <1>2, DispatchedFacts
<1>5. /\ ~pte[v].exist /\ ~pte[v].busy
      /\ p \notin allocated /\ allocated' = allocated \cup {p}
      /\ owner' = [owner EXCEPT ![p] = v]
      /\ pinned_size' = pinned_size + 1
      /\ UNCHANGED <<replacement, srv_pc, job, victim, pre_dirty, batch, wrote, mem, disk>>
      /\ UNCHANGED stray
  BY <1>2 DEF PinAllocated, PinAllocatedRead, client, data
<1>6. first_loaded' \in [PPages -> BOOLEAN]
  BY DEF PinAllocated, PinAllocatedRead, OtherType
<1>7. /\ ~loading => /\ pc' = [pc EXCEPT ![c] = "idle"]
                     /\ req' = [req EXCEPT ![c] = NoRequest]
                     /\ retries' = [retries EXCEPT ![c] = 0]
                     /\ held' = [held EXCEPT ![c][v] = p]
                     /\ k = NoContext
      /\ loading => /\ UNCHANGED <<pc, req, retries, held>>
                    /\ k = Deferred("Loading", p, None)
  BY <1>2, <1>3 DEF PinAllocated, PinAllocatedRead, AnswerPointer, client
<1>. HIDE DEF k
<1>8. /\ PteType'
      /\ pte'[v].exist /\ pte'[v].busy = loading /\ pte'[v].ppage_id = p
      /\ pte'[v].ref_count = 1
      /\ \A u \in VPages \ {v} : pte'[u] = pte[u]
 <2>1. NewMapping(p, loading) \in Pte
  BY DEF NewMapping, Pte
 <2>. QED  BY <1>3, <2>1 DEF PteType, NewMapping
<1>9. /\ HeldType'
      /\ ~loading => held'[c][v] = p
      /\ loading => held'[c][v] = None
      /\ \A d \in Clients, u \in VPages : d # c \/ u # v => held'[d][u] = held[d][u]
 <2>1. CASE loading
  BY <1>4, <1>7, <2>1 DEF HeldType
 <2>2. CASE ~loading
  BY <1>7, <2>2 DEF HeldType
 <2>. QED  BY <2>1, <2>2
<1>10. /\ ContextType'
       /\ ~loading => ctx'[c].phase = "End" /\ ctx'[c].io = "none"
       /\ loading => ctx'[c].phase = "Loading" /\ ctx'[c].ppage_id = p
       /\ \A d \in Clients : d # c => ctx'[d] = ctx[d]
 <2>1. k \in Context
  BY <1>7 DEF Context, NoContext, Deferred
 <2>2. /\ ~loading => k.phase = "End" /\ k.io = "none"
       /\ loading => k.phase = "Loading" /\ k.ppage_id = p
  BY <1>7 DEF NoContext, Deferred
 <2>. QED  BY <1>4, <2>1, <2>2 DEF ContextType
<1>11. /\ \A d \in Clients : d # c => pc'[d] = pc[d] /\ req'[d] = req[d]
       /\ loading => pc'[c] = "wait" /\ req'[c] = req[c]
       /\ ~loading => pc'[c] = "idle"
       /\ ClientType'
  BY <1>4, <1>7 DEF ClientType
<1>12. Types'
 <2>1. CacheType' /\ JobType'
  BY <1>5 DEF CacheType, JobType
 <2>2. BatchType'
  BY <1>5 DEF MessageType, BatchType
 <2>3. retries' \in [Clients -> 0..MaxRetry]
  BY <1>7, BoundAssumption DEF OtherType
 <2>4. OtherType'
  BY <1>4, <1>5, <1>6, <2>3 DEF OtherType
 <2>. QED  BY <1>4, <1>8, <1>9, <1>10, <1>11, <2>1, <2>2, <2>4 DEF MessageType
<1>13. RequestsShaped'
  BY <1>2, <1>4, <1>9, <1>11 DEF RequestsShaped, Request
<1>14. JobShaped'
  BY <1>4, <1>5 DEF JobShaped
<1>15. MessagesShaped' /\ ContextsShaped'
  BY <1>4, <1>5, <1>10, <1>11 DEF MessagesShaped, ContextsShaped
<1>16. \A u \in VPages : pte[u].exist => u # v /\ pte[u].ppage_id # p
  BY <1>5 DEF EntriesShaped
<1>17. owner'[p] = v /\ \A q \in PPages : q # p => owner'[q] = owner[q]
  BY <1>5 DEF CacheType
<1>18. EvictableMapped'
 <2>1. ASSUME NEW q \in replacement
       PROVE  /\ q \in PPages /\ owner[q] \in VPages /\ owner[q] # v /\ q # p
              /\ pte[owner[q]].exist /\ ~pte[owner[q]].busy /\ pte[owner[q]].ppage_id = q
  BY <1>16 DEF EvictableMapped, CacheType
 <2>. QED  BY <1>5, <1>8, <1>17, <2>1 DEF EvictableMapped
<1>19. EntriesShaped'
 <2>1. ASSUME NEW u \in VPages, u # v, pte[u].exist
       PROVE  pte[u].ppage_id \in PPages /\ pte[u].ppage_id # p
  BY <1>16, <2>1 DEF EntriesShaped, CacheType
 <2>. QED  BY <1>5, <1>8, <1>17, <2>1 DEF EntriesShaped
<1>20. ASSUME NEW d \in Clients, InTransit(d)
       PROVE  /\ d # c /\ req[d].page \in VPages /\ req[d].page # v
              /\ ctx[d].ppage_id \in PPages /\ ctx[d].ppage_id # p
              /\ ctx[d].phase = "Evicting" => /\ ctx[d].pre_vpage_id \in VPages
                                              /\ ctx[d].pre_vpage_id # v
  BY <1>4, <1>5, <1>16, <1>20 DEF RequestsShaped, ContextsShaped, TransitSound, Request
<1>21. TransitSound'
 <2>1. ASSUME NEW d \in Clients, d # c, InTransit(d)'
       PROVE  InTransit(d) /\ req'[d] = req[d] /\ ctx'[d] = ctx[d]
  BY <1>10, <1>11, <2>1
 <2>2. ASSUME InTransit(c)' PROVE loading /\ req'[c].page = v
  BY <1>2, <1>10, <1>11, <2>2
 <2>. QED  BY <1>8, <1>10, <1>17, <1>20, <2>1, <2>2 DEF TransitSound
<1>22. PinnedStays'
 <2>1. ASSUME NEW d \in Clients, NEW u \in VPages, d # c \/ u # v, held[d][u] # None
       PROVE  /\ u # v /\ held[d][u] \in PPages /\ held[d][u] # p
              /\ held'[d][u] = held[d][u]
  BY <1>9, <1>16, <2>1 DEF PinnedStays, HeldType
 <2>. QED  BY <1>8, <1>9, <1>17, <2>1 DEF PinnedStays
<1>23. RefExact'
 <2>1. \A u \in VPages \ {v} : Holders(u)' = Holders(u)
  BY <1>9 DEF Holders
 <2>2. \A u \in VPages \ {v} : Movers(u)' = Movers(u)
  BY <1>2, <1>4, <1>10, <1>11 DEF Movers
 <2>3. pte[v].ref_count = 0
  BY <1>5 DEF EntriesShaped
 <2>4. UNCHANGED stray
  BY DEF PinAllocated, PinAllocatedRead
 <2>5. CASE loading
  <3>1. Holders(v)' = Holders(v) /\ Movers(v)' = Movers(v) \cup {c}
    BY <1>2, <1>4, <1>9, <1>10, <1>11, <2>5 DEF Holders, Movers
  <3>. QED  BY <1>8, <2>1, <2>2, <2>3, <2>4, <3>1, FirstReference
 <2>6. CASE ~loading
  <3>1. Holders(v)' = Holders(v) \cup {c} /\ Movers(v)' = Movers(v)
    BY <1>4, <1>9, <1>10, <1>11, <2>6 DEF Holders, Movers
  <3>. QED  BY <1>8, <2>1, <2>2, <2>3, <2>4, <3>1, FirstReference
 <2>. QED  BY <2>5, <2>6
<1>. QED  BY <1>12, <1>13, <1>14, <1>15, <1>18, <1>19, <1>21, <1>22, <1>23

\* The victim is locked and emptied, and its frame is given to the wanted page: nobody
\* had a reference to the victim, and nobody has one to the page but this Pin.
LEMMA ServerLockStep ==
    ASSUME IndInv, ServerLock
    PROVE  IndInv'
<1>. USE DEF IndInv, Types
<1>1. srv_pc = "lock" /\ Lockable(pte[owner[victim]])
  BY DEF ServerLock
<1>2. PICK c \in Clients : c = job
  BY <1>1 DEF JobShaped, JobType
<1>3. PICK p \in PPages : p = victim
  BY <1>1 DEF JobShaped, JobType
<1>4. PICK w \in VPages : w = owner[p]
  BY <1>1, <1>3 DEF JobShaped, CacheType
<1>5. PICK v \in VPages : v = req[c].page
  BY <1>1, <1>2 DEF JobShaped, RequestsShaped, Request
<1>6. /\ pc[c] = "wait" /\ ctx[c].phase = "End" /\ held[c][v] = None
      /\ ~pte[v].exist /\ ~pte[v].busy
      /\ pte[w].exist /\ ~pte[w].busy /\ pte[w].ppage_id = p /\ p \notin replacement
      /\ v # w /\ full /\ pte[w].ref_count = 0
  BY <1>1, <1>2, <1>3, <1>4, <1>5 DEF JobShaped, RequestsShaped
<1>7. /\ srv_pc' = "loop" /\ job' = None /\ victim' = None /\ pre_dirty' = FALSE
      /\ UNCHANGED <<replacement, pinned_size, allocated, first_loaded, serving, posted>>
      /\ UNCHANGED <<batch, pc, req, retries, held, wrote, mem, disk>>
      /\ UNCHANGED stray
  BY <1>2, <1>3, <1>4, <1>5 DEF ServerLock, client, data
<1>8. /\ pre_dirty => /\ ctx' = [ctx EXCEPT ![c] = Deferred("Evicting", p, w)]
                      /\ owner' = owner
      /\ ~pre_dirty => /\ ctx' = [ctx EXCEPT ![c] = Deferred("Loading", p, None)]
                       /\ owner' = [owner EXCEPT ![p] = v]
  BY <1>2, <1>3, <1>4, <1>5 DEF ServerLock
<1>9. /\ PteType'
      /\ pte'[v].exist /\ pte'[v].busy /\ pte'[v].ppage_id = p /\ pte'[v].ref_count = 1
      /\ ~pte'[w].exist /\ (pre_dirty => pte'[w].busy) /\ pte'[w].ref_count = 0
      /\ \A u \in VPages \ {v, w} : pte'[u] = pte[u]
 <2>. pte' = [pte EXCEPT ![w] = Emptied(pre_dirty), ![v] = NewMapping(p, TRUE)]
  BY <1>3, <1>4, <1>2, <1>5 DEF ServerLock
 <2>1. NewMapping(p, TRUE) \in Pte
  BY DEF NewMapping, Pte
 <2>2. /\ Emptied(pre_dirty) \in Pte /\ ~Emptied(pre_dirty).exist
       /\ Emptied(pre_dirty).ref_count = 0
       /\ pre_dirty => Emptied(pre_dirty).busy
  BY DEF Emptied, EmptyPte, Pte, OtherType
 <2>. QED  BY <1>6, <2>1, <2>2 DEF PteType, NewMapping
<1>10. /\ ContextType'
       /\ ctx'[c].ppage_id = p
       /\ pre_dirty => ctx'[c].phase = "Evicting" /\ ctx'[c].pre_vpage_id = w
       /\ ~pre_dirty => ctx'[c].phase = "Loading"
       /\ \A d \in Clients : d # c => ctx'[d] = ctx[d]
 <2>1. Deferred("Evicting", p, w) \in Context /\ Deferred("Loading", p, None) \in Context
  BY DEF Context, Deferred
 <2>2. CASE pre_dirty
  BY <1>8, <2>1, <2>2 DEF ContextType, Deferred
 <2>3. CASE ~pre_dirty
  BY <1>8, <2>1, <2>3 DEF ContextType, Deferred
 <2>. QED  BY <2>2, <2>3
<1>11. /\ owner' \in [PPages -> VPages \cup {None}]
       /\ pre_dirty => owner'[p] = w
       /\ ~pre_dirty => owner'[p] = v
       /\ \A q \in PPages : q # p => owner'[q] = owner[q]
  BY <1>4, <1>8 DEF CacheType
<1>12. Types'
 <2>1. CacheType' /\ JobType' /\ HeldType' /\ ClientType'
  BY <1>7, <1>11 DEF CacheType, JobType, HeldType, ClientType
 <2>2. MessageType'
  BY <1>7 DEF MessageType, PostedType, BatchType
 <2>3. OtherType'
  BY <1>7 DEF OtherType
 <2>. QED  BY <1>9, <1>10, <2>1, <2>2, <2>3
<1>13. RequestsShaped' /\ JobShaped'
  BY <1>7 DEF RequestsShaped, JobShaped
<1>14. MessagesShaped'
  BY <1>2, <1>7, <1>10 DEF MessagesShaped
<1>15. ContextsShaped'
  BY <1>6, <1>7, <1>10 DEF ContextsShaped
<1>16. \A u \in VPages : pte[u].exist /\ u # w => u # v /\ pte[u].ppage_id # p
  BY <1>6 DEF EntriesShaped
<1>17. EvictableMapped'
 <2>1. ASSUME NEW q \in replacement
       PROVE  /\ q \in PPages /\ owner[q] \in VPages /\ owner[q] \notin {v, w} /\ q # p
              /\ pte[owner[q]].exist /\ ~pte[owner[q]].busy /\ pte[owner[q]].ppage_id = q
  BY <1>6 DEF EvictableMapped, CacheType
 <2>. QED  BY <1>7, <1>9, <1>11, <2>1 DEF EvictableMapped
<1>18. EntriesShaped'
 <2>1. ASSUME NEW u \in VPages, u \notin {v, w}, pte[u].exist
       PROVE  pte[u].ppage_id \in PPages /\ pte[u].ppage_id # p
  BY <1>16, <2>1 DEF EntriesShaped, CacheType
 <2>2. p \in allocated
  BY <1>6 DEF full
 <2>. QED  BY <1>7, <1>9, <1>11, <2>1, <2>2 DEF EntriesShaped
<1>19. \A d \in Clients : held[d][w] = None /\ (InTransit(d) => req[d].page # w)
  BY <1>6, NoReferences
<1>20. ASSUME NEW d \in Clients, InTransit(d)
       PROVE  /\ d # c /\ req[d].page \in VPages /\ req[d].page \notin {v, w}
              /\ ctx[d].ppage_id \in PPages /\ ctx[d].ppage_id # p
              /\ ctx[d].phase = "Evicting" => /\ ctx[d].pre_vpage_id \in VPages
                                              /\ ctx[d].pre_vpage_id \notin {v, w}
  BY <1>6, <1>16, <1>19, <1>20 DEF RequestsShaped, ContextsShaped, TransitSound, Request
<1>21. TransitSound'
 <2>1. ASSUME NEW d \in Clients, d # c, InTransit(d)'
       PROVE  InTransit(d) /\ ctx'[d] = ctx[d]
  BY <1>10, <2>1
 <2>. QED  BY <1>5, <1>7, <1>9, <1>10, <1>11, <1>20, <2>1 DEF TransitSound
<1>22. PinnedStays'
 <2>1. ASSUME NEW d \in Clients, NEW u \in VPages, held[d][u] # None
       PROVE  u \notin {v, w} /\ held[d][u] \in PPages /\ held[d][u] # p
  BY <1>6, <1>16, <1>19, <2>1 DEF PinnedStays, HeldType
 <2>. QED  BY <1>7, <1>9, <1>11, <2>1 DEF PinnedStays
<1>23. RefExact'
 <2>1. \A u \in VPages : Holders(u)' = Holders(u)
  BY <1>7 DEF Holders
 <2>2. \A u \in VPages \ {v} : Movers(u)' = Movers(u)
  BY <1>5, <1>6, <1>7, <1>10 DEF Movers
 <2>3. Movers(v)' = Movers(v) \cup {c}
  BY <1>5, <1>7, <1>10 DEF Movers
 <2>4. /\ pte[v].ref_count = 0
       /\ \A u \in VPages \ {v} : pte'[u].ref_count = pte[u].ref_count
  BY <1>6, <1>9 DEF EntriesShaped
 <2>5. UNCHANGED stray
  BY DEF ServerLock
 <2>. QED  BY <1>9, <2>1, <2>2, <2>3, <2>4, <2>5, FirstReference
<1>. QED  BY <1>12, <1>13, <1>14, <1>15, <1>17, <1>18, <1>21, <1>22, <1>23

\* The victim is written: its entry is released, the frame changes its owner.
LEMMA FiberEvictedStep ==
    ASSUME IndInv, NEW c \in Clients, FiberEvicted(c)
    PROVE  IndInv'
<1>. USE DEF IndInv, Types
<1>1. ctx[c].phase = "Evicting" /\ srv_pc = "loop"
  BY DEF FiberEvicted, FiberRuns
<1>2. PICK p \in PPages : p = ctx[c].ppage_id
  BY <1>1 DEF ContextsShaped
<1>3. PICK w \in VPages : w = ctx[c].pre_vpage_id
  BY <1>1 DEF ContextsShaped
<1>4. PICK v \in VPages : v = req[c].page
  BY <1>1 DEF ContextsShaped, RequestsShaped, Request
<1>5. /\ pc[c] = "wait" /\ job = None /\ victim = None
      /\ pte[v].exist /\ pte[v].busy /\ pte[v].ppage_id = p
      /\ ~pte[w].exist /\ pte[w].busy /\ v # w
  BY <1>1, <1>2, <1>3, <1>4 DEF ContextsShaped, TransitSound, JobShaped
<1>6. /\ owner' = [owner EXCEPT ![p] = v]
      /\ UNCHANGED <<replacement, pinned_size, allocated, first_loaded>>
      /\ UNCHANGED <<srv_pc, serving, job, victim, pre_dirty, posted>>
      /\ UNCHANGED <<batch, pc, req, retries, held, wrote, mem, disk>>
      /\ UNCHANGED stray
  BY <1>2, <1>4 DEF FiberEvicted, client, data
<1>7. /\ PteType'
      /\ \A u \in VPages : /\ pte'[u].exist = pte[u].exist
                           /\ pte'[u].ppage_id = pte[u].ppage_id
                           /\ pte'[u].ref_count = pte[u].ref_count
      /\ \A u \in VPages \ {w} : pte'[u] = pte[u]
 <2>1. pte' = [pte EXCEPT ![w] = [pte[w] EXCEPT !.busy = FALSE]]
  BY <1>3 DEF FiberEvicted
 <2>2. [pte[w] EXCEPT !.busy = FALSE] \in Pte
  BY DEF PteType, Pte
 <2>. QED  BY <2>1, <2>2 DEF PteType, Pte
<1>8. /\ ContextType'
      /\ ctx'[c].phase = "Loading" /\ ctx'[c].ppage_id = p
      /\ \A d \in Clients : d # c => ctx'[d] = ctx[d]
 <2>1. ctx' = [ctx EXCEPT ![c] = Deferred("Loading", p, None)]
  BY <1>2 DEF FiberEvicted
 <2>2. Deferred("Loading", p, None) \in Context
  BY DEF Context, Deferred
 <2>. QED  BY <2>1, <2>2 DEF ContextType, Deferred
<1>9. owner'[p] = v /\ \A q \in PPages : q # p => owner'[q] = owner[q]
  BY <1>6 DEF CacheType
<1>10. Types'
 <2>1. CacheType' /\ JobType' /\ HeldType' /\ ClientType'
  BY <1>6 DEF CacheType, JobType, HeldType, ClientType
 <2>2. MessageType'
  BY <1>6 DEF MessageType, PostedType, BatchType
 <2>3. OtherType'
  BY <1>6 DEF OtherType
 <2>. QED  BY <1>7, <1>8, <2>1, <2>2, <2>3
<1>11. RequestsShaped' /\ JobShaped'
  BY <1>1, <1>5, <1>6 DEF RequestsShaped, JobShaped
<1>12. MessagesShaped' /\ ContextsShaped'
  BY <1>1, <1>5, <1>6, <1>8 DEF MessagesShaped, ContextsShaped
<1>13. \A u \in VPages : pte[u].exist /\ u # v => pte[u].ppage_id # p
  BY <1>5 DEF EntriesShaped
<1>14. EvictableMapped'
 <2>1. ASSUME NEW q \in replacement
       PROVE  /\ q \in PPages /\ owner[q] \in VPages /\ owner[q] # w /\ q # p
              /\ pte[owner[q]].exist /\ ~pte[owner[q]].busy /\ pte[owner[q]].ppage_id = q
  BY <1>5, <1>13 DEF EvictableMapped, CacheType
 <2>. QED  BY <1>6, <1>7, <1>9, <2>1 DEF EvictableMapped
<1>15. EntriesShaped'
 <2>1. ASSUME NEW u \in VPages, pte[u].exist
       PROVE  pte[u].ppage_id \in PPages /\ (pte[u].ppage_id = p => u = v) /\ u # w
  BY <1>5, <1>13, <2>1 DEF EntriesShaped, CacheType
 <2>. QED  BY <1>5, <1>6, <1>7, <1>9, <2>1 DEF EntriesShaped
<1>16. ASSUME NEW d \in Clients, d # c, InTransit(d)
       PROVE  /\ req[d].page \in VPages /\ req[d].page \notin {v, w}
              /\ ctx[d].ppage_id \in PPages /\ ctx[d].ppage_id # p
              /\ ctx[d].phase = "Evicting" => /\ ctx[d].pre_vpage_id \in VPages
                                              /\ ctx[d].pre_vpage_id \notin {v, w}
 <2>1. req[d].page \in VPages /\ ctx[d].ppage_id \in PPages /\ req[d].page \notin {v, w}
  BY <1>1, <1>4, <1>5, <1>16 DEF RequestsShaped, ContextsShaped, TransitSound, Request
 <2>2. ctx[d].ppage_id # p
  BY <1>13, <1>16, <2>1 DEF TransitSound
 <2>3. ctx[d].phase = "Evicting" => /\ ctx[d].pre_vpage_id \in VPages
                                    /\ ctx[d].pre_vpage_id \notin {v, w}
  BY <1>1, <1>3, <1>5, <1>16 DEF ContextsShaped, TransitSound
 <2>. QED  BY <2>1, <2>2, <2>3
<1>17. TransitSound'
 <2>1. ASSUME NEW d \in Clients, d # c, InTransit(d)'
       PROVE  InTransit(d) /\ ctx'[d] = ctx[d]
  BY <1>8, <2>1
 <2>. QED  BY <1>4, <1>5, <1>6, <1>7, <1>8, <1>9, <1>16, <2>1 DEF TransitSound
<1>18. PinnedStays'
 <2>1. ASSUME NEW d \in Clients, NEW u \in VPages, held[d][u] # None
       PROVE  u \notin {v, w} /\ held[d][u] \in PPages /\ held[d][u] # p
  BY <1>5, <1>13, <2>1 DEF PinnedStays, HeldType
 <2>. QED  BY <1>6, <1>7, <1>9, <2>1 DEF PinnedStays
<1>19. RefExact'
 <2>1. \A u \in VPages : Holders(u)' = Holders(u)
  BY <1>6 DEF Holders
 <2>2. \A u \in VPages : Movers(u)' = Movers(u)
  BY <1>1, <1>6, <1>8 DEF Movers
 <2>3. \A u \in VPages : Strays(u)' = Strays(u)
  BY DEF FiberEvicted, Strays
 <2>. QED  BY <1>7, <2>1, <2>2, <2>3 DEF RefExact
<1>. QED  BY <1>10, <1>11, <1>12, <1>14, <1>15, <1>17, <1>18, <1>19

\* The page is loaded: the reference of the Pin becomes the reference of its client.
LEMMA FiberLoadedStep ==
    ASSUME IndInv, NEW c \in Clients, FiberLoaded(c)
    PROVE  IndInv'
<1>. USE DEF IndInv, Types
<1>1. ctx[c].phase = "Loading" /\ srv_pc = "loop"
  BY DEF FiberLoaded, FiberRuns
<1>2. PICK p \in PPages : p = ctx[c].ppage_id
  BY <1>1 DEF ContextsShaped
<1>3. PICK v \in VPages : v = req[c].page
  BY <1>1 DEF ContextsShaped, RequestsShaped, Request
<1>4. /\ pc[c] = "wait" /\ job = None /\ victim = None /\ held[c][v] = None
      /\ pte[v].exist /\ pte[v].busy /\ pte[v].ppage_id = p /\ owner[p] = v
  BY <1>1, <1>2, <1>3 DEF ContextsShaped, TransitSound, JobShaped, RequestsShaped
<1>5. /\ UNCHANGED <<owner, replacement, pinned_size, allocated, first_loaded>>
      /\ UNCHANGED <<srv_pc, serving, job, victim, pre_dirty, posted>>
      /\ UNCHANGED <<batch, wrote, mem, disk>>
      /\ UNCHANGED stray
  BY DEF FiberLoaded, cache, data
<1>6. /\ pc' = [pc EXCEPT ![c] = "idle"] /\ req' = [req EXCEPT ![c] = NoRequest]
      /\ retries' = [retries EXCEPT ![c] = 0]
      /\ held' = [held EXCEPT ![c][v] = p]
  BY <1>2, <1>3 DEF FiberLoaded, AnswerPointer
<1>7. /\ PteType'
      /\ pte'[v].exist /\ ~pte'[v].busy /\ pte'[v].ppage_id = p
      /\ pte'[v].ref_count = pte[v].ref_count
      /\ \A u \in VPages \ {v} : pte'[u] = pte[u]
 <2>1. pte' = [pte EXCEPT ![v] = [pte[v] EXCEPT !.busy = FALSE]]
  BY <1>3 DEF FiberLoaded
 <2>2. [pte[v] EXCEPT !.busy = FALSE] \in Pte
  BY DEF PteType, Pte
 <2>. QED  BY <1>4, <2>1, <2>2 DEF PteType, Pte
<1>8. /\ ContextType'
      /\ ctx'[c].phase = "End" /\ ctx'[c].io = "none"
      /\ \A d \in Clients : d # c => ctx'[d] = ctx[d]
 <2>1. ctx' = [ctx EXCEPT ![c] = NoContext]
  BY DEF FiberLoaded
 <2>2. NoContext \in Context
  BY DEF Context, NoContext
 <2>. QED  BY <2>1, <2>2 DEF ContextType, NoContext
<1>9. /\ HeldType'
      /\ held'[c][v] = p
      /\ \A d \in Clients, u \in VPages : d # c \/ u # v => held'[d][u] = held[d][u]
  BY <1>6 DEF HeldType
<1>10. /\ ClientType' /\ pc'[c] = "idle"
       /\ \A d \in Clients : d # c => pc'[d] = pc[d] /\ req'[d] = req[d]
  BY <1>6 DEF ClientType
<1>11. Types'
 <2>1. CacheType' /\ JobType'
  BY <1>5 DEF CacheType, JobType
 <2>2. MessageType'
  BY <1>5 DEF MessageType, PostedType, BatchType
 <2>3. retries' \in [Clients -> 0..MaxRetry]
  BY <1>6, BoundAssumption DEF OtherType
 <2>4. OtherType'
  BY <1>5, <2>3 DEF OtherType
 <2>. QED  BY <1>7, <1>8, <1>9, <1>10, <2>1, <2>2, <2>4
<1>12. RequestsShaped'
  BY <1>9, <1>10 DEF RequestsShaped, Request
<1>13. JobShaped'
  BY <1>1, <1>4, <1>5 DEF JobShaped
<1>14. MessagesShaped' /\ ContextsShaped'
  BY <1>1, <1>5, <1>8, <1>10 DEF MessagesShaped, ContextsShaped
<1>15. EvictableMapped' /\ EntriesShaped'
  BY <1>4, <1>5, <1>7 DEF CacheType, EvictableMapped, EntriesShaped
<1>16. ASSUME NEW d \in Clients, d # c, InTransit(d)
       PROVE  /\ req[d].page \in VPages /\ req[d].page # v
              /\ ctx[d].phase = "Evicting" => /\ ctx[d].pre_vpage_id \in VPages
                                              /\ ctx[d].pre_vpage_id # v
  BY <1>1, <1>3, <1>4, <1>16 DEF RequestsShaped, ContextsShaped, TransitSound, Request
<1>17. TransitSound'
 <2>1. ASSUME NEW d \in Clients, InTransit(d)'
       PROVE  d # c /\ InTransit(d) /\ ctx'[d] = ctx[d] /\ req'[d] = req[d]
  BY <1>8, <1>10, <2>1
 <2>. QED  BY <1>5, <1>7, <1>16, <2>1 DEF TransitSound
<1>18. PinnedStays'
  BY <1>4, <1>5, <1>7, <1>9 DEF PinnedStays
<1>19. RefExact'
 <2>1. Holders(v)' = Holders(v) \cup {c} /\ c \notin Holders(v)
  BY <1>4, <1>9 DEF Holders
 <2>2. Movers(v)' = Movers(v) \ {c} /\ c \in Movers(v)
  BY <1>1, <1>3, <1>8, <1>10 DEF Movers
 <2>3. \A u \in VPages \ {v} : Holders(u)' = Holders(u) /\ Movers(u)' = Movers(u)
  BY <1>3, <1>8, <1>9, <1>10 DEF Holders, Movers
 <2>4. Cardinality(Holders(v)') = Cardinality(Holders(v)) + 1
  BY <2>1, OneMore DEF Holders
 <2>5. Cardinality(Movers(v)') = Cardinality(Movers(v)) - 1
  BY <2>2, OneLess DEF Movers
 <2>6. \A u \in VPages : Strays(u)' = Strays(u)
  BY DEF FiberLoaded, Strays
 <2>. QED
  BY <1>7, <2>3, <2>4, <2>5, <2>6, CountsAreNat DEF RefExact
<1>. QED  BY <1>11, <1>12, <1>13, <1>14, <1>15, <1>17, <1>18, <1>19

-----------------------------------------------------------------------------
\* The constructors establish the invariant.
\* A stray reference is taken: one stray and one reference more, nothing else changes for
\* the page it is taken to.
LEMMA StrayPinStep ==
    ASSUME IndInv, StraysSound, NEW c \in Clients, NEW v \in VPages, NEW w \in VPages,
           StrayPin(c, v, w)
    PROVE  IndInv'
<1>. USE DEF IndInv, Types
<1>1. /\ pc[c] = "idle" /\ held[c][v] = None /\ stray[c] = None
      /\ pte[w].exist /\ ~pte[w].busy
  BY DEF StrayPin, MayPin, StraysSound
<1>2. /\ PteType'
      /\ pte'[w].exist /\ ~pte'[w].busy /\ pte'[w].ppage_id = pte[w].ppage_id
      /\ pte'[w].ref_count = pte[w].ref_count + 1
      /\ \A u \in VPages \ {w} : pte'[u] = pte[u]
 <2>1. pte' = [pte EXCEPT ![w] = Incremented(pte[w])]
  BY DEF StrayPin
 <2>2. Incremented(pte[w]) \in Pte
  BY DEF PteType, Pte
 <2>. QED  BY <1>1, <2>1, <2>2 DEF PteType, Pte
<1>3. /\ pc' = [pc EXCEPT ![c] = "stray"]
      /\ req' = [req EXCEPT ![c] = [type |-> "Pin", page |-> v]]
      /\ stray' = [stray EXCEPT ![c] = w]
  BY DEF StrayPin
<1>4. /\ UNCHANGED <<owner, replacement, pinned_size, allocated, first_loaded>>
      /\ UNCHANGED <<srv_pc, serving, job, victim, pre_dirty, ctx>>
      /\ UNCHANGED <<posted, batch, retries, held, wrote, mem, disk>>
  BY DEF StrayPin, cache, server, data
<1>5. Types'
 <2>1. CacheType' /\ JobType' /\ ContextType' /\ HeldType'
  BY <1>4 DEF CacheType, JobType, ContextType, HeldType
 <2>2. MessageType'
  BY <1>4 DEF MessageType, PostedType, BatchType
 <2>3. ClientType'
  BY <1>3 DEF ClientType, Request
 <2>4. OtherType'
  BY <1>4 DEF OtherType
 <2>. QED  BY <1>2, <2>1, <2>2, <2>3, <2>4
<1>6. RequestsShaped'
  BY <1>1, <1>3, <1>4 DEF ClientType, RequestsShaped, Request
<1>7. MessagesShaped' /\ ContextsShaped'
  BY <1>1, <1>3, <1>4 DEF ClientType, MessagesShaped, ContextsShaped
<1>8. JobShaped'
  BY <1>1, <1>2, <1>3, <1>4 DEF ClientType, JobType, CacheType, JobShaped, RequestsShaped,
     full, Request
<1>9. EvictableMapped' /\ EntriesShaped'
  BY <1>1, <1>2, <1>4 DEF CacheType, EvictableMapped, EntriesShaped
<1>10. TransitSound'
  BY <1>1, <1>2, <1>3, <1>4 DEF ClientType, TransitSound, RequestsShaped, ContextsShaped,
     Request
<1>11. PinnedStays'
  BY <1>1, <1>2, <1>4 DEF PinnedStays
<1>12. RefExact'
 <2>1. Strays(w)' = Strays(w) \cup {c} /\ c \notin Strays(w)
  BY <1>1, <1>3 DEF Strays, StraysSound
 <2>2. \A u \in VPages \ {w} : Strays(u)' = Strays(u)
  BY <1>1, <1>3 DEF Strays, StraysSound
 <2>3. \A u \in VPages : Holders(u)' = Holders(u) /\ Movers(u)' = Movers(u)
  BY <1>1, <1>3, <1>4 DEF Holders, Movers, ClientType, ContextsShaped
 <2>4. Cardinality(Strays(w)') = Cardinality(Strays(w)) + 1
  BY <2>1, OneMore DEF Strays
 <2>. QED
  BY <1>2, <2>2, <2>3, <2>4, CountsAreNat DEF RefExact
<1>. QED  BY <1>5, <1>6, <1>7, <1>8, <1>9, <1>10, <1>11, <1>12

\* The stray reference is given back, and the page is still the one it was taken to.
LEMMA StrayUnpinStep ==
    ASSUME IndInv, StraysSound, NEW c \in Clients, StrayUnpin(c)
    PROVE  IndInv'
<1>. USE DEF IndInv, Types
<1>0. PICK w \in VPages : w = stray[c]
  BY DEF StrayUnpin, StraysSound
<1>1. pc[c] = "stray" /\ stray[c] = w /\ pte[w].exist /\ ~pte[w].busy
  BY <1>0 DEF StrayUnpin, StraysSound
<1>2. /\ c \in Strays(w) /\ Strays(w) \in SUBSET Clients
      /\ Cardinality(Strays(w)) # 0
      /\ pte[w].ref_count - 1 \in Nat
 <2>1. c \in Strays(w) /\ Strays(w) \in SUBSET Clients
  BY <1>1 DEF Strays
 <2>2. Cardinality(Strays(w)) # 0
  BY <2>1, SubsetsFinite
 <2>. QED  BY <1>1, <2>1, <2>2, CountsAreNat DEF RefExact
<1>3. /\ PteType'
      /\ pte'[w].exist /\ ~pte'[w].busy /\ pte'[w].ppage_id = pte[w].ppage_id
      /\ pte'[w].ref_count = pte[w].ref_count - 1
      /\ \A u \in VPages \ {w} : pte'[u] = pte[u]
 <2>1. pte' = [pte EXCEPT ![w] = Decremented(pte[w], FALSE)]
  BY <1>1 DEF StrayUnpin
 <2>2. (pte[w].dirty \/ FALSE) \in BOOLEAN
  OBVIOUS
 <2>3. Decremented(pte[w], FALSE) \in Pte
  BY <1>1, <1>2, <2>2 DEF PteType, Pte
 <2>. QED  BY <1>1, <2>1, <2>3 DEF PteType, Pte
<1>4. /\ pc' = [pc EXCEPT ![c] = "request"]
      /\ stray' = [stray EXCEPT ![c] = None]
  BY DEF StrayUnpin
<1>5. /\ UNCHANGED <<owner, replacement, pinned_size, allocated, first_loaded>>
      /\ UNCHANGED <<srv_pc, serving, job, victim, pre_dirty, ctx>>
      /\ UNCHANGED <<posted, batch, req, retries, held, wrote, mem, disk>>
  BY DEF StrayUnpin, cache, server, data
<1>6. Types'
 <2>1. CacheType' /\ JobType' /\ ContextType' /\ HeldType'
  BY <1>5 DEF CacheType, JobType, ContextType, HeldType
 <2>2. MessageType'
  BY <1>5 DEF MessageType, PostedType, BatchType
 <2>3. ClientType'
  BY <1>4, <1>5 DEF ClientType
 <2>4. OtherType'
  BY <1>5 DEF OtherType
 <2>. QED  BY <1>3, <2>1, <2>2, <2>3, <2>4
<1>7. RequestsShaped'
  BY <1>1, <1>4, <1>5 DEF ClientType, RequestsShaped, Request
<1>8. MessagesShaped' /\ ContextsShaped'
  BY <1>1, <1>4, <1>5 DEF ClientType, MessagesShaped, ContextsShaped
<1>9. JobShaped'
  BY <1>1, <1>3, <1>4, <1>5 DEF ClientType, JobType, CacheType, JobShaped, RequestsShaped,
     full, Request
<1>10. EvictableMapped' /\ EntriesShaped'
  BY <1>1, <1>3, <1>5 DEF CacheType, EvictableMapped, EntriesShaped
<1>11. TransitSound'
  BY <1>1, <1>3, <1>4, <1>5 DEF ClientType, TransitSound, RequestsShaped, ContextsShaped,
     Request
<1>12. PinnedStays'
  BY <1>1, <1>3, <1>5 DEF PinnedStays
<1>13. RefExact'
 <2>1. Strays(w)' = Strays(w) \ {c}
  BY <1>1, <1>4 DEF Strays, StraysSound
 <2>2. \A u \in VPages \ {w} : Strays(u)' = Strays(u)
  BY <1>1, <1>4 DEF Strays, StraysSound
 <2>3. \A u \in VPages : Holders(u)' = Holders(u) /\ Movers(u)' = Movers(u)
  BY <1>5 DEF Holders, Movers
 <2>4. Cardinality(Strays(w)') = Cardinality(Strays(w)) - 1
  BY <1>2, <2>1, OneLess
 <2>. QED
  BY <1>1, <1>3, <2>2, <2>3, <2>4, CountsAreNat DEF RefExact
<1>. QED  BY <1>6, <1>7, <1>8, <1>9, <1>10, <1>11, <1>12, <1>13

-----------------------------------------------------------------------------
(* The stray references and their pages *)

LEMMA InitStrays == Init => StraysSound
BY DEF Init, StraysSound

\* Steps that leave the stray references alone and keep their pages mapped.
LEMMA StraysKept ==
    ASSUME StraysSound, UNCHANGED stray, silent' \in SUBSET VPages, drift' = drift,
           \A c \in Clients : pc'[c] = "stray" <=> pc[c] = "stray",
           \A u \in VPages : (\E c \in Clients : stray[c] = u)
                => pte'[u].exist /\ ~pte'[u].busy
    PROVE  StraysSound'
BY DEF StraysSound

\* What a client does; a lock bit is never set by it.
LEMMA ClientStrays ==
    ASSUME IndInv, StraysSound, NEW c \in Clients, ClientStep(c)
    PROVE  StraysSound'
<1>. USE DEF IndInv, Types
<1>1. CASE \E v, w \in VPages : StrayPin(c, v, w)
 <2>1. PICK v \in VPages, w \in VPages : StrayPin(c, v, w)
  BY <1>1
 <2>2. /\ stray' = [stray EXCEPT ![c] = w] /\ pc' = [pc EXCEPT ![c] = "stray"]
       /\ pte' = [pte EXCEPT ![w] = Incremented(pte[w])]
       /\ pte[w].exist /\ ~pte[w].busy
       /\ silent' \in {silent, silent \cup {w}} /\ drift' \in {drift, drift - 1}
  BY <2>1 DEF StrayPin
 <2>3. \A u \in VPages : pte'[u].exist = pte[u].exist /\ pte'[u].busy = pte[u].busy
  BY <2>2 DEF PteType, Pte
 <2>. QED  BY <2>2, <2>3 DEF StraysSound, ClientType
<1>2. CASE StrayUnpin(c)
 <2>. DEFINE w == stray[c]
 <2>1. /\ stray' = [stray EXCEPT ![c] = None] /\ pc' = [pc EXCEPT ![c] = "request"]
       /\ pte' = [pte EXCEPT ![w] = Decremented(pte[w], FALSE)]
       /\ w \in VPages
       /\ silent' \in {silent, silent \cup {w}} /\ drift' \in {drift, drift + 1}
  BY <1>2 DEF StrayUnpin, StraysSound
 <2>2. \A u \in VPages : pte'[u].exist = pte[u].exist /\ pte'[u].busy = pte[u].busy
  BY <2>1 DEF PteType, Pte
 <2>. QED  BY <2>1, <2>2 DEF StraysSound, ClientType
<1>3. CASE \E v \in VPages : DirectPin(c, v) \/ Unpin(c, v)
 <2>1. PICK v \in VPages : DirectPin(c, v) \/ Unpin(c, v)
  BY <1>3
 <2>2. /\ UNCHANGED <<stray, drift>> /\ silent' \in {silent, silent \ {v}}
       /\ pc[c] = "idle" /\ pc' \in {pc, [pc EXCEPT ![c] = "notify"]}
       /\ pte' \in {[pte EXCEPT ![v] = Incremented(pte[v])],
                    [pte EXCEPT ![v] = Decremented(pte[v], v \in wrote[c])]}
  <3>1. CASE DirectPin(c, v)
    BY <3>1 DEF DirectPin, MayPin
  <3>2. CASE Unpin(c, v)
    BY <3>2 DEF Unpin
  <3>. QED  BY <2>1, <3>1, <3>2
 <2>3. \A u \in VPages : pte'[u].exist = pte[u].exist /\ pte'[u].busy = pte[u].busy
  <3>1. CASE pte' = [pte EXCEPT ![v] = Incremented(pte[v])]
    BY <3>1 DEF PteType, Pte, Incremented
  <3>2. CASE pte' = [pte EXCEPT ![v] = Decremented(pte[v], v \in wrote[c])]
    BY <3>2 DEF PteType, Pte, Decremented
  <3>. QED  BY <2>2, <3>1, <3>2
 <2>4. silent' \in SUBSET VPages /\ \A d \in Clients : pc'[d] = "stray" <=> pc[d] = "stray"
  BY <2>2 DEF StraysSound, ClientType
 <2>. QED  BY <2>2, <2>3, <2>4, StraysKept DEF StraysSound
<1>4. CASE \/ \E v \in VPages : PinMiss(c, v)
           \/ \E v \in VPages, x \in Values : Write(c, v, x)
           \/ Notify(c) \/ RequestPin(c)
 <2>1. UNCHANGED <<pte, stray, silent, drift>>
  BY <1>4 DEF PinMiss, Write, Notify, RequestPin
 <2>2. \A d \in Clients : pc'[d] = "stray" <=> pc[d] = "stray"
  BY <1>4 DEF PinMiss, MayPin, Write, Notify, RequestPin, ClientType
 <2>. QED  BY <2>1, <2>2, StraysKept DEF StraysSound
<1>. QED  BY <1>1, <1>2, <1>3, <1>4 DEF ClientStep

\* What the server does for client c: the entries it changes are free or locked.
LEMMA ServerStrays ==
    ASSUME IndInv, StraysSound, NEW c \in Clients, ServerStep(c) \/ DeviceStep(c)
    PROVE  StraysSound'
<1>. USE DEF IndInv, Types
<1>1. CASE \/ ServeNotifyPin(c) \/ ServeNotifyUnpin(c) \/ ServePinBusy(c) \/ PinEvicts(c)
           \/ FiberSubmit(c) \/ DeviceStep(c)
 <2>1. UNCHANGED <<pte, pc, stray, silent, drift>>
  BY <1>1 DEF ServeNotifyPin, ServeNotifyUnpin, ServePinBusy, PinEvicts, FiberSubmit,
     DeviceStep, DeviceWrite, DeviceRead, client
 <2>. QED  BY <2>1, StraysKept DEF StraysSound
<1>2. CASE PinHit(c)
 <2>. DEFINE v == req[c].page
 <2>1. /\ pc[c] = "wait" /\ v \in VPages
  BY <1>2, DispatchedFacts DEF PinHit
 <2>2. /\ UNCHANGED <<stray, drift>> /\ silent' \in {silent, silent \ {v}}
       /\ pc' = [pc EXCEPT ![c] = "idle"]
       /\ pte' = [pte EXCEPT ![v] = Incremented(pte[v])]
  BY <1>2 DEF PinHit, AnswerPointer
 <2>3. \A u \in VPages : pte'[u].exist = pte[u].exist /\ pte'[u].busy = pte[u].busy
  BY <2>1, <2>2 DEF PteType, Pte
 <2>4. silent' \in SUBSET VPages /\ \A d \in Clients : pc'[d] = "stray" <=> pc[d] = "stray"
  BY <2>1, <2>2 DEF StraysSound, ClientType
 <2>. QED  BY <2>2, <2>3, <2>4, StraysKept DEF StraysSound
<1>3. CASE PinRefused(c)
 <2>1. pc[c] = "wait"
  BY <1>3, DispatchedFacts DEF PinRefused
 <2>2. /\ UNCHANGED <<pte, stray, silent, drift>>
       /\ \E st \in {"request", "oom"} : pc' = [pc EXCEPT ![c] = st]
  BY <1>3 DEF PinRefused, AnswerEmpty
 <2>3. \A d \in Clients : pc'[d] = "stray" <=> pc[d] = "stray"
  BY <2>1, <2>2 DEF ClientType
 <2>. QED  BY <2>2, <2>3, StraysKept DEF StraysSound
<1>4. CASE \E p \in PPages : PinAllocated(c, p) \/ PinAllocatedRead(c, p)
 <2>1. PICK p \in PPages : PinAllocated(c, p) \/ PinAllocatedRead(c, p)
  BY <1>4
 <2>. DEFINE v == req[c].page
 <2>2. pc[c] = "wait" /\ v \in VPages /\ ~pte[v].exist
  BY <2>1, DispatchedFacts DEF PinAllocated, PinAllocatedRead
 <2>3. /\ UNCHANGED <<stray, drift>> /\ silent' = silent \ {v}
       /\ pc' \in {pc, [pc EXCEPT ![c] = "idle"]}
       /\ \E busy \in BOOLEAN : pte' = [pte EXCEPT ![v] = NewMapping(p, busy)]
  BY <2>1 DEF PinAllocated, PinAllocatedRead, AnswerPointer, client
 <2>4. \A u \in VPages : pte[u].exist => pte'[u] = pte[u]
  BY <2>2, <2>3 DEF PteType
 <2>5. silent' \in SUBSET VPages /\ \A d \in Clients : pc'[d] = "stray" <=> pc[d] = "stray"
  BY <2>2, <2>3 DEF StraysSound, ClientType
 <2>. QED  BY <2>3, <2>4, <2>5, StraysKept DEF StraysSound
<1>5. CASE FiberEvicted(c) \/ FiberLoaded(c)
 <2>1. InTransit(c) /\ pc[c] = "wait"
  BY <1>5 DEF FiberEvicted, FiberLoaded, ContextsShaped
 <2>2. /\ UNCHANGED <<stray, silent, drift>> /\ pc' \in {pc, [pc EXCEPT ![c] = "idle"]}
       /\ \E u \in VPages : pte[u].busy /\ pte' = [pte EXCEPT ![u].busy = FALSE]
  BY <1>5, <2>1 DEF FiberEvicted, FiberLoaded, AnswerPointer, client, TransitSound,
     ContextsShaped, RequestsShaped, Request
 <2>3. \A u \in VPages : ~pte[u].busy => pte'[u] = pte[u]
  BY <2>2 DEF PteType
 <2>4. \A d \in Clients : pc'[d] = "stray" <=> pc[d] = "stray"
  BY <2>1, <2>2 DEF ClientType
 <2>. QED  BY <2>2, <2>3, <2>4, StraysKept DEF StraysSound
<1>. QED  BY <1>1, <1>2, <1>3, <1>4, <1>5 DEF ServerStep

\* The eviction loop locks no entry with a stray reference.
LEMMA EvictionStrays ==
    ASSUME IndInv, StraysSound, EvictionStep
    PROVE  StraysSound'
<1>. USE DEF IndInv, Types
<1>1. CASE (\E p \in PPages : ServerPop(p)) \/ ServerPopEmpty \/ ServerLockFails
 <2>1. UNCHANGED <<pte, pc, stray, silent, drift>>
  BY <1>1 DEF ServerPop, ServerPopEmpty, ServerLockFails, client
 <2>. QED  BY <2>1, StraysKept DEF StraysSound
<1>2. CASE ServerLock
 <2>. DEFINE v == req[job].page
             w == owner[victim]
 <2>1. /\ job \in Clients /\ victim \in PPages /\ w \in VPages
       /\ v \in VPages /\ ~pte[v].exist /\ pte[w].ref_count = 0
  BY <1>2 DEF ServerLock, JobShaped, JobType, CacheType, RequestsShaped, Request
 <2>2. \A c \in Clients : stray[c] # w
  BY <2>1, NoReferences
 <2>3. /\ UNCHANGED <<pc, stray, drift>> /\ silent' = silent \ {v, w}
       /\ pte' = [pte EXCEPT ![w] = Emptied(pre_dirty), ![v] = NewMapping(victim, TRUE)]
  BY <1>2 DEF ServerLock, client
 <2>4. \A u \in VPages : (\E c \in Clients : stray[c] = u)
            => pte'[u].exist /\ ~pte'[u].busy
  BY <2>1, <2>2, <2>3 DEF PteType, StraysSound
 <2>. QED  BY <2>3, <2>4, StraysKept DEF StraysSound
<1>. QED  BY <1>1, <1>2 DEF EvictionStep

LEMMA NextStrays == IndInv /\ StraysSound /\ [Next]_vars => StraysSound'
<1>. SUFFICES ASSUME IndInv, StraysSound, [Next]_vars PROVE StraysSound'
  OBVIOUS
<1>1. ASSUME UNCHANGED vars PROVE StraysSound'
 <2>1. UNCHANGED <<pte, pc, stray, silent, drift>>
  BY <1>1 DEF vars, client
 <2>. QED  BY <2>1, StraysKept DEF StraysSound
<1>. QED  BY <1>1, ClientStrays, ServerStrays, EvictionStrays DEF Next, ServerSpin

LEMMA InitIndInv == Init => IndInv
<1>. SUFFICES ASSUME Init PROVE IndInv
  OBVIOUS
<1>1. EmptyPte \in Pte /\ NoContext \in Context /\ <<>> \in Seq(Request)
  BY EmptySeq DEF EmptyPte, Pte, NoContext, Context
<1>2. PteType /\ CacheType /\ JobType /\ ContextType
  BY <1>1 DEF Init, PteType, CacheType, JobType, ContextType
<1>3. MessageType /\ ClientType /\ HeldType
  BY <1>1 DEF Init, MessageType, PostedType, BatchType, ClientType, HeldType
<1>4. OtherType
 <2>1. retries \in [Clients -> 0..MaxRetry] /\ pinned_size \in Int
  BY BoundAssumption DEF Init
 <2>2. pre_dirty \in BOOLEAN
  BY Zenon DEF Init
 <2>3. /\ first_loaded \in [PPages -> BOOLEAN] /\ serving \in Clients \cup {None}
       /\ wrote \in [Clients -> SUBSET VPages] /\ mem \in [PPages -> Values \cup {None}]
       /\ disk \in [VPages -> Values \cup {None}]
  BY DEF Init
 <2>. QED  BY <2>1, <2>2, <2>3 DEF OtherType
<1>5. RequestsShaped /\ ContextsShaped /\ JobShaped /\ EvictableMapped /\ EntriesShaped
  BY DEF Init, RequestsShaped, ContextsShaped, JobShaped, EvictableMapped,
         EntriesShaped, EmptyPte, NoContext
<1>6. MessagesShaped
  BY DEF Init, MessagesShaped
<1>7. TransitSound /\ PinnedStays
  BY DEF Init, TransitSound, PinnedStays, NoContext
<1>8. RefExact
 <2>1. \A v \in VPages : Holders(v) = {} /\ Movers(v) = {} /\ Strays(v) = {}
  BY DEF Init, Holders, Movers, Strays, NoContext
 <2>2. \A v \in VPages : pte[v].ref_count = 0
  BY DEF Init, EmptyPte
 <2>3. Cardinality({}) = 0
  BY FS_EmptySet
 <2>. QED  BY <2>1, <2>2, <2>3 DEF RefExact
<1>. QED  BY <1>2, <1>3, <1>4, <1>5, <1>6, <1>7, <1>8 DEF IndInv, Types

\* Every step keeps it.
LEMMA NextIndInv == IndInv /\ StraysSound /\ [Next]_vars => IndInv'
<1>. SUFFICES ASSUME IndInv, StraysSound, [Next]_vars PROVE IndInv'
  OBVIOUS
<1>1. ASSUME NEW c \in Clients, ClientStep(c) PROVE IndInv'
  BY <1>1, DirectPinStep, PinMissStep, StrayPinStep, StrayUnpinStep, UnpinStep, WriteStep,
     NotifyStep, RequestPinStep DEF ClientStep
<1>2. ASSUME NEW c \in Clients, ServerStep(c) PROVE IndInv'
  BY <1>2, ServeNotifyPinStep, ServeNotifyUnpinStep, ServePinBusyStep, PinHitStep,
     PinRefusedStep, PinAllocatedStep, PinEvictsStep, CommandStep, FiberEvictedStep,
     FiberLoadedStep DEF ServerStep
<1>3. ASSUME NEW c \in Clients, DeviceStep(c) PROVE IndInv'
  BY <1>3, CommandStep DEF DeviceStep
<1>4. ASSUME EvictionStep PROVE IndInv'
  BY <1>4, ServerPopStep, ServerGivesUpStep, ServerLockStep DEF EvictionStep
<1>5. ASSUME UNCHANGED vars PROVE IndInv'
 <2>1. /\ UNCHANGED <<pte, owner, replacement, pinned_size, allocated, first_loaded>>
       /\ UNCHANGED <<srv_pc, serving, job, victim, pre_dirty, ctx, posted>>
       /\ UNCHANGED <<batch, pc, req, retries, held, wrote, mem, disk, stray>>
  BY <1>5 DEF vars, cache, server, client, data
 <2>2. Types'
  <3>1. PteType' /\ CacheType' /\ JobType' /\ ContextType' /\ HeldType' /\ ClientType'
    BY <2>1 DEF IndInv, Types, PteType, CacheType, JobType, ContextType, HeldType, ClientType
  <3>2. MessageType' /\ OtherType'
    BY <2>1 DEF IndInv, Types, MessageType, PostedType, BatchType, OtherType
  <3>. QED  BY <3>1, <3>2 DEF Types
 <2>3. RequestsShaped' /\ MessagesShaped' /\ ContextsShaped'
  BY <2>1 DEF IndInv, RequestsShaped, MessagesShaped, ContextsShaped
 <2>4. JobShaped' /\ EvictableMapped'
  BY <2>1 DEF IndInv, JobShaped, EvictableMapped, full
 <2>5. EntriesShaped' /\ TransitSound' /\ PinnedStays' /\ RefExact'
  BY <2>1, TableKept
 <2>. QED  BY <2>2, <2>3, <2>4, <2>5 DEF IndInv
<1>6. ASSUME ServerSpin PROVE IndInv'
  BY <1>5, <1>6 DEF ServerSpin
<1>. QED  BY <1>1, <1>2, <1>3, <1>4, <1>5, <1>6 DEF Next

\* The invariant of the partition: whatever the clients, the server thread and the device
\* do, entries, frames, contexts and messages stay consistent with each other.
THEOREM IndInvHolds == Spec => [](IndInv /\ StraysSound)
BY InitIndInv, NextIndInv, InitStrays, NextStrays, PTL DEF Spec

\* Every variable keeps its type, in particular ref_count never goes below zero
\* (dec_ref_count in SharedCache::unpin).
THEOREM TypeCorrect == Spec => []TypeOK
<1>1. IndInv /\ StraysSound => TypeOK
  BY DEF StraysSound, IndInv, Types, TypeOK, PteType, CacheType, JobType, ContextType, MessageType,
     PostedType, BatchType, ClientType, HeldType, OtherType
<1>. QED  BY <1>1, IndInvHolds, PTL

\* A page that a client has pinned stays mapped, unlocked and in the frame its pointer
\* was computed from, for any number of clients, pages and frames: the lock in
\* delete_mapping fails while a reference exists.
THEOREM PinnedPagesStay == Spec => []PinnedStays
<1>1. IndInv => PinnedStays
  BY DEF IndInv
<1>. QED  BY <1>1, IndInvHolds, PTL

\* ref_count is the number of clients with a reference, strays included, plus the Pin in
\* progress that created the mapping: direct pins, pins by the server, create_mapping and
\* the pins that are taken back neither lose nor double a reference.
THEOREM ReferencesAreCounted == Spec => []RefCounted
<1>1. IndInv => RefCounted
  BY DEF IndInv, RefExact, RefCounted, Holders, Movers, Strays
<1>. QED  BY <1>1, IndInvHolds, PTL

\* A frame under I/O belongs to one Pin: no client points into it and no other evict_func
\* or load_func uses it.
THEOREM FramesAreExclusive == Spec => []FrameExclusive
<1>1. ASSUME IndInv PROVE FrameExclusive
 <2>1. ASSUME NEW c \in Clients, InTransit(c), NEW d \in Clients, NEW v \in VPages
       PROVE  held[d][v] # ctx[c].ppage_id
  BY <1>1, <2>1 DEF IndInv, Types, HeldType, PinnedStays, ContextsShaped, RequestsShaped,
     EntriesShaped, TransitSound, Request
 <2>2. ASSUME NEW c \in Clients, InTransit(c), NEW d \in Clients \ {c}, InTransit(d)
       PROVE  ctx[d].ppage_id # ctx[c].ppage_id
  BY <1>1, <2>2 DEF IndInv, ContextsShaped, RequestsShaped, EntriesShaped, TransitSound,
     Request
 <2>. QED  BY <2>1, <2>2 DEF FrameExclusive
<1>. QED  BY <1>1, IndInvHolds, PTL

\* No block is read while its write-back is outstanding: the entry of the victim stays
\* busy until evict_func has finished, so a Pin of that page stays in phase Begin.
THEOREM ReadsWaitForWriteBack == Spec => []NoReadDuringWriteBack
<1>1. IndInv => NoReadDuringWriteBack
  BY DEF IndInv, TransitSound, NoReadDuringWriteBack
<1>. QED  BY <1>1, IndInvHolds, PTL

-----------------------------------------------------------------------------
(***************************************************************************)
(* Proofs about the notifications between the clients and the server of a  *)
(* partition: the replacement policy lags behind the page table by the     *)
(* notifications under way, except where a stray reference was the first   *)
(* or the last of a page, so that only there a frame can leak or a pinned  *)
(* frame stay evictable (NotesInv); and pinned_size is off by the number   *)
(* of those notifications and by the drift the strays leave.               *)
(***************************************************************************)

\* The notification of this type for page v.
Note(type, v) == [type |-> type, page |-> v]

\* Client c still owes the server request r.
Has(c, r) ==
    \/ \E i \in DOMAIN posted[c] : posted[c][i] = r
    \/ \E i \in DOMAIN batch[c] : batch[c][i] = r
    \/ pc[c] = "notify" /\ req[c] = r

\* Every notification that was on its way, the ones for page u of this type
\* excepted, still is.
KeptBut(type, u) ==
    \A v \in VPages, t \in {"NotifyDirectPin", "NotifyDirectUnpin"} :
        (t # type \/ v # u) /\ Coming(t, v) => Coming(t, v)'

\* Every notification that was on its way still is.
Kept == \A v \in VPages, t \in {"NotifyDirectPin", "NotifyDirectUnpin"} :
            Coming(t, v) => Coming(t, v)'

\* Where the replacement policy disagrees with the entry of a mapped page, the
\* notification that will correct it is on its way, or a stray has changed the count.
Noted(v) ==
    pte[v].exist /\ ~pte[v].busy =>
        /\ pte[v].ref_count > 0 /\ pte[v].ppage_id \in replacement
             => Coming("NotifyDirectPin", v) \/ v \in silent
        /\ pte[v].ref_count = 0
             => \/ pte[v].ppage_id \in replacement \cup {victim}
                \/ Coming("NotifyDirectUnpin", v)
                \/ v \in silent

\* The same for all pages.
NotesInv == \A v \in VPages : Noted(v)

-----------------------------------------------------------------------------
USE DEF Pinnable, FirstPin, LastPin, Incremented, Decremented, Lockable, InTransit
USE DEF strays, Reported
USE NoneAssumption

\* A notification is on its way when some client owes it.
LEMMA ComingHas ==
    ASSUME NEW type, NEW v
    PROVE  Coming(type, v) <=> \E c \in Clients : Has(c, Note(type, v))
BY DEF Coming, Has, Note

\* If the clients keep what they owe, Pins excepted, the notifications stay on their way.
LEMMA HasKept ==
    ASSUME \A c \in Clients, r \in Request : r.type # "Pin" /\ Has(c, r) => Has(c, r)'
    PROVE  Kept
<1>. SUFFICES ASSUME NEW v \in VPages, NEW t \in {"NotifyDirectPin", "NotifyDirectUnpin"},
                     Coming(t, v)
              PROVE  Coming(t, v)'
  BY DEF Kept
<1>1. Note(t, v) \in Request /\ Note(t, v).type # "Pin"
  BY DEF Note, Request
<1>2. PICK c \in Clients : Has(c, Note(t, v))
  BY ComingHas
<1>3. Has(c, Note(t, v))'
  BY <1>1, <1>2 DEF Note
<1>4. Coming(t, v)' <=> \E d \in Clients : Has(d, Note(t, v))'
  BY DEF Coming, Has, Note
<1>. QED  BY <1>3, <1>4

\* Steps that touch neither messages nor a notification being made.
LEMMA QuietKept ==
    ASSUME IndInv, UNCHANGED <<posted, batch>>,
           \A c \in Clients : pc[c] = "notify" => pc'[c] = "notify" /\ req'[c] = req[c]
    PROVE  Kept
BY HasKept DEF Has

\* A notification being made joins the batch, which may be submitted.
LEMMA NotifyKept == ASSUME IndInv, NEW c \in Clients, Notify(c) PROVE Kept
<1>. USE DEF IndInv, Types
<1>. DEFINE b == Append(batch[c], req[c])
<1>1. batch[c] \in Seq(Request) /\ req[c] \in Request /\ pc[c] = "notify" /\ posted[c] = <<>>
  BY DEF Notify, RequestsShaped, MessageType, BatchType
<1>2. /\ b \in Seq(Request) /\ Len(b) = Len(batch[c]) + 1
      /\ \A i \in 1..Len(batch[c]) : b[i] = batch[c][i]
      /\ b[Len(batch[c]) + 1] = req[c]
  BY <1>1, AppendProperties
<1>3. DOMAIN b = 1..Len(b) /\ DOMAIN batch[c] = 1..Len(batch[c]) /\ Len(batch[c]) \in Nat
  BY <1>1, <1>2, LenProperties
<1>4. /\ \A i \in DOMAIN batch[c] : i \in DOMAIN b /\ b[i] = batch[c][i]
      /\ \E i \in DOMAIN b : b[i] = req[c]
  BY <1>2, <1>3
<1>5. \/ /\ posted' = [posted EXCEPT ![c] = b] /\ batch' = [batch EXCEPT ![c] = <<>>]
      \/ /\ batch' = [batch EXCEPT ![c] = b] /\ posted' = posted
  BY DEF Notify
<1>6. /\ pc' = [pc EXCEPT ![c] = "idle"] /\ req' = [req EXCEPT ![c] = NoRequest]
  BY DEF Notify
<1>. HIDE DEF b
<1>7. /\ \A d \in Clients : d # c => /\ posted'[d] = posted[d] /\ batch'[d] = batch[d]
                                     /\ pc'[d] = pc[d] /\ req'[d] = req[d]
      /\ \/ posted'[c] = b
         \/ batch'[c] = b
 <2>1. DOMAIN posted = Clients /\ DOMAIN batch = Clients
  BY DEF MessageType, PostedType, BatchType
 <2>. QED  BY <1>5, <1>6, <2>1 DEF ClientType
<1>8. DOMAIN posted[c] = {}
  BY <1>1
<1>9. ASSUME NEW d \in Clients, NEW r \in Request, Has(d, r) PROVE Has(d, r)'
 <2>1. CASE d # c
  BY <1>7, <1>9, <2>1 DEF Has
 <2>2. CASE d = c
  <3>1. \E i \in DOMAIN b : b[i] = r
    BY <1>4, <1>8, <1>9, <2>2 DEF Has
  <3>. QED  BY <1>7, <2>2, <3>1 DEF Has
 <2>. QED  BY <2>1, <2>2
<1>. QED  BY <1>9, HasKept

\* A Pin submits the batch before it.
LEMMA RequestPinKept == ASSUME IndInv, NEW c \in Clients, RequestPin(c) PROVE Kept
<1>. USE DEF IndInv, Types
<1>. DEFINE b == Append(batch[c], req[c])
<1>1. batch[c] \in Seq(Request) /\ req[c] \in Request /\ pc[c] = "request" /\ posted[c] = <<>>
  BY DEF RequestPin, RequestsShaped, MessageType, BatchType
<1>2. /\ b \in Seq(Request) /\ Len(b) = Len(batch[c]) + 1
      /\ \A i \in 1..Len(batch[c]) : b[i] = batch[c][i]
  BY <1>1, AppendProperties
<1>3. DOMAIN b = 1..Len(b) /\ DOMAIN batch[c] = 1..Len(batch[c]) /\ Len(batch[c]) \in Nat
  BY <1>1, <1>2, LenProperties
<1>4. \A i \in DOMAIN batch[c] : i \in DOMAIN b /\ b[i] = batch[c][i]
  BY <1>2, <1>3
<1>5. /\ posted' = [posted EXCEPT ![c] = b] /\ batch' = [batch EXCEPT ![c] = <<>>]
      /\ pc' = [pc EXCEPT ![c] = "wait"] /\ req' = req
  BY DEF RequestPin
<1>. HIDE DEF b
<1>6. /\ \A d \in Clients : d # c => /\ posted'[d] = posted[d] /\ batch'[d] = batch[d]
                                     /\ pc'[d] = pc[d]
      /\ posted'[c] = b
 <2>1. DOMAIN posted = Clients /\ DOMAIN batch = Clients
  BY DEF MessageType, PostedType, BatchType
 <2>. QED  BY <1>5, <2>1 DEF ClientType
<1>7. DOMAIN posted[c] = {}
  BY <1>1
<1>8. ASSUME NEW d \in Clients, NEW r \in Request, Has(d, r) PROVE Has(d, r)'
 <2>1. CASE d # c
  BY <1>5, <1>6, <1>8, <2>1 DEF Has
 <2>2. CASE d = c
  BY <1>1, <1>4, <1>6, <1>7, <1>8, <2>2 DEF Has
 <2>. QED  BY <2>1, <2>2
<1>. QED  BY <1>8, HasKept

\* Taking the first request of a message loses nothing else.
LEMMA TakeKept ==
    ASSUME IndInv, NEW c \in Clients, NEW type, Turn(c, type), Take(c),
           UNCHANGED batch,
           \A d \in Clients : pc[d] = "notify" => pc'[d] = "notify" /\ req'[d] = req[d]
    PROVE  \A d \in Clients, r \in Request :
               Has(d, r) /\ (d # c \/ r # Head(posted[c])) => Has(d, r)'
<1>. USE DEF IndInv, Types
<1>1. posted[c] \in Seq(Request) /\ posted[c] # <<>>
  BY DEF Turn, MessageType, PostedType
<1>2. /\ Tail(posted[c]) \in Seq(Request)
      /\ Len(Tail(posted[c])) = Len(posted[c]) - 1
      /\ \A i \in 1..Len(Tail(posted[c])) : Tail(posted[c])[i] = posted[c][i + 1]
  BY <1>1, HeadTailProperties
<1>3. /\ Len(posted[c]) \in Nat
      /\ DOMAIN posted[c] = 1..Len(posted[c])
      /\ DOMAIN Tail(posted[c]) = 1..Len(Tail(posted[c]))
      /\ Head(posted[c]) = posted[c][1]
  BY <1>1, <1>2, LenProperties
<1>4. \A i \in DOMAIN posted[c] :
          posted[c][i] # Head(posted[c]) =>
              i - 1 \in DOMAIN Tail(posted[c]) /\ Tail(posted[c])[i - 1] = posted[c][i]
  BY <1>2, <1>3
<1>5. posted'[c] = Tail(posted[c]) /\ \A d \in Clients : d # c => posted'[d] = posted[d]
  BY DEF Take, MessageType, PostedType
<1>6. ASSUME NEW d \in Clients, NEW r \in Request, Has(d, r), d # c \/ r # Head(posted[c])
      PROVE  Has(d, r)'
 <2>1. CASE d # c
  BY <1>5, <1>6, <2>1 DEF Has
 <2>2. CASE d = c
  <3>1. r # Head(posted[c])
    BY <1>6, <2>2
  <3>2. ASSUME NEW i \in DOMAIN posted[c], posted[c][i] = r
        PROVE  \E j \in DOMAIN Tail(posted[c]) : Tail(posted[c])[j] = r
    BY <1>4, <3>1, <3>2
  <3>3. (\E i \in DOMAIN posted[c] : posted[c][i] = r) => Has(c, r)'
    BY <1>5, <3>2 DEF Has
  <3>. QED  BY <1>6, <2>2, <3>3 DEF Has
 <2>. QED  BY <2>1, <2>2
<1>. QED  BY <1>6

\* The server takes a notification: only this one is gone.
LEMMA ServeKept ==
    ASSUME IndInv, NEW c \in Clients, NEW type \in {"NotifyDirectPin", "NotifyDirectUnpin"},
           Turn(c, type), Take(c), UNCHANGED <<batch, pc, req>>
    PROVE  /\ Head(posted[c]).page \in VPages
           /\ KeptBut(type, Head(posted[c]).page)
<1>1. Head(posted[c]).page \in VPages
  BY NotificationTaken
<1>2. Head(posted[c]) \in Request /\ Head(posted[c]).type = type
 <2>1. posted[c] \in Seq(Request) /\ posted[c] # <<>> /\ Head(posted[c]).type = type
  BY DEF Turn, IndInv, Types, MessageType, PostedType
 <2>. QED  BY <2>1, HeadTailProperties
<1>3. ASSUME NEW v \in VPages, NEW t \in {"NotifyDirectPin", "NotifyDirectUnpin"},
             t # type \/ v # Head(posted[c]).page, Coming(t, v)
      PROVE  Coming(t, v)'
 <2>1. Note(t, v) \in Request /\ Note(t, v) # Head(posted[c])
  BY <1>2, <1>3 DEF Note, Request
 <2>2. PICK d \in Clients : Has(d, Note(t, v))
  BY <1>3, ComingHas
 <2>3. Has(d, Note(t, v))'
  BY <2>1, <2>2, TakeKept DEF Note
 <2>4. Coming(t, v)' <=> \E e \in Clients : Has(e, Note(t, v))'
  BY DEF Coming, Has, Note
 <2>. QED  BY <2>3, <2>4
<1>. QED  BY <1>1, <1>3 DEF KeptBut

\* The server takes a Pin, or the fiber runs: no notification is taken.
LEMMA DispatchedKept ==
    ASSUME IndInv, NEW c \in Clients, NEW k, Dispatched(c, k), UNCHANGED batch,
           \A d \in Clients : d # c => pc'[d] = pc[d] /\ req'[d] = req[d]
    PROVE  Kept
<1>1. pc[c] = "wait"
  BY DispatchedFacts
<1>2. \A d \in Clients : pc[d] = "notify" => pc'[d] = "notify" /\ req'[d] = req[d]
  BY <1>1
<1>3. CASE Turn(c, "Pin") /\ Take(c)
 <2>1. \A d \in Clients, r \in Request :
           Has(d, r) /\ (d # c \/ r # Head(posted[c])) => Has(d, r)'
  BY <1>2, <1>3, TakeKept
 <2>2. Head(posted[c]).type = "Pin"
  BY <1>3 DEF Turn
 <2>. QED  BY <2>1, <2>2, HasKept
<1>4. CASE UNCHANGED posted
  BY <1>2, <1>4, QuietKept
<1>. QED  BY <1>3, <1>4 DEF Dispatched

-----------------------------------------------------------------------------
\* What a page's entry and the policy still say of it, a step leaves noted.
LEMMA NotedKept ==
    ASSUME NotesInv, NEW v \in VPages, Kept,
           pte'[v] = pte[v],
           pte[v].ppage_id \in replacement' <=> pte[v].ppage_id \in replacement,
           pte[v].ppage_id = victim => pte[v].ppage_id = victim',
           v \in silent => v \in silent'
    PROVE  Noted(v)'
BY DEF NotesInv, Noted, Kept

\* Steps that change neither the entries nor the policy.
LEMMA QuietNotes ==
    ASSUME NotesInv, Kept, UNCHANGED <<pte, replacement, victim, silent>>
    PROVE  NotesInv'
BY NotedKept DEF NotesInv

\* The first direct pin of an evictable page makes the client owe the notification.
LEMMA DirectPinNotes ==
    ASSUME IndInv, NotesInv, NEW c \in Clients, NEW v \in VPages, DirectPin(c, v)
    PROVE  NotesInv'
<1>. USE DEF IndInv, Types
<1>1. pc[c] = "idle" /\ pte[v].exist /\ ~pte[v].busy
  BY DEF DirectPin, MayPin
<1>2. /\ UNCHANGED <<replacement, victim, posted, batch>>
      /\ IF pte[v].ref_count = 0
         THEN /\ pc' = [pc EXCEPT ![c] = "notify"]
              /\ req' = [req EXCEPT ![c] = Note("NotifyDirectPin", v)]
              /\ silent' = silent \ {v}
         ELSE UNCHANGED <<pc, req, silent>>
  BY DEF DirectPin, cache, server, Note
<1>3. /\ pte'[v].ppage_id = pte[v].ppage_id
      /\ pte'[v].ref_count = pte[v].ref_count + 1 /\ pte[v].ref_count \in Nat
      /\ \A u \in VPages \ {v} : pte'[u] = pte[u]
 <2>1. pte' = [pte EXCEPT ![v] = Incremented(pte[v])]
  BY DEF DirectPin
 <2>. QED  BY <2>1 DEF PteType, Pte
<1>4. Kept
  BY <1>1, <1>2, QuietKept DEF ClientType
<1>5. \A u \in VPages \ {v} : Noted(u)'
  BY <1>2, <1>3, <1>4, NotedKept
<1>6. pte[v].ref_count = 0 => Coming("NotifyDirectPin", v)'
 <2>1. pte[v].ref_count = 0 => pc'[c] = "notify" /\ req'[c] = Note("NotifyDirectPin", v)
  BY <1>2 DEF ClientType
 <2>. QED  BY <2>1 DEF Coming, Note
<1>7. Noted(v)'
 <2>1. CASE pte[v].ref_count = 0
  BY <1>3, <1>6, <2>1 DEF Noted
 <2>2. CASE pte[v].ref_count > 0
  BY <1>1, <1>2, <1>3, <1>4, <2>2 DEF Noted, NotesInv, Kept
 <2>. QED  BY <1>3, <2>1, <2>2
<1>. QED  BY <1>5, <1>7 DEF NotesInv

\* So does the unpin that gives back the last reference.
LEMMA UnpinNotes ==
    ASSUME IndInv, NotesInv, NEW c \in Clients, NEW v \in VPages, Unpin(c, v)
    PROVE  NotesInv'
<1>. USE DEF IndInv, Types
<1>1. pc[c] = "idle" /\ pte[v].exist /\ ~pte[v].busy
  BY DEF Unpin, PinnedStays
<1>2. /\ UNCHANGED <<replacement, victim, posted, batch>>
      /\ IF pte[v].ref_count = 1
         THEN /\ pc' = [pc EXCEPT ![c] = "notify"]
              /\ req' = [req EXCEPT ![c] = Note("NotifyDirectUnpin", v)]
              /\ silent' = silent \ {v}
         ELSE UNCHANGED <<pc, req, silent>>
  BY DEF Unpin, cache, server, Note
<1>3. /\ pte'[v].ppage_id = pte[v].ppage_id
      /\ pte'[v].ref_count = pte[v].ref_count - 1 /\ pte[v].ref_count \in Nat
      /\ \A u \in VPages \ {v} : pte'[u] = pte[u]
 <2>1. pte' = [pte EXCEPT ![v] = Decremented(pte[v], v \in wrote[c])]
  BY DEF Unpin
 <2>. QED  BY <2>1 DEF PteType, Pte
<1>4. Kept
  BY <1>1, <1>2, QuietKept DEF ClientType
<1>5. \A u \in VPages \ {v} : Noted(u)'
  BY <1>2, <1>3, <1>4, NotedKept
<1>6. pte[v].ref_count = 1 => Coming("NotifyDirectUnpin", v)'
 <2>1. pte[v].ref_count = 1 => pc'[c] = "notify" /\ req'[c] = Note("NotifyDirectUnpin", v)
  BY <1>2 DEF ClientType
 <2>. QED  BY <2>1 DEF Coming, Note
<1>7. Noted(v)'
 <2>1. pte[v].ref_count # 0
  <3>1. held[c][v] # None
    BY DEF Unpin
  <3>. QED  BY <3>1, NoReferences
 <2>2. CASE pte[v].ref_count = 1
  BY <1>3, <1>6, <2>2 DEF Noted
 <2>3. CASE pte[v].ref_count > 1
  BY <1>1, <1>2, <1>3, <1>4, <2>3 DEF Noted, NotesInv, Kept
 <2>. QED  BY <1>3, <2>1, <2>2, <2>3
<1>. QED  BY <1>5, <1>7 DEF NotesInv

\* A stray that is the first reference of its page makes the page silent.
LEMMA StrayPinNotes ==
    ASSUME IndInv, NotesInv, NEW c \in Clients, NEW v \in VPages, NEW w \in VPages,
           StrayPin(c, v, w)
    PROVE  NotesInv'
<1>. USE DEF IndInv, Types
<1>1. pc[c] = "idle" /\ pte[w].exist /\ ~pte[w].busy
  BY DEF StrayPin, MayPin
<1>2. /\ UNCHANGED <<replacement, victim, posted, batch>>
      /\ pc' = [pc EXCEPT ![c] = "stray"]
      /\ req' = [req EXCEPT ![c] = [type |-> "Pin", page |-> v]]
      /\ silent' = IF pte[w].ref_count = 0 THEN silent \cup {w} ELSE silent
  BY DEF StrayPin, cache, server
<1>3. /\ pte'[w].ppage_id = pte[w].ppage_id
      /\ pte'[w].ref_count = pte[w].ref_count + 1 /\ pte[w].ref_count \in Nat
      /\ \A u \in VPages \ {w} : pte'[u] = pte[u]
 <2>1. pte' = [pte EXCEPT ![w] = Incremented(pte[w])]
  BY DEF StrayPin
 <2>. QED  BY <2>1 DEF PteType, Pte
<1>4. Kept
  BY <1>1, <1>2, QuietKept DEF ClientType
<1>5. \A u \in VPages \ {w} : Noted(u)'
  BY <1>2, <1>3, <1>4, NotedKept
<1>6. Noted(w)'
 <2>1. CASE pte[w].ref_count = 0
  BY <1>2, <1>3, <2>1 DEF Noted
 <2>2. CASE pte[w].ref_count > 0
  BY <1>1, <1>2, <1>3, <1>4, <2>2 DEF Noted, NotesInv, Kept
 <2>. QED  BY <1>3, <2>1, <2>2
<1>. QED  BY <1>5, <1>6 DEF NotesInv

\* So does one that is the last.
LEMMA StrayUnpinNotes ==
    ASSUME IndInv, StraysSound, NotesInv, NEW c \in Clients, StrayUnpin(c)
    PROVE  NotesInv'
<1>. USE DEF IndInv, Types
<1>1. PICK w \in VPages : w = stray[c] /\ pc[c] = "stray" /\ pte[w].exist /\ ~pte[w].busy
  BY DEF StrayUnpin, StraysSound
<1>2. /\ UNCHANGED <<replacement, victim, posted, batch, req>>
      /\ pc' = [pc EXCEPT ![c] = "request"]
      /\ silent' = IF pte[w].ref_count = 1 THEN silent \cup {w} ELSE silent
  BY <1>1 DEF StrayUnpin, cache, server
<1>3. /\ pte'[w].ppage_id = pte[w].ppage_id
      /\ pte'[w].ref_count = pte[w].ref_count - 1 /\ pte[w].ref_count \in Nat
      /\ \A u \in VPages \ {w} : pte'[u] = pte[u]
 <2>1. pte' = [pte EXCEPT ![w] = Decremented(pte[w], FALSE)]
  BY <1>1 DEF StrayUnpin
 <2>. QED  BY <2>1 DEF PteType, Pte
<1>4. Kept
  BY <1>1, <1>2, QuietKept DEF ClientType
<1>5. \A u \in VPages \ {w} : Noted(u)'
  BY <1>2, <1>3, <1>4, NotedKept
<1>6. Noted(w)'
 <2>1. pte[w].ref_count # 0
  BY <1>1, NoReferences
 <2>2. CASE pte[w].ref_count = 1
  BY <1>2, <1>3, <2>2 DEF Noted
 <2>3. CASE pte[w].ref_count > 1
  BY <1>1, <1>2, <1>3, <1>4, <2>3 DEF Noted, NotesInv, Kept
 <2>. QED  BY <1>3, <2>1, <2>2, <2>3
<1>. QED  BY <1>5, <1>6 DEF NotesInv

\* What a client does.
LEMMA ClientNotes ==
    ASSUME IndInv, StraysSound, NotesInv, NEW c \in Clients, ClientStep(c)
    PROVE  NotesInv'
<1>. USE DEF IndInv, Types
<1>1. ASSUME NEW v \in VPages, DirectPin(c, v) PROVE NotesInv'
  BY <1>1, DirectPinNotes
<1>2. ASSUME NEW v \in VPages, Unpin(c, v) PROVE NotesInv'
  BY <1>2, UnpinNotes
<1>3. ASSUME NEW v \in VPages, PinMiss(c, v) PROVE NotesInv'
 <2>1. /\ UNCHANGED <<pte, replacement, victim, silent, posted, batch>> /\ pc[c] = "idle"
       /\ pc' = [pc EXCEPT ![c] = "request"]
       /\ req' = [req EXCEPT ![c] = [type |-> "Pin", page |-> v]]
  BY <1>3 DEF PinMiss, MayPin, cache, server
 <2>2. Kept
  BY <2>1, QuietKept DEF ClientType
 <2>. QED  BY <2>1, <2>2, QuietNotes
<1>4. ASSUME NEW v \in VPages, NEW x \in Values, Write(c, v, x) PROVE NotesInv'
 <2>1. UNCHANGED <<pte, replacement, victim, silent, posted, batch, pc, req>>
  BY <1>4 DEF Write, cache, server
 <2>. QED  BY <2>1, QuietKept, QuietNotes
<1>5. ASSUME Notify(c) PROVE NotesInv'
 <2>1. UNCHANGED <<pte, replacement, victim, silent>>
  BY <1>5 DEF Notify, cache, server
 <2>. QED  BY <1>5, <2>1, NotifyKept, QuietNotes
<1>6. ASSUME RequestPin(c) PROVE NotesInv'
 <2>1. UNCHANGED <<pte, replacement, victim, silent>>
  BY <1>6 DEF RequestPin, cache, server
 <2>. QED  BY <1>6, <2>1, RequestPinKept, QuietNotes
<1>. QED  BY <1>1, <1>2, <1>3, <1>4, <1>5, <1>6, StrayPinNotes, StrayUnpinNotes
          DEF ClientStep

\* Taking a notification settles what it was for, whatever the entry says by then: a
\* pinned page leaves the policy, a page without references enters it, and if the entry
\* has changed in between another notification is on its way.
LEMMA ServeNotifyNotes ==
    ASSUME IndInv, NotesInv, NEW c \in Clients, ServeNotifyPin(c) \/ ServeNotifyUnpin(c)
    PROVE  NotesInv'
<1>. USE DEF IndInv, Types
<1>1. PICK type \in {"NotifyDirectPin", "NotifyDirectUnpin"} :
          /\ Turn(c, type) /\ Take(c)
          /\ type = "NotifyDirectPin" => ServeNotifyPin(c)
          /\ type = "NotifyDirectUnpin" => ServeNotifyUnpin(c)
  BY DEF ServeNotifyPin, ServeNotifyUnpin
<1>2. UNCHANGED <<pte, victim, silent, batch, pc, req>>
  BY DEF ServeNotifyPin, ServeNotifyUnpin, client
<1>3. PICK u \in VPages : u = Head(posted[c]).page
  BY <1>1, <1>2, ServeKept
<1>4. KeptBut(type, u)
  BY <1>1, <1>2, <1>3, ServeKept
<1>5. /\ type = "NotifyDirectPin" =>
           replacement' = IF pte[u].ref_count > 0
                          THEN replacement \ {pte[u].ppage_id} ELSE replacement
      /\ type = "NotifyDirectUnpin" =>
           replacement' = IF pte[u].exist /\ pte[u].ref_count = 0
                          THEN replacement \cup {pte[u].ppage_id} ELSE replacement
  BY <1>1, <1>3 DEF ServeNotifyPin, ServeNotifyUnpin, Evictable
<1>6. pte[u].ref_count \in Nat /\ (pte[u].ref_count > 0 => pte[u].exist)
  BY DEF PteType, Pte, EntriesShaped
<1>7. Noted(u)'
  BY <1>2, <1>4, <1>5, <1>6 DEF Noted, NotesInv, KeptBut
<1>8. ASSUME NEW v \in VPages, v # u PROVE Noted(v)'
 <2>1. \A t \in {"NotifyDirectPin", "NotifyDirectUnpin"} : Coming(t, v) => Coming(t, v)'
  BY <1>4, <1>8 DEF KeptBut
 <2>2. pte[v].exist => (pte[v].ppage_id \in replacement' <=> pte[v].ppage_id \in replacement)
  BY <1>5, <1>6, <1>8 DEF EntriesShaped
 <2>. QED  BY <1>2, <2>1, <2>2 DEF Noted, NotesInv
<1>. QED  BY <1>7, <1>8 DEF NotesInv

\* The server takes the frame out of the policy itself when its pin is the first.
LEMMA PinHitNotes ==
    ASSUME IndInv, NotesInv, NEW c \in Clients, PinHit(c)
    PROVE  NotesInv'
<1>. USE DEF IndInv, Types
<1>1. Dispatched(c, NoContext)
  BY DEF PinHit
<1>2. PICK v \in VPages : v = req[c].page
  BY <1>1, DispatchedFacts
<1>3. /\ pte[v].exist /\ ~pte[v].busy
      /\ replacement' = IF pte[v].ref_count = 0
                        THEN replacement \ {pte[v].ppage_id} ELSE replacement
      /\ silent' = IF pte[v].ref_count = 0 THEN silent \ {v} ELSE silent
      /\ UNCHANGED <<victim, batch>>
      /\ pc' = [pc EXCEPT ![c] = "idle"] /\ req' = [req EXCEPT ![c] = NoRequest]
  BY <1>2 DEF PinHit, AnswerPointer
<1>4. /\ pte'[v].ppage_id = pte[v].ppage_id
      /\ pte'[v].ref_count = pte[v].ref_count + 1 /\ pte[v].ref_count \in Nat
      /\ \A u \in VPages \ {v} : pte'[u] = pte[u]
 <2>1. pte' = [pte EXCEPT ![v] = Incremented(pte[v])]
  BY <1>2 DEF PinHit
 <2>. QED  BY <2>1 DEF PteType, Pte
<1>5. Kept
 <2>1. \A d \in Clients : d # c => pc'[d] = pc[d] /\ req'[d] = req[d]
  BY <1>3 DEF ClientType
 <2>. QED  BY <1>1, <1>3, <2>1, DispatchedKept
<1>6. ASSUME NEW u \in VPages \ {v} PROVE Noted(u)'
 <2>1. pte[u].exist => (pte[u].ppage_id \in replacement' <=> pte[u].ppage_id \in replacement)
  BY <1>3 DEF EntriesShaped
 <2>. QED  BY <1>3, <1>4, <1>5, <2>1 DEF Noted, NotesInv, Kept
<1>7. Noted(v)'
  BY <1>3, <1>4, <1>5 DEF Noted, NotesInv, Kept
<1>. QED  BY <1>6, <1>7 DEF NotesInv

\* A new frame is not in the policy yet.
LEMMA PinAllocatedNotes ==
    ASSUME IndInv, NotesInv, NEW c \in Clients, NEW p \in PPages,
           PinAllocated(c, p) \/ PinAllocatedRead(c, p)
    PROVE  NotesInv'
<1>. USE DEF IndInv, Types
<1>1. PICK k : Dispatched(c, k)
  BY DEF PinAllocated, PinAllocatedRead
<1>2. PICK v \in VPages : v = req[c].page
  BY <1>1, DispatchedFacts
<1>3. PICK b \in BOOLEAN : pte' = [pte EXCEPT ![v] = NewMapping(p, b)]
  BY <1>2 DEF PinAllocated, PinAllocatedRead
<1>4. /\ pte'[v].ppage_id = p /\ pte'[v].ref_count = 1
      /\ \A u \in VPages \ {v} : pte'[u] = pte[u]
  BY <1>3 DEF PteType, NewMapping
<1>5. /\ UNCHANGED <<replacement, victim, batch>> /\ p \notin allocated
      /\ silent' = silent \ {v}
  BY <1>2 DEF PinAllocated, PinAllocatedRead, client
<1>6. \A d \in Clients : d # c => pc'[d] = pc[d] /\ req'[d] = req[d]
  BY DEF PinAllocated, PinAllocatedRead, AnswerPointer, client, ClientType
<1>7. Kept
  BY <1>1, <1>5, <1>6, DispatchedKept
<1>8. p \notin replacement
 <2>1. ASSUME p \in replacement PROVE FALSE
  <3>1. PICK w \in VPages : w = owner[p]
    BY <2>1 DEF EvictableMapped, CacheType
  <3>. QED  BY <1>5, <2>1, <3>1 DEF EvictableMapped, EntriesShaped
 <2>. QED  BY <2>1
<1>9. Noted(v)'
  BY <1>4, <1>5, <1>8 DEF Noted
<1>10. \A u \in VPages \ {v} : Noted(u)'
  BY <1>4, <1>5, <1>7, NotedKept
<1>. QED  BY <1>9, <1>10 DEF NotesInv

\* The victim is not mapped.
LEMMA FiberEvictedNotes ==
    ASSUME IndInv, NotesInv, NEW c \in Clients, FiberEvicted(c)
    PROVE  NotesInv'
<1>. USE DEF IndInv, Types
<1>1. PICK w \in VPages : w = ctx[c].pre_vpage_id /\ ~pte[w].exist
  BY DEF FiberEvicted, ContextsShaped, TransitSound
<1>2. /\ pte' = [pte EXCEPT ![w].busy = FALSE]
      /\ UNCHANGED <<replacement, victim, silent, posted, batch, pc, req>>
  BY <1>1 DEF FiberEvicted, client
<1>3. ~pte'[w].exist /\ \A u \in VPages \ {w} : pte'[u] = pte[u]
  BY <1>1, <1>2 DEF PteType, Pte
<1>4. Kept
  BY <1>2, QuietKept
<1>5. Noted(w)'
  BY <1>3 DEF Noted
<1>6. \A u \in VPages \ {w} : Noted(u)'
  BY <1>2, <1>3, <1>4, NotedKept
<1>. QED  BY <1>5, <1>6 DEF NotesInv

\* A page that was just loaded is referenced, and its frame is not in the policy.
LEMMA FiberLoadedNotes ==
    ASSUME IndInv, NotesInv, NEW c \in Clients, FiberLoaded(c)
    PROVE  NotesInv'
<1>. USE DEF IndInv, Types
<1>1. PICK v \in VPages :
        /\ v = req[c].page /\ pc[c] = "wait"
        /\ pte[v].exist /\ pte[v].busy /\ owner[pte[v].ppage_id] = v
        /\ pte[v].ref_count \in Nat \ {0}
  BY DEF FiberLoaded, ContextsShaped, TransitSound, RequestsShaped, Request, EntriesShaped,
         PteType, Pte
<1>2. /\ pte' = [pte EXCEPT ![v].busy = FALSE]
      /\ UNCHANGED <<replacement, victim, silent, posted, batch>>
      /\ pc' = [pc EXCEPT ![c] = "idle"] /\ req' = [req EXCEPT ![c] = NoRequest]
  BY <1>1 DEF FiberLoaded, AnswerPointer, cache
<1>3. /\ pte'[v].ppage_id = pte[v].ppage_id /\ pte'[v].ref_count = pte[v].ref_count
      /\ \A u \in VPages \ {v} : pte'[u] = pte[u]
  BY <1>1, <1>2 DEF PteType, Pte
<1>4. Kept
  BY <1>1, <1>2, QuietKept DEF ClientType
<1>5. pte[v].ppage_id \notin replacement
  BY <1>1 DEF EvictableMapped
<1>6. Noted(v)'
  BY <1>1, <1>2, <1>3, <1>5 DEF Noted
<1>7. \A u \in VPages \ {v} : Noted(u)'
  BY <1>2, <1>3, <1>4, NotedKept
<1>. QED  BY <1>6, <1>7 DEF NotesInv

\* The steps of the server and of the device that leave the table and the policy alone.
LEMMA OtherNotes ==
    ASSUME IndInv, NotesInv, NEW c \in Clients,
           \/ ServePinBusy(c) \/ PinRefused(c) \/ PinEvicts(c)
           \/ FiberSubmit(c) \/ DeviceStep(c)
    PROVE  NotesInv'
<1>. USE DEF IndInv, Types
<1>1. UNCHANGED <<pte, replacement, victim, silent, batch>>
  BY DEF ServePinBusy, PinRefused, PinEvicts, FiberSubmit, DeviceStep, DeviceWrite, DeviceRead,
         cache, client
<1>2. CASE PinRefused(c)
 <2>1. Dispatched(c, NoContext)
  BY <1>2 DEF PinRefused
 <2>2. \A d \in Clients : d # c => pc'[d] = pc[d] /\ req'[d] = req[d]
  BY <1>2 DEF PinRefused, AnswerEmpty, ClientType
 <2>. QED  BY <1>1, <2>1, <2>2, DispatchedKept, QuietNotes
<1>3. CASE PinEvicts(c)
 <2>1. Dispatched(c, NoContext) /\ UNCHANGED <<pc, req>>
  BY <1>3 DEF PinEvicts, client
 <2>. QED  BY <1>1, <2>1, DispatchedKept, QuietNotes
<1>4. CASE ServePinBusy(c)
 <2>1. Turn(c, "Pin") /\ Take(c) /\ UNCHANGED <<pc, req>>
  BY <1>4 DEF ServePinBusy, client
 <2>2. Head(posted[c]).type = "Pin"
  BY <2>1 DEF Turn
 <2>3. Kept
  BY <1>1, <2>1, <2>2, TakeKept, HasKept
 <2>. QED  BY <1>1, <2>3, QuietNotes
<1>5. CASE FiberSubmit(c) \/ DeviceStep(c)
 <2>1. UNCHANGED <<posted, pc, req>>
  BY <1>5 DEF FiberSubmit, DeviceStep, DeviceWrite, DeviceRead, client
 <2>. QED  BY <1>1, <2>1, QuietKept, QuietNotes
<1>. QED  BY <1>2, <1>3, <1>4, <1>5

\* The eviction loop takes a frame out of the policy as its victim, drops one that is
\* pinned, and empties the entry it locks.
LEMMA EvictionNotes ==
    ASSUME IndInv, NotesInv, EvictionStep
    PROVE  NotesInv'
<1>. USE DEF IndInv, Types
<1>1. UNCHANGED <<posted, batch, pc, req>>
  BY DEF EvictionStep, ServerPop, ServerPopEmpty, ServerLockFails, ServerLock, client
<1>2. Kept
  BY <1>1, QuietKept
<1>3. ASSUME NEW p \in PPages, ServerPop(p) PROVE NotesInv'
 <2>1. /\ p \in replacement /\ replacement' = replacement \ {p} /\ UNCHANGED <<pte, silent>>
       /\ IF Lockable(pte[owner[p]]) THEN victim' = p ELSE victim' = victim
       /\ srv_pc = "pop"
  BY <1>3 DEF ServerPop, Popped
 <2>2. /\ owner[p] \in VPages /\ pte[owner[p]].exist /\ ~pte[owner[p]].busy
       /\ pte[owner[p]].ppage_id = p /\ pte[owner[p]].ref_count \in Nat
  BY <2>1 DEF EvictableMapped, CacheType, PteType, Pte
 <2>3. victim = None
  BY <2>1 DEF JobShaped
 <2>4. Noted(owner[p])'
  <3>1. PICK w \in VPages : w = owner[p]
    BY <2>2
  <3>2. Noted(w)'
    BY <1>2, <2>1, <2>2, <2>3, <3>1 DEF Noted, NotesInv, Kept
  <3>3. owner' = owner
    BY <1>3 DEF ServerPop
  <3>. QED  BY <3>1, <3>2, <3>3
 <2>5. ASSUME NEW u \in VPages, u # owner[p] PROVE Noted(u)'
  <3>1. pte[u].exist => pte[u].ppage_id # p
    BY <2>2, <2>5 DEF EntriesShaped
  <3>2. pte[u].exist => pte[u].ppage_id # None
    BY DEF EntriesShaped, CacheType
  <3>. QED  BY <1>2, <2>1, <2>3, <3>1, <3>2 DEF Noted, NotesInv, Kept
 <2>6. owner' = owner
  BY <1>3 DEF ServerPop
 <2>. QED  BY <2>4, <2>5, <2>6 DEF NotesInv
<1>4. CASE ServerPopEmpty
 <2>1. UNCHANGED <<pte, replacement, victim, silent>>
  BY <1>4 DEF ServerPopEmpty, cache
 <2>. QED  BY <1>2, <2>1, QuietNotes
<1>5. CASE ServerLockFails
 <2>1. /\ UNCHANGED <<pte, replacement, silent>> /\ srv_pc = "lock"
       /\ ~Lockable(pte[owner[victim]])
  BY <1>5 DEF ServerLockFails, cache
 <2>2. PICK w \in VPages : /\ w = owner[victim] /\ pte[w].ppage_id = victim /\ pte[w].exist
                           /\ ~pte[w].busy /\ pte[w].ref_count \in Nat /\ pte[w].ref_count # 0
  BY <2>1 DEF JobShaped, JobType, CacheType, PteType, Pte
 <2>3. Noted(w)'
  BY <1>2, <2>1, <2>2 DEF Noted, NotesInv, Kept
 <2>4. ASSUME NEW u \in VPages, u # w PROVE Noted(u)'
  <3>1. pte[u].exist => pte[u].ppage_id # victim
    BY <2>2, <2>4 DEF EntriesShaped
  <3>. QED  BY <1>2, <2>1, <3>1 DEF Noted, NotesInv, Kept
 <2>. QED  BY <2>3, <2>4 DEF NotesInv
<1>6. CASE ServerLock
 <2>1. srv_pc = "lock" /\ job # None /\ victim # None /\ victim \in PPages
  BY <1>6 DEF ServerLock, JobShaped, JobType
 <2>2. PICK w \in VPages : /\ w = owner[victim] /\ pte[w].ppage_id = victim /\ pte[w].exist
                           /\ ~pte[w].busy
  BY <2>1 DEF JobShaped, CacheType
 <2>3. PICK v \in VPages : v = req[job].page /\ ~pte[v].exist
  BY <2>1 DEF JobShaped, JobType, RequestsShaped, Request
 <2>4. /\ pte' = [pte EXCEPT ![w] = Emptied(pre_dirty), ![v] = NewMapping(victim, TRUE)]
       /\ replacement' = replacement /\ silent' = silent \ {v, w}
  BY <1>6, <2>2, <2>3 DEF ServerLock
 <2>5. ~pte'[w].exist /\ pte'[v].busy /\ \A u \in VPages \ {v, w} : pte'[u] = pte[u]
  BY <2>2, <2>3, <2>4 DEF PteType, Emptied, EmptyPte, NewMapping
 <2>6. Noted(w)' /\ Noted(v)'
  BY <2>5 DEF Noted
 <2>7. ASSUME NEW u \in VPages \ {v, w} PROVE Noted(u)'
  <3>1. pte[u].exist => pte[u].ppage_id # victim
    BY <2>2 DEF EntriesShaped
  <3>2. replacement' = replacement /\ (u \in silent' <=> u \in silent)
    BY <2>4
  <3>3. \/ ~pte[u].exist
        \/ Noted(u) /\ pte'[u] = pte[u] /\ pte[u].ppage_id # victim
    BY <2>5, <3>1 DEF NotesInv
  <3>. QED  BY <1>2, <2>5, <3>2, <3>3 DEF Noted, Kept
 <2>. QED  BY <2>6, <2>7 DEF NotesInv
<1>. QED  BY <1>3, <1>4, <1>5, <1>6 DEF EvictionStep

\* Every step keeps NotesInv.
LEMMA NextNotes == IndInv /\ StraysSound /\ NotesInv /\ [Next]_vars => NotesInv'
<1>. SUFFICES ASSUME IndInv, StraysSound, NotesInv, [Next]_vars PROVE NotesInv'
  OBVIOUS
<1>1. ASSUME NEW c \in Clients, ServerStep(c) PROVE NotesInv'
  BY <1>1, ServeNotifyNotes, PinHitNotes, PinAllocatedNotes, FiberEvictedNotes,
     FiberLoadedNotes, OtherNotes DEF ServerStep
<1>2. ASSUME UNCHANGED vars PROVE NotesInv'
 <2>1. UNCHANGED <<pte, replacement, victim, silent, posted, batch, pc, req>>
  BY <1>2 DEF vars, cache, server, client
 <2>. QED  BY <2>1, QuietKept, QuietNotes
<1>3. ASSUME NEW c \in Clients, DeviceStep(c) PROVE NotesInv'
  BY <1>3, OtherNotes
<1>. QED  BY <1>1, <1>2, <1>3, ClientNotes, EvictionNotes DEF Next, ServerSpin

\* The replacement policy lags behind the page table by the notifications under way,
\* except for the pages whose first or last reference was a stray that pin() takes back
\* without a report.
THEOREM NotesInvHolds == Spec => []NotesInv
<1>1. Init => NotesInv
  BY DEF Init, NotesInv, Noted, EmptyPte
<1>. QED  BY <1>1, NextNotes, IndInvHolds, PTL DEF Spec

\* No frame leaks: the frame of a mapped page without references is evictable, the
\* victim of the eviction loop, or a NotifyDirectUnpin for it is on its way, in whatever
\* order pins, unpins and the messages of different clients are interleaved, unless it
\* was a stray reference (compact_hash_page_table.hpp, pin) that changed the count last.
THEOREM FramesDoNotLeak == Spec => []NoFrameLeaks
<1>1. NotesInv => NoFrameLeaks
  BY DEF NotesInv, Noted, NoFrameLeaks
<1>. QED  BY <1>1, NotesInvHolds, PTL

\* The replacement policy holds frames of mapped pages only, and the frame of a pinned
\* page only while the NotifyDirectPin that takes it out (notify_pin) is on its way or
\* after a stray made the first reference.
THEOREM PolicyIsSound == Spec => []EvictableSound
<1>1. IndInv /\ NotesInv => EvictableSound
 <2>. SUFFICES ASSUME IndInv, NotesInv, NEW p \in replacement
               PROVE  /\ owner[p] # None
                      /\ pte[owner[p]].exist /\ ~pte[owner[p]].busy
                      /\ pte[owner[p]].ppage_id = p
                      /\ pte[owner[p]].ref_count > 0 =>
                            Coming("NotifyDirectPin", owner[p]) \/ owner[p] \in silent
  BY DEF EvictableSound
 <2>1. PICK w \in VPages : w = owner[p] /\ pte[w].exist /\ ~pte[w].busy /\ pte[w].ppage_id = p
  BY DEF IndInv, Types, EvictableMapped, CacheType
 <2>2. pte[w].ref_count > 0 => Coming("NotifyDirectPin", w) \/ w \in silent
  BY <2>1 DEF NotesInv, Noted
 <2>. QED  BY <2>1, <2>2
<1>. QED  BY <1>1, IndInvHolds, NotesInvHolds, PTL

-----------------------------------------------------------------------------
\* The notifications of direct pins and unpins.
Notices == {"NotifyDirectPin", "NotifyDirectUnpin"}

\* The i-th request in place q of client c is a notification of this type.
Owes(c, q, i, type) == i \in DOMAIN Place(c, q) /\ Place(c, q)[i].type = type

\* What Owing collects, in this state and in the next.
LEMMA OwingIs ==
    ASSUME NEW type, NEW s
    PROVE  s \in Owing(type) <=>
             \E c \in Clients, q \in Places : \E i : s = <<c, q, i>> /\ Owes(c, q, i, type)
<1>. DEFINE Slots(c, q) == {<<c, q, i>> : i \in {j \in DOMAIN Place(c, q) : Place(c, q)[j].type = type}}
<1>1. \A c, q : s \in Slots(c, q) <=> \E i : s = <<c, q, i>> /\ Owes(c, q, i, type)
  BY DEF Owes
<1>2. Owing(type) = UNION {Slots(c, q) : c \in Clients, q \in Places}
  BY DEF Owing
<1>. HIDE DEF Slots
<1>3. s \in Owing(type) <=> \E c \in Clients, q \in Places : s \in Slots(c, q)
  BY <1>2
<1>. QED  BY <1>1, <1>3

LEMMA OwingIsNext ==
    ASSUME NEW type, NEW s
    PROVE  s \in Owing(type)' <=>
             \E c \in Clients, q \in Places : \E i : s = <<c, q, i>> /\ Owes(c, q, i, type)'
<1>. DEFINE Slots(c, q) == {<<c, q, i>> : i \in {j \in DOMAIN Place(c, q)' : Place(c, q)'[j].type = type}}
<1>1. \A c, q : s \in Slots(c, q) <=> \E i : s = <<c, q, i>> /\ Owes(c, q, i, type)'
  BY DEF Owes
<1>2. Owing(type)' = UNION {Slots(c, q) : c \in Clients, q \in Places}
  BY DEF Owing
<1>. HIDE DEF Slots
<1>3. s \in Owing(type)' <=> \E c \in Clients, q \in Places : s \in Slots(c, q)
  BY <1>2
<1>. QED  BY <1>1, <1>3

\* The same for one place.
LEMMA SlotIn ==
    ASSUME NEW type, NEW c \in Clients, NEW q \in Places, NEW i
    PROVE  /\ <<c, q, i>> \in Owing(type) <=> Owes(c, q, i, type)
           /\ <<c, q, i>> \in Owing(type)' <=> Owes(c, q, i, type)'
BY OwingIs, OwingIsNext

\* Counting: a bijection keeps the number, one element more or less changes it by one.
LEMMA SameNumber ==
    ASSUME NEW S, NEW T, IsFiniteSet(S), NEW f \in [S -> T],
           \A x, y \in S : f[x] = f[y] => x = y,
           \A t \in T : \E x \in S : f[x] = t
    PROVE  IsFiniteSet(T) /\ Cardinality(T) = Cardinality(S)
<1>1. f \in Bijection(S, T)
  BY DEF Bijection, Injection, Surjection, IsInjective
<1>2. ExistsBijection(S, T)
  BY <1>1 DEF ExistsBijection
<1>. QED  BY <1>2, FS_Bijection

LEMMA AddOne ==
    ASSUME NEW S, IsFiniteSet(S), NEW x, x \notin S
    PROVE  /\ IsFiniteSet(S \cup {x}) /\ Cardinality(S \cup {x}) = Cardinality(S) + 1
           /\ Cardinality(S) \in Nat
BY FS_AddElement, FS_CardinalityType

LEMMA DropOne ==
    ASSUME NEW S, IsFiniteSet(S), NEW x \in S
    PROVE  /\ IsFiniteSet(S \ {x}) /\ Cardinality(S \ {x}) = Cardinality(S) - 1
           /\ Cardinality(S) \in Nat
BY FS_RemoveElement, FS_CardinalityType

\* The requests owed do not change when none of the places does.
LEMMA OwingSame ==
    ASSUME NEW type \in Notices, 
           \A c \in Clients, q \in Places : \A i : Owes(c, q, i, type)' <=> Owes(c, q, i, type)
    PROVE  Owing(type)' = Owing(type)
BY OwingIs, OwingIsNext

\* What is owed in each of the three places, in this state and in the next.
LEMMA OwesIs ==
    ASSUME NEW c, NEW i, NEW type
    PROVE  /\ Owes(c, "posted", i, type) <=> i \in DOMAIN posted[c] /\ posted[c][i].type = type
           /\ Owes(c, "batch", i, type) <=> i \in DOMAIN batch[c] /\ batch[c][i].type = type
           /\ Owes(c, "made", i, type) <=> i = 1 /\ pc[c] = "notify" /\ req[c].type = type
BY DEF Owes, Place

LEMMA OwesIsNext ==
    ASSUME NEW c, NEW i, NEW type
    PROVE  /\ Owes(c, "posted", i, type)' <=> i \in DOMAIN posted'[c] /\ posted'[c][i].type = type
           /\ Owes(c, "batch", i, type)' <=> i \in DOMAIN batch'[c] /\ batch'[c][i].type = type
           /\ Owes(c, "made", i, type)' <=> i = 1 /\ pc'[c] = "notify" /\ req'[c].type = type
BY DEF Owes, Place

\* A step that touches neither messages nor a notification being made.
LEMMA QuietOwing ==
    ASSUME UNCHANGED <<posted, batch>>,
           \A d \in Clients : /\ pc'[d] = "notify" <=> pc[d] = "notify"
                              /\ pc[d] = "notify" => req'[d] = req[d],
           NEW type \in Notices
    PROVE  Owing(type)' = Owing(type)
<1>1. \A c \in Clients : \A i :
         /\ Owes(c, "posted", i, type)' <=> Owes(c, "posted", i, type)
         /\ Owes(c, "batch", i, type)' <=> Owes(c, "batch", i, type)
         /\ Owes(c, "made", i, type)' <=> Owes(c, "made", i, type)
  BY OwesIs, OwesIsNext
<1>. QED  BY <1>1, OwingSame DEF Places

\* A client that owes one more notification.
LEMMA OneOwedMore ==
    ASSUME NEW c \in Clients, NEW v, UNCHANGED <<posted, batch>>, pc[c] # "notify",
           NEW t \in Notices, pc'[c] = "notify", req'[c] = Note(t, v),
           \A d \in Clients \ {c} : pc'[d] = pc[d] /\ req'[d] = req[d],
           NEW type \in Notices, IsFiniteSet(Owing(type))
    PROVE  /\ IsFiniteSet(Owing(type)')
           /\ Cardinality(Owing(type)') = Cardinality(Owing(type)) + (IF type = t THEN 1 ELSE 0)
<1>1. \A d \in Clients : \A i :
         /\ Owes(d, "posted", i, type)' <=> Owes(d, "posted", i, type)
         /\ Owes(d, "batch", i, type)' <=> Owes(d, "batch", i, type)
         /\ Owes(d, "made", i, type)' <=> \/ Owes(d, "made", i, type)
                                          \/ d = c /\ i = 1 /\ type = t
  BY OwesIs, OwesIsNext DEF Note
<1>2. ~ Owes(c, "made", 1, type)
  BY OwesIs
<1>3. CASE type # t
 <2>1. Owing(type)' = Owing(type)
  BY <1>1, <1>3, OwingSame DEF Places
 <2>2. Cardinality(Owing(type)) \in Nat
  BY FS_CardinalityType
 <2>. QED  BY <1>3, <2>1, <2>2
<1>4. CASE type = t
 <2>. DEFINE s == <<c, "made", 1>>
 <2>1. \A d \in Clients, q \in Places : \A i :
          Owes(d, q, i, type)' <=> Owes(d, q, i, type) \/ <<d, q, i>> = s
  BY <1>1, <1>4 DEF Places
 <2>2. \A x : x \in Owing(type)' <=> x \in Owing(type) \/ x = s
  BY <2>1, OwingIs, OwingIsNext DEF Places
 <2>3. s \notin Owing(type)
  BY <1>2, SlotIn DEF Places
 <2>4. Owing(type)' = Owing(type) \cup {s}
  BY <2>2
 <2>. HIDE DEF s
 <2>5. /\ IsFiniteSet(Owing(type) \cup {s}) /\ Cardinality(Owing(type)) \in Nat
       /\ Cardinality(Owing(type) \cup {s}) = Cardinality(Owing(type)) + 1
  BY <2>3, AddOne
 <2>. QED  BY <1>4, <2>4, <2>5
<1>. QED  BY <1>3, <1>4

\* The notification joins the batch.
LEMMA OwedAppended ==
    ASSUME NEW c \in Clients, batch[c] \in Seq(Request), req[c] \in Request, pc[c] = "notify",
           posted' = posted, batch'[c] = Append(batch[c], req[c]), pc'[c] # "notify",
           \A d \in Clients \ {c} : pc'[d] = pc[d] /\ req'[d] = req[d] /\ batch'[d] = batch[d],
           NEW type \in Notices, IsFiniteSet(Owing(type))
    PROVE  /\ IsFiniteSet(Owing(type)')
           /\ Cardinality(Owing(type)') = Cardinality(Owing(type))
<1>. DEFINE b == Append(batch[c], req[c])
<1>. DEFINE n == Len(batch[c])
<1>1. /\ n \in Nat /\ b \in Seq(Request) /\ Len(b) = n + 1
      /\ \A i \in 1..n : b[i] = batch[c][i]
      /\ b[n + 1] = req[c] /\ DOMAIN b = 1..(n + 1) /\ DOMAIN batch[c] = 1..n
  BY AppendProperties, LenProperties
<1>2. \A i : Owes(c, "batch", i, type)' <=> \/ Owes(c, "batch", i, type)
                                            \/ i = n + 1 /\ req[c].type = type
 <2>. HIDE DEF b, n
 <2>1. \A i : i \in DOMAIN b /\ b[i].type = type <=>
               \/ i \in DOMAIN batch[c] /\ batch[c][i].type = type
               \/ i = n + 1 /\ req[c].type = type
  BY <1>1
 <2>2. batch'[c] = b
  BY DEF b
 <2>. QED  BY <2>1, <2>2, OwesIs, OwesIsNext
<1>3. ~ Owes(c, "batch", n + 1, type)
 <2>1. n + 1 \notin 1..n
  BY <1>1
 <2>. QED  BY <1>1, <2>1, OwesIs
<1>. HIDE DEF b, n
<1>4. \A d \in Clients : \A i :
         /\ Owes(d, "posted", i, type)' <=> Owes(d, "posted", i, type)
         /\ d # c => (Owes(d, "batch", i, type)' <=> Owes(d, "batch", i, type))
         /\ d # c => (Owes(d, "made", i, type)' <=> Owes(d, "made", i, type))
         /\ ~Owes(c, "made", i, type)'
         /\ Owes(c, "made", i, type) <=> i = 1 /\ req[c].type = type
  BY OwesIs, OwesIsNext
<1>5. CASE req[c].type # type
 <2>1. Owing(type)' = Owing(type)
  BY <1>2, <1>4, <1>5, OwingSame DEF Places
 <2>. QED  BY <2>1
<1>6. CASE req[c].type = type
 <2>. DEFINE s == <<c, "made", 1>>
 <2>. DEFINE t == <<c, "batch", n + 1>>
 <2>1. s \in Owing(type) /\ t \notin Owing(type)
  BY <1>3, <1>4, <1>6, SlotIn DEF Places
 <2>2. \A d \in Clients, q \in Places : \A i :
          Owes(d, q, i, type)' <=> (Owes(d, q, i, type) /\ <<d, q, i>> # s) \/ <<d, q, i>> = t
  BY <1>2, <1>4, <1>6 DEF Places
 <2>3. \A x : x \in Owing(type)' <=> (x \in Owing(type) /\ x # s) \/ x = t
  BY <2>2, OwingIs, OwingIsNext DEF Places
 <2>4. Owing(type)' = (Owing(type) \ {s}) \cup {t}
  BY <2>3
 <2>. HIDE DEF s, t
 <2>5. /\ IsFiniteSet(Owing(type) \ {s})
       /\ Cardinality(Owing(type) \ {s}) = Cardinality(Owing(type)) - 1
       /\ Cardinality(Owing(type)) \in Nat
  BY <2>1, DropOne
 <2>6. t \notin Owing(type) \ {s}
  BY <2>1
 <2>7. /\ IsFiniteSet((Owing(type) \ {s}) \cup {t})
       /\ Cardinality((Owing(type) \ {s}) \cup {t}) = Cardinality(Owing(type) \ {s}) + 1
  BY <2>5, <2>6, AddOne
 <2>. QED  BY <2>4, <2>5, <2>7
<1>. QED  BY <1>5, <1>6

\* The batch is submitted with the request that was being made.
LEMMA OwedSubmitted ==
    ASSUME NEW c \in Clients, batch[c] \in Seq(Request), req[c] \in Request,
           NEW type \in Notices, IsFiniteSet(Owing(type)),
           pc[c] = "notify" \/ (req[c].type = "Pin" /\ pc[c] = "request"),
           posted[c] = <<>>, posted'[c] = Append(batch[c], req[c]), batch'[c] = <<>>,
           pc'[c] # "notify",
           \A d \in Clients \ {c} : /\ pc'[d] = pc[d] /\ req'[d] = req[d]
                                    /\ batch'[d] = batch[d] /\ posted'[d] = posted[d]
    PROVE  /\ IsFiniteSet(Owing(type)')
           /\ Cardinality(Owing(type)') = Cardinality(Owing(type))
<1>. DEFINE b == Append(batch[c], req[c])
<1>. DEFINE n == Len(batch[c])
<1>1. /\ n \in Nat /\ b \in Seq(Request) /\ Len(b) = n + 1
      /\ \A i \in 1..n : b[i] = batch[c][i]
      /\ b[n + 1] = req[c] /\ DOMAIN b = 1..(n + 1) /\ DOMAIN batch[c] = 1..n
  BY AppendProperties, LenProperties
<1>m. PICK m : m = n + 1
  OBVIOUS
<1>2. \A i : Owes(c, "posted", i, type)' <=> \/ Owes(c, "batch", i, type)
                                             \/ i = m /\ req[c].type = type
 <2>. HIDE DEF b, n
 <2>1. \A i : i \in DOMAIN b /\ b[i].type = type <=>
               \/ i \in DOMAIN batch[c] /\ batch[c][i].type = type
               \/ i = n + 1 /\ req[c].type = type
  BY <1>1
 <2>2. posted'[c] = b
  BY DEF b
 <2>. QED  BY <1>m, <2>1, <2>2, OwesIs, OwesIsNext
<1>3. ~ Owes(c, "batch", m, type)
 <2>1. n + 1 \notin 1..n
  BY <1>1
 <2>. QED  BY <1>1, <1>m, <2>1, OwesIs
<1>. HIDE DEF b, n
<1>4. \A d \in Clients : \A i :
         /\ d # c => (Owes(d, "posted", i, type)' <=> Owes(d, "posted", i, type))
         /\ d # c => (Owes(d, "batch", i, type)' <=> Owes(d, "batch", i, type))
         /\ d # c => (Owes(d, "made", i, type)' <=> Owes(d, "made", i, type))
  BY OwesIs, OwesIsNext
<1>5. \A i :
         /\ ~Owes(c, "posted", i, type)
         /\ ~Owes(c, "batch", i, type)'
         /\ ~Owes(c, "made", i, type)'
         /\ Owes(c, "made", i, type) <=> i = 1 /\ req[c].type = type
  BY OwesIs, OwesIsNext DEF Notices
<1>. DEFINE f == [s \in Owing(type) |->
                   IF s[1] # c THEN s
                   ELSE IF s[2] = "batch" THEN <<c, "posted", s[3]>>
                   ELSE <<c, "posted", m>>]
<1>6. ASSUME NEW d \in Clients, NEW q \in Places, NEW i, Owes(d, q, i, type)
      PROVE  /\ <<d, q, i>> \in Owing(type)
             /\ d # c => f[<<d, q, i>>] = <<d, q, i>>
             /\ d = c /\ q = "batch" => f[<<d, q, i>>] = <<c, "posted", i>>
             /\ d = c /\ q # "batch" => f[<<d, q, i>>] = <<c, "posted", m>>
  BY <1>6, SlotIn
<1>7. f \in [Owing(type) -> Owing(type)']
 <2>1. ASSUME NEW d \in Clients, NEW q \in Places, NEW i, Owes(d, q, i, type)
       PROVE  f[<<d, q, i>>] \in Owing(type)'
  <3>1. CASE d # c
   <4>1. Owes(d, q, i, type)'
     BY <1>4, <2>1, <3>1 DEF Places
   <4>. QED  BY <1>6, <2>1, <3>1, <4>1, SlotIn
  <3>2. CASE d = c /\ q = "batch"
   <4>1. Owes(c, "posted", i, type)'
     BY <1>2, <2>1, <3>2
   <4>. QED  BY <1>6, <2>1, <3>2, <4>1, SlotIn DEF Places
  <3>3. CASE d = c /\ q # "batch"
   <4>1. Owes(c, "posted", m, type)'
     <5>1. q = "made"
       BY <1>5, <2>1, <3>3 DEF Places
     <5>2. req[c].type = type
       BY <1>5, <2>1, <3>3, <5>1
     <5>. QED  BY <1>2, <5>2
   <4>. QED  BY <1>6, <2>1, <3>3, <4>1, SlotIn DEF Places
  <3>. QED  BY <3>1, <3>2, <3>3
 <2>2. \A s \in Owing(type) : f[s] \in Owing(type)'
  <3>. HIDE DEF f
  <3>. QED  BY <2>1, OwingIs
 <2>. QED  BY <2>2
<1>8. \A x, y \in Owing(type) : f[x] = f[y] => x = y
 <2>. HIDE DEF f
 <2>. SUFFICES ASSUME NEW d \in Clients, NEW q \in Places, NEW i, Owes(d, q, i, type),
                      NEW e \in Clients, NEW r \in Places, NEW j, Owes(e, r, j, type),
                      f[<<d, q, i>>] = f[<<e, r, j>>]
               PROVE  <<d, q, i>> = <<e, r, j>>
  BY OwingIs
 <2>1. CASE d # c \/ e # c
  <3>1. /\ d # c => f[<<d, q, i>>] = <<d, q, i>>
        /\ d = c => f[<<d, q, i>>] = <<c, "posted", i>> \/ f[<<d, q, i>>] = <<c, "posted", m>>
        /\ e # c => f[<<e, r, j>>] = <<e, r, j>>
        /\ e = c => f[<<e, r, j>>] = <<c, "posted", j>> \/ f[<<e, r, j>>] = <<c, "posted", m>>
    BY <1>6
  <3>. QED  BY <2>1, <3>1
 <2>2. CASE d = c /\ e = c
  <3>1. q \in {"batch", "made"} /\ r \in {"batch", "made"}
    BY <1>5, <2>2 DEF Places
  <3>2. (q = "made" => i = 1) /\ (r = "made" => j = 1)
    BY <1>5, <2>2
  <3>3. (q = "batch" => i # m) /\ (r = "batch" => j # m)
    BY <1>3, <2>2
  <3>4. /\ q = "batch" => f[<<d, q, i>>] = <<c, "posted", i>>
        /\ q = "made" => f[<<d, q, i>>] = <<c, "posted", m>>
        /\ r = "batch" => f[<<e, r, j>>] = <<c, "posted", j>>
        /\ r = "made" => f[<<e, r, j>>] = <<c, "posted", m>>
   <4>1. "made" # "batch"
     OBVIOUS
   <4>2. /\ q = "batch" => f[<<d, q, i>>] = <<c, "posted", i>>
         /\ q = "made" => f[<<d, q, i>>] = <<c, "posted", m>>
     BY <1>6, <2>2, <4>1
   <4>3. /\ r = "batch" => f[<<e, r, j>>] = <<c, "posted", j>>
         /\ r = "made" => f[<<e, r, j>>] = <<c, "posted", m>>
     BY <1>6, <2>2, <4>1
   <4>. QED  BY <4>2, <4>3
  <3>5. CASE q = r
   <4>1. CASE q = "batch"
    <5>1. <<c, "posted", i>> = <<c, "posted", j>>
      BY <3>4, <3>5, <4>1
    <5>2. i = j
      BY <5>1
    <5>. QED  BY <2>2, <3>5, <5>2
   <4>2. CASE q = "made"
     BY <2>2, <3>2, <3>5, <4>2
   <4>. QED  BY <3>1, <4>1, <4>2
  <3>6. CASE q # r
   <4>2. CASE q = "batch" /\ r = "made"
     BY <3>3, <3>4, <4>2
   <4>3. CASE q = "made" /\ r = "batch"
     BY <3>3, <3>4, <4>3
   <4>. QED  BY <3>1, <3>6, <4>2, <4>3
  <3>. QED  BY <3>5, <3>6
 <2>. QED  BY <2>1, <2>2
<1>9. ASSUME NEW t \in Owing(type)' PROVE \E x \in Owing(type) : f[x] = t
 <2>. HIDE DEF f
 <2>0. PICK d \in Clients, q \in Places : \E i : t = <<d, q, i>> /\ Owes(d, q, i, type)'
  BY OwingIsNext
 <2>1. PICK i : t = <<d, q, i>> /\ Owes(d, q, i, type)'
  BY <2>0
 <2>2. CASE d # c
  <3>1. Owes(d, q, i, type)
    BY <1>4, <2>1, <2>2 DEF Places
  <3>. QED  BY <1>6, <2>1, <2>2, <3>1
 <2>3. CASE d = c
  <3>1. q = "posted"
    BY <1>5, <2>1, <2>3 DEF Places
  <3>2. CASE Owes(c, "batch", i, type)
    BY <1>6, <2>1, <2>3, <3>1, <3>2 DEF Places
  <3>3. CASE i = m /\ req[c].type = type
   <4>1. Owes(c, "made", 1, type)
     BY <1>5, <3>3
   <4>2. <<c, "made", 1>> \in Owing(type) /\ f[<<c, "made", 1>>] = <<c, "posted", m>>
     BY <1>6, <4>1 DEF Places
   <4>. QED  BY <2>1, <2>3, <3>1, <3>3, <4>2
  <3>. QED  BY <1>2, <2>1, <2>3, <3>1, <3>2, <3>3
 <2>. QED  BY <2>2, <2>3
<1>. HIDE DEF f
<1>. QED  BY <1>7, <1>8, <1>9, SameNumber

\* The server takes the first request of a message.
LEMMA OwedTaken ==
    ASSUME NEW c \in Clients, posted[c] \in Seq(Request), posted[c] # <<>>,
           posted'[c] = Tail(posted[c]), \A d \in Clients \ {c} : posted'[d] = posted[d],
           UNCHANGED <<batch, pc, req>>,
           NEW type \in Notices, IsFiniteSet(Owing(type))
    PROVE  /\ IsFiniteSet(Owing(type)')
           /\ Cardinality(Owing(type)')
                = Cardinality(Owing(type)) - (IF Head(posted[c]).type = type THEN 1 ELSE 0)
<1>. DEFINE n == Len(posted[c])
<1>1. /\ n \in Nat \ {0} /\ DOMAIN posted[c] = 1..n
      /\ DOMAIN Tail(posted[c]) = 1..(n - 1)
      /\ \A i \in 1..(n - 1) : Tail(posted[c])[i] = posted[c][i + 1]
      /\ Head(posted[c]) = posted[c][1]
 <2>1. n \in Nat /\ n # 0 /\ DOMAIN posted[c] = 1..n
  BY LenProperties, EmptySeq
 <2>2. /\ Tail(posted[c]) \in Seq(Request) /\ Len(Tail(posted[c])) = n - 1
       /\ \A i \in 1..Len(Tail(posted[c])) : Tail(posted[c])[i] = posted[c][i + 1]
       /\ Head(posted[c]) = posted[c][1]
  BY HeadTailProperties
 <2>. QED  BY <2>1, <2>2, LenProperties
<1>2. \A i : Owes(c, "posted", i, type)' <=>
                i \in 1..(n - 1) /\ posted[c][i + 1].type = type
 <2>1. PICK t : t = Tail(posted[c]) /\ t = posted'[c]
  OBVIOUS
 <2>0. ASSUME NEW i
       PROVE  Owes(c, "posted", i, type)' <=> i \in DOMAIN posted'[c] /\ posted'[c][i].type = type
  BY DEF Owes, Place
 <2>2. \A i : Owes(c, "posted", i, type)' <=> i \in DOMAIN t /\ t[i].type = type
  BY <2>0, <2>1, Zenon
 <2>3. DOMAIN t = 1..(n - 1) /\ \A i \in 1..(n - 1) : t[i] = posted[c][i + 1]
  BY <1>1, <2>1
 <2>. HIDE DEF n
 <2>. QED  BY <2>2, <2>3
<1>3. \A i : Owes(c, "posted", i, type) <=> i \in 1..n /\ posted[c][i].type = type
  BY <1>1, OwesIs
<1>. HIDE DEF n
<1>4. \A d \in Clients : \A i :
         /\ d # c => (Owes(d, "posted", i, type)' <=> Owes(d, "posted", i, type))
         /\ Owes(d, "batch", i, type)' <=> Owes(d, "batch", i, type)
         /\ Owes(d, "made", i, type)' <=> Owes(d, "made", i, type)
  BY OwesIs, OwesIsNext
<1>. DEFINE first == <<c, "posted", 1>>
<1>. DEFINE Rest == Owing(type) \ {first}
<1>. DEFINE f == [s \in Rest |-> IF s[1] = c /\ s[2] = "posted"
                                 THEN <<c, "posted", s[3] - 1>> ELSE s]
<1>5. ASSUME NEW d \in Clients, NEW q \in Places, NEW i, Owes(d, q, i, type)
      PROVE  /\ d # c \/ q # "posted" => <<d, q, i>> \in Rest /\ f[<<d, q, i>>] = <<d, q, i>>
             /\ d = c /\ q = "posted" /\ i # 1 =>
                  <<d, q, i>> \in Rest /\ f[<<d, q, i>>] = <<c, "posted", i - 1>>
 <2>1. <<d, q, i>> \in Owing(type)
  BY <1>5, SlotIn
 <2>. QED  BY <2>1
<1>6. \A s \in Rest : \E d \in Clients, q \in Places : \E i :
          s = <<d, q, i>> /\ Owes(d, q, i, type) /\ (d = c /\ q = "posted" => i # 1)
  BY OwingIs
<1>. HIDE DEF Rest
<1>7. f \in [Rest -> Owing(type)']
 <2>1. ASSUME NEW d \in Clients, NEW q \in Places, NEW i, Owes(d, q, i, type),
              d = c /\ q = "posted" => i # 1
       PROVE  f[<<d, q, i>>] \in Owing(type)'
  <3>1. CASE d # c \/ q # "posted"
   <4>1. Owes(d, q, i, type)'
     BY <1>4, <2>1, <3>1 DEF Places
   <4>. QED  BY <1>5, <2>1, <3>1, <4>1, SlotIn
  <3>2. CASE d = c /\ q = "posted"
   <4>1. i \in 1..n /\ i # 1 /\ posted[c][i].type = type
     BY <1>3, <2>1, <3>2
   <4>2. i - 1 \in 1..(n - 1) /\ (i - 1) + 1 = i
     BY <1>1, <4>1
   <4>3. Owes(c, "posted", i - 1, type)'
     BY <1>2, <4>1, <4>2
   <4>. QED  BY <1>5, <2>1, <3>2, <4>1, <4>3, SlotIn DEF Places
  <3>. QED  BY <3>1, <3>2
 <2>2. \A s \in Rest : f[s] \in Owing(type)'
  <3>. HIDE DEF f
  <3>. QED  BY <1>6, <2>1
 <2>. QED  BY <2>2
<1>. HIDE DEF f
<1>8. ASSUME NEW x \in Rest, NEW y \in Rest, f[x] = f[y] PROVE x = y
 <2>1. PICK d \in Clients, q \in Places : \E i :
          x = <<d, q, i>> /\ Owes(d, q, i, type) /\ (d = c /\ q = "posted" => i # 1)
  BY <1>6
 <2>2. PICK i : x = <<d, q, i>> /\ Owes(d, q, i, type) /\ (d = c /\ q = "posted" => i # 1)
  BY <2>1
 <2>3. PICK e \in Clients, r \in Places : \E j :
          y = <<e, r, j>> /\ Owes(e, r, j, type) /\ (e = c /\ r = "posted" => j # 1)
  BY <1>6
 <2>4. PICK j : y = <<e, r, j>> /\ Owes(e, r, j, type) /\ (e = c /\ r = "posted" => j # 1)
  BY <2>3
 <2>5. /\ d # c \/ q # "posted" => f[x] = <<d, q, i>>
       /\ d = c /\ q = "posted" => f[x] = <<c, "posted", i - 1>> /\ i \in 1..n
  BY <1>3, <1>5, <2>2
 <2>6. /\ e # c \/ r # "posted" => f[y] = <<e, r, j>>
       /\ e = c /\ r = "posted" => f[y] = <<c, "posted", j - 1>> /\ j \in 1..n
  BY <1>3, <1>5, <2>4
 <2>7. d = e /\ q = r
  BY <1>8, <2>5, <2>6
 <2>8. i = j
  <3>1. CASE d = c /\ q = "posted"
   <4>1. <<c, "posted", i - 1>> = <<c, "posted", j - 1>> /\ i \in 1..n /\ j \in 1..n
     BY <1>8, <2>5, <2>6, <2>7, <3>1
   <4>2. i - 1 = j - 1
     BY <4>1
   <4>. QED  BY <1>1, <4>1, <4>2
  <3>2. CASE d # c \/ q # "posted"
   <4>1. <<d, q, i>> = <<e, r, j>>
     BY <1>8, <2>5, <2>6, <2>7, <3>2
   <4>. QED  BY <4>1
  <3>. QED  BY <3>1, <3>2
 <2>. QED  BY <2>2, <2>4, <2>7, <2>8
<1>9. ASSUME NEW t \in Owing(type)' PROVE \E x \in Rest : f[x] = t
 <2>0. PICK d \in Clients, q \in Places : \E i : t = <<d, q, i>> /\ Owes(d, q, i, type)'
  BY OwingIsNext
 <2>1. PICK i : t = <<d, q, i>> /\ Owes(d, q, i, type)'
  BY <2>0
 <2>2. CASE d # c \/ q # "posted"
  <3>1. Owes(d, q, i, type)
    BY <1>4, <2>1, <2>2 DEF Places
  <3>. QED  BY <1>5, <2>1, <2>2, <3>1
 <2>3. CASE d = c /\ q = "posted"
  <3>1. i \in 1..(n - 1) /\ posted[c][i + 1].type = type
    BY <1>2, <2>1, <2>3
  <3>2. PICK j : j = i + 1
    OBVIOUS
  <3>3. j \in 1..n /\ j # 1 /\ i = j - 1 /\ posted[c][j].type = type
    BY <1>1, <3>1, <3>2
  <3>4. Owes(c, "posted", j, type)
    BY <1>3, <3>3
  <3>5. <<c, "posted", j>> \in Rest /\ f[<<c, "posted", j>>] = <<c, "posted", j - 1>>
    BY <1>5, <3>3, <3>4 DEF Places
  <3>. QED  BY <2>1, <2>3, <3>3, <3>5
 <2>. QED  BY <2>2, <2>3
<1>10. IsFiniteSet(Rest) /\ Cardinality(Owing(type)) \in Nat
       /\ Cardinality(Rest) = Cardinality(Owing(type))
                              - (IF Head(posted[c]).type = type THEN 1 ELSE 0)
 <2>1. 1 \in 1..n
  BY <1>1
 <2>2. first \in Owing(type) <=> Head(posted[c]).type = type
  BY <1>1, <1>3, <2>1, SlotIn DEF Places
 <2>. HIDE DEF first
 <2>3. IsFiniteSet(Rest) /\ Cardinality(Rest) = IF first \in Owing(type)
             THEN Cardinality(Owing(type)) - 1 ELSE Cardinality(Owing(type))
  BY FS_RemoveElement DEF Rest
 <2>4. Cardinality(Owing(type)) \in Nat
  BY FS_CardinalityType
 <2>. QED  BY <2>2, <2>3, <2>4
<1>11. IsFiniteSet(Owing(type)') /\ Cardinality(Owing(type)') = Cardinality(Rest)
 <2>. HIDE DEF first
 <2>. QED  BY <1>7, <1>8, <1>9, <1>10, SameNumber
<1>. QED  BY <1>10, <1>11

-----------------------------------------------------------------------------
\* The pages with a reference.
PinnedPages == {v \in VPages : pte[v].ref_count > 0}

\* The count, and that what it counts is finite.
CountInv ==
    PinnedSizeExact /\ drift \in Int /\ \A type \in Notices : IsFiniteSet(Owing(type))

\* There are finitely many pages.
LEMMA PinnedFinite == IsFiniteSet(PinnedPages) /\ Cardinality(PinnedPages) \in Nat
BY FiniteAssumption, FS_Subset, FS_CardinalityType DEF PinnedPages

\* The numbers that PinnedSizeExact relates, after a step.
Balanced(dsize, dpages, dloop, dunpin, dpin, ddrift) ==
    /\ pinned_size' = pinned_size + dsize
    /\ Cardinality(PinnedPages') = Cardinality(PinnedPages) + dpages
    /\ (IF srv_pc' = "loop" THEN 0 ELSE 1) = (IF srv_pc = "loop" THEN 0 ELSE 1) + dloop
    /\ \A type \in Notices : IsFiniteSet(Owing(type)')
    /\ Cardinality(Owing("NotifyDirectUnpin")') = Cardinality(Owing("NotifyDirectUnpin")) + dunpin
    /\ Cardinality(Owing("NotifyDirectPin")') = Cardinality(Owing("NotifyDirectPin")) + dpin
    /\ drift' = drift + ddrift
    /\ dsize = dpages + dloop + dunpin - dpin + ddrift

\* The count stays exact when its terms change by amounts that balance.
LEMMA BalanceKept ==
    ASSUME IndInv, CountInv, NEW a \in Int, NEW b \in Int, NEW d \in Int, NEW e \in Int,
           NEW f \in Int, NEW g \in Int, Balanced(a, b, d, e, f, g)
    PROVE  CountInv'
<1>1. pinned_size \in Int /\ drift \in Int /\ drift' \in Int
  BY DEF IndInv, Types, OtherType, CountInv, Balanced
<1>2. /\ Cardinality(PinnedPages) \in Nat
      /\ Cardinality(Owing("NotifyDirectUnpin")) \in Nat
      /\ Cardinality(Owing("NotifyDirectPin")) \in Nat
  BY PinnedFinite, FS_CardinalityType DEF CountInv, Notices
<1>3. pinned_size = Cardinality(PinnedPages) + (IF srv_pc = "loop" THEN 0 ELSE 1)
                    + Cardinality(Owing("NotifyDirectUnpin"))
                    - Cardinality(Owing("NotifyDirectPin")) + drift
  BY DEF CountInv, PinnedSizeExact, PinnedPages
<1>4. pinned_size' = Cardinality(PinnedPages') + (IF srv_pc' = "loop" THEN 0 ELSE 1)
                    + Cardinality(Owing("NotifyDirectUnpin")')
                    - Cardinality(Owing("NotifyDirectPin")') + drift'
  BY <1>1, <1>2, <1>3 DEF Balanced
<1>5. PinnedSizeExact'
  BY <1>4 DEF PinnedSizeExact, PinnedPages
<1>6. \A type \in Notices : IsFiniteSet(Owing(type)')
  BY DEF Balanced
<1>. QED  BY <1>1, <1>5, <1>6 DEF CountInv

\* A step that leaves the counts of references at zero or above zero.
LEMMA SamePages ==
    ASSUME \A v \in VPages : pte'[v].ref_count > 0 <=> pte[v].ref_count > 0
    PROVE  PinnedPages' = PinnedPages
BY DEF PinnedPages

\* A page gets its first reference, or loses its last.
LEMMA OnePageMore ==
    ASSUME NEW v \in VPages, ~(pte[v].ref_count > 0), pte'[v].ref_count > 0,
           \A u \in VPages \ {v} : pte'[u].ref_count > 0 <=> pte[u].ref_count > 0
    PROVE  Cardinality(PinnedPages') = Cardinality(PinnedPages) + 1
<1>1. PinnedPages' = PinnedPages \cup {v} /\ v \notin PinnedPages
  BY DEF PinnedPages
<1>. QED  BY <1>1, PinnedFinite, AddOne

LEMMA OnePageLess ==
    ASSUME NEW v \in VPages, pte[v].ref_count > 0, ~(pte'[v].ref_count > 0),
           \A u \in VPages \ {v} : pte'[u].ref_count > 0 <=> pte[u].ref_count > 0
    PROVE  Cardinality(PinnedPages') = Cardinality(PinnedPages) - 1
<1>1. PinnedPages' = PinnedPages \ {v} /\ v \in PinnedPages
  BY DEF PinnedPages
<1>. QED  BY <1>1, PinnedFinite, DropOne

\* A step in which nothing that is counted changes.
LEMMA QuietCount ==
    ASSUME IndInv, CountInv, pinned_size' = pinned_size, drift' = drift,
           srv_pc' = "loop" <=> srv_pc = "loop",
           PinnedPages' = PinnedPages,
           \A type \in Notices : /\ IsFiniteSet(Owing(type)')
                                 /\ Cardinality(Owing(type)') = Cardinality(Owing(type))
    PROVE  CountInv'
<1>1. pinned_size \in Int /\ drift \in Int /\ Cardinality(PinnedPages) \in Nat
      /\ \A type \in Notices : Cardinality(Owing(type)) \in Nat
  BY PinnedFinite, FS_CardinalityType DEF IndInv, Types, OtherType, CountInv
<1>2. Balanced(0, 0, 0, 0, 0, 0)
  BY <1>1 DEF Balanced, Notices
<1>. QED  BY <1>2, BalanceKept

\* A client that pins first or unpins last owes one notification more, with a stray it
\* changes the drift; its messages only move.
LEMMA ClientCount ==
    ASSUME IndInv, StraysSound, CountInv, NEW c \in Clients, ClientStep(c)
    PROVE  CountInv'
<1>. USE DEF IndInv, Types
<1>1. /\ pinned_size' = pinned_size /\ srv_pc' = srv_pc
      /\ pinned_size \in Int /\ drift \in Int
      /\ \A type \in Notices : IsFiniteSet(Owing(type)) /\ Cardinality(Owing(type)) \in Nat
      /\ Cardinality(PinnedPages) \in Nat
 <2>1. /\ pinned_size' = pinned_size /\ srv_pc' = srv_pc
  BY DEF ClientStep, DirectPin, PinMiss, StrayPin, StrayUnpin, Write, Unpin, Notify,
         RequestPin, cache, server
 <2>. QED  BY <2>1, PinnedFinite, FS_CardinalityType DEF OtherType, CountInv
<1>2. ASSUME NEW v \in VPages, DirectPin(c, v) PROVE CountInv'
 <2>1. /\ pc[c] = "idle" /\ UNCHANGED <<posted, batch, drift>>
       /\ IF pte[v].ref_count = 0
          THEN /\ pc' = [pc EXCEPT ![c] = "notify"]
               /\ req' = [req EXCEPT ![c] = Note("NotifyDirectPin", v)]
          ELSE UNCHANGED <<pc, req>>
  BY <1>2 DEF DirectPin, MayPin, Note
 <2>2. /\ pte'[v].ref_count = pte[v].ref_count + 1 /\ pte[v].ref_count \in Nat
       /\ \A u \in VPages \ {v} : pte'[u] = pte[u]
  <3>1. pte' = [pte EXCEPT ![v] = Incremented(pte[v])]
    BY <1>2 DEF DirectPin
  <3>. QED  BY <3>1 DEF PteType, Pte
 <2>3. CASE pte[v].ref_count = 0
  <3>1. /\ pc'[c] = "notify" /\ req'[c] = Note("NotifyDirectPin", v)
        /\ \A d \in Clients \ {c} : pc'[d] = pc[d] /\ req'[d] = req[d]
    BY <2>1, <2>3 DEF ClientType
  <3>2. ASSUME NEW type \in Notices
        PROVE  /\ IsFiniteSet(Owing(type)')
               /\ Cardinality(Owing(type)')
                    = Cardinality(Owing(type)) + (IF type = "NotifyDirectPin" THEN 1 ELSE 0)
    BY <1>1, <2>1, <3>1, OneOwedMore DEF Notices
  <3>3. Cardinality(PinnedPages') = Cardinality(PinnedPages) + 1
    BY <2>2, <2>3, OnePageMore
  <3>4. Balanced(0, 1, 0, 0, 1, 0)
    BY <1>1, <2>1, <3>2, <3>3 DEF Balanced, Notices
  <3>. QED  BY <3>4, BalanceKept
 <2>4. CASE pte[v].ref_count # 0
  <3>1. PinnedPages' = PinnedPages
    BY <2>2, <2>4 DEF PinnedPages
  <3>2. \A type \in Notices : Owing(type)' = Owing(type)
    BY <2>1, <2>4, QuietOwing
  <3>. QED  BY <1>1, <2>1, <3>1, <3>2, QuietCount
 <2>. QED  BY <2>3, <2>4
<1>3. ASSUME NEW v \in VPages, Unpin(c, v) PROVE CountInv'
 <2>1. /\ pc[c] = "idle" /\ UNCHANGED <<posted, batch, drift>> /\ held[c][v] # None
       /\ IF pte[v].ref_count = 1
          THEN /\ pc' = [pc EXCEPT ![c] = "notify"]
               /\ req' = [req EXCEPT ![c] = Note("NotifyDirectUnpin", v)]
          ELSE UNCHANGED <<pc, req>>
  BY <1>3 DEF Unpin, Note
 <2>2. /\ pte'[v].ref_count = pte[v].ref_count - 1 /\ pte[v].ref_count \in Nat
       /\ \A u \in VPages \ {v} : pte'[u] = pte[u]
  <3>1. pte' = [pte EXCEPT ![v] = Decremented(pte[v], v \in wrote[c])]
    BY <1>3 DEF Unpin
  <3>. QED  BY <3>1 DEF PteType, Pte
 <2>3. CASE pte[v].ref_count = 1
  <3>1. /\ pc'[c] = "notify" /\ req'[c] = Note("NotifyDirectUnpin", v)
        /\ \A d \in Clients \ {c} : pc'[d] = pc[d] /\ req'[d] = req[d]
    BY <2>1, <2>3 DEF ClientType
  <3>2. ASSUME NEW type \in Notices
        PROVE  /\ IsFiniteSet(Owing(type)')
               /\ Cardinality(Owing(type)')
                    = Cardinality(Owing(type)) + (IF type = "NotifyDirectUnpin" THEN 1 ELSE 0)
    BY <1>1, <2>1, <3>1, OneOwedMore DEF Notices
  <3>3. Cardinality(PinnedPages') = Cardinality(PinnedPages) - 1
    BY <2>2, <2>3, OnePageLess
  <3>4. Balanced(0, -1, 0, 1, 0, 0)
    BY <1>1, <2>1, <3>2, <3>3 DEF Balanced, Notices
  <3>. QED  BY <3>4, BalanceKept
 <2>4. CASE pte[v].ref_count # 1
  <3>0. pte[v].ref_count # 0
    BY <2>1, NoReferences
  <3>1. PinnedPages' = PinnedPages
    BY <2>2, <2>4, <3>0 DEF PinnedPages
  <3>2. \A type \in Notices : Owing(type)' = Owing(type)
    BY <2>1, <2>4, QuietOwing
  <3>. QED  BY <1>1, <2>1, <3>1, <3>2, QuietCount
 <2>. QED  BY <2>3, <2>4
<1>4. ASSUME NEW v \in VPages, PinMiss(c, v) \/ \E x \in Values : Write(c, v, x) PROVE CountInv'
 <2>1. /\ UNCHANGED <<pte, posted, batch, drift>> /\ pc[c] = "idle"
       /\ \/ UNCHANGED <<pc, req>>
          \/ /\ pc' = [pc EXCEPT ![c] = "request"]
             /\ req' = [req EXCEPT ![c] = [type |-> "Pin", page |-> v]]
  BY <1>4 DEF PinMiss, MayPin, Write
 <2>2. \A type \in Notices : Owing(type)' = Owing(type)
  BY <2>1, QuietOwing DEF ClientType
 <2>. QED  BY <1>1, <2>1, <2>2, SamePages, QuietCount
<1>5. ASSUME Notify(c) PROVE CountInv'
 <2>1. /\ UNCHANGED <<pte, drift>> /\ pc[c] = "notify" /\ posted[c] = <<>>
       /\ pc' = [pc EXCEPT ![c] = "idle"] /\ req' = [req EXCEPT ![c] = NoRequest]
       /\ \/ /\ posted' = [posted EXCEPT ![c] = Append(batch[c], req[c])]
             /\ batch' = [batch EXCEPT ![c] = <<>>]
          \/ /\ batch' = [batch EXCEPT ![c] = Append(batch[c], req[c])] /\ posted' = posted
  BY <1>5 DEF Notify
 <2>2. batch[c] \in Seq(Request) /\ req[c] \in Request
  BY <2>1 DEF MessageType, BatchType, RequestsShaped
 <2>3. /\ pc'[c] = "idle" /\ \A d \in Clients \ {c} : pc'[d] = pc[d] /\ req'[d] = req[d]
  BY <2>1 DEF ClientType
 <2>4. ASSUME NEW type \in Notices
       PROVE  IsFiniteSet(Owing(type)') /\ Cardinality(Owing(type)') = Cardinality(Owing(type))
  <3>1. CASE /\ posted' = [posted EXCEPT ![c] = Append(batch[c], req[c])]
             /\ batch' = [batch EXCEPT ![c] = <<>>]
   <4>1. /\ posted'[c] = Append(batch[c], req[c]) /\ batch'[c] = <<>>
         /\ \A d \in Clients \ {c} : batch'[d] = batch[d] /\ posted'[d] = posted[d]
     BY <3>1 DEF MessageType, BatchType, PostedType
   <4>. QED  BY <1>1, <2>1, <2>2, <2>3, <4>1, OwedSubmitted
  <3>2. CASE /\ batch' = [batch EXCEPT ![c] = Append(batch[c], req[c])] /\ posted' = posted
   <4>1. /\ batch'[c] = Append(batch[c], req[c]) /\ posted' = posted
         /\ \A d \in Clients \ {c} : batch'[d] = batch[d]
     BY <3>2 DEF MessageType, BatchType
   <4>. QED  BY <1>1, <2>1, <2>2, <2>3, <4>1, OwedAppended
  <3>. QED  BY <2>1, <3>1, <3>2
 <2>. QED  BY <1>1, <2>1, <2>4, SamePages, QuietCount
<1>6. ASSUME RequestPin(c) PROVE CountInv'
 <2>1. /\ UNCHANGED <<pte, drift>> /\ pc[c] = "request" /\ posted[c] = <<>> /\ req' = req
       /\ pc' = [pc EXCEPT ![c] = "wait"]
       /\ posted' = [posted EXCEPT ![c] = Append(batch[c], req[c])]
       /\ batch' = [batch EXCEPT ![c] = <<>>]
  BY <1>6 DEF RequestPin
 <2>2. batch[c] \in Seq(Request) /\ req[c] \in Request /\ req[c].type = "Pin"
  BY <2>1 DEF MessageType, BatchType, RequestsShaped
 <2>3. /\ pc'[c] = "wait" /\ \A d \in Clients \ {c} : pc'[d] = pc[d] /\ req'[d] = req[d]
  BY <2>1 DEF ClientType
 <2>4. /\ posted'[c] = Append(batch[c], req[c]) /\ batch'[c] = <<>>
       /\ \A d \in Clients \ {c} : batch'[d] = batch[d] /\ posted'[d] = posted[d]
  BY <2>1 DEF MessageType, BatchType, PostedType
 <2>5. ASSUME NEW type \in Notices
       PROVE  IsFiniteSet(Owing(type)') /\ Cardinality(Owing(type)') = Cardinality(Owing(type))
  BY <1>1, <2>1, <2>2, <2>3, <2>4, OwedSubmitted
 <2>. QED  BY <1>1, <2>1, <2>5, SamePages, QuietCount
<1>7. ASSUME NEW v \in VPages, NEW w \in VPages, StrayPin(c, v, w) PROVE CountInv'
 <2>1. /\ pc[c] = "idle" /\ UNCHANGED <<posted, batch>>
       /\ pc' = [pc EXCEPT ![c] = "stray"]
       /\ req' = [req EXCEPT ![c] = [type |-> "Pin", page |-> v]]
       /\ drift' = IF pte[w].ref_count = 0 THEN drift - 1 ELSE drift
  BY <1>7 DEF StrayPin, MayPin
 <2>2. /\ pte'[w].ref_count = pte[w].ref_count + 1 /\ pte[w].ref_count \in Nat
       /\ \A u \in VPages \ {w} : pte'[u] = pte[u]
  <3>1. pte' = [pte EXCEPT ![w] = Incremented(pte[w])]
    BY <1>7 DEF StrayPin
  <3>. QED  BY <3>1 DEF PteType, Pte
 <2>3. \A type \in Notices : Owing(type)' = Owing(type)
  BY <2>1, QuietOwing DEF ClientType
 <2>4. CASE pte[w].ref_count = 0
  <3>1. Cardinality(PinnedPages') = Cardinality(PinnedPages) + 1
    BY <2>2, <2>4, OnePageMore
  <3>2. Balanced(0, 1, 0, 0, 0, -1)
    BY <1>1, <2>1, <2>3, <2>4, <3>1 DEF Balanced, Notices
  <3>. QED  BY <3>2, BalanceKept
 <2>5. CASE pte[w].ref_count # 0
  <3>1. PinnedPages' = PinnedPages
    BY <2>2, <2>5 DEF PinnedPages
  <3>. QED  BY <1>1, <2>1, <2>3, <2>5, <3>1, QuietCount
 <2>. QED  BY <2>4, <2>5
<1>8. ASSUME StrayUnpin(c) PROVE CountInv'
 <2>0. PICK w \in VPages : w = stray[c]
  BY <1>8 DEF StrayUnpin, StraysSound
 <2>1. /\ pc[c] = "stray" /\ UNCHANGED <<posted, batch, req>>
       /\ pc' = [pc EXCEPT ![c] = "request"]
       /\ drift' = IF pte[w].ref_count = 1 THEN drift + 1 ELSE drift
  BY <1>8, <2>0 DEF StrayUnpin
 <2>2. /\ pte'[w].ref_count = pte[w].ref_count - 1 /\ pte[w].ref_count \in Nat
       /\ \A u \in VPages \ {w} : pte'[u] = pte[u]
  <3>1. pte' = [pte EXCEPT ![w] = Decremented(pte[w], FALSE)]
    BY <1>8, <2>0 DEF StrayUnpin
  <3>. QED  BY <3>1 DEF PteType, Pte
 <2>3. \A type \in Notices : Owing(type)' = Owing(type)
  BY <2>1, QuietOwing DEF ClientType
 <2>4. CASE pte[w].ref_count = 1
  <3>1. Cardinality(PinnedPages') = Cardinality(PinnedPages) - 1
    BY <2>2, <2>4, OnePageLess
  <3>2. Balanced(0, -1, 0, 0, 0, 1)
    BY <1>1, <2>1, <2>3, <2>4, <3>1 DEF Balanced, Notices
  <3>. QED  BY <3>2, BalanceKept
 <2>5. CASE pte[w].ref_count # 1
  <3>0. pte[w].ref_count # 0
    BY <2>0, NoReferences
  <3>1. PinnedPages' = PinnedPages
    BY <2>2, <2>5, <3>0 DEF PinnedPages
  <3>. QED  BY <1>1, <2>1, <2>3, <2>5, <3>1, QuietCount
 <2>. QED  BY <2>4, <2>5
<1>. QED  BY <1>2, <1>3, <1>4, <1>5, <1>6, <1>7, <1>8 DEF ClientStep

\* The requests the clients owe, when the server takes a Pin or runs the fiber.
LEMMA DispatchedCount ==
    ASSUME IndInv, CountInv, NEW c \in Clients, NEW k, Dispatched(c, k), UNCHANGED batch,
           \A d \in Clients : d # c => pc'[d] = pc[d] /\ req'[d] = req[d],
           pc'[c] # "notify", NEW type \in Notices
    PROVE  Owing(type)' = Owing(type)
<1>. USE DEF IndInv, Types
<1>1. /\ pc[c] = "wait"
      /\ \A d \in Clients : d # c => posted'[d] = posted[d]
      /\ \A i \in DOMAIN posted'[c] : posted'[c][i].type # "Pin"
  BY DispatchedFacts
<1>2. \A i : Owes(c, "posted", i, type)' <=> Owes(c, "posted", i, type)
 <2>1. CASE Turn(c, "Pin") /\ Take(c)
  <3>1. posted[c] \in Seq(Request) /\ posted[c] # <<>> /\ Head(posted[c]).type = "Pin"
    BY <2>1 DEF Turn, MessageType, PostedType
  <3>2. Len(posted[c]) \in Nat /\ DOMAIN posted[c] = 1..Len(posted[c]) /\ Len(posted[c]) # 0
    BY <3>1, LenProperties, EmptySeq
  <3>3. posted[c][1].type = "Pin" /\ 1 \in DOMAIN posted[c]
   <4>1. Head(posted[c]) = posted[c][1]
     BY <3>1, HeadTailProperties
   <4>2. 1 \in 1..Len(posted[c])
     BY <3>2
   <4>. QED  BY <3>1, <3>2, <4>1, <4>2
  <3>4. Len(posted[c]) = 1
    BY <3>3 DEF MessagesShaped
  <3>5. Tail(posted[c]) \in Seq(Request) /\ Len(Tail(posted[c])) = 0
    BY <3>1, <3>4, HeadTailProperties
  <3>6. DOMAIN Tail(posted[c]) = {}
   <4>1. DOMAIN Tail(posted[c]) = 1..0
     BY <3>5, LenProperties
   <4>. QED  BY <4>1
  <3>7. posted'[c] = Tail(posted[c])
    BY <2>1 DEF Take, MessageType, PostedType
  <3>8. \A i : i \in DOMAIN posted[c] => i = 1
    BY <3>2, <3>4
  <3>9. \A i : ~Owes(c, "posted", i, type)
    BY <3>3, <3>8, OwesIs DEF Notices
  <3>10. DOMAIN posted'[c] = {}
    BY <3>6, <3>7
  <3>. QED  BY <3>9, <3>10, OwesIsNext
 <2>2. CASE UNCHANGED posted
  BY <2>2, OwesIs, OwesIsNext
 <2>. QED  BY <2>1, <2>2 DEF Dispatched
<1>3. \A d \in Clients : \A i :
         /\ Owes(d, "posted", i, type)' <=> Owes(d, "posted", i, type)
         /\ Owes(d, "batch", i, type)' <=> Owes(d, "batch", i, type)
         /\ Owes(d, "made", i, type)' <=> Owes(d, "made", i, type)
  BY <1>1, <1>2, OwesIs, OwesIsNext
<1>. QED  BY <1>3, OwingSame DEF Places

\* The server adds what one notification owed, and that one is gone.
LEMMA ServeNotifyCount ==
    ASSUME IndInv, CountInv, NEW c \in Clients, ServeNotifyPin(c) \/ ServeNotifyUnpin(c)
    PROVE  CountInv'
<1>. USE DEF IndInv, Types
<1>1. PICK t \in Notices :
        /\ Turn(c, t) /\ Take(c)
        /\ pinned_size' = IF t = "NotifyDirectPin" THEN pinned_size + 1 ELSE pinned_size - 1
  BY DEF ServeNotifyPin, ServeNotifyUnpin, Notices
<1>2. UNCHANGED <<pte, srv_pc, batch, pc, req, drift>>
  BY DEF ServeNotifyPin, ServeNotifyUnpin, client
<1>3. posted[c] \in Seq(Request) /\ posted[c] # <<>> /\ Head(posted[c]).type = t
  BY <1>1 DEF Turn, MessageType, PostedType
<1>4. posted'[c] = Tail(posted[c]) /\ \A d \in Clients \ {c} : posted'[d] = posted[d]
  BY <1>1 DEF Take, MessageType, PostedType
<1>5. /\ pinned_size \in Int /\ drift \in Int /\ Cardinality(PinnedPages) \in Nat
      /\ \A type \in Notices : IsFiniteSet(Owing(type)) /\ Cardinality(Owing(type)) \in Nat
  BY PinnedFinite, FS_CardinalityType DEF OtherType, CountInv
<1>6. ASSUME NEW type \in Notices
      PROVE  /\ IsFiniteSet(Owing(type)')
             /\ Cardinality(Owing(type)') = Cardinality(Owing(type)) - (IF t = type THEN 1 ELSE 0)
  BY <1>2, <1>3, <1>4, <1>5, OwedTaken
<1>7. PinnedPages' = PinnedPages
  BY <1>2, SamePages
<1>8. CASE t = "NotifyDirectPin"
 <2>1. Balanced(1, 0, 0, 0, -1, 0)
  BY <1>1, <1>2, <1>5, <1>6, <1>7, <1>8 DEF Balanced, Notices
 <2>. QED  BY <2>1, BalanceKept
<1>9. CASE t = "NotifyDirectUnpin"
 <2>1. Balanced(-1, 0, 0, -1, 0, 0)
  BY <1>1, <1>2, <1>5, <1>6, <1>7, <1>9 DEF Balanced, Notices
 <2>. QED  BY <2>1, BalanceKept
<1>. QED  BY <1>8, <1>9 DEF Notices

\* The server counts the page of a Pin itself; when it has to evict first, it counts
\* before the page is mapped.
LEMMA PinCount ==
    ASSUME IndInv, CountInv, NEW c \in Clients,
           \/ ServePinBusy(c) \/ PinHit(c) \/ PinRefused(c) \/ PinEvicts(c)
           \/ \E p \in PPages : PinAllocated(c, p) \/ PinAllocatedRead(c, p)
    PROVE  CountInv'
<1>. USE DEF IndInv, Types
<1>1. \E k : Dispatched(c, k)
 <2>1. CASE ServePinBusy(c)
  BY <2>1 DEF ServePinBusy, Dispatched
 <2>. QED  BY <2>1 DEF PinHit, PinRefused, PinEvicts, PinAllocated, PinAllocatedRead
<1>2. PICK k : Dispatched(c, k)
  BY <1>1
<1>3. PICK v \in VPages : v = req[c].page
  BY <1>2, DispatchedFacts
<1>4. srv_pc = "loop" /\ pc[c] = "wait"
  BY <1>2, DispatchedFacts
<1>5. \A d \in Clients : d # c => pc'[d] = pc[d] /\ req'[d] = req[d]
  BY DEF ServePinBusy, PinHit, PinRefused, PinEvicts, PinAllocated, PinAllocatedRead,
         AnswerPointer, AnswerEmpty, client, ClientType
<1>6. pc'[c] # "notify"
  BY <1>4 DEF ServePinBusy, PinHit, PinRefused, PinEvicts, PinAllocated, PinAllocatedRead,
         AnswerPointer, AnswerEmpty, client, ClientType
<1>7. UNCHANGED <<batch, drift>>
  BY DEF ServePinBusy, PinHit, PinRefused, PinEvicts, PinAllocated, PinAllocatedRead, client
<1>8. \A type \in Notices : Owing(type)' = Owing(type)
  BY <1>2, <1>5, <1>6, <1>7, DispatchedCount
<1>9. /\ pinned_size \in Int /\ drift \in Int /\ Cardinality(PinnedPages) \in Nat
      /\ \A type \in Notices : IsFiniteSet(Owing(type)) /\ Cardinality(Owing(type)) \in Nat
  BY PinnedFinite, FS_CardinalityType DEF OtherType, CountInv
<1>10. CASE ServePinBusy(c) \/ PinRefused(c)
 <2>1. UNCHANGED <<pte, pinned_size, srv_pc>>
  BY <1>10 DEF ServePinBusy, PinRefused, cache
 <2>. QED  BY <1>7, <1>8, <1>9, <2>1, SamePages, QuietCount
<1>11. CASE PinEvicts(c)
 <2>1. pte' = pte /\ pinned_size' = pinned_size + 1 /\ srv_pc' = "pop"
  BY <1>11 DEF PinEvicts
 <2>2. PinnedPages' = PinnedPages
  BY <2>1, SamePages
 <2>3. Balanced(1, 0, 1, 0, 0, 0)
  BY <1>4, <1>7, <1>8, <1>9, <2>1, <2>2 DEF Balanced, Notices
 <2>. QED  BY <2>3, BalanceKept
<1>12. CASE PinHit(c)
 <2>1. /\ srv_pc' = srv_pc
       /\ pinned_size' = IF pte[v].ref_count = 0 THEN pinned_size + 1 ELSE pinned_size
  BY <1>3, <1>12 DEF PinHit
 <2>2. /\ pte'[v].ref_count = pte[v].ref_count + 1 /\ pte[v].ref_count \in Nat
       /\ \A u \in VPages \ {v} : pte'[u] = pte[u]
  <3>1. pte' = [pte EXCEPT ![v] = Incremented(pte[v])]
    BY <1>3, <1>12 DEF PinHit
  <3>. QED  BY <3>1 DEF PteType, Pte
 <2>3. CASE pte[v].ref_count = 0
  <3>1. Cardinality(PinnedPages') = Cardinality(PinnedPages) + 1
    BY <2>2, <2>3, OnePageMore
  <3>2. Balanced(1, 1, 0, 0, 0, 0)
    BY <1>7, <1>8, <1>9, <2>1, <2>3, <3>1 DEF Balanced, Notices
  <3>. QED  BY <3>2, BalanceKept
 <2>4. CASE pte[v].ref_count # 0
  <3>1. PinnedPages' = PinnedPages
    BY <2>2, <2>4 DEF PinnedPages
  <3>. QED  BY <1>7, <1>8, <1>9, <2>1, <2>4, <3>1, QuietCount
 <2>. QED  BY <2>3, <2>4
<1>13. ASSUME NEW p \in PPages, PinAllocated(c, p) \/ PinAllocatedRead(c, p) PROVE CountInv'
 <2>1. srv_pc' = srv_pc /\ pinned_size' = pinned_size + 1 /\ ~pte[v].exist
  BY <1>3, <1>13 DEF PinAllocated, PinAllocatedRead
 <2>2. pte'[v].ref_count = 1 /\ \A u \in VPages \ {v} : pte'[u] = pte[u]
  <3>1. PICK b \in BOOLEAN : pte' = [pte EXCEPT ![v] = NewMapping(p, b)]
    BY <1>3, <1>13 DEF PinAllocated, PinAllocatedRead
  <3>. QED  BY <3>1 DEF PteType, NewMapping
 <2>3. pte[v].ref_count = 0
  BY <2>1 DEF EntriesShaped
 <2>4. Cardinality(PinnedPages') = Cardinality(PinnedPages) + 1
  BY <2>2, <2>3, OnePageMore
 <2>5. Balanced(1, 1, 0, 0, 0, 0)
  BY <1>7, <1>8, <1>9, <2>1, <2>4 DEF Balanced, Notices
 <2>. QED  BY <2>5, BalanceKept
<1>. QED  BY <1>10, <1>11, <1>12, <1>13

\* The fiber, the device and the eviction loop send nothing and take no request.
LEMMA ServerCount ==
    ASSUME IndInv, CountInv,
           \/ \E c \in Clients : FiberSubmit(c) \/ FiberEvicted(c) \/ FiberLoaded(c) \/ DeviceStep(c)
           \/ EvictionStep \/ UNCHANGED vars
    PROVE  CountInv'
<1>. USE DEF IndInv, Types
<1>1. UNCHANGED <<pinned_size, drift, posted, batch>>
  BY DEF FiberSubmit, FiberEvicted, FiberLoaded, DeviceStep, DeviceWrite, DeviceRead,
         EvictionStep, ServerPop, ServerPopEmpty, ServerLockFails, ServerLock, vars, cache, client
<1>2. /\ pinned_size \in Int /\ drift \in Int /\ Cardinality(PinnedPages) \in Nat
      /\ \A type \in Notices : IsFiniteSet(Owing(type)) /\ Cardinality(Owing(type)) \in Nat
  BY PinnedFinite, FS_CardinalityType DEF OtherType, CountInv
<1>3. ASSUME NEW c \in Clients, FiberEvicted(c) PROVE CountInv'
 <2>1. PICK w \in VPages : w = ctx[c].pre_vpage_id
  BY <1>3 DEF FiberEvicted, ContextsShaped
 <2>2. srv_pc' = srv_pc /\ UNCHANGED <<pc, req>> /\ pte' = [pte EXCEPT ![w].busy = FALSE]
  BY <1>3, <2>1 DEF FiberEvicted, client
 <2>3. \A u \in VPages : pte'[u].ref_count = pte[u].ref_count
  BY <2>2 DEF PteType, Pte
 <2>. QED  BY <1>1, <1>2, <2>2, <2>3, SamePages, QuietOwing, QuietCount
<1>4. ASSUME NEW c \in Clients, FiberLoaded(c) PROVE CountInv'
 <2>1. PICK v \in VPages : v = req[c].page /\ pc[c] = "wait"
  BY <1>4 DEF FiberLoaded, ContextsShaped, RequestsShaped, Request
 <2>2. /\ srv_pc' = srv_pc /\ pte' = [pte EXCEPT ![v].busy = FALSE]
       /\ pc' = [pc EXCEPT ![c] = "idle"] /\ req' = [req EXCEPT ![c] = NoRequest]
  BY <1>4, <2>1 DEF FiberLoaded, AnswerPointer
 <2>3. \A u \in VPages : pte'[u].ref_count = pte[u].ref_count
  BY <2>2 DEF PteType, Pte
 <2>4. \A d \in Clients : /\ pc'[d] = "notify" <=> pc[d] = "notify"
                          /\ pc[d] = "notify" => req'[d] = req[d]
  BY <2>1, <2>2 DEF ClientType
 <2>. QED  BY <1>1, <1>2, <2>2, <2>3, <2>4, SamePages, QuietOwing, QuietCount
<1>5. ASSUME \/ \E c \in Clients : FiberSubmit(c) \/ DeviceStep(c)
             \/ UNCHANGED vars
      PROVE  CountInv'
 <2>1. UNCHANGED <<pte, srv_pc, pc, req>>
  BY <1>5 DEF FiberSubmit, DeviceStep, DeviceWrite, DeviceRead, vars, server, client
 <2>. QED  BY <1>1, <1>2, <2>1, SamePages, QuietOwing, QuietCount
<1>6. ASSUME EvictionStep, ~ServerLock PROVE CountInv'
 <2>1. UNCHANGED <<pte, pc, req>> /\ srv_pc # "loop" /\ srv_pc' # "loop"
  BY <1>6 DEF EvictionStep, ServerPop, ServerPopEmpty, ServerLockFails, client
 <2>. QED  BY <1>1, <1>2, <2>1, SamePages, QuietOwing, QuietCount
<1>7. ASSUME ServerLock PROVE CountInv'
 <2>1. /\ srv_pc = "lock" /\ srv_pc' = "loop" /\ UNCHANGED <<pc, req>>
       /\ job # None /\ victim # None /\ victim \in PPages
  BY <1>7 DEF ServerLock, client, JobShaped, JobType
 <2>2. PICK w \in VPages : w = owner[victim] /\ pte[w].exist /\ pte[w].ref_count = 0
  BY <1>7, <2>1 DEF JobShaped, CacheType, ServerLock
 <2>3. PICK v \in VPages : v = req[job].page /\ ~pte[v].exist
  BY <2>1 DEF JobShaped, JobType, RequestsShaped, Request
 <2>4. /\ pte'[w].ref_count = 0 /\ pte'[v].ref_count = 1
       /\ \A u \in VPages \ {v, w} : pte'[u] = pte[u]
  <3>1. pte' = [pte EXCEPT ![w] = Emptied(pre_dirty), ![v] = NewMapping(victim, TRUE)]
    BY <1>7, <2>2, <2>3 DEF ServerLock
  <3>. QED  BY <2>2, <2>3, <3>1 DEF PteType, Emptied, EmptyPte, NewMapping
 <2>5. pte[v].ref_count = 0
  BY <2>3 DEF EntriesShaped
 <2>6. Cardinality(PinnedPages') = Cardinality(PinnedPages) + 1
  BY <2>2, <2>4, <2>5, OnePageMore
 <2>7. \A type \in Notices : Owing(type)' = Owing(type)
  BY <1>1, <2>1, QuietOwing
 <2>8. Balanced(0, 1, -1, 0, 0, 0)
  BY <1>1, <1>2, <2>1, <2>6, <2>7 DEF Balanced, Notices
 <2>. QED  BY <2>8, BalanceKept
<1>. QED  BY <1>3, <1>4, <1>5, <1>6, <1>7

\* pinned_size, which decides whether a miss is refused (full_pin), differs from the
\* number of pinned pages exactly by the notifications under way, by the Pin in the
\* eviction loop and by the drift that the stray references of pin() leave behind, for
\* any number of clients and in any order of their messages.
THEOREM PinnedSizeIsExact == Spec => []PinnedSizeExact
<1>1. Init => CountInv
 <2>. SUFFICES ASSUME Init PROVE CountInv
  OBVIOUS
 <2>1. \A c \in Clients : \A i, type :
         /\ ~Owes(c, "posted", i, type) /\ ~Owes(c, "batch", i, type)
         /\ ~Owes(c, "made", i, type)
  BY OwesIs DEF Init
 <2>2. \A type : Owing(type) = {}
  BY <2>1, OwingIs DEF Places
 <2>3. PinnedPages = {}
  BY DEF Init, PinnedPages, EmptyPte
 <2>4. Cardinality({}) = 0 /\ IsFiniteSet({})
  BY FS_EmptySet
 <2>5. pinned_size = 0 /\ srv_pc = "loop" /\ drift = 0
  BY DEF Init
 <2>6. PinnedSizeExact
  <3>1. /\ Cardinality(Owing("NotifyDirectUnpin")) = 0
        /\ Cardinality(Owing("NotifyDirectPin")) = 0
        /\ Cardinality({v \in VPages : pte[v].ref_count > 0}) = 0
    BY <2>2, <2>3, <2>4 DEF PinnedPages
  <3>. QED  BY <2>5, <3>1 DEF PinnedSizeExact
 <2>7. \A type \in Notices : IsFiniteSet(Owing(type))
  BY <2>2, <2>4
 <2>. QED  BY <2>5, <2>6, <2>7 DEF CountInv
<1>2. IndInv /\ StraysSound /\ CountInv /\ [Next]_vars => CountInv'
  BY ClientCount, ServeNotifyCount, PinCount, ServerCount DEF Next, ServerStep, ServerSpin
<1>3. CountInv => PinnedSizeExact
  BY DEF CountInv
<1>. QED  BY <1>1, <1>2, <1>3, IndInvHolds, PTL DEF Spec

-----------------------------------------------------------------------------
(***************************************************************************)
(* Proof that one partition of the shared cache implements AddressSpace,   *)
(* as long as the dirty flag the server read before it locked a victim is  *)
(* still the entry's flag when it has the lock (DirtyFresh).  With two     *)
(* clients the code does not ensure that, which is the finding of the run  *)
(* lost_update; with one client it does, and the refinement is proved      *)
(* without the hypothesis.                                                 *)
(***************************************************************************)

\* Clients can pin page v without the server.
Mapped(v) == pte[v].exist /\ ~pte[v].busy

\* Page v is being written back for the Pin of client c.
Leaving(c, v) == ctx[c].phase = "Evicting" /\ ctx[c].pre_vpage_id = v

\* A mapped page that is neither dirty nor about to become so is equal to its block.
CleanOnDisk ==
    \A v \in VPages :
        Mapped(v) /\ ~pte[v].dirty /\ (\A c \in Clients : v \notin wrote[c])
            => mem[pte[v].ppage_id] = disk[v]

\* Until every frame is handed out nothing is written back, and a frame that was never
\* handed out has no content.
NothingYet ==
    /\ ~full => \A v \in VPages : disk[v] = None
    /\ \A p \in PPages \ allocated : mem[p] = None
    /\ \A c \in Clients : ctx[c].phase = "Evicting" => full

\* A transfer that has finished left the frame equal to the block.
TransfersDone ==
    \A c \in Clients : ctx[c].io = "finished" =>
        /\ ctx[c].phase = "Evicting" => disk[ctx[c].pre_vpage_id] = mem[ctx[c].ppage_id]
        /\ ctx[c].phase = "Loading" => disk[req[c].page] = mem[ctx[c].ppage_id]

\* A client that will unpin with is_write holds the page.
WritersHold == \A c \in Clients : \A v \in wrote[c] : held[c][v] # None

\* The invariant about contents.
DataInv == CleanOnDisk /\ NothingYet /\ TransfersDone /\ WritersHold

\* The dirty flag read before the lock is still right when the entry is locked.
DirtyFresh ==
    srv_pc = "lock" /\ Lockable(pte[owner[victim]])
        => pre_dirty = pte[owner[victim]].dirty

\* No page changes its content.
ContentKept == \A v \in VPages : ContentOf(v)' = ContentOf(v)

-----------------------------------------------------------------------------
USE DEF Pinnable, FirstPin, LastPin, Incremented, Decremented, Lockable, InTransit
USE DEF strays, Reported
USE NoneAssumption

\* A page is written back for one Pin at a time, and is locked meanwhile.
LEMMA LeavingFacts ==
    ASSUME IndInv, NEW c \in Clients, NEW v \in VPages, Leaving(c, v)
    PROVE  /\ ~pte[v].exist /\ pte[v].busy
           /\ \A d \in Clients : Leaving(d, v) => d = c
BY DEF IndInv, TransitSound, Leaving

\* Where the content of a page is, in this state and in the next.
LEMMA ContentIs ==
    ASSUME IndInv, NEW v \in VPages
    PROVE  /\ Mapped(v) => ContentOf(v) = mem[pte[v].ppage_id]
           /\ \A c \in Clients : Leaving(c, v) => ContentOf(v) = mem[ctx[c].ppage_id]
           /\ ~Mapped(v) /\ (\A c \in Clients : ~Leaving(c, v)) => ContentOf(v) = disk[v]
<1>1. Mapped(v) => ContentOf(v) = mem[pte[v].ppage_id]
  BY DEF Mapped, ContentOf
<1>2. ASSUME NEW c \in Clients, Leaving(c, v)
      PROVE  ContentOf(v) = mem[ctx[c].ppage_id]
 <2>. DEFINE e == CHOOSE d \in Clients : Leaving(d, v)
 <2>1. e \in Clients /\ Leaving(e, v)
  BY <1>2
 <2>2. e = c
  BY <1>2, <2>1, LeavingFacts
 <2>3. ~Mapped(v)
  BY <1>2, LeavingFacts DEF Mapped
 <2>4. ContentOf(v) = mem[ctx[e].ppage_id]
  BY <1>2, <2>3 DEF ContentOf, Mapped, Leaving
 <2>. QED  BY <2>2, <2>4
<1>3. ASSUME ~Mapped(v), \A c \in Clients : ~Leaving(c, v)
      PROVE  ContentOf(v) = disk[v]
  BY <1>3 DEF ContentOf, Mapped, Leaving
<1>. QED  BY <1>1, <1>2, <1>3

LEMMA ContentIsNext ==
    ASSUME IndInv', NEW v \in VPages
    PROVE  /\ Mapped(v)' => ContentOf(v)' = mem'[pte'[v].ppage_id]
           /\ \A c \in Clients : Leaving(c, v)' => ContentOf(v)' = mem'[ctx'[c].ppage_id]
           /\ ~Mapped(v)' /\ (\A c \in Clients : ~Leaving(c, v)') => ContentOf(v)' = disk'[v]
<1>1. Mapped(v)' => ContentOf(v)' = mem'[pte'[v].ppage_id]
  BY DEF Mapped, ContentOf
<1>2. ASSUME NEW c \in Clients, Leaving(c, v)'
      PROVE  ContentOf(v)' = mem'[ctx'[c].ppage_id]
 <2>. DEFINE e == CHOOSE d \in Clients : ctx'[d].phase = "Evicting"
                                      /\ ctx'[d].pre_vpage_id = v
 <2>1. e \in Clients /\ ctx'[e].phase = "Evicting" /\ ctx'[e].pre_vpage_id = v
  BY <1>2 DEF Leaving
 <2>2. e = c
  BY <1>2, <2>1 DEF IndInv, TransitSound, Leaving
 <2>3. ~Mapped(v)'
  BY <1>2 DEF Mapped, IndInv, TransitSound, Leaving
 <2>4. ContentOf(v)' = mem'[ctx'[e].ppage_id]
  BY <1>2, <2>3 DEF ContentOf, Mapped, Leaving
 <2>. QED  BY <2>2, <2>4
<1>3. ASSUME ~Mapped(v)', \A c \in Clients : ~Leaving(c, v)'
      PROVE  ContentOf(v)' = disk'[v]
  BY <1>3 DEF ContentOf, Mapped, Leaving
<1>. QED  BY <1>1, <1>2, <1>3

\* A step that moves no page and no content.
LEMMA QuietData ==
    ASSUME IndInv, IndInv', DataInv, UNCHANGED <<mem, disk, allocated, wrote>>,
           \A v \in VPages :
             /\ pte'[v].exist = pte[v].exist /\ pte'[v].busy = pte[v].busy
             /\ pte'[v].dirty = pte[v].dirty /\ pte'[v].ppage_id = pte[v].ppage_id,
           \A c \in Clients, v \in VPages : held[c][v] # None => held'[c][v] # None,
           \A c \in Clients :
             /\ InTransit(c)' <=> InTransit(c)
             /\ InTransit(c) => /\ req'[c] = req[c] /\ ctx'[c].phase = ctx[c].phase
                                /\ ctx'[c].ppage_id = ctx[c].ppage_id
                                /\ ctx'[c].pre_vpage_id = ctx[c].pre_vpage_id
                                /\ ctx'[c].io = "finished" => ctx[c].io = "finished"
    PROVE  DataInv' /\ ContentKept
<1>1. CleanOnDisk'
  BY DEF DataInv, CleanOnDisk, Mapped
<1>2. NothingYet'
  BY DEF DataInv, NothingYet, full
<1>3. TransfersDone'
  BY DEF DataInv, TransfersDone
<1>4. WritersHold'
 <2>1. wrote \in [Clients -> SUBSET VPages]
  BY DEF IndInv, Types, OtherType
 <2>. QED  BY <2>1 DEF DataInv, WritersHold
<1>5. ContentKept
 <2>1. \A v \in VPages : Mapped(v)' <=> Mapped(v)
  BY DEF Mapped
 <2>2. \A v \in VPages, c \in Clients : Leaving(c, v)' <=> Leaving(c, v)
  BY DEF Leaving
 <2>3. \A v \in VPages, c \in Clients : Leaving(c, v) => ctx'[c].ppage_id = ctx[c].ppage_id
  BY DEF Leaving
 <2>. QED  BY <2>1, <2>2, <2>3, ContentIs, ContentIsNext DEF ContentKept
<1>. QED  BY <1>1, <1>2, <1>3, <1>4, <1>5 DEF DataInv

\* The steps of a client that move neither a page nor its content.
LEMMA ClientQuiet ==
    ASSUME IndInv, IndInv', DataInv, NEW c \in Clients,
           \/ \E v \in VPages : DirectPin(c, v) \/ PinMiss(c, v)
           \/ Notify(c) \/ RequestPin(c)
    PROVE  DataInv' /\ ContentKept
<1>. USE DEF IndInv, Types
<1>1. UNCHANGED <<mem, disk, allocated, wrote, ctx>>
  BY DEF DirectPin, PinMiss, Notify, RequestPin, cache, server, data
<1>2. pc[c] # "wait" /\ \A d \in Clients : d # c => req'[d] = req[d]
  BY DEF DirectPin, PinMiss, MayPin, Notify, RequestPin, ClientType
<1>3. \A d \in Clients : InTransit(d) => req'[d] = req[d]
  BY <1>2 DEF ContextsShaped
<1>4. \A v \in VPages :
         /\ pte'[v].exist = pte[v].exist /\ pte'[v].busy = pte[v].busy
         /\ pte'[v].dirty = pte[v].dirty /\ pte'[v].ppage_id = pte[v].ppage_id
 <2>1. \/ pte' = pte
       \/ \E v \in VPages : pte' = [pte EXCEPT ![v] = Incremented(pte[v])]
  BY DEF DirectPin, PinMiss, Notify, RequestPin
 <2>. QED  BY <2>1 DEF PteType, Pte
<1>5. \A d \in Clients, v \in VPages : held[d][v] # None => held'[d][v] # None
 <2>1. \/ held' = held
       \/ \E v \in VPages : /\ held' = [held EXCEPT ![c][v] = pte[v].ppage_id]
                            /\ pte[v].exist
  BY DEF DirectPin, PinMiss, Notify, RequestPin
 <2>. QED  BY <2>1 DEF HeldType, EntriesShaped, CacheType
<1>. QED  BY <1>1, <1>3, <1>4, <1>5, QuietData

\* A stray reference changes the count only.
LEMMA StrayQuiet ==
    ASSUME IndInv, IndInv', StraysSound, DataInv, NEW c \in Clients,
           (\E v, w \in VPages : StrayPin(c, v, w)) \/ StrayUnpin(c)
    PROVE  DataInv' /\ ContentKept
<1>. USE DEF IndInv, Types
<1>1. UNCHANGED <<mem, disk, allocated, wrote, ctx, held>>
  BY DEF StrayPin, StrayUnpin, cache, server, data
<1>2. pc[c] # "wait" /\ \A d \in Clients : d # c => req'[d] = req[d]
  BY DEF StrayPin, StrayUnpin, MayPin, ClientType
<1>3. \A d \in Clients : InTransit(d) => req'[d] = req[d]
  BY <1>2 DEF ContextsShaped
<1>4. \A v \in VPages :
         /\ pte'[v].exist = pte[v].exist /\ pte'[v].busy = pte[v].busy
         /\ pte'[v].dirty = pte[v].dirty /\ pte'[v].ppage_id = pte[v].ppage_id
 <2>1. CASE \E w \in VPages : pte' = [pte EXCEPT ![w] = Incremented(pte[w])]
  BY <2>1 DEF PteType, Pte
 <2>2. CASE \E w \in VPages : pte' = [pte EXCEPT ![w] = Decremented(pte[w], FALSE)]
  <3>1. PICK w \in VPages : pte' = [pte EXCEPT ![w] = Decremented(pte[w], FALSE)]
    BY <2>2
  <3>2. pte[w].dirty \in BOOLEAN
    BY DEF PteType, Pte
  <3>3. pte'[w].dirty = pte[w].dirty
    BY <3>1, <3>2 DEF PteType, Pte
  <3>. QED  BY <3>1, <3>3 DEF PteType, Pte
 <2>. QED  BY <2>1, <2>2 DEF StrayPin, StrayUnpin, StraysSound
<1>. QED  BY <1>1, <1>3, <1>4, QuietData

\* Messages, refusals and waiting in the server.
LEMMA ServerQuiet ==
    ASSUME IndInv, IndInv', DataInv, NEW c \in Clients,
           \/ ServeNotifyPin(c) \/ ServeNotifyUnpin(c)
           \/ ServePinBusy(c) \/ PinRefused(c) \/ PinEvicts(c) \/ FiberSubmit(c)
    PROVE  DataInv' /\ ContentKept
<1>. USE DEF IndInv, Types
<1>1. UNCHANGED <<pte, held, mem, disk, allocated, wrote>>
  BY DEF ServeNotifyPin, ServeNotifyUnpin, ServePinBusy, PinRefused, AnswerEmpty, PinEvicts,
         FiberSubmit, cache, client, data
<1>2. CASE ServeNotifyPin(c) \/ ServeNotifyUnpin(c)
 <2>1. UNCHANGED <<ctx, req>>
  BY <1>2 DEF ServeNotifyPin, ServeNotifyUnpin, client
 <2>. QED  BY <1>1, <2>1, QuietData
<1>3. CASE ServePinBusy(c)
 <2>1. ctx[c].phase = "End" /\ ctx' = [ctx EXCEPT ![c].phase = "Begin"] /\ req' = req
  BY <1>3, PinTaken DEF ServePinBusy, client
 <2>2. ctx'[c].phase = "Begin" /\ \A d \in Clients : d # c => ctx'[d] = ctx[d]
  BY <2>1 DEF ContextType, Context
 <2>. QED  BY <1>1, <2>1, <2>2, QuietData
<1>4. CASE PinRefused(c) \/ PinEvicts(c)
 <2>1. /\ ctx[c].phase \in {"End", "Begin"} /\ ctx' = [ctx EXCEPT ![c] = NoContext]
       /\ \A d \in Clients : d # c => req'[d] = req[d]
  BY <1>4, DispatchedFacts DEF PinRefused, AnswerEmpty, PinEvicts, client, ClientType
 <2>2. ctx'[c].phase = "End" /\ \A d \in Clients : d # c => ctx'[d] = ctx[d]
  BY <2>1 DEF ContextType, NoContext
 <2>. QED  BY <1>1, <2>1, <2>2, QuietData
<1>5. CASE FiberSubmit(c)
 <2>1. ctx' = [ctx EXCEPT ![c].io = "submitted"] /\ req' = req
  BY <1>5 DEF FiberSubmit, client
 <2>2. /\ ctx'[c].phase = ctx[c].phase /\ ctx'[c].ppage_id = ctx[c].ppage_id
       /\ ctx'[c].pre_vpage_id = ctx[c].pre_vpage_id /\ ctx'[c].io = "submitted"
       /\ \A d \in Clients : d # c => ctx'[d] = ctx[d]
  BY <2>1 DEF ContextType, Context
 <2>. QED  BY <1>1, <2>1, <2>2, QuietData
<1>. QED  BY <1>2, <1>3, <1>4, <1>5

\* A pin by the server changes the count only.
LEMMA PinHitData ==
    ASSUME IndInv, IndInv', DataInv, NEW c \in Clients, PinHit(c)
    PROVE  DataInv' /\ ContentKept
<1>. USE DEF IndInv, Types
<1>1. UNCHANGED <<mem, disk, allocated, wrote>> /\ Dispatched(c, NoContext)
  BY DEF PinHit, data
<1>2. PICK v \in VPages : v = req[c].page
  BY <1>1, DispatchedFacts
<1>3. /\ ctx[c].phase \in {"End", "Begin"} /\ ctx' = [ctx EXCEPT ![c] = NoContext]
      /\ \A d \in Clients : d # c => req'[d] = req[d]
  BY <1>1, DispatchedFacts DEF PinHit, AnswerPointer, ClientType
<1>4. ctx'[c].phase = "End" /\ \A d \in Clients : d # c => ctx'[d] = ctx[d]
  BY <1>3 DEF ContextType, NoContext
<1>5. \A u \in VPages :
         /\ pte'[u].exist = pte[u].exist /\ pte'[u].busy = pte[u].busy
         /\ pte'[u].dirty = pte[u].dirty /\ pte'[u].ppage_id = pte[u].ppage_id
 <2>1. pte' = [pte EXCEPT ![v] = Incremented(pte[v])]
  BY <1>2 DEF PinHit
 <2>. QED  BY <2>1 DEF PteType, Pte
<1>6. \A d \in Clients, u \in VPages : held[d][u] # None => held'[d][u] # None
 <2>1. held' = [held EXCEPT ![c][v] = pte[v].ppage_id] /\ pte[v].exist
  BY <1>2 DEF PinHit, AnswerPointer
 <2>. QED  BY <2>1 DEF HeldType, EntriesShaped, CacheType
<1>. QED  BY <1>1, <1>3, <1>4, <1>5, <1>6, QuietData

\* The eviction loop until it locks a victim.
LEMMA LoopQuiet ==
    ASSUME IndInv, IndInv', DataInv,
           \/ \E p \in PPages : ServerPop(p)
           \/ ServerPopEmpty \/ ServerLockFails \/ UNCHANGED vars
    PROVE  DataInv' /\ ContentKept
<1>1. UNCHANGED <<pte, held, mem, disk, allocated, wrote, ctx, req>>
  BY DEF ServerPop, ServerPopEmpty, ServerLockFails, cache, server, client, data, vars
<1>. QED  BY <1>1, QuietData

\* Only the page written through the pointer gets another content.
LEMMA WriteData ==
    ASSUME IndInv, IndInv', DataInv, NEW c \in Clients, NEW v \in VPages, NEW x \in Values,
           Write(c, v, x)
    PROVE  /\ DataInv'
           /\ ContentOf(v)' = x /\ \A u \in VPages \ {v} : ContentOf(u)' = ContentOf(u)
<1>. USE DEF IndInv, Types
<1>1. PICK p \in PPages : p = held[c][v]
  BY DEF Write, HeldType
<1>2. /\ UNCHANGED <<pte, allocated, held, ctx, req, disk>>
      /\ mem' = [mem EXCEPT ![p] = x] /\ wrote' = [wrote EXCEPT ![c] = wrote[c] \cup {v}]
  BY <1>1 DEF Write, cache, server
<1>3. /\ mem'[p] = x /\ \A q \in PPages \ {p} : mem'[q] = mem[q]
      /\ v \in wrote'[c] /\ wrote'[c] = wrote[c] \cup {v}
      /\ \A d \in Clients : d # c => wrote'[d] = wrote[d]
  BY <1>2 DEF OtherType
<1>4. pte[v].exist /\ ~pte[v].busy /\ pte[v].ppage_id = p /\ held[c][v] # None
  BY <1>1 DEF PinnedStays, Write
<1>5. /\ \A u \in VPages \ {v} : pte[u].exist => pte[u].ppage_id \in PPages \ {p}
      /\ p \in allocated
  BY <1>4 DEF EntriesShaped, CacheType
<1>6. \A d \in Clients : InTransit(d) => ctx[d].ppage_id \in PPages \ {p}
 <2>1. ASSUME NEW d \in Clients, InTransit(d) PROVE ctx[d].ppage_id \in PPages \ {p}
  <3>1. req[d].page \in VPages
    BY <2>1 DEF ContextsShaped, RequestsShaped, Request
  <3>2. pte[req[d].page].exist /\ pte[req[d].page].busy
        /\ pte[req[d].page].ppage_id = ctx[d].ppage_id
    BY <2>1 DEF TransitSound
  <3>. QED  BY <1>4, <1>5, <3>1, <3>2
 <2>. QED  BY <2>1
<1>7. CleanOnDisk'
  BY <1>2, <1>3, <1>5 DEF DataInv, CleanOnDisk, Mapped
<1>8. NothingYet'
  BY <1>2, <1>3, <1>5 DEF DataInv, NothingYet, full
<1>9. TransfersDone'
  BY <1>2, <1>3, <1>6 DEF DataInv, TransfersDone
<1>10. WritersHold'
  BY <1>2, <1>3, <1>4 DEF DataInv, WritersHold
<1>11. ContentOf(v)' = x
  BY <1>2, <1>3, <1>4, ContentIsNext DEF Mapped
<1>12. ASSUME NEW u \in VPages \ {v} PROVE ContentOf(u)' = ContentOf(u)
 <2>1. Mapped(u)' <=> Mapped(u)
  BY <1>2 DEF Mapped
 <2>2. \A d \in Clients : Leaving(d, u)' <=> Leaving(d, u)
  BY <1>2 DEF Leaving
 <2>3. \A d \in Clients : Leaving(d, u) => mem'[ctx'[d].ppage_id] = mem[ctx[d].ppage_id]
  BY <1>2, <1>3, <1>6 DEF Leaving
 <2>4. Mapped(u) => mem'[pte'[u].ppage_id] = mem[pte[u].ppage_id]
  BY <1>2, <1>3, <1>5 DEF Mapped
 <2>5. disk'[u] = disk[u]
  BY <1>2
 <2>. QED  BY <2>1, <2>2, <2>3, <2>4, <2>5, ContentIs, ContentIsNext
<1>. QED  BY <1>7, <1>8, <1>9, <1>10, <1>11, <1>12 DEF DataInv

\* The unpin of a writer marks the page dirty.
LEMMA UnpinData ==
    ASSUME IndInv, IndInv', DataInv, NEW c \in Clients, NEW v \in VPages, Unpin(c, v)
    PROVE  DataInv' /\ ContentKept
<1>. USE DEF IndInv, Types
<1>1. /\ UNCHANGED <<allocated, ctx, mem, disk>> /\ pc[c] = "idle"
      /\ held' = [held EXCEPT ![c][v] = None] /\ wrote' = [wrote EXCEPT ![c] = wrote[c] \ {v}]
  BY DEF Unpin, cache, server, data
<1>2. /\ wrote'[c] = wrote[c] \ {v} /\ \A d \in Clients : d # c => wrote'[d] = wrote[d]
      /\ \A d \in Clients, u \in VPages : d # c \/ u # v => held'[d][u] = held[d][u]
  BY <1>1 DEF OtherType, HeldType
<1>3. \A d \in Clients : InTransit(d) => req'[d] = req[d]
  BY <1>1 DEF Unpin, ContextsShaped, ClientType
<1>4. /\ pte'[v].exist = pte[v].exist /\ pte'[v].busy = pte[v].busy
      /\ pte'[v].ppage_id = pte[v].ppage_id
      /\ pte'[v].dirty = (pte[v].dirty \/ v \in wrote[c])
      /\ \A u \in VPages \ {v} : pte'[u] = pte[u]
 <2>1. pte' = [pte EXCEPT ![v] = Decremented(pte[v], v \in wrote[c])]
  BY DEF Unpin
 <2>. QED  BY <2>1 DEF PteType, Pte
<1>5. CleanOnDisk'
 <2>1. ASSUME NEW u \in VPages, Mapped(u)', ~pte'[u].dirty,
              \A d \in Clients : u \notin wrote'[d]
       PROVE  mem'[pte'[u].ppage_id] = disk'[u]
  <3>1. Mapped(u) /\ ~pte[u].dirty /\ pte'[u].ppage_id = pte[u].ppage_id
    BY <1>4, <2>1 DEF Mapped
  <3>2. \A d \in Clients : u \notin wrote[d]
    BY <1>2, <1>4, <2>1
  <3>. QED  BY <1>1, <3>1, <3>2 DEF DataInv, CleanOnDisk
 <2>. QED  BY <2>1 DEF CleanOnDisk
<1>6. NothingYet'
  BY <1>1 DEF DataInv, NothingYet, full
<1>7. TransfersDone'
  BY <1>1, <1>3 DEF DataInv, TransfersDone
<1>8. WritersHold'
 <2>1. \A d \in Clients : wrote[d] \in SUBSET VPages
  BY DEF OtherType
 <2>. QED  BY <1>2, <2>1 DEF DataInv, WritersHold
<1>9. ContentKept
 <2>1. \A u \in VPages : (Mapped(u)' <=> Mapped(u)) /\ pte'[u].ppage_id = pte[u].ppage_id
  BY <1>4 DEF Mapped
 <2>2. \A u \in VPages, d \in Clients : Leaving(d, u)' <=> Leaving(d, u)
  BY <1>1 DEF Leaving
 <2>. QED  BY <1>1, <2>1, <2>2, ContentIs, ContentIsNext DEF ContentKept
<1>. QED  BY <1>5, <1>6, <1>7, <1>8, <1>9 DEF DataInv

\* A page in a frame used for the first time: nothing was ever written back.
LEMMA PinAllocatedData ==
    ASSUME IndInv, IndInv', DataInv, NEW c \in Clients, NEW p \in PPages,
           PinAllocated(c, p) \/ PinAllocatedRead(c, p)
    PROVE  DataInv' /\ ContentKept
<1>. USE DEF IndInv, Types
<1>1. /\ UNCHANGED <<mem, disk, wrote>> /\ p \notin allocated
      /\ allocated' = allocated \cup {p}
  BY DEF PinAllocated, PinAllocatedRead, data, client
<1>2. PICK k \in {NoContext, Deferred("Loading", p, None)} : Dispatched(c, k)
  BY DEF PinAllocated, PinAllocatedRead
<1>3. /\ ctx[c].phase \in {"End", "Begin"} /\ ctx' = [ctx EXCEPT ![c] = k]
      /\ req[c].page \in VPages
  BY <1>2, DispatchedFacts
<1>4. /\ ctx'[c] = k /\ k.phase \in {"End", "Loading"} /\ k.io # "finished"
      /\ \A d \in Clients : d # c => ctx'[d] = ctx[d]
  BY <1>3 DEF ContextType, NoContext, Deferred
<1>5. PICK v \in VPages : v = req[c].page
  BY <1>3
<1>6. PICK b \in BOOLEAN : pte' = [pte EXCEPT ![v] = NewMapping(p, b)]
  BY <1>5 DEF PinAllocated, PinAllocatedRead
<1>7. /\ pte'[v].exist /\ pte'[v].ppage_id = p
      /\ \A u \in VPages \ {v} : pte'[u] = pte[u]
      /\ ~pte[v].exist /\ ~pte[v].busy
 <2>1. ~pte[v].exist /\ ~pte[v].busy
  BY <1>5 DEF PinAllocated, PinAllocatedRead
 <2>. QED  BY <1>6, <2>1 DEF PteType, NewMapping
<1>8. \A d \in Clients : d # c => req'[d] = req[d]
  BY DEF PinAllocated, PinAllocatedRead, AnswerPointer, client, ClientType
<1>9. \A d \in Clients, u \in VPages : held[d][u] # None => held'[d][u] # None
 <2>1. held' = held \/ held' = [held EXCEPT ![c][v] = p]
  BY <1>5 DEF PinAllocated, PinAllocatedRead, AnswerPointer, client
 <2>. QED  BY <2>1 DEF HeldType
<1>10. /\ ~full /\ mem[p] = None /\ \A u \in VPages : disk[u] = None
       /\ \A d \in Clients : ctx[d].phase # "Evicting"
       /\ \A d \in Clients : ctx'[d].phase # "Evicting"
  BY <1>1, <1>4 DEF DataInv, NothingYet, full
<1>11. CleanOnDisk'
  BY <1>1, <1>7, <1>10 DEF DataInv, CleanOnDisk, Mapped
<1>12. NothingYet'
  BY <1>1, <1>10 DEF DataInv, NothingYet
<1>13. TransfersDone'
  BY <1>1, <1>4, <1>8 DEF DataInv, TransfersDone
<1>14. WritersHold'
 <2>1. \A d \in Clients : wrote[d] \in SUBSET VPages
  BY DEF OtherType
 <2>. QED  BY <1>1, <1>9, <2>1 DEF DataInv, WritersHold
<1>15. ContentKept
 <2>1. \A d \in Clients, u \in VPages : ~Leaving(d, u) /\ ~Leaving(d, u)'
  BY <1>10 DEF Leaving
 <2>2. ContentOf(v)' = ContentOf(v)
  BY <1>1, <1>7, <1>10, <2>1, ContentIs, ContentIsNext DEF Mapped
 <2>3. \A u \in VPages \ {v} : ContentOf(u)' = ContentOf(u)
  BY <1>1, <1>7, <2>1, ContentIs, ContentIsNext DEF Mapped
 <2>. QED  BY <2>2, <2>3 DEF ContentKept
<1>. QED  BY <1>11, <1>12, <1>13, <1>14, <1>15 DEF DataInv

\* The victim's content is its block's if it is clean, and stays in the frame until the
\* write-back has finished if it is dirty.
LEMMA ServerLockData ==
    ASSUME IndInv, IndInv', DataInv, DirtyFresh, ServerLock
    PROVE  DataInv' /\ ContentKept
<1>. USE DEF IndInv, Types
<1>1. /\ UNCHANGED <<mem, disk, wrote, allocated, held, req>> /\ srv_pc = "lock"
      /\ job \in Clients /\ victim \in PPages
  BY DEF ServerLock, data, client, JobShaped, JobType
<1>2. PICK w \in VPages : w = owner[victim]
  BY <1>1 DEF JobShaped, CacheType
<1>3. PICK v \in VPages : v = req[job].page
  BY <1>1 DEF JobShaped, RequestsShaped, Request
<1>4. /\ pte[w].exist /\ ~pte[w].busy /\ pte[w].ppage_id = victim /\ pte[w].ref_count = 0
      /\ ~pte[v].exist /\ ~pte[v].busy /\ full /\ ctx[job].phase = "End"
  BY <1>1, <1>2, <1>3 DEF JobShaped, ServerLock
<1>5. pre_dirty = pte[w].dirty
  BY <1>1, <1>2, <1>4 DEF DirtyFresh
<1>6. PICK k \in {Deferred("Evicting", victim, w), Deferred("Loading", victim, None)} :
         /\ ctx' = [ctx EXCEPT ![job] = k]
         /\ IF pre_dirty THEN k = Deferred("Evicting", victim, w)
                         ELSE k = Deferred("Loading", victim, None)
  BY <1>2 DEF ServerLock
<1>7. ctx'[job] = k /\ \A d \in Clients : d # job => ctx'[d] = ctx[d]
  BY <1>1, <1>6 DEF ContextType
<1>8. /\ ~pte'[w].exist /\ pte'[v].exist /\ pte'[v].busy
      /\ \A u \in VPages \ {v, w} : pte'[u] = pte[u]
 <2>1. pte' = [pte EXCEPT ![w] = Emptied(pre_dirty), ![v] = NewMapping(victim, TRUE)]
  BY <1>2, <1>3 DEF ServerLock
 <2>. QED  BY <1>4, <2>1 DEF PteType, Emptied, EmptyPte, NewMapping
<1>9. k.io = "deferred" /\ k.ppage_id = victim
  BY <1>6 DEF Deferred
<1>10. CleanOnDisk'
  BY <1>1, <1>8 DEF DataInv, CleanOnDisk, Mapped
<1>11. NothingYet'
  BY <1>1, <1>4 DEF DataInv, NothingYet, full
<1>12. TransfersDone'
  BY <1>1, <1>7, <1>9 DEF DataInv, TransfersDone
<1>13. WritersHold'
  BY <1>1 DEF DataInv, WritersHold
<1>14. \A d \in Clients, u \in VPages :
          Leaving(d, u)' <=> IF d = job THEN pre_dirty /\ u = w ELSE Leaving(d, u)
 <2>1. k.phase = "Evicting" <=> pre_dirty
  BY <1>6 DEF Deferred
 <2>2. pre_dirty => k.pre_vpage_id = w
  BY <1>6 DEF Deferred
 <2>. QED  BY <1>7, <2>1, <2>2 DEF Leaving
<1>15. \A d \in Clients : ~Leaving(d, v) /\ ~Leaving(d, w) /\ \A u \in VPages : ~Leaving(job, u)
  BY <1>4, LeavingFacts DEF Leaving
<1>16. ContentOf(v)' = ContentOf(v)
  BY <1>1, <1>4, <1>8, <1>14, <1>15, ContentIs, ContentIsNext DEF Mapped
<1>17. ContentOf(w)' = ContentOf(w)
 <2>1. ContentOf(w) = mem[victim]
  BY <1>4, ContentIs DEF Mapped
 <2>2. CASE pre_dirty
  BY <1>1, <1>7, <1>9, <1>14, <2>1, <2>2, ContentIsNext
 <2>3. CASE ~pre_dirty
  <3>1. \A c \in Clients : w \notin wrote[c]
    BY <1>4, NoReferences DEF DataInv, WritersHold
  <3>2. mem[victim] = disk[w]
    BY <1>4, <1>5, <2>3, <3>1 DEF DataInv, CleanOnDisk, Mapped
  <3>. QED  BY <1>1, <1>8, <1>14, <1>15, <2>1, <2>3, <3>2, ContentIsNext DEF Mapped
 <2>. QED  BY <2>2, <2>3
<1>18. ASSUME NEW u \in VPages \ {v, w} PROVE ContentOf(u)' = ContentOf(u)
 <2>1. Mapped(u)' <=> Mapped(u)
  BY <1>8 DEF Mapped
 <2>2. \A d \in Clients : Leaving(d, u)' <=> Leaving(d, u)
  BY <1>14, <1>15
 <2>3. \A d \in Clients : Leaving(d, u) => ctx'[d] = ctx[d]
  BY <1>7, <1>15
 <2>. QED  BY <1>1, <1>8, <2>1, <2>2, <2>3, ContentIs, ContentIsNext
<1>. QED  BY <1>10, <1>11, <1>12, <1>13, <1>16, <1>17, <1>18 DEF DataInv, ContentKept

\* The frame of a page on its way in is nobody else's.
LEMMA TransitFrame ==
    ASSUME IndInv, NEW c \in Clients, InTransit(c)
    PROVE  /\ req[c].page \in VPages /\ ctx[c].ppage_id \in allocated
           /\ \A u \in VPages : Mapped(u) => pte[u].ppage_id # ctx[c].ppage_id
           /\ \A d \in Clients \ {c} : InTransit(d) => ctx[d].ppage_id # ctx[c].ppage_id
<1>. USE DEF IndInv, Types
<1>1. \A d \in Clients : InTransit(d) =>
          /\ req[d].page \in VPages
          /\ pte[req[d].page].exist /\ pte[req[d].page].busy
          /\ pte[req[d].page].ppage_id = ctx[d].ppage_id
  BY DEF ContextsShaped, RequestsShaped, Request, TransitSound
<1>2. \A d \in Clients \ {c} : InTransit(d) => req[d].page # req[c].page
  BY DEF TransitSound
<1>3. ctx[c].ppage_id \in allocated
  BY <1>1 DEF EntriesShaped
<1>4. \A u \in VPages : Mapped(u) => pte[u].ppage_id # ctx[c].ppage_id
  BY <1>1 DEF EntriesShaped, Mapped
<1>5. \A d \in Clients \ {c} : InTransit(d) => ctx[d].ppage_id # ctx[c].ppage_id
  BY <1>1, <1>2 DEF EntriesShaped
<1>. QED  BY <1>1, <1>3, <1>4, <1>5

\* The write-back makes the block equal to the frame, which is where the content is.
LEMMA DeviceWriteData ==
    ASSUME IndInv, IndInv', DataInv, NEW c \in Clients, DeviceWrite(c)
    PROVE  DataInv' /\ ContentKept
<1>. USE DEF IndInv, Types
<1>1. /\ UNCHANGED <<pte, allocated, mem, req, held, wrote>>
      /\ ctx[c].phase = "Evicting" /\ ctx' = [ctx EXCEPT ![c].io = "finished"]
  BY DEF DeviceWrite, Completed, cache, client
<1>2. PICK w \in VPages : w = ctx[c].pre_vpage_id
  BY <1>1 DEF ContextsShaped
<1>3. /\ disk'[w] = mem[ctx[c].ppage_id] /\ \A u \in VPages \ {w} : disk'[u] = disk[u]
 <2>1. disk' = [disk EXCEPT ![w] = mem[ctx[c].ppage_id]]
  BY <1>2 DEF DeviceWrite
 <2>. QED  BY <2>1 DEF OtherType
<1>4. /\ ctx'[c].phase = "Evicting" /\ ctx'[c].ppage_id = ctx[c].ppage_id
      /\ ctx'[c].pre_vpage_id = w
      /\ \A d \in Clients : d # c => ctx'[d] = ctx[d]
  BY <1>1, <1>2 DEF ContextType, Context
<1>5. ~pte[w].exist /\ full
  BY <1>1, <1>2 DEF TransitSound, DataInv, NothingYet
<1>6. CleanOnDisk'
  BY <1>1, <1>3, <1>5 DEF DataInv, CleanOnDisk, Mapped
<1>7. NothingYet'
  BY <1>1, <1>5 DEF DataInv, NothingYet, full
<1>8. TransfersDone'
 <2>1. ASSUME NEW d \in Clients, d # c, InTransit(d)
       PROVE  /\ req[d].page \in VPages \ {w}
              /\ ctx[d].phase = "Evicting" => ctx[d].pre_vpage_id \in VPages \ {w}
  BY <1>1, <1>2, <1>5, <2>1, TransitFrame DEF TransitSound, ContextsShaped
 <2>2. ASSUME NEW d \in Clients, d # c, ctx'[d].io = "finished"
       PROVE  /\ ctx'[d].phase = "Evicting" =>
                   disk'[ctx'[d].pre_vpage_id] = mem'[ctx'[d].ppage_id]
              /\ ctx'[d].phase = "Loading" => disk'[req'[d].page] = mem'[ctx'[d].ppage_id]
  BY <1>1, <1>3, <1>4, <2>1, <2>2 DEF DataInv, TransfersDone
 <2>3. disk'[ctx'[c].pre_vpage_id] = mem'[ctx'[c].ppage_id]
  BY <1>1, <1>3, <1>4
 <2>. QED  BY <1>4, <2>2, <2>3 DEF TransfersDone
<1>9. WritersHold'
  BY <1>1 DEF DataInv, WritersHold
<1>10. ContentKept
 <2>1. \A u \in VPages, d \in Clients :
          /\ Leaving(d, u)' <=> Leaving(d, u)
          /\ ctx'[d].ppage_id = ctx[d].ppage_id
  BY <1>1, <1>2, <1>4 DEF Leaving
 <2>2. \A u \in VPages : Mapped(u)' <=> Mapped(u)
  BY <1>1 DEF Mapped
 <2>3. Leaving(c, w)
  BY <1>1, <1>2 DEF Leaving
 <2>4. ContentOf(w)' = ContentOf(w)
  BY <1>1, <2>1, <2>3, ContentIs, ContentIsNext
 <2>5. \A u \in VPages \ {w} : ContentOf(u)' = ContentOf(u)
  BY <1>1, <1>3, <2>1, <2>2, ContentIs, ContentIsNext
 <2>. QED  BY <2>4, <2>5 DEF ContentKept
<1>. QED  BY <1>6, <1>7, <1>8, <1>9, <1>10 DEF DataInv

\* The read fills a frame that holds no content of any page.
LEMMA DeviceReadData ==
    ASSUME IndInv, IndInv', DataInv, NEW c \in Clients, DeviceRead(c)
    PROVE  DataInv' /\ ContentKept
<1>. USE DEF IndInv, Types
<1>1. /\ UNCHANGED <<pte, allocated, disk, req, held, wrote>>
      /\ ctx[c].phase = "Loading" /\ ctx' = [ctx EXCEPT ![c].io = "finished"]
  BY DEF DeviceRead, Completed, cache, client
<1>2. PICK p \in PPages : p = ctx[c].ppage_id
  BY <1>1 DEF ContextsShaped
<1>3. mem'[p] = disk[req[c].page] /\ \A q \in PPages \ {p} : mem'[q] = mem[q]
 <2>1. mem' = [mem EXCEPT ![p] = disk[req[c].page]]
  BY <1>2 DEF DeviceRead
 <2>. QED  BY <2>1 DEF OtherType
<1>4. /\ ctx'[c].phase = "Loading" /\ ctx'[c].ppage_id = p
      /\ \A d \in Clients : d # c => ctx'[d] = ctx[d]
  BY <1>1, <1>2 DEF ContextType, Context
<1>5. /\ p \in allocated
      /\ \A u \in VPages : Mapped(u) => pte[u].ppage_id \in PPages \ {p}
      /\ \A d \in Clients \ {c} : InTransit(d) => ctx[d].ppage_id \in PPages \ {p}
 <2>1. \A u \in VPages : Mapped(u) => pte[u].ppage_id \in PPages
  BY DEF Mapped, EntriesShaped, CacheType
 <2>2. \A d \in Clients : InTransit(d) => ctx[d].ppage_id \in PPages
  BY DEF ContextsShaped
 <2>. QED  BY <1>1, <1>2, <2>1, <2>2, TransitFrame
<1>6. CleanOnDisk'
 <2>1. ASSUME NEW u \in VPages, Mapped(u) PROVE mem'[pte[u].ppage_id] = mem[pte[u].ppage_id]
  BY <1>3, <1>5, <2>1
 <2>. QED  BY <1>1, <2>1 DEF DataInv, CleanOnDisk, Mapped
<1>7. NothingYet'
  BY <1>1, <1>3, <1>4, <1>5 DEF DataInv, NothingYet, full
<1>8. TransfersDone'
  BY <1>1, <1>3, <1>4, <1>5 DEF DataInv, TransfersDone
<1>9. WritersHold'
  BY <1>1 DEF DataInv, WritersHold
<1>10. ContentKept
 <2>1. \A u \in VPages, d \in Clients : Leaving(d, u)' <=> Leaving(d, u)
  BY <1>1, <1>4 DEF Leaving
 <2>2. \A u \in VPages : Mapped(u)' <=> Mapped(u)
  BY <1>1 DEF Mapped
 <2>3. \A u \in VPages : Mapped(u) => mem'[pte'[u].ppage_id] = mem[pte[u].ppage_id]
  BY <1>1, <1>3, <1>5
 <2>4. \A u \in VPages, d \in Clients :
          Leaving(d, u) => mem'[ctx'[d].ppage_id] = mem[ctx[d].ppage_id]
  BY <1>1, <1>3, <1>4, <1>5 DEF Leaving
 <2>. QED  BY <1>1, <2>1, <2>2, <2>3, <2>4, ContentIs, ContentIsNext DEF ContentKept
<1>. QED  BY <1>6, <1>7, <1>8, <1>9, <1>10 DEF DataInv

\* The content of the victim is now on disk, where the write-back put it.
LEMMA FiberEvictedData ==
    ASSUME IndInv, IndInv', DataInv, NEW c \in Clients, FiberEvicted(c)
    PROVE  DataInv' /\ ContentKept
<1>. USE DEF IndInv, Types
<1>1. /\ UNCHANGED <<allocated, mem, disk, req, held, wrote>>
      /\ ctx[c].phase = "Evicting" /\ ctx[c].io = "finished"
      /\ ctx' = [ctx EXCEPT ![c] = Deferred("Loading", ctx[c].ppage_id, None)]
  BY DEF FiberEvicted, data, client
<1>2. PICK w \in VPages : w = ctx[c].pre_vpage_id
  BY <1>1 DEF ContextsShaped
<1>3. /\ ctx'[c].phase = "Loading" /\ ctx'[c].io = "deferred"
      /\ \A d \in Clients : d # c => ctx'[d] = ctx[d]
  BY <1>1 DEF ContextType, Deferred
<1>4. ~pte[w].exist
  BY <1>1, <1>2 DEF TransitSound
<1>5. ~pte'[w].exist /\ \A u \in VPages \ {w} : pte'[u] = pte[u]
 <2>1. pte' = [pte EXCEPT ![w].busy = FALSE]
  BY <1>2 DEF FiberEvicted
 <2>. QED  BY <1>4, <2>1 DEF PteType, Pte
<1>6. disk[w] = mem[ctx[c].ppage_id]
  BY <1>1, <1>2 DEF DataInv, TransfersDone
<1>7. CleanOnDisk'
  BY <1>1, <1>5 DEF DataInv, CleanOnDisk, Mapped
<1>8. NothingYet'
  BY <1>1, <1>3 DEF DataInv, NothingYet, full
<1>9. TransfersDone'
  BY <1>1, <1>3 DEF DataInv, TransfersDone
<1>10. WritersHold'
  BY <1>1 DEF DataInv, WritersHold
<1>11. Leaving(c, w) /\ \A d \in Clients : ~Leaving(d, w)'
 <2>1. Leaving(c, w)
  BY <1>1, <1>2 DEF Leaving
 <2>2. \A d \in Clients : d # c => ~Leaving(d, w)
  BY <2>1, LeavingFacts
 <2>. QED  BY <1>3, <2>1, <2>2 DEF Leaving
<1>12. ContentOf(w)' = ContentOf(w)
  BY <1>1, <1>5, <1>6, <1>11, ContentIs, ContentIsNext DEF Mapped
<1>13. ASSUME NEW u \in VPages \ {w} PROVE ContentOf(u)' = ContentOf(u)
 <2>1. \A d \in Clients : /\ Leaving(d, u)' <=> Leaving(d, u)
                          /\ Leaving(d, u) => ctx'[d] = ctx[d]
  BY <1>2, <1>3 DEF Leaving
 <2>2. Mapped(u)' <=> Mapped(u)
  BY <1>5 DEF Mapped
 <2>. QED  BY <1>1, <1>5, <2>1, <2>2, ContentIs, ContentIsNext
<1>. QED  BY <1>7, <1>8, <1>9, <1>10, <1>12, <1>13 DEF DataInv, ContentKept

\* The content of the page is now in the frame, where the read put it.
LEMMA FiberLoadedData ==
    ASSUME IndInv, IndInv', DataInv, NEW c \in Clients, FiberLoaded(c)
    PROVE  DataInv' /\ ContentKept
<1>. USE DEF IndInv, Types
<1>1. /\ UNCHANGED <<allocated, mem, disk, wrote>>
      /\ ctx[c].phase = "Loading" /\ ctx[c].io = "finished"
      /\ ctx' = [ctx EXCEPT ![c] = NoContext]
  BY DEF FiberLoaded, data, cache
<1>2. PICK v \in VPages : v = req[c].page /\ pte[v].exist /\ pte[v].ppage_id = ctx[c].ppage_id
                          /\ pte[v].busy
  BY <1>1, TransitFrame DEF TransitSound
<1>3. /\ ctx'[c].phase = "End" /\ ctx'[c].io = "none"
      /\ \A d \in Clients : d # c => ctx'[d] = ctx[d]
  BY <1>1 DEF ContextType, NoContext
<1>4. /\ pte'[v].exist /\ ~pte'[v].busy /\ pte'[v].ppage_id = pte[v].ppage_id
      /\ \A u \in VPages \ {v} : pte'[u] = pte[u]
 <2>1. pte' = [pte EXCEPT ![v].busy = FALSE]
  BY <1>2 DEF FiberLoaded
 <2>. QED  BY <1>2, <2>1 DEF PteType, Pte
<1>5. \A d \in Clients : d # c => req'[d] = req[d]
  BY DEF FiberLoaded, AnswerPointer, ClientType
<1>6. \A d \in Clients, u \in VPages : held[d][u] # None => held'[d][u] # None
 <2>1. held' = [held EXCEPT ![c][v] = ctx[c].ppage_id] /\ ctx[c].ppage_id \in PPages
  BY <1>1, <1>2 DEF FiberLoaded, AnswerPointer, ContextsShaped
 <2>. QED  BY <2>1 DEF HeldType
<1>7. mem[pte[v].ppage_id] = disk[v]
  BY <1>1, <1>2 DEF DataInv, TransfersDone
<1>8. CleanOnDisk'
  BY <1>1, <1>4, <1>7 DEF DataInv, CleanOnDisk, Mapped
<1>9. NothingYet'
  BY <1>1, <1>3 DEF DataInv, NothingYet, full
<1>10. TransfersDone'
  BY <1>1, <1>3, <1>5 DEF DataInv, TransfersDone
<1>11. WritersHold'
 <2>1. \A d \in Clients : wrote[d] \in SUBSET VPages
  BY DEF OtherType
 <2>. QED  BY <1>1, <1>6, <2>1 DEF DataInv, WritersHold
<1>12. \A d \in Clients, u \in VPages : /\ Leaving(d, u)' <=> Leaving(d, u)
                                        /\ Leaving(d, u) => ctx'[d] = ctx[d]
  BY <1>1, <1>3 DEF Leaving
<1>13. ContentOf(v)' = ContentOf(v)
 <2>1. \A d \in Clients : ~Leaving(d, v)
  BY <1>2, LeavingFacts
 <2>. QED  BY <1>1, <1>2, <1>4, <1>7, <2>1, ContentIs, ContentIsNext DEF Mapped
<1>14. ASSUME NEW u \in VPages \ {v} PROVE ContentOf(u)' = ContentOf(u)
 <2>1. Mapped(u)' <=> Mapped(u)
  BY <1>4 DEF Mapped
 <2>. QED  BY <1>1, <1>4, <1>12, <2>1, ContentIs, ContentIsNext
<1>. QED  BY <1>8, <1>9, <1>10, <1>11, <1>13, <1>14 DEF DataInv, ContentKept

-----------------------------------------------------------------------------
\* What the refinement maps the variables of AddressSpace to.
Content == [v \in VPages |-> ContentOf(v)]
Pins == [c \in Clients |-> HeldBy(c)]

\* A reference gained or given back is a Pin or an Unpin of the address space.
LEMMA PinStep ==
    ASSUME IndInv, ContentKept, NEW c \in Clients, NEW v \in VPages, NEW p \in PPages,
           held[c][v] = None, held' = [held EXCEPT ![c][v] = p]
    PROVE  AS!Pin(c, v)
<1>1. HeldBy(c)' = HeldBy(c) \cup {v} /\ \A d \in Clients : d # c => HeldBy(d)' = HeldBy(d)
  BY DEF HeldBy, IndInv, Types, HeldType
<1>2. v \notin HeldBy(c)
  BY DEF HeldBy
<1>3. [d \in Clients |-> HeldBy(d)]' = [Pins EXCEPT ![c] = Pins[c] \cup {v}]
  BY <1>1 DEF Pins
<1>4. [u \in VPages |-> ContentOf(u)]' = [u \in VPages |-> ContentOf(u)]
  BY DEF ContentKept
<1>. QED  BY <1>2, <1>3, <1>4 DEF AS!Pin, Pins

\* A reference given back is an Unpin.
LEMMA UnpinStepRefines ==
    ASSUME IndInv, ContentKept, NEW c \in Clients, NEW v \in VPages,
           held[c][v] # None, held' = [held EXCEPT ![c][v] = None]
    PROVE  AS!Unpin(c, v)
<1>1. HeldBy(c)' = HeldBy(c) \ {v} /\ \A d \in Clients : d # c => HeldBy(d)' = HeldBy(d)
  BY DEF HeldBy, IndInv, Types, HeldType
<1>2. v \in HeldBy(c)
  BY DEF HeldBy
<1>3. [d \in Clients |-> HeldBy(d)]' = [Pins EXCEPT ![c] = Pins[c] \ {v}]
  BY <1>1 DEF Pins
<1>4. [u \in VPages |-> ContentOf(u)]' = [u \in VPages |-> ContentOf(u)]
  BY DEF ContentKept
<1>. QED  BY <1>2, <1>3, <1>4 DEF AS!Unpin, Pins

\* A store is a Write.
LEMMA WriteStepRefines ==
    ASSUME NEW c \in Clients, NEW v \in VPages, NEW x, UNCHANGED held, held[c][v] # None,
           ContentOf(v)' = x, \A u \in VPages \ {v} : ContentOf(u)' = ContentOf(u)
    PROVE  AS!Write(c, v, x)
<1>1. v \in HeldBy(c) /\ \A d \in Clients : HeldBy(d)' = HeldBy(d)
  BY DEF HeldBy
<1>2. [d \in Clients |-> HeldBy(d)]' = [d \in Clients |-> HeldBy(d)]
  BY <1>1
<1>3. [u \in VPages |-> ContentOf(u)]' = [Content EXCEPT ![v] = x]
  BY DEF Content
<1>. QED  BY <1>1, <1>2, <1>3 DEF AS!Write, Content

\* Everything else is invisible.
LEMMA StutterRefines ==
    ASSUME ContentKept, UNCHANGED held
    PROVE  UNCHANGED <<[v \in VPages |-> ContentOf(v)], [c \in Clients |-> HeldBy(c)]>>
<1>1. \A d \in Clients : HeldBy(d)' = HeldBy(d)
  BY DEF HeldBy
<1>. QED  BY <1>1 DEF ContentKept

\* Every step of the partition is a step of the address space or leaves it alone.
LEMMA NextRefines ==
    ASSUME IndInv, IndInv', StraysSound, DataInv, DirtyFresh, [Next]_vars
    PROVE  /\ DataInv'
           /\ [AS!Next]_<<[v \in VPages |-> ContentOf(v)], [c \in Clients |-> HeldBy(c)]>>
<1>. DEFINE Stutter == UNCHANGED <<[v \in VPages |-> ContentOf(v)], [c \in Clients |-> HeldBy(c)]>>
<1>1. ASSUME NEW c \in Clients, ClientStep(c) PROVE DataInv' /\ (AS!Next \/ Stutter)
 <2>1. ASSUME NEW v \in VPages, DirectPin(c, v) PROVE DataInv' /\ AS!Next
  <3>1. DataInv' /\ ContentKept
    BY <2>1, ClientQuiet
  <3>2. /\ held[c][v] = None /\ held' = [held EXCEPT ![c][v] = pte[v].ppage_id]
        /\ pte[v].ppage_id \in PPages
    BY <2>1 DEF DirectPin, MayPin, IndInv, Types, EntriesShaped, CacheType
  <3>3. AS!Pin(c, v)
    BY <3>1, <3>2, PinStep
  <3>. QED  BY <3>1, <3>3 DEF AS!Next
 <2>2. ASSUME (\E v \in VPages : PinMiss(c, v)) \/ Notify(c) \/ RequestPin(c)
       PROVE  DataInv' /\ Stutter
  <3>1. DataInv' /\ ContentKept
    BY <2>2, ClientQuiet
  <3>2. UNCHANGED held
    BY <2>2 DEF PinMiss, Notify, RequestPin
  <3>. QED  BY <3>1, <3>2, StutterRefines
 <2>3. ASSUME NEW v \in VPages, Unpin(c, v) PROVE DataInv' /\ AS!Next
  <3>1. DataInv' /\ ContentKept
    BY <2>3, UnpinData
  <3>2. held[c][v] # None /\ held' = [held EXCEPT ![c][v] = None]
    BY <2>3 DEF Unpin
  <3>3. AS!Unpin(c, v)
    BY <3>1, <3>2, UnpinStepRefines
  <3>. QED  BY <3>1, <3>3 DEF AS!Next
 <2>4. ASSUME NEW v \in VPages, NEW x \in Values, Write(c, v, x) PROVE DataInv' /\ AS!Next
  <3>1. /\ DataInv' /\ ContentOf(v)' = x
        /\ \A u \in VPages \ {v} : ContentOf(u)' = ContentOf(u)
    BY <2>4, WriteData
  <3>2. held[c][v] # None /\ UNCHANGED held
    BY <2>4 DEF Write
  <3>3. AS!Write(c, v, x)
    BY <3>1, <3>2, WriteStepRefines
  <3>. QED  BY <3>1, <3>3 DEF AS!Next
 <2>5. ASSUME (\E v, w \in VPages : StrayPin(c, v, w)) \/ StrayUnpin(c)
       PROVE  DataInv' /\ Stutter
  <3>1. DataInv' /\ ContentKept
    BY <2>5, StrayQuiet
  <3>2. UNCHANGED held
    BY <2>5 DEF StrayPin, StrayUnpin
  <3>. QED  BY <3>1, <3>2, StutterRefines
 <2>. QED  BY <1>1, <2>1, <2>2, <2>3, <2>4, <2>5 DEF ClientStep
<1>2. ASSUME NEW c \in Clients, ServerStep(c) PROVE DataInv' /\ (AS!Next \/ Stutter)
 <2>1. ASSUME \/ ServeNotifyPin(c) \/ ServeNotifyUnpin(c)
              \/ ServePinBusy(c) \/ PinRefused(c) \/ PinEvicts(c) \/ FiberSubmit(c)
       PROVE  DataInv' /\ Stutter
  <3>1. DataInv' /\ ContentKept
    BY <2>1, ServerQuiet
  <3>2. UNCHANGED held
    BY <2>1 DEF ServeNotifyPin, ServeNotifyUnpin, ServePinBusy, PinRefused, AnswerEmpty,
                PinEvicts, FiberSubmit, client
  <3>. QED  BY <3>1, <3>2, StutterRefines
 <2>2. ASSUME PinHit(c) PROVE DataInv' /\ AS!Next
  <3>1. DataInv' /\ ContentKept
    BY <2>2, PinHitData
  <3>2. PICK v \in VPages : v = req[c].page /\ held[c][v] = None
    BY <2>2, DispatchedFacts DEF PinHit
  <3>3. held' = [held EXCEPT ![c][v] = pte[v].ppage_id] /\ pte[v].ppage_id \in PPages
    BY <2>2, <3>2 DEF PinHit, AnswerPointer, IndInv, Types, EntriesShaped, CacheType
  <3>4. AS!Pin(c, v)
    BY <3>1, <3>2, <3>3, PinStep
  <3>. QED  BY <3>1, <3>4 DEF AS!Next
 <2>3. ASSUME NEW p \in PPages, PinAllocated(c, p) PROVE DataInv' /\ AS!Next
  <3>1. DataInv' /\ ContentKept
    BY <2>3, PinAllocatedData
  <3>2. PICK v \in VPages : v = req[c].page /\ held[c][v] = None
    BY <2>3, DispatchedFacts DEF PinAllocated
  <3>3. held' = [held EXCEPT ![c][v] = p]
    BY <2>3, <3>2 DEF PinAllocated, AnswerPointer
  <3>4. AS!Pin(c, v)
    BY <3>1, <3>2, <3>3, PinStep
  <3>. QED  BY <3>1, <3>4 DEF AS!Next
 <2>4. ASSUME NEW p \in PPages, PinAllocatedRead(c, p) PROVE DataInv' /\ Stutter
  <3>1. DataInv' /\ ContentKept
    BY <2>4, PinAllocatedData
  <3>2. UNCHANGED held
    BY <2>4 DEF PinAllocatedRead, client
  <3>. QED  BY <3>1, <3>2, StutterRefines
 <2>5. ASSUME FiberEvicted(c) PROVE DataInv' /\ Stutter
  <3>1. DataInv' /\ ContentKept
    BY <2>5, FiberEvictedData
  <3>2. UNCHANGED held
    BY <2>5 DEF FiberEvicted, client
  <3>. QED  BY <3>1, <3>2, StutterRefines
 <2>6. ASSUME FiberLoaded(c) PROVE DataInv' /\ AS!Next
  <3>1. DataInv' /\ ContentKept
    BY <2>6, FiberLoadedData
  <3>2. InTransit(c) /\ ctx[c].ppage_id \in PPages /\ pc[c] = "wait"
    BY <2>6 DEF FiberLoaded, IndInv, ContextsShaped
  <3>3. PICK v \in VPages : v = req[c].page /\ held[c][v] = None
    BY <3>2 DEF IndInv, RequestsShaped, Request
  <3>4. held' = [held EXCEPT ![c][v] = ctx[c].ppage_id]
    BY <2>6, <3>3 DEF FiberLoaded, AnswerPointer
  <3>5. AS!Pin(c, v)
    BY <3>1, <3>2, <3>3, <3>4, PinStep
  <3>. QED  BY <3>1, <3>5 DEF AS!Next
 <2>. QED  BY <1>2, <2>1, <2>2, <2>3, <2>4, <2>5, <2>6 DEF ServerStep
<1>3. ASSUME NEW c \in Clients, DeviceStep(c) PROVE DataInv' /\ Stutter
 <2>1. DataInv' /\ ContentKept
  BY <1>3, DeviceWriteData, DeviceReadData DEF DeviceStep
 <2>2. UNCHANGED held
  BY <1>3 DEF DeviceStep, DeviceWrite, DeviceRead, client
 <2>. QED  BY <2>1, <2>2, StutterRefines
<1>4. ASSUME EvictionStep \/ ServerSpin \/ UNCHANGED vars PROVE DataInv' /\ Stutter
 <2>1. DataInv' /\ ContentKept
  BY <1>4, LoopQuiet, ServerLockData DEF EvictionStep, ServerSpin
 <2>2. UNCHANGED held
  BY <1>4 DEF EvictionStep, ServerPop, ServerPopEmpty, ServerLockFails, ServerLock, ServerSpin,
              vars, client
 <2>. QED  BY <2>1, <2>2, StutterRefines
<1>. QED  BY <1>1, <1>2, <1>3, <1>4 DEF Next

\* The partition starts as an empty address space.
LEMMA InitRefines == Init => DataInv /\ AS!Init
<1>. SUFFICES ASSUME Init PROVE DataInv /\ AS!Init
  OBVIOUS
<1>1. CleanOnDisk /\ NothingYet /\ TransfersDone /\ WritersHold
  BY DEF Init, CleanOnDisk, NothingYet, TransfersDone, WritersHold, Mapped, EmptyPte, NoContext
<1>2. [c \in Clients |-> HeldBy(c)] = [c \in Clients |-> {}]
  BY DEF Init, HeldBy
<1>3. [v \in VPages |-> ContentOf(v)] = [v \in VPages |-> None]
  BY DEF Init, ContentOf, EmptyPte, NoContext
<1>. QED  BY <1>1, <1>2, <1>3 DEF DataInv, AS!Init

\* The shared cache implements the address space, for any number of clients, pages and
\* frames, in every execution in which no unpin with is_write comes between the read of
\* the dirty flag and the lock in the eviction loop of SharedSingleThreadCache: no
\* eviction, write-back, load or notification changes what a page contains, and a store
\* is never lost.
THEOREM AddressSpaceRefined == Spec /\ []DirtyFresh => ImplementsAddressSpace
<1>1. IndInv /\ StraysSound /\ IndInv' /\ DataInv /\ DirtyFresh /\ [Next]_vars
        => /\ DataInv'
           /\ [AS!Next]_<<[v \in VPages |-> ContentOf(v)], [c \in Clients |-> HeldBy(c)]>>
  BY NextRefines
<1>. QED  BY <1>1, InitRefines, IndInvHolds, PTL DEF Spec, ImplementsAddressSpace, AS!Spec

-----------------------------------------------------------------------------
\* DirtyFresh, without the condition that the lock will succeed.
LockedFresh == srv_pc = "lock" => pre_dirty = pte[owner[victim]].dirty

\* With one client the eviction loop runs while that client waits for its Pin, so the
\* dirty flag cannot change under it.
LEMMA OneClientFresh ==
    ASSUME NEW k, Clients = {k}
    PROVE  Spec => []DirtyFresh
<1>1. Init => LockedFresh
  BY DEF Init, LockedFresh
<1>2. ASSUME IndInv, LockedFresh, [Next]_vars PROVE LockedFresh'
 <2>1. CASE srv_pc = "lock"
  <3>1. job \in Clients /\ pc[job] = "wait" /\ job = k
    BY <1>2, <2>1 DEF IndInv, Types, JobShaped, JobType
  <3>2. ASSUME NEW c \in Clients PROVE ~ ClientStep(c)
   <4>1. pc[c] = "wait"
     BY <3>1
   <4>2. ASSUME NEW v \in VPages PROVE ~ DirectPin(c, v) /\ ~ PinMiss(c, v)
     BY <4>1 DEF DirectPin, PinMiss, MayPin
   <4>3. ASSUME NEW v \in VPages PROVE ~ Unpin(c, v)
     BY <4>1 DEF Unpin
   <4>4. ASSUME NEW v \in VPages, NEW w \in VPages PROVE ~ StrayPin(c, v, w)
     BY <4>1 DEF StrayPin, MayPin
   <4>5. ASSUME NEW v \in VPages, NEW x \in Values PROVE ~ Write(c, v, x)
     BY <4>1 DEF Write
   <4>6. ~ StrayUnpin(c)
     BY <4>1 DEF StrayUnpin
   <4>7. ~ Notify(c) /\ ~ RequestPin(c)
     BY <4>1 DEF Notify, RequestPin
   <4>. QED  BY <4>2, <4>3, <4>4, <4>5, <4>6, <4>7 DEF ClientStep
  <3>3. ~ \E c \in Clients : ServerStep(c)
    BY <2>1 DEF ServerStep, ServeNotifyPin, ServeNotifyUnpin, ServePinBusy, PinHit, PinRefused,
         PinAllocated, PinAllocatedRead, PinEvicts, Dispatched, Turn, FiberRuns,
         FiberSubmit, FiberEvicted, FiberLoaded
  <3>4. ASSUME NEW c \in Clients, DeviceStep(c) PROVE LockedFresh'
    BY <1>2, <3>4 DEF DeviceStep, DeviceWrite, DeviceRead, cache, LockedFresh
  <3>5. ASSUME EvictionStep PROVE LockedFresh'
    BY <2>1, <3>5 DEF EvictionStep, ServerPop, ServerPopEmpty, ServerLockFails, ServerLock,
                       LockedFresh
  <3>6. ASSUME UNCHANGED vars PROVE LockedFresh'
    BY <1>2, <3>6 DEF vars, server, cache, LockedFresh
  <3>. QED  BY <1>2, <3>2, <3>3, <3>4, <3>5, <3>6 DEF Next, ServerSpin
 <2>2. CASE srv_pc # "lock"
  <3>1. ASSUME NEW p \in PPages, ServerPop(p) PROVE LockedFresh'
    BY <2>2, <3>1 DEF ServerPop, LockedFresh
  <3>2. ASSUME NEW c \in Clients, ClientStep(c) PROVE srv_pc' = srv_pc
    BY <3>2 DEF ClientStep, DirectPin, PinMiss, StrayPin, StrayUnpin, Write, Unpin, Notify,
         RequestPin, server
  <3>3. ASSUME NEW c \in Clients, ServerStep(c) PROVE srv_pc' = srv_pc \/ srv_pc' = "pop"
    BY <3>3 DEF ServerStep, ServeNotifyPin, ServeNotifyUnpin, ServePinBusy, PinHit, PinRefused,
         PinAllocated, PinAllocatedRead, PinEvicts, FiberSubmit, FiberEvicted, FiberLoaded
  <3>4. ASSUME NEW c \in Clients, DeviceStep(c) PROVE srv_pc' = srv_pc
    BY <3>4 DEF DeviceStep, DeviceWrite, DeviceRead
  <3>5. ASSUME ServerPopEmpty \/ ServerLockFails \/ ServerLock PROVE srv_pc' # "lock"
    BY <3>5 DEF ServerPopEmpty, ServerLockFails, ServerLock
  <3>6. ASSUME UNCHANGED vars PROVE srv_pc' = srv_pc
    BY <3>6 DEF vars, server
  <3>. QED  BY <1>2, <2>2, <3>1, <3>2, <3>3, <3>4, <3>5, <3>6
            DEF Next, ServerSpin, EvictionStep, LockedFresh
 <2>. QED  BY <2>1, <2>2
<1>3. LockedFresh => DirtyFresh
  BY DEF LockedFresh, DirtyFresh
<1>. QED  BY <1>1, <1>2, <1>3, IndInvHolds, PTL DEF Spec

\* A partition with one client implements the address space without any condition on
\* the interleaving.
THEOREM OneClientRefines ==
    ASSUME NEW k, Clients = {k}
    PROVE  Spec => ImplementsAddressSpace
BY OneClientFresh, AddressSpaceRefined, PTL
=============================================================================
