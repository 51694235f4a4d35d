----------------------------- MODULE MemoryOps -----------------------------
(***************************************************************************)
(* The memory functions that the runtime library puts in the place of      *)
(* those of the C library.  A pointer with OFFSET_FLAG is an offset in the *)
(* cache, any other pointer is ordinary memory, and every function has a   *)
(* case for each combination.  memcpy works page by page on pinned pages;  *)
(* the other functions work byte by byte through access(), whose pointer   *)
(* is used at once.                                                        *)
(*                                                                         *)
(* A behaviour is one call from any contents of memory.  An iteration of a *)
(* loop is a step.  A byte is a member of Bytes, 0 ends a string.  The     *)
(* pages of the cache are what AddressSpace promises.  Calls without any   *)
(* cached pointer go to the C library and are left out.                    *)
(***************************************************************************)
EXTENDS Integers, Sequences, FiniteSets, FiniteSetsExt

CONSTANTS
    PageSize,    \* CACHE_PAGE_SIZE
    NumPages,    \* num_vpages
    LocalSize,   \* size of the ordinary memory
    Bytes,
    ChunkSize,   \* local_buf_len of read and write
    Files,       \* what a file can hold, sequences of bytes
    WordSize,    \* 2^64, the range of size_t
    None

ASSUME MemoryOpsAssumption ==
    /\ PageSize \in Nat \ {0} /\ NumPages \in Nat \ {0} /\ LocalSize \in Nat
    /\ Bytes \subseteq Nat /\ 0 \in Bytes
    /\ ChunkSize \in Nat \ {0}
    /\ WordSize \in Nat /\ WordSize > 4 * PageSize * NumPages
    /\ None \notin Int
ASSUME FilesAssumption == \A f \in Files : f \in Seq(Bytes)

VARIABLES
    mem,     \* "cache" and "local" -> offset -> byte
    pins,    \* pages -> references the call has
    call,    \* the call under way: function, pointers, length, byte
    pc,      \* "idle", "copy", "bytes", "chunks", "done", "thrown"
    raw,     \* "d" and "s" -> page pointer of memcpy: page and page_offset
    i,       \* bytes done
    result,  \* what the call has returned
    file,    \* bytes behind the descriptor of read and write
    before   \* history: the memory at the call

vars == <<mem, pins, call, pc, raw, i, result, file, before>>

CacheSize == PageSize * NumPages
Page(a) == a \div PageSize
PageOffset(a) == a % PageSize

Space == [cache |-> CacheSize, local |-> LocalSize]
Pointers == UNION {{[in |-> x, off |-> a] : a \in 0 .. Space[x] - 1} : x \in DOMAIN Space}

ASSUME NoneAssumption == None \notin Pointers

Cached(p) == p.in = "cache"
Plus(p, k) == [p EXCEPT !.off = @ + k]
Inside(p, n) == p.off + n <= Space[p.in]
Apart(p, q, n) == p.in # q.in \/ p.off + n <= q.off \/ q.off + n <= p.off

Load(p) == mem[p.in][p.off]
Stored(p, b) == [mem EXCEPT ![p.in][p.off] = b]

NoCall == [f |-> "none", d |-> None, s |-> None, n |-> 0, b |-> 0]
NoRaw == [d |-> None, s |-> None]

Init ==
    /\ mem \in [cache : [0 .. CacheSize - 1 -> Bytes], local : [0 .. LocalSize - 1 -> Bytes]]
    /\ pins = [p \in 0 .. NumPages - 1 |-> 0]
    /\ call = NoCall /\ pc = "idle" /\ raw = NoRaw
    /\ i = 0 /\ result = None /\ file = <<>>
    /\ before = mem

-----------------------------------------------------------------------------
(* memcpy *)

\* The two sides of a copy, and those of them that are pinned page by page.
Sides == {"d", "s"}
Pinned(c) == {x \in Sides : Cached(c[x])}

\* CachedPtr::pin of the pages of sides X at distance k; IntegratedCache::pin of a
\* page that does not exist throws.
PinsTaken(q, c, X, k) ==
    [p \in DOMAIN q |-> q[p] + Cardinality({x \in X : Page(c[x].off + k) = p})]
PinsGiven(q, c, X, k) ==
    [p \in DOMAIN q |-> q[p] - Cardinality({x \in X : Page(c[x].off + k) = p})]
PinThrows(c, X, k) == \E x \in X : Page(c[x].off + k) >= NumPages
RawOf(p) == [page |-> Page(p.off), offset |-> PageOffset(p.off)]

StartCopy(c) ==
    /\ pc' = "copy"
    /\ raw' = [x \in Sides |-> IF Cached(c[x]) THEN RawOf(c[x]) ELSE None]
    /\ pins' = PinsTaken(pins, c, Pinned(c), 0)

\* Mutant: the length of a step is bounded by the destination's page only.
StepLenOneSided(c) ==
    Min({c.n - i} \cup {PageSize - raw[x].offset : x \in Pinned(c) \cap {"d"}})

step_len(c) == Min({c.n - i} \cup {PageSize - raw[x].offset : x \in Pinned(c)})

\* The byte k places behind a side's page pointer.
RawByte(c, x, k) ==
    IF Cached(c[x])
    THEN [in |-> "cache", off |-> raw[x].page * PageSize + raw[x].offset + k]
    ELSE Plus(c[x], i + k)

\* __real_memcpy between the page pointers
Copied(c, n) ==
    [x \in DOMAIN mem |-> [a \in DOMAIN mem[x] |->
        LET ks == {k \in 0 .. n - 1 : RawByte(c, "d", k) = [in |-> x, off |-> a]}
        IN  IF ks = {} THEN mem[x][a]
            ELSE Load(RawByte(c, "s", CHOOSE k \in ks : TRUE))]]

\* One iteration: copy what lies in both pages, then move each side that has
\* reached the end of its page to the next page, even if nothing is left to copy.
\* Nobody catches the exception: what is pinned then is of no consequence.
CopyStep ==
    LET n == step_len(call)
        atEnd == {x \in Pinned(call) : raw[x].offset + n = PageSize}
    IN  /\ pc = "copy" /\ i < call.n
        /\ mem' = Copied(call, n)
        /\ i' = i + n
        /\ raw' = [x \in Sides |->
                      IF x \notin Pinned(call) THEN None
                      ELSE IF x \in atEnd THEN [page |-> Page(call[x].off + i + n), offset |-> 0]
                      ELSE [raw[x] EXCEPT !.offset = @ + n]]
        /\ IF PinThrows(call, atEnd, i + n)
           THEN pc' = "thrown" /\ UNCHANGED pins
           ELSE pc' = "copy" /\ pins' = PinsTaken(PinsGiven(pins, call, atEnd, i), call, atEnd, i + n)
        /\ UNCHANGED <<call, result, file, before>>

CopyReturns ==
    /\ pc = "copy" /\ i = call.n
    /\ pins' = PinsGiven(pins, call, Pinned(call), i)
    /\ raw' = NoRaw
    /\ pc' = "done" /\ result' = 0
    /\ UNCHANGED <<mem, call, i, file, before>>

-----------------------------------------------------------------------------
(* The calls *)

Calls(f, d, s, n, b) == [f |-> f, d |-> d, s |-> s, n |-> n, b |-> b]

Called(c) ==
    /\ call' = c
    /\ UNCHANGED <<mem, i, result, before>>

cache_memcpy(d, s, n) ==
    /\ Cached(d) \/ Cached(s)
    /\ Inside(d, n) /\ Inside(s, n) /\ Apart(d, s, n)
    /\ Called(Calls("memcpy", d, s, n, 0))
    /\ StartCopy(call')
    /\ UNCHANGED file

\* memmove's test for disjoint areas, in unsigned arithmetic
DisjointTest(d, s, n) ==
    (s.off - d.off - n) % WordSize <= (0 - 2 * n) % WordSize

\* memmove copies page by page when the areas are disjoint or one of them is not
\* cached, and else byte by byte, from the end that is not overwritten first.
cache_memmove(d, s, n) ==
    /\ Cached(d) \/ Cached(s)
    /\ Inside(d, n) /\ Inside(s, n)
    /\ Called(Calls("memmove", d, s, IF d = s THEN 0 ELSE n, 0))
    /\ IF d # s /\ (Cached(d) /\ Cached(s) => DisjointTest(d, s, n))
       THEN StartCopy(call')
       ELSE pc' = "bytes" /\ UNCHANGED <<raw, pins>>
    /\ UNCHANGED file

\* The functions that go byte by byte
ByteCall(f, d, s, n, b) ==
    /\ Called(Calls(f, d, s, n, b))
    /\ pc' = "bytes"
    /\ UNCHANGED <<raw, pins, file>>

Terminated(p) == \E a \in p.off .. Space[p.in] - 1 : mem[p.in][a] = 0
StringLength(p) == Min({k \in 0 .. Space[p.in] - 1 - p.off : mem[p.in][p.off + k] = 0})

cache_memset(d, b, n) == Cached(d) /\ Inside(d, n) /\ ByteCall("memset", d, None, n, b)

cache_memchr(s, b, n) == Cached(s) /\ Inside(s, n) /\ ByteCall("memchr", None, s, n, b)

memcmp(d, s, n) ==
    /\ Cached(d) \/ Cached(s)
    /\ Inside(d, n) /\ Inside(s, n)
    /\ ByteCall("memcmp", d, s, n, 0)

strcmp(d, s) ==
    /\ Cached(d) \/ Cached(s)
    /\ Terminated(d) /\ Terminated(s)
    /\ ByteCall("strcmp", d, s, 0, 0)

strlen(s) == Cached(s) /\ Terminated(s) /\ ByteCall("strlen", None, s, 0, 0)

stpcpy(d, s) ==
    /\ Cached(d) \/ Cached(s)
    /\ Terminated(s) /\ Inside(d, StringLength(s) + 1) /\ Apart(d, s, StringLength(s) + 1)
    /\ ByteCall("stpcpy", d, s, 0, 0)

-----------------------------------------------------------------------------
(* The loops over bytes *)

L == Load(Plus(call.d, i))
R == Load(Plus(call.s, i))

Returns(r) ==
    /\ pc' = "done" /\ result' = r
    /\ UNCHANGED <<mem, pins, call, raw, i, file, before>>

Continues(m) ==
    /\ mem' = m /\ i' = i + 1
    /\ UNCHANGED <<pins, call, pc, raw, result, file, before>>

\* Mutant: memmove always copies forwards.
MovedForwards(c) == i

\* The byte that memmove copies next
Moved(c) == IF c.d.off < c.s.off THEN i ELSE c.n - 1 - i

Loop(f) == pc = "bytes" /\ call.f = f

MemsetStep ==
    /\ Loop("memset")
    /\ IF i < call.n THEN Continues(Stored(Plus(call.d, i), call.b)) ELSE Returns(0)

MemmoveStep ==
    /\ Loop("memmove")
    /\ IF i < call.n
       THEN Continues(Stored(Plus(call.d, Moved(call)), Load(Plus(call.s, Moved(call)))))
       ELSE Returns(0)

MemchrStep ==
    /\ Loop("memchr")
    /\ IF i < call.n /\ R # call.b THEN Continues(mem)
       ELSE Returns(IF i < call.n THEN i ELSE None)

MemcmpStep ==
    /\ Loop("memcmp")
    /\ IF i < call.n /\ L = R THEN Continues(mem)
       ELSE Returns(IF i < call.n THEN L - R ELSE 0)

StrcmpStep ==
    /\ Loop("strcmp")
    /\ IF L = R /\ L # 0 THEN Continues(mem) ELSE Returns(L - R)

StrlenStep ==
    /\ Loop("strlen")
    /\ IF R # 0 THEN Continues(mem) ELSE Returns(i)

\* The terminator is copied too.  The result is the pointer that was passed in.
StpcpyStep ==
    /\ Loop("stpcpy")
    /\ IF R # 0 THEN Continues(Stored(Plus(call.d, i), R))
       ELSE /\ mem' = Stored(Plus(call.d, i), 0)
            /\ pc' = "done" /\ result' = 0
            /\ UNCHANGED <<pins, call, raw, i, file, before>>

ByteStep ==
    \/ MemsetStep \/ MemmoveStep \/ MemchrStep \/ MemcmpStep
    \/ StrcmpStep \/ StrlenStep \/ StpcpyStep

-----------------------------------------------------------------------------
(* read and write: chunks through a buffer of ordinary memory.  The copy of a *)
(* chunk is memcpy, cut in pieces of a page for the threads of the team.      *)

read(d, n, f) ==
    /\ Cached(d) /\ Inside(d, n)
    /\ Called(Calls("read", d, None, n, 0))
    /\ pc' = "chunks" /\ file' = f
    /\ UNCHANGED <<raw, pins>>

write(s, n) ==
    /\ Cached(s) /\ Inside(s, n)
    /\ Called(Calls("write", None, s, n, 0))
    /\ pc' = "chunks" /\ file' = <<>>
    /\ UNCHANGED <<raw, pins>>

\* A chunk that is not the last has its full length, so the loop's offset is i.
chunk_len == Min({call.n - i, ChunkSize})

\* Whether the call returns after a chunk of which r bytes were transferred
LastChunk(r) == r < chunk_len \/ i + r = call.n

Transferred(r) ==
    /\ i' = i + r
    /\ IF LastChunk(r) THEN pc' = "done" /\ result' = i + r ELSE UNCHANGED <<pc, result>>
    /\ UNCHANGED <<pins, call, raw, before>>

Throws == pc' = "thrown" /\ UNCHANGED <<pins, call, raw, i, result, before>>

\* The memcpy of n bytes at p pins the page behind the end of the cache.
CopyThrows(p, n) == n > 0 /\ p.off + i + n = CacheSize

\* The system call transfers any number of bytes up to the length, or fails.
ReadStep ==
    /\ pc = "chunks" /\ call.f = "read" /\ i < call.n
    /\ \/ Returns(-1)
       \/ \E r \in 0 .. Min({chunk_len, Len(file) - i}) :
              /\ mem' = [mem EXCEPT !.cache = [a \in DOMAIN @ |->
                            IF a \in call.d.off + i .. call.d.off + i + r - 1
                            THEN file[a - call.d.off + 1] ELSE @[a]]]
              /\ IF CopyThrows(call.d, r) THEN Throws ELSE Transferred(r)
              /\ UNCHANGED file

WriteStep ==
    /\ pc = "chunks" /\ call.f = "write" /\ i < call.n
    /\ \/ CopyThrows(call.s, chunk_len) /\ Throws /\ UNCHANGED <<mem, file>>
       \/ ~ CopyThrows(call.s, chunk_len) /\ Returns(-1)
       \/ \E r \in 0 .. chunk_len :
              /\ ~ CopyThrows(call.s, chunk_len)
              /\ file' = file \o [k \in 1 .. r |-> Load(Plus(call.s, i + k - 1))]
              /\ Transferred(r)
              /\ UNCHANGED mem

ChunksReturn == pc = "chunks" /\ i >= call.n /\ Returns(i)

-----------------------------------------------------------------------------

Call ==
    /\ pc = "idle"
    /\ \/ \E d, s \in Pointers, n \in 0 .. CacheSize :
              cache_memcpy(d, s, n) \/ cache_memmove(d, s, n) \/ memcmp(d, s, n)
       \/ \E d, s \in Pointers : strcmp(d, s) \/ stpcpy(d, s)
       \/ \E p \in Pointers, n \in 0 .. CacheSize :
              \/ write(p, n)
              \/ \E b \in Bytes : cache_memset(p, b, n) \/ cache_memchr(p, b, n)
              \/ \E f \in Files : read(p, n, f)
       \/ \E p \in Pointers : strlen(p)

Next ==
    \/ Call
    \/ CopyStep \/ CopyReturns \/ ByteStep \/ ReadStep \/ WriteStep \/ ChunksReturn

Spec == Init /\ [][Next]_vars

-----------------------------------------------------------------------------
(* Properties *)

\* The bytes from p on, before the call.
Old(p, k) == before[p.in][p.off + k]

\* Memory as before the call, but for n bytes from p on, which are new[0], new[1], ...
Overwritten(p, n, new(_)) ==
    [before EXCEPT ![p.in] = [a \in DOMAIN @ |->
        IF a \in p.off .. p.off + n - 1 THEN new(a - p.off) ELSE @[a]]]

\* The first place of S, or the given value if there is none.
FirstOf(S, default) == IF S = {} THEN default ELSE Min(S)

OldLength(p) == Min({k \in 0 .. Space[p.in] - 1 - p.off : Old(p, k) = 0})

\* The difference at place k, 0 if there is no such place.
DifferenceAt(k) == IF k = None THEN 0 ELSE Old(call.d, k) - Old(call.s, k)

\* What the C library promises of each function, said of the memory before and
\* after the call (not the value of stpcpy, which should be the end of the copy).
Promised ==
    LET n == call.n
        source(k) == Old(call.s, k)
        constant(k) == call.b
        content(k) == file[k + 1]
    IN  CASE call.f \in {"memcpy", "memmove"} -> mem = Overwritten(call.d, n, source)
          [] call.f = "memset" -> mem = Overwritten(call.d, n, constant)
          [] call.f = "stpcpy" -> mem = Overwritten(call.d, OldLength(call.s) + 1, source)
          [] call.f = "memchr" ->
               /\ result = FirstOf({k \in 0 .. n - 1 : Old(call.s, k) = call.b}, None)
               /\ mem = before
          [] call.f = "memcmp" ->
               /\ result = DifferenceAt(
                     FirstOf({k \in 0 .. n - 1 : Old(call.d, k) # Old(call.s, k)}, None))
               /\ mem = before
          [] call.f = "strcmp" ->
               /\ result = DifferenceAt(
                     FirstOf({k \in 0 .. Min({OldLength(call.d), OldLength(call.s)}) :
                                 Old(call.d, k) # Old(call.s, k)}, None))
               /\ mem = before
          [] call.f = "strlen" -> result = OldLength(call.s) /\ mem = before
          [] call.f = "read" -> result >= 0 => mem = Overwritten(call.d, result, content)
          [] call.f = "write" ->
               /\ result >= 0 => file = [k \in 1 .. result |-> Old(call.s, k - 1)]
               /\ mem = before

\* Every function does to cached memory what the function of the C library does to
\* ordinary memory, wherever the areas lie in the pages, whether they overlap, and
\* however little a system call transfers.  memcpy, read and write throw only when
\* an area ends at the end of the cache, memcpy after the last byte is copied.
CallsCorrect ==
    /\ pc = "done" => Promised
    /\ pc = "thrown" =>
           /\ \E p \in {call.d, call.s} \ {None} : Cached(p) /\ p.off + call.n = CacheSize
           /\ call.f \in {"memcpy", "memmove"} => i = call.n /\ Promised

\* The page pointers of memcpy are into pages that it holds pinned, at the place it
\* has reached, never behind the end of a page; outside memcpy nothing is pinned.
PointersPinned ==
    /\ pc = "copy" =>
           /\ \A x \in Pinned(call) :
                  /\ raw[x] = RawOf(Plus(call[x], i))
                  /\ raw[x].offset < PageSize
           /\ \A p \in DOMAIN pins :
                  pins[p] = Cardinality({x \in Pinned(call) : raw[x].page = p})
    /\ pc \in {"idle", "bytes", "chunks", "done"} => \A p \in DOMAIN pins : pins[p] = 0

=============================================================================
