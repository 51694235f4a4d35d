-------------------------- MODULE MemoryOpsProofs --------------------------
(***************************************************************************)
(* Proofs about MemoryOps, for any sizes and any contents: the memory and  *)
(* string functions return what they promise, and use raw pointers only    *)
(* into pages they have pinned.                                            *)
(*                                                                         *)
(* The invariant says of each loop what it has written (Written) and what  *)
(* it has found after i bytes; a lemma per function says that this, at the *)
(* end of the loop, is what the function promises.                         *)
(***************************************************************************)
EXTENDS MemoryOps, FiniteSetTheorems, SequenceTheorems, WellFoundedInduction, TLAPS

\* The two kinds of memory.
Spaces == {"cache", "local"}

\* The contents of all memory.
IsMem(m) ==
    /\ m = [x \in Spaces |-> m[x]]
    /\ \A x \in Spaces : m[x] \in [0 .. Space[x] - 1 -> Bytes]

\* What the running call is to write at distance k of its destination.
NewByte(k) ==
    IF call.f = "memset" THEN call.b
    ELSE IF call.f = "read" THEN file[k + 1] ELSE Old(call.s, k)

\* It has been written from lo up to hi, and nothing else has changed.
Written(lo, hi) ==
    \A x \in Spaces : \A a \in 0 .. Space[x] - 1 :
        mem[x][a] = IF x = call.d.in /\ call.d.off + lo <= a /\ a < call.d.off + hi
                    THEN NewByte(a - call.d.off) ELSE before[x][a]

\* The n bytes from p are inside their memory.
IsArea(p) == p \in Pointers /\ Inside(p, call.n)

\* The types of the variables.
TypeOK ==
    /\ IsMem(mem) /\ IsMem(before) /\ pins \in [0 .. NumPages - 1 -> Int]
    /\ i \in Nat /\ call.n \in Nat
    /\ pc \in {"idle", "copy", "bytes", "chunks", "done", "thrown"}
    /\ pc # "idle" =>
           call.f \in {"memcpy", "memmove", "memset", "memchr", "memcmp", "strcmp", "strlen",
                       "stpcpy", "read", "write"}

\* Before the call nothing has been written.
IdleInv == pc = "idle" => mem = before /\ i = 0

\* Inside private_cache_memcpy: the areas do not overlap, the first i bytes are copied,
\* and the raw pointers point at the next ones, in their pinned pages.
CopyInv ==
    pc = "copy" =>
        /\ call.f \in {"memcpy", "memmove"}
        /\ IsArea(call.d) /\ IsArea(call.s) /\ Apart(call.d, call.s, call.n)
        /\ i <= call.n
        /\ \A x \in Pinned(call) : call[x].off + i < CacheSize /\ raw[x] = RawOf(Plus(call[x], i))
        /\ Written(0, i)

\* A copy pins the pages of its raw pointers, once each; other calls keep no pin when
\* they return.
PinsInv ==
    \A p \in 0 .. NumPages - 1 :
        /\ pc = "copy" => pins[p] = Cardinality({x \in Pinned(call) : raw[x].page = p})
        /\ pc \notin {"copy", "thrown"} => pins[p] = 0

\* The byte loop of function f runs.
InLoop(f) == pc = "bytes" /\ call.f = f

\* There was a zero byte behind p when the call began.
EndsIn(p) == \E a \in p.off .. Space[p.in] - 1 : before[p.in][a] = 0

\* What each byte loop has done and found after i bytes.  memmove writes from the side on
\* which it does not destroy what it has to read.
BytesInv ==
    /\ pc = "bytes" => call.f \in {"memset", "memmove", "memchr", "memcmp", "strcmp", "strlen", "stpcpy"}
    /\ InLoop("memset") => IsArea(call.d) /\ call.b \in Bytes /\ i <= call.n /\ Written(0, i)
    /\ InLoop("memmove") =>
           /\ IsArea(call.d) /\ IsArea(call.s) /\ i <= call.n
           /\ call.n # 0 => call.d.in = call.s.in /\ call.d.off # call.s.off
           /\ IF call.d.off < call.s.off THEN Written(0, i) ELSE Written(call.n - i, call.n)
    /\ InLoop("memchr") =>
           /\ IsArea(call.s) /\ i <= call.n /\ mem = before
           /\ \A k \in 0 .. i - 1 : Old(call.s, k) # call.b
    /\ InLoop("memcmp") =>
           /\ IsArea(call.d) /\ IsArea(call.s) /\ i <= call.n /\ mem = before
           /\ \A k \in 0 .. i - 1 : Old(call.d, k) = Old(call.s, k)
    /\ InLoop("strcmp") =>
           /\ call.d \in Pointers /\ call.s \in Pointers /\ mem = before
           /\ EndsIn(call.d) /\ EndsIn(call.s)
           /\ \A k \in 0 .. i - 1 : Old(call.d, k) = Old(call.s, k) /\ Old(call.s, k) # 0
    /\ InLoop("strlen") =>
           /\ call.s \in Pointers /\ mem = before
           /\ EndsIn(call.s) /\ \A k \in 0 .. i - 1 : Old(call.s, k) # 0
    /\ InLoop("stpcpy") =>
           /\ call.d \in Pointers /\ call.s \in Pointers
           /\ EndsIn(call.s) /\ \A k \in 0 .. i - 1 : Old(call.s, k) # 0
           /\ Inside(call.d, OldLength(call.s) + 1)
           /\ Apart(call.d, call.s, OldLength(call.s) + 1)
           /\ Written(0, i)

\* What the loop over the pages of a buffer has transferred after i bytes.
ChunksInv ==
    /\ pc = "chunks" => call.f \in {"read", "write"}
    /\ pc = "chunks" /\ call.f = "read" =>
           /\ IsArea(call.d) /\ Cached(call.d) /\ i <= call.n
           /\ file \in Seq(Bytes) /\ i <= Len(file) /\ Written(0, i)
    /\ pc = "chunks" /\ call.f = "write" =>
           /\ IsArea(call.s) /\ Cached(call.s) /\ i <= call.n /\ mem = before
           /\ file = [k \in 1 .. i |-> Old(call.s, k - 1)]

\* The inductive invariant.  That a call returns what it promises is not inductive: it
\* takes what each loop has done so far.
IndInv ==
    /\ TypeOK /\ IdleInv /\ CopyInv /\ PinsInv /\ BytesInv /\ ChunksInv /\ CallsCorrect

\* A non-empty set of natural numbers has a least element, which Min gives.
LEMMA LeastNumber ==
    ASSUME NEW S \in SUBSET Nat, S # {}
    PROVE  Min(S) \in S /\ \A m \in S : Min(S) <= m
<1>1. PICK x \in S : \A y \in S : ~ (<<y, x>> \in OpToRel(<, Nat))
  BY NatLessThanWellFounded, WFMin
<1>2. \A y \in S : ~ (y < x)
  BY <1>1 DEF OpToRel
<1>3. \E z \in S : \A y \in S : z <= y
  BY <1>2
<1>. QED  BY <1>3 DEF Min

\* The sizes of the memories.
LEMMA Sizes ==
    /\ PageSize \in Nat \ {0} /\ NumPages \in Nat \ {0} /\ LocalSize \in Nat
    /\ CacheSize \in Nat /\ CacheSize = PageSize * NumPages
    /\ Space["cache"] = CacheSize /\ Space["local"] = LocalSize
    /\ \A x \in Spaces : Space[x] \in Nat
    /\ DOMAIN Space = Spaces
    /\ WordSize \in Nat /\ WordSize > 4 * CacheSize
  BY MemoryOpsAssumption DEF CacheSize, Space, Spaces

\* Bytes are numbers, and None is not one.
LEMMA BytesType == Bytes \subseteq Nat /\ 0 \in Bytes /\ None \notin Int
  BY MemoryOpsAssumption

\* What a pointer is.
LEMMA PointerIs ==
    ASSUME NEW p \in Pointers
    PROVE  /\ p = [in |-> p.in, off |-> p.off]
           /\ p.in \in Spaces /\ p.off \in 0 .. Space[p.in] - 1 /\ p.off \in Nat
           /\ p # None
           /\ Space[p.in] \in Nat
<1>1. PICK x \in DOMAIN Space : p \in {[in |-> x, off |-> a] : a \in 0 .. Space[x] - 1}
  BY DEF Pointers
<1>2. PICK a \in 0 .. Space[x] - 1 : p = [in |-> x, off |-> a]  BY <1>1
<1>3. p # None  BY NoneAssumption
<1>. QED  BY <1>2, <1>3, Sizes

\* Pointer arithmetic stays in one memory.
LEMMA PlusIs ==
    ASSUME NEW p \in Pointers, NEW k \in Int
    PROVE  /\ Plus(p, k).in = p.in /\ Plus(p, k).off = p.off + k
           /\ Plus(p, k) = [in |-> p.in, off |-> p.off + k]
  BY PointerIs DEF Plus

\* Memory holds bytes.
LEMMA MemTypes ==
    ASSUME NEW m, IsMem(m), NEW x \in Spaces, NEW a \in 0 .. Space[x] - 1
    PROVE  m[x][a] \in Bytes
  BY DEF IsMem

\* Storing changes one byte.
LEMMA StoredIs ==
    ASSUME IsMem(mem), NEW p, p.in \in Spaces, p.off \in 0 .. Space[p.in] - 1, NEW b \in Bytes
    PROVE  /\ IsMem(Stored(p, b))
           /\ \A x \in Spaces : \A a \in 0 .. Space[x] - 1 :
                 Stored(p, b)[x][a] = IF x = p.in /\ a = p.off THEN b ELSE mem[x][a]
<1>. DEFINE r == [mem[p.in] EXCEPT ![p.off] = b]
<1>1. mem = [x \in Spaces |-> mem[x]] /\ \A x \in Spaces : mem[x] \in [0 .. Space[x] - 1 -> Bytes]
  BY DEF IsMem
<1>2. /\ r \in [0 .. Space[p.in] - 1 -> Bytes]
      /\ \A a \in 0 .. Space[p.in] - 1 : r[a] = IF a = p.off THEN b ELSE mem[p.in][a]
  BY <1>1
<1>3. Stored(p, b) = [mem EXCEPT ![p.in] = r]  BY DEF Stored
<1>. HIDE DEF r
<1>4. \A x \in Spaces : Stored(p, b)[x] = IF x = p.in THEN r ELSE mem[x]
  BY <1>1, <1>3
<1>5. Stored(p, b) = [x \in Spaces |-> Stored(p, b)[x]]
  BY <1>1, <1>3
<1>6. \A x \in Spaces : Stored(p, b)[x] \in [0 .. Space[x] - 1 -> Bytes]
  BY <1>1, <1>2, <1>4
<1>. QED  BY <1>2, <1>4, <1>5, <1>6 DEF IsMem

\* Memory with the same bytes is the same.
LEMMA MemEqual ==
    ASSUME NEW m, NEW w, IsMem(m), IsMem(w),
           \A x \in Spaces : \A a \in 0 .. Space[x] - 1 : m[x][a] = w[x][a]
    PROVE  m = w
<1>1. ASSUME NEW x \in Spaces PROVE m[x] = w[x]
  <2>1. m[x] \in [0 .. Space[x] - 1 -> Bytes] /\ w[x] \in [0 .. Space[x] - 1 -> Bytes]
    BY DEF IsMem
  <2>2. PICK f, g, D : f = m[x] /\ g = w[x] /\ D = 0 .. Space[x] - 1  OBVIOUS
  <2>3. f \in [D -> Bytes] /\ g \in [D -> Bytes] /\ \A a \in D : f[a] = g[a]  BY <2>1, <2>2
  <2>4. f = g  BY <2>3
  <2>. QED  BY <2>2, <2>4
<1>. QED  BY <1>1 DEF IsMem

\* Page and offset of an address.
LEMMA DivMod ==
    ASSUME NEW a \in Nat
    PROVE  /\ Page(a) \in Nat /\ PageOffset(a) \in 0 .. PageSize - 1
           /\ a = PageSize * Page(a) + PageOffset(a)
  BY MemoryOpsAssumption DEF Page, PageOffset

\* They are the only quotient and remainder.
LEMMA DivModIs ==
    ASSUME NEW a \in Nat, NEW q \in Nat, NEW r \in 0 .. PageSize - 1, a = PageSize * q + r
    PROVE  Page(a) = q /\ PageOffset(a) = r
<1>1. PageSize \in Nat \ {0} /\ Page(a) \in Nat /\ PageOffset(a) \in 0 .. PageSize - 1
      /\ a = PageSize * Page(a) + PageOffset(a)
  BY DivMod, Sizes
<1>2. PageSize * q + r = PageSize * Page(a) + PageOffset(a)  BY <1>1
<1>3. PageSize * (q - Page(a)) = PageOffset(a) - r  BY <1>1, <1>2
<1>4. q - Page(a) = 0
  <2>. DEFINE z == q - Page(a)
  <2>1. z \in Int /\ PageSize * z = PageOffset(a) - r  BY <1>1, <1>3
  <2>2. PageOffset(a) - r < PageSize /\ PageOffset(a) - r > 0 - PageSize  BY <1>1
  <2>. HIDE DEF z
  <2>3. ASSUME z >= 1 PROVE FALSE
    <3>1. PageSize * z >= PageSize  BY <1>1, <2>1, <2>3
    <3>. QED  BY <3>1, <2>1, <2>2, <1>1
  <2>4. ASSUME z <= -1 PROVE FALSE
    <3>1. PageSize * z <= 0 - PageSize  BY <1>1, <2>1, <2>4
    <3>. QED  BY <3>1, <2>1, <2>2, <1>1
  <2>5. z = 0  BY <2>1, <2>3, <2>4
  <2>. QED  BY <2>5 DEF z
<1>. QED  BY <1>1, <1>2, <1>4

\* The pages are those of the cache's addresses.
LEMMA PageExists ==
    ASSUME NEW a \in Nat
    PROVE  Page(a) >= NumPages <=> a >= CacheSize
<1>1. PageSize \in Nat \ {0} /\ NumPages \in Nat /\ Page(a) \in Nat /\ PageOffset(a) \in 0 .. PageSize - 1
      /\ a = PageSize * Page(a) + PageOffset(a) /\ CacheSize = PageSize * NumPages
  BY DivMod, Sizes
<1>2. ASSUME Page(a) >= NumPages PROVE a >= CacheSize
  <2>1. PageSize * Page(a) >= PageSize * NumPages  BY <1>1, <1>2
  <2>. QED  BY <1>1, <2>1
<1>3. ASSUME Page(a) < NumPages PROVE a < CacheSize
  <2>1. Page(a) + 1 <= NumPages  BY <1>1, <1>3
  <2>2. PageSize * (Page(a) + 1) <= PageSize * NumPages  BY <1>1, <2>1
  <2>3. PageSize * (Page(a) + 1) = PageSize * Page(a) + PageSize  BY <1>1
  <2>. QED  BY <1>1, <2>2, <2>3
<1>. QED  BY <1>1, <1>2, <1>3, Sizes

\* Up to the end of a page, addresses stay in the page ...
LEMMA WithinPage ==
    ASSUME NEW a \in Nat, NEW n \in Nat, PageOffset(a) + n < PageSize
    PROVE  Page(a + n) = Page(a) /\ PageOffset(a + n) = PageOffset(a) + n
<1>1. PageSize \in Nat \ {0} /\ Page(a) \in Nat /\ PageOffset(a) \in 0 .. PageSize - 1
      /\ a = PageSize * Page(a) + PageOffset(a)
  BY DivMod, Sizes
<1>2. a + n \in Nat /\ PageOffset(a) + n \in 0 .. PageSize - 1
      /\ a + n = PageSize * Page(a) + (PageOffset(a) + n)
  BY <1>1
<1>. QED  BY <1>1, <1>2, DivModIs

\* ... and at its end they go to the start of the next one.
LEMMA NextPage ==
    ASSUME NEW a \in Nat, NEW n \in Nat, PageOffset(a) + n = PageSize
    PROVE  Page(a + n) = Page(a) + 1 /\ PageOffset(a + n) = 0
<1>1. PageSize \in Nat \ {0} /\ Page(a) \in Nat /\ PageOffset(a) \in 0 .. PageSize - 1
      /\ a = PageSize * Page(a) + PageOffset(a)
  BY DivMod, Sizes
<1>2. a + n = PageSize * (Page(a) + 1) + 0  BY <1>1
<1>. QED  BY <1>1, <1>2, DivModIs

\* The number of sides in a set of them.
LEMMA SidesCount ==
    ASSUME NEW T \in SUBSET Sides
    PROVE  Cardinality(T) = (IF "d" \in T THEN 1 ELSE 0) + (IF "s" \in T THEN 1 ELSE 0)
<1>1. T = {} \/ T = {"d"} \/ T = {"s"} \/ T = {"d", "s"}  BY DEF Sides
<1>2. Cardinality({}) = 0 /\ Cardinality({"d"}) = 1 /\ Cardinality({"s"}) = 1
  BY FS_EmptySet, FS_Singleton
<1>3. Cardinality({"d", "s"}) = 2
  <2>1. IsFiniteSet({"d"}) /\ "s" \notin {"d"} /\ {"d", "s"} = {"d"} \cup {"s"}  BY FS_Singleton
  <2>2. Cardinality({"d"} \cup {"s"}) = Cardinality({"d"}) + 1  BY <2>1, FS_AddElement
  <2>. QED  BY <1>2, <2>1, <2>2
<1>. QED  BY <1>1, <1>2, <1>3

\* The test of private_cache_memmove, in unsigned arithmetic, decides whether the areas
\* overlap.
LEMMA DisjointTestIs ==
    ASSUME NEW d \in Pointers, NEW s \in Pointers, NEW n \in Nat \ {0}, d.in = "cache", s.in = "cache",
           Inside(d, n), Inside(s, n)
    PROVE  DisjointTest(d, s, n) <=> Apart(d, s, n)
<1>. DEFINE W == WordSize
            x == s.off - d.off - n
<1>1. /\ d.off \in Nat /\ s.off \in Nat /\ d.off + n <= CacheSize /\ s.off + n <= CacheSize
      /\ CacheSize \in Nat /\ W \in Nat /\ W > 4 * CacheSize
  BY PointerIs, Sizes DEF Inside
<1>2. (0 - 2 * n) % W = W - 2 * n
  <2>1. \A y \in Int : y < 0 /\ y > 0 - W => y % W = W + y  BY <1>1
  <2>2. 0 - 2 * n \in Int /\ 0 - 2 * n < 0 /\ 0 - 2 * n > 0 - W  BY <1>1
  <2>3. (0 - 2 * n) % W = W + (0 - 2 * n)  BY <2>1, <2>2
  <2>. QED  BY <2>3, <1>1
<1>3. x \in Int /\ x > 0 - W /\ x < W  BY <1>1
<1>4. x % W = IF x < 0 THEN W + x ELSE x
  <2>. HIDE DEF x
  <2>. QED  BY <1>1, <1>3
<1>5. DisjointTest(d, s, n) <=> x % W <= (0 - 2 * n) % W  BY DEF DisjointTest
<1>6. Apart(d, s, n) <=> d.off + n <= s.off \/ s.off + n <= d.off  BY DEF Apart
<1>. QED  BY <1>1, <1>2, <1>4, <1>5, <1>6

\* What is written from 0 to n is what Overwritten says.
LEMMA WrittenIs ==
    ASSUME IsMem(mem), IsMem(before), call.d \in Pointers, NEW n \in Nat, Written(0, n)
    PROVE  mem = Overwritten(call.d, n, NewByte)
<1>1. PICK p \in Pointers : p = call.d  OBVIOUS
<1>2. p.in \in Spaces /\ p.off \in Nat /\ \A x \in Spaces : Space[x] \in Nat  BY PointerIs, Sizes
<1>3. /\ mem = [x \in Spaces |-> mem[x]] /\ before = [x \in Spaces |-> before[x]]
      /\ \A x \in Spaces : /\ mem[x] \in [0 .. Space[x] - 1 -> Bytes]
                           /\ before[x] \in [0 .. Space[x] - 1 -> Bytes]
  BY DEF IsMem
<1>. DEFINE g == [a \in 0 .. Space[p.in] - 1 |->
                     IF a \in p.off .. p.off + n - 1 THEN NewByte(a - p.off) ELSE before[p.in][a]]
<1>4. Overwritten(call.d, n, NewByte) = [before EXCEPT ![p.in] = g]
  BY <1>1, <1>2, <1>3 DEF Overwritten
<1>5. mem[p.in] = g
  <2>1. PICK f, D : f = mem[p.in] /\ D = 0 .. Space[p.in] - 1  OBVIOUS
  <2>2. ASSUME NEW a \in D PROVE f[a] = g[a]
    <3>1. a \in 0 .. Space[p.in] - 1  BY <2>1
    <3>2. f[a] = IF p.off + 0 <= a /\ a < p.off + n THEN NewByte(a - p.off) ELSE before[p.in][a]
      BY <1>1, <1>2, <2>1, <3>1 DEF Written
    <3>3. (p.off + 0 <= a /\ a < p.off + n) <=> a \in p.off .. p.off + n - 1  BY <1>2, <3>1
    <3>4. g[a] = IF a \in p.off .. p.off + n - 1 THEN NewByte(a - p.off) ELSE before[p.in][a]
      BY <3>1
    <3>. QED  BY <3>2, <3>3, <3>4
  <2>3. f \in [D -> Bytes] /\ DOMAIN g = D /\ g = [a \in D |-> g[a]]  BY <1>2, <1>3, <2>1
  <2>. HIDE DEF g
  <2>4. f = g  BY <2>2, <2>3
  <2>. QED  BY <2>1, <2>4
<1>6. ASSUME NEW x \in Spaces, x # p.in PROVE mem[x] = before[x]
  <2>1. PICK f, h, D : f = mem[x] /\ h = before[x] /\ D = 0 .. Space[x] - 1  OBVIOUS
  <2>2. \A a \in D : f[a] = h[a]  BY <1>1, <1>6, <2>1 DEF Written
  <2>3. f \in [D -> Bytes] /\ h \in [D -> Bytes]  BY <1>3, <2>1
  <2>4. f = h  BY <2>2, <2>3
  <2>. QED  BY <2>1, <2>4
<1>. HIDE DEF g
<1>7. mem = [before EXCEPT ![p.in] = g]  BY <1>2, <1>3, <1>5, <1>6
<1>. QED  BY <1>4, <1>7

\* An empty range has been written in unchanged memory ...
LEMMA NothingWritten ==
    ASSUME mem = before, NEW k \in Nat, call.d \in Pointers
    PROVE  Written(k, k)
  BY PointerIs DEF Written

\* ... and only then.
LEMMA WrittenSame ==
    ASSUME IsMem(mem), IsMem(before), call.d \in Pointers, Written(0, 0)
    PROVE  mem = before
<1>1. \A x \in Spaces : \A a \in 0 .. Space[x] - 1 : mem[x][a] = before[x][a]
  BY PointerIs, Sizes DEF Written
<1>. QED  BY <1>1, MemEqual

\* FirstOf gives the least element.
LEMMA FirstIs ==
    ASSUME NEW S \in SUBSET Nat, NEW k \in S, \A m \in S : k <= m, NEW default
    PROVE  Min(S) = k /\ FirstOf(S, default) = k
<1>1. Min(S) \in S /\ \A m \in S : Min(S) <= m  BY LeastNumber
<1>2. PICK z \in S : z = Min(S) /\ z <= k /\ k <= z  BY <1>1
<1>3. z = k  BY <1>2
<1>. QED  BY <1>2, <1>3 DEF FirstOf

\* The length of a string that ends.
LEMMA LengthFacts ==
    ASSUME IsMem(before), NEW p \in Pointers, EndsIn(p)
    PROVE  /\ OldLength(p) \in Nat /\ p.off + OldLength(p) < Space[p.in]
           /\ Old(p, OldLength(p)) = 0
           /\ \A k \in 0 .. OldLength(p) - 1 : Old(p, k) # 0
<1>. DEFINE S == {k \in 0 .. Space[p.in] - 1 - p.off : Old(p, k) = 0}
<1>1. p.in \in Spaces /\ p.off \in Nat /\ Space[p.in] \in Nat /\ p.off < Space[p.in]
  BY PointerIs
<1>2. PICK a \in p.off .. Space[p.in] - 1 : before[p.in][a] = 0  BY DEF EndsIn
<1>3. a - p.off \in S
  <2>1. a - p.off \in 0 .. Space[p.in] - 1 - p.off /\ p.off + (a - p.off) = a  BY <1>1, <1>2
  <2>. QED  BY <1>2, <2>1 DEF Old
<1>4. S \in SUBSET Nat  BY <1>1
<1>5. Min(S) \in S /\ \A m \in S : Min(S) <= m  BY <1>3, <1>4, LeastNumber
<1>6. OldLength(p) = Min(S)  BY DEF OldLength
<1>7. ASSUME NEW k \in 0 .. OldLength(p) - 1 PROVE Old(p, k) # 0
  <2>1. k \in 0 .. Space[p.in] - 1 - p.off /\ ~ (Min(S) <= k)  BY <1>1, <1>5, <1>6
  <2>. QED  BY <1>5, <2>1
<1>. QED  BY <1>1, <1>5, <1>6, <1>7

\* Where no zero has been met yet, the string has not ended.
LEMMA LengthIs ==
    ASSUME IsMem(before), NEW p \in Pointers, EndsIn(p), NEW k \in Nat,
           \A j \in 0 .. k - 1 : Old(p, j) # 0
    PROVE  /\ k <= OldLength(p) /\ p.off + k < Space[p.in]
           /\ Old(p, k) = 0 => k = OldLength(p)
           /\ Old(p, k) # 0 => k < OldLength(p)
<1>1. /\ OldLength(p) \in Nat /\ p.off + OldLength(p) < Space[p.in]
      /\ Old(p, OldLength(p)) = 0
      /\ \A j \in 0 .. OldLength(p) - 1 : Old(p, j) # 0
  BY LengthFacts
<1>2. p.off \in Nat /\ Space[p.in] \in Nat  BY PointerIs
<1>3. k <= OldLength(p)  BY <1>1
<1>. QED  BY <1>1, <1>2, <1>3

\* While nothing is written, lengths are those at the call.
LEMMA LengthNow ==
    ASSUME mem = before, NEW p \in Pointers
    PROVE  /\ StringLength(p) = OldLength(p)
           /\ Terminated(p) <=> EndsIn(p)
  BY DEF StringLength, OldLength, Terminated, EndsIn, Old

\* What memcpy and memmove have reached when they return ...
CopyEnd ==
    /\ call.f \in {"memcpy", "memmove"} /\ call.d \in Pointers /\ call.n \in Nat
    /\ IsMem(mem) /\ IsMem(before) /\ Written(0, call.n)

\* ... is what they promise.
LEMMA CopyPromised == CopyEnd => Promised
<1>. SUFFICES ASSUME CopyEnd PROVE Promised  OBVIOUS
<1>1. mem = Overwritten(call.d, call.n, NewByte)  BY WrittenIs DEF CopyEnd
<1>2. \A k : NewByte(k) = Old(call.s, k)  BY DEF CopyEnd, NewByte
<1>3. mem = [before EXCEPT ![call.d.in] = [a \in DOMAIN before[call.d.in] |->
                IF a \in call.d.off .. call.d.off + call.n - 1 THEN Old(call.s, a - call.d.off)
                ELSE before[call.d.in][a]]]
  BY <1>1, <1>2 DEF Overwritten
<1>. QED  BY <1>3 DEF Promised, Overwritten, CopyEnd

\* What memset has reached when it returns ...
SetEnd ==
    /\ call.f = "memset" /\ call.d \in Pointers /\ call.n \in Nat
    /\ IsMem(mem) /\ IsMem(before) /\ Written(0, call.n)

\* ... is what it promises.
LEMMA SetPromised == SetEnd => Promised
<1>. SUFFICES ASSUME SetEnd PROVE Promised  OBVIOUS
<1>1. mem = Overwritten(call.d, call.n, NewByte)  BY WrittenIs DEF SetEnd
<1>2. \A k : NewByte(k) = call.b  BY DEF SetEnd, NewByte
<1>3. mem = [before EXCEPT ![call.d.in] = [a \in DOMAIN before[call.d.in] |->
                IF a \in call.d.off .. call.d.off + call.n - 1 THEN call.b
                ELSE before[call.d.in][a]]]
  BY <1>1, <1>2 DEF Overwritten
<1>. QED  BY <1>3 DEF Promised, Overwritten, SetEnd

\* What stpcpy has reached when it returns ...
StpcpyEnd ==
    /\ call.f = "stpcpy" /\ call.d \in Pointers /\ call.s \in Pointers
    /\ IsMem(mem) /\ IsMem(before) /\ EndsIn(call.s) /\ Written(0, OldLength(call.s) + 1)

\* ... is what it promises.
LEMMA StpcpyPromised == StpcpyEnd => Promised
<1>. SUFFICES ASSUME StpcpyEnd PROVE Promised  OBVIOUS
<1>0. PICK n \in Nat : n = OldLength(call.s) + 1  BY LengthFacts DEF StpcpyEnd
<1>1. mem = Overwritten(call.d, n, NewByte)  BY <1>0, WrittenIs DEF StpcpyEnd
<1>2. \A k : NewByte(k) = Old(call.s, k)  BY DEF StpcpyEnd, NewByte
<1>3. mem = [before EXCEPT ![call.d.in] = [a \in DOMAIN before[call.d.in] |->
                IF a \in call.d.off .. call.d.off + n - 1 THEN Old(call.s, a - call.d.off)
                ELSE before[call.d.in][a]]]
  BY <1>1, <1>2 DEF Overwritten
<1>. QED  BY <1>0, <1>3 DEF Promised, Overwritten, StpcpyEnd

\* What read has reached when it returns ...
ReadEnd ==
    /\ call.f = "read" /\ call.d \in Pointers
    /\ IsMem(mem) /\ IsMem(before) /\ result \in Int
    /\ result >= 0 => Written(0, result)

\* ... is what it promises: the bytes it reports are in memory.
LEMMA ReadPromised == ReadEnd => Promised
<1>. SUFFICES ASSUME ReadEnd PROVE Promised  OBVIOUS
<1>1. ASSUME result >= 0
      PROVE  mem = [before EXCEPT ![call.d.in] = [a \in DOMAIN before[call.d.in] |->
                IF a \in call.d.off .. call.d.off + result - 1 THEN file[(a - call.d.off) + 1]
                ELSE before[call.d.in][a]]]
  <2>0. result \in Nat  BY <1>1 DEF ReadEnd
  <2>1. mem = Overwritten(call.d, result, NewByte)  BY <1>1, <2>0, WrittenIs DEF ReadEnd
  <2>2. \A k : NewByte(k) = file[k + 1]  BY DEF ReadEnd, NewByte
  <2>. QED  BY <2>1, <2>2 DEF Overwritten
<1>. QED  BY <1>1 DEF Promised, Overwritten, ReadEnd

\* What write has reached when it returns ...
WriteEnd ==
    /\ call.f = "write" /\ mem = before /\ result \in Int
    /\ result >= 0 => file = [k \in 1 .. result |-> Old(call.s, k - 1)]

\* ... is what it promises: the bytes it reports are in the file.
LEMMA WritePromised == WriteEnd => Promised
  BY DEF Promised, WriteEnd

\* What memchr has reached when it returns ...
ChrEnd ==
    /\ call.f = "memchr" /\ mem = before /\ i \in Nat /\ call.n \in Nat
    /\ \A k \in 0 .. i - 1 : Old(call.s, k) # call.b
    /\ \/ i < call.n /\ Old(call.s, i) = call.b /\ result = i
       \/ i = call.n /\ result = None

\* ... is what it promises: the first occurrence, or none.
LEMMA ChrPromised == ChrEnd => Promised
<1>. SUFFICES ASSUME ChrEnd PROVE Promised  OBVIOUS
<1>. DEFINE S == {k \in 0 .. call.n - 1 : Old(call.s, k) = call.b}
<1>1. S \in SUBSET Nat  BY DEF ChrEnd
<1>2. result = FirstOf(S, None)
  <2>1. CASE i < call.n /\ Old(call.s, i) = call.b /\ result = i
    <3>1. i \in S  BY <2>1 DEF ChrEnd
    <3>2. \A m \in S : i <= m  BY DEF ChrEnd
    <3>. QED  BY <1>1, <2>1, <3>1, <3>2, FirstIs
  <2>2. CASE i = call.n /\ result = None
    <3>1. S = {}  BY <2>2 DEF ChrEnd
    <3>. QED  BY <2>2, <3>1 DEF FirstOf
  <2>. QED  BY <2>1, <2>2 DEF ChrEnd
<1>. QED  BY <1>2 DEF Promised, ChrEnd

\* What memcmp has reached when it returns ...
CmpEnd ==
    /\ call.f = "memcmp" /\ mem = before /\ i \in Nat /\ call.n \in Nat
    /\ \A k \in 0 .. i - 1 : Old(call.d, k) = Old(call.s, k)
    /\ \/ i < call.n /\ Old(call.d, i) # Old(call.s, i) /\ result = Old(call.d, i) - Old(call.s, i)
       \/ i = call.n /\ result = 0

\* ... is what it promises: the first difference.
LEMMA CmpPromised == CmpEnd => Promised
<1>. SUFFICES ASSUME CmpEnd PROVE Promised  OBVIOUS
<1>. DEFINE S == {k \in 0 .. call.n - 1 : Old(call.d, k) # Old(call.s, k)}
<1>1. S \in SUBSET Nat  BY DEF CmpEnd
<1>2. result = DifferenceAt(FirstOf(S, None))
  <2>1. CASE i < call.n /\ Old(call.d, i) # Old(call.s, i) /\ result = Old(call.d, i) - Old(call.s, i)
    <3>1. i \in S  BY <2>1 DEF CmpEnd
    <3>2. \A m \in S : i <= m  BY DEF CmpEnd
    <3>3. FirstOf(S, None) = i  BY <1>1, <3>1, <3>2, FirstIs
    <3>4. i # None  BY BytesType DEF CmpEnd
    <3>. HIDE DEF S
    <3>. QED  BY <2>1, <3>3, <3>4 DEF DifferenceAt
  <2>2. CASE i = call.n /\ result = 0
    <3>1. S = {}  BY <2>2 DEF CmpEnd
    <3>. QED  BY <2>2, <3>1 DEF FirstOf, DifferenceAt
  <2>. QED  BY <2>1, <2>2 DEF CmpEnd
<1>. QED  BY <1>2 DEF Promised, CmpEnd

\* What strcmp has reached when it returns ...
StrcmpEnd ==
    /\ call.f = "strcmp" /\ mem = before /\ IsMem(before) /\ i \in Nat
    /\ call.d \in Pointers /\ call.s \in Pointers /\ EndsIn(call.d) /\ EndsIn(call.s)
    /\ \A k \in 0 .. i - 1 : Old(call.d, k) = Old(call.s, k) /\ Old(call.s, k) # 0
    /\ Old(call.d, i) # Old(call.s, i) \/ Old(call.d, i) = 0
    /\ result = Old(call.d, i) - Old(call.s, i)

\* ... is what it promises: the first difference, or the end of both.
LEMMA StrcmpPromised == StrcmpEnd => Promised
<1>. SUFFICES ASSUME StrcmpEnd PROVE Promised  OBVIOUS
<1>1. /\ \A k \in 0 .. i - 1 : Old(call.d, k) # 0 /\ Old(call.s, k) # 0
      /\ \A k \in 0 .. i - 1 : Old(call.d, k) = Old(call.s, k)
      /\ i \in Nat /\ call.d \in Pointers /\ call.s \in Pointers
      /\ EndsIn(call.d) /\ EndsIn(call.s) /\ IsMem(before)
  BY DEF StrcmpEnd
<1>2. PICK x, y : x = OldLength(call.d) /\ y = OldLength(call.s)  OBVIOUS
<1>3. x \in Nat /\ i <= x /\ (Old(call.d, i) = 0 => i = x)  BY <1>1, <1>2, LengthFacts, LengthIs
<1>4. y \in Nat /\ i <= y /\ (Old(call.s, i) = 0 => i = y)  BY <1>1, <1>2, LengthFacts, LengthIs
<1>5. PICK z \in Nat : z = Min({x, y}) /\ z <= x /\ z <= y /\ (z = x \/ z = y)
  <2>1. {x, y} \in SUBSET Nat /\ {x, y} # {}  BY <1>3, <1>4
  <2>. QED  BY <1>3, <1>4, <2>1, LeastNumber
<1>. DEFINE S == {k \in 0 .. z : Old(call.d, k) # Old(call.s, k)}
<1>6. S \in SUBSET Nat /\ i <= z  BY <1>1, <1>3, <1>4, <1>5
<1>7. result = DifferenceAt(FirstOf(S, None))
  <2>1. CASE Old(call.d, i) # Old(call.s, i)
    <3>1. i \in S  BY <1>1, <1>5, <1>6, <2>1
    <3>2. \A m \in S : i <= m  BY <1>1
    <3>3. FirstOf(S, None) = i  BY <1>6, <3>1, <3>2, FirstIs
    <3>4. i # None  BY <1>1, BytesType
    <3>. HIDE DEF S
    <3>. QED  BY <3>3, <3>4 DEF DifferenceAt, StrcmpEnd
  <2>2. CASE Old(call.d, i) = Old(call.s, i)
    <3>1. Old(call.d, i) = 0 /\ Old(call.s, i) = 0  BY <2>2 DEF StrcmpEnd
    <3>2. z = i  BY <1>3, <1>4, <1>5, <3>1
    <3>3. S = {}  BY <1>1, <2>2, <3>2
    <3>4. result = 0  BY <3>1 DEF StrcmpEnd
    <3>. QED  BY <3>3, <3>4 DEF FirstOf, DifferenceAt
  <2>. QED  BY <2>1, <2>2
<1>. QED  BY <1>2, <1>5, <1>7 DEF Promised, StrcmpEnd

\* What strlen has reached when it returns ...
StrlenEnd ==
    /\ call.f = "strlen" /\ mem = before /\ IsMem(before) /\ i \in Nat
    /\ call.s \in Pointers /\ EndsIn(call.s)
    /\ \A k \in 0 .. i - 1 : Old(call.s, k) # 0
    /\ Old(call.s, i) = 0 /\ result = i

\* ... is what it promises.
LEMMA StrlenPromised == StrlenEnd => Promised
<1>. SUFFICES ASSUME StrlenEnd PROVE Promised  OBVIOUS
<1>1. i = OldLength(call.s)  BY LengthIs DEF StrlenEnd
<1>. QED  BY <1>1 DEF Promised, StrlenEnd

-----------------------------------------------------------------------------
(* Calls *)

\* The functions.
Functions10 ==
    {"memcpy", "memmove", "memset", "memchr", "memcmp", "strcmp", "strlen", "stpcpy", "read", "write"}

\* No page is pinned.
Unpinned == \A p \in 0 .. NumPages - 1 : pins[p] = 0

\* The invariant holds before any call.
LEMMA InitIndInv == Init => IndInv
<1>. SUFFICES ASSUME Init PROVE IndInv  OBVIOUS
<1>1. IsMem(mem)
  <2>1. mem \in [cache : [0 .. CacheSize - 1 -> Bytes], local : [0 .. LocalSize - 1 -> Bytes]]
    BY DEF Init
  <2>2. /\ mem = [x \in {"cache", "local"} |-> mem[x]]
        /\ mem["cache"] \in [0 .. CacheSize - 1 -> Bytes]
        /\ mem["local"] \in [0 .. LocalSize - 1 -> Bytes]
    BY <2>1
  <2>. QED  BY <2>2, Sizes DEF IsMem, Spaces
<1>2. call.n = 0 /\ pc = "idle" /\ before = mem /\ i = 0  BY DEF Init, NoCall
<1>3. pins \in [0 .. NumPages - 1 -> Int] /\ Unpinned  BY DEF Init, Unpinned
<1>4. TypeOK  BY <1>1, <1>2, <1>3 DEF TypeOK
<1>5. IdleInv /\ CopyInv /\ BytesInv /\ ChunksInv /\ CallsCorrect
  BY <1>2 DEF IdleInv, CopyInv, BytesInv, ChunksInv, CallsCorrect, InLoop
<1>6. PinsInv  BY <1>2, <1>3 DEF PinsInv, Unpinned
<1>. QED  BY <1>4, <1>5, <1>6 DEF IndInv

\* A call preserves the invariant when its loop may begin.
LEMMA CallStep ==
    ASSUME IndInv, pc = "idle", UNCHANGED <<mem, i, before>>,
           call'.n \in Nat, call'.f \in Functions10, pc' \in {"copy", "bytes", "chunks"},
           pins' \in [0 .. NumPages - 1 -> Int], pc' = "copy" \/ pins' = pins,
           CopyInv', pc' = "copy" => PinsInv', BytesInv', ChunksInv'
    PROVE  IndInv'
<1>1. TypeOK'  BY DEF IndInv, TypeOK, Functions10, IsMem
<1>2. IdleInv' /\ CallsCorrect'  BY DEF IdleInv, CallsCorrect
<1>3. PinsInv'  BY DEF IndInv, PinsInv
<1>. QED  BY <1>1, <1>2, <1>3 DEF IndInv

\* The state in which a loop begins.
AtStart == mem = before /\ i = 0 /\ call.n \in Nat

\* At first, nothing has been written, at either end.
LEMMA StartWritten ==
    AtStart /\ call.d \in Pointers => Written(0, i) /\ Written(call.n - i, call.n)
<1>. SUFFICES ASSUME AtStart, call.d \in Pointers PROVE Written(0, i) /\ Written(call.n - i, call.n)
  OBVIOUS
<1>1. i = 0 /\ call.n - i = call.n /\ call.n \in Nat /\ call.d.off \in Nat  BY PointerIs DEF AtStart
<1>2. Written(0, 0) /\ Written(call.n, call.n)
  BY <1>1 DEF AtStart, Written
<1>. QED  BY <1>1, <1>2

\* private_cache_memcpy begins: it pins the first page of each cached side.
LEMMA StartCopyInv ==
    ASSUME IndInv, pc = "idle", UNCHANGED <<mem, i, before>>,
           NEW f \in {"memcpy", "memmove"}, NEW d \in Pointers, NEW s \in Pointers, NEW n \in Nat,
           call' = Calls(f, d, s, n, 0), Inside(d, n), Inside(s, n), Apart(d, s, n),
           StartCopy(call')
    PROVE  IndInv'
<1>1. /\ call'.f = f /\ call'.d = d /\ call'.s = s /\ call'.n = n
      /\ call'["d"] = d /\ call'["s"] = s
  BY DEF Calls
<1>2. mem = before /\ i = 0 /\ i' = 0 /\ pc' = "copy"  BY DEF IndInv, IdleInv, StartCopy
<1>3. /\ raw' = [x \in Sides |-> IF Cached(call'[x]) THEN RawOf(call'[x]) ELSE None]
      /\ pins' = PinsTaken(pins, call', Pinned(call'), 0)
  BY DEF StartCopy
<1>4. \A x \in Sides : call'[x] \in Pointers  BY <1>1 DEF Sides
<1>5. ASSUME NEW x \in Pinned(call')
      PROVE  /\ call'[x].off + i' < CacheSize /\ raw'[x] = RawOf(Plus(call'[x], i'))
             /\ raw'[x].page = Page(call'[x].off + 0)
  <2>1. PICK p \in Pointers : p = call'[x] /\ p.in = "cache"  BY <1>4 DEF Pinned, Cached
  <2>2. p.off \in Nat /\ p.off < CacheSize  BY <2>1, PointerIs, Sizes
  <2>3. Plus(p, 0).off = p.off  BY <2>2, PlusIs
  <2>4. raw'[x] = RawOf(p)  BY <1>3, <2>1 DEF Pinned, Cached
  <2>5. RawOf(Plus(p, 0)) = RawOf(p)  BY <2>3 DEF RawOf
  <2>6. RawOf(p).page = Page(p.off + 0)  BY <2>2 DEF RawOf
  <2>. QED  BY <1>2, <2>1, <2>2, <2>4, <2>5, <2>6
<1>6. Written(0, i)'
  <2>1. AtStart' /\ (call.d \in Pointers)'  BY <1>1, <1>2 DEF AtStart
  <2>2. (AtStart /\ call.d \in Pointers)' => Written(0, i)'  BY StartWritten, PTL
  <2>. QED  BY <2>1, <2>2
<1>7. CopyInv'
  <2>1. \A x \in Pinned(call)' : call'[x].off + i' < CacheSize /\ raw'[x] = RawOf(Plus(call'[x], i'))
    BY <1>5 DEF Pinned
  <2>. QED  BY <1>1, <1>2, <1>6, <2>1 DEF CopyInv, IsArea, Inside, Apart
<1>8. pins' \in [0 .. NumPages - 1 -> Int] /\ PinsInv'
  <2>1. pins \in [0 .. NumPages - 1 -> Int] /\ \A p \in 0 .. NumPages - 1 : pins[p] = 0
    BY DEF IndInv, TypeOK, PinsInv
  <2>2. ASSUME NEW p \in 0 .. NumPages - 1
        PROVE  /\ pins'[p] \in Int
               /\ pins'[p] = Cardinality({x \in Pinned(call') : raw'[x].page = p})
    <3>. DEFINE T == {x \in Pinned(call') : Page(call'[x].off + 0) = p}
    <3>1. pins'[p] = pins[p] + Cardinality(T)  BY <1>3, <2>1 DEF PinsTaken
    <3>2. T \in SUBSET Sides  BY DEF Pinned
    <3>3. Cardinality(T) \in Int  BY <3>2, SidesCount
    <3>4. T = {x \in Pinned(call') : raw'[x].page = p}  BY <1>5
    <3>. HIDE DEF T
    <3>. QED  BY <2>1, <3>1, <3>3, <3>4
  <2>3. pins' \in [0 .. NumPages - 1 -> Int]
    <3>1. DOMAIN pins = 0 .. NumPages - 1  BY <2>1
    <3>2. pins' = [p \in 0 .. NumPages - 1 |-> pins'[p]]  BY <1>3, <3>1 DEF PinsTaken
    <3>. QED  BY <2>2, <3>2
  <2>4. Pinned(call)' = Pinned(call')  BY DEF Pinned
  <2>. QED  BY <1>2, <2>2, <2>3, <2>4 DEF PinsInv
<1>9. BytesInv' /\ ChunksInv'  BY <1>2 DEF BytesInv, ChunksInv, InLoop
<1>10. call'.n \in Nat /\ call'.f \in Functions10  BY <1>1 DEF Functions10
<1>. QED  BY <1>2, <1>7, <1>8, <1>9, <1>10, CallStep

\* A call of memcpy.
LEMMA memcpyInv ==
    ASSUME IndInv, pc = "idle", NEW d \in Pointers, NEW s \in Pointers, NEW n \in Nat,
           cache_memcpy(d, s, n)
    PROVE  IndInv'
<1>1. /\ call' = Calls("memcpy", d, s, n, 0) /\ UNCHANGED <<mem, i, before>>
      /\ Inside(d, n) /\ Inside(s, n) /\ Apart(d, s, n) /\ StartCopy(call')
  BY DEF cache_memcpy, Called
<1>. QED  BY <1>1, StartCopyInv

\* A call that begins with a byte loop.
LEMMA ByteCallInv ==
    ASSUME IndInv, pc = "idle", NEW f \in Functions10, NEW d, NEW s, NEW n \in Nat, NEW b,
           call' = Calls(f, d, s, n, b), UNCHANGED <<mem, i, before>>, pc' = "bytes", pins' = pins,
           BytesInv'
    PROVE  IndInv'
<1>1. call'.f = f /\ call'.n = n  BY DEF Calls
<1>2. CopyInv' /\ ChunksInv'  BY DEF CopyInv, ChunksInv
<1>3. pins' \in [0 .. NumPages - 1 -> Int]  BY DEF IndInv, TypeOK
<1>. QED  BY <1>1, <1>2, <1>3, CallStep

\* A call of memmove: it copies when the areas do not overlap, and goes byte by byte
\* otherwise.
LEMMA memmoveInv ==
    ASSUME IndInv, pc = "idle", NEW d \in Pointers, NEW s \in Pointers, NEW n \in Nat,
           cache_memmove(d, s, n)
    PROVE  IndInv'
<1>1. PICK k : k = IF d = s THEN 0 ELSE n  OBVIOUS
<1>2. k \in Nat /\ k <= n  BY <1>1
<1>3. /\ call' = Calls("memmove", d, s, k, 0) /\ UNCHANGED <<mem, i, before>>
      /\ Inside(d, n) /\ Inside(s, n) /\ (Cached(d) \/ Cached(s))
      /\ IF d # s /\ (Cached(d) /\ Cached(s) => DisjointTest(d, s, n))
         THEN StartCopy(call')
         ELSE pc' = "bytes" /\ UNCHANGED <<raw, pins>>
  BY <1>1 DEF cache_memmove, Called
<1>4. Inside(d, k) /\ Inside(s, k)  BY <1>2, <1>3, PointerIs DEF Inside
<1>5. CASE d # s /\ (Cached(d) /\ Cached(s) => DisjointTest(d, s, n))
  <2>1. Apart(d, s, n)
    <3>1. CASE Cached(d) /\ Cached(s)
      <4>1. CASE n = 0  BY <4>1, PointerIs DEF Apart
      <4>2. CASE n # 0
        <5>1. n \in Nat \ {0} /\ d.in = "cache" /\ s.in = "cache"  BY <3>1, <4>2 DEF Cached
        <5>. QED  BY <1>3, <1>5, <3>1, <5>1, DisjointTestIs
      <4>. QED  BY <4>1, <4>2
    <3>2. CASE ~ (Cached(d) /\ Cached(s))  BY <1>3, <3>2 DEF Cached, Apart
    <3>. QED  BY <3>1, <3>2
  <2>2. k = n /\ StartCopy(call')  BY <1>1, <1>3, <1>5
  <2>. QED  BY <1>3, <2>1, <2>2, StartCopyInv
<1>6. CASE ~ (d # s /\ (Cached(d) /\ Cached(s) => DisjointTest(d, s, n)))
  <2>1. pc' = "bytes" /\ pins' = pins  BY <1>3, <1>6
  <2>2. call'.f = "memmove" /\ call'.d = d /\ call'.s = s /\ call'.n = k  BY <1>3 DEF Calls
  <2>3. mem' = before' /\ i' = 0  BY <1>3 DEF IndInv, IdleInv
  <2>4. k # 0 => d.in = s.in /\ d.off # s.off
    <3>1. SUFFICES ASSUME k # 0 PROVE d.in = s.in /\ d.off # s.off  OBVIOUS
    <3>2. d # s  BY <1>1, <3>1
    <3>3. Cached(d) /\ Cached(s)  BY <1>6, <3>2
    <3>. QED  BY <3>2, <3>3, PointerIs DEF Cached
  <2>5. Written(0, i)' /\ Written(call.n - i, call.n)'
    <3>1. (AtStart /\ call.d \in Pointers)'  BY <1>2, <2>2, <2>3 DEF AtStart
    <3>2. (AtStart /\ call.d \in Pointers)' => Written(0, i)' /\ Written(call.n - i, call.n)'
      BY StartWritten, PTL
    <3>. QED  BY <3>1, <3>2
  <2>6. IsArea(call.d)' /\ IsArea(call.s)'  BY <1>4, <2>2 DEF IsArea, Inside
  <2>7. BytesInv'  BY <1>2, <2>1, <2>2, <2>3, <2>4, <2>5, <2>6 DEF BytesInv, InLoop
  <2>8. "memmove" \in Functions10  BY DEF Functions10
  <2>. QED  BY <1>2, <1>3, <2>1, <2>7, <2>8, ByteCallInv
<1>. QED  BY <1>5, <1>6

\* A call of one of the other byte loops.
LEMMA ByteCallsInv ==
    ASSUME IndInv, pc = "idle", NEW d \in Pointers, NEW s \in Pointers, NEW n \in Nat, NEW b \in Bytes,
           \/ cache_memset(d, b, n) \/ cache_memchr(s, b, n) \/ memcmp(d, s, n)
           \/ strcmp(d, s) \/ strlen(s) \/ stpcpy(d, s)
    PROVE  IndInv'
<1>1. mem = before /\ i = 0 /\ IsMem(before)  BY DEF IndInv, IdleInv, TypeOK
<1>2. (AtStart /\ call.d \in Pointers)' => Written(0, i)' /\ Written(call.n - i, call.n)'
  BY StartWritten, PTL
<1>3. ASSUME NEW f \in Functions10, NEW e, NEW t, NEW k \in Nat, NEW x, ByteCall(f, e, t, k, x)
      PROVE  /\ call' = Calls(f, e, t, k, x) /\ UNCHANGED <<mem, i, before>> /\ pc' = "bytes" /\ pins' = pins
             /\ call'.f = f /\ call'.d = e /\ call'.s = t /\ call'.n = k /\ call'.b = x
             /\ mem' = before' /\ i' = 0
             /\ e \in Pointers => Written(0, i)'
             /\ BytesInv' => IndInv'
  <2>1. call' = Calls(f, e, t, k, x) /\ UNCHANGED <<mem, i, before>> /\ pc' = "bytes" /\ pins' = pins
    BY <1>3 DEF ByteCall, Called
  <2>2. call'.f = f /\ call'.d = e /\ call'.s = t /\ call'.n = k /\ call'.b = x  BY <2>1 DEF Calls
  <2>3. mem' = before' /\ i' = 0  BY <1>1, <2>1
  <2>4. e \in Pointers => Written(0, i)'  BY <1>2, <2>2, <2>3 DEF AtStart
  <2>5. BytesInv' => IndInv'  BY <2>1, ByteCallInv
  <2>. QED  BY <2>1, <2>2, <2>3, <2>4, <2>5
<1>4. {"memset", "memchr", "memcmp", "strcmp", "strlen", "stpcpy"} \subseteq Functions10
  BY DEF Functions10
<1>5. CASE cache_memset(d, b, n)
  <2>1. Inside(d, n) /\ ByteCall("memset", d, None, n, b)  BY <1>5 DEF cache_memset
  <2>2. BytesInv'  BY <1>3, <1>4, <2>1 DEF BytesInv, InLoop, IsArea, Inside
  <2>. QED  BY <1>3, <1>4, <2>1, <2>2
<1>6. CASE cache_memchr(s, b, n)
  <2>1. Inside(s, n) /\ ByteCall("memchr", None, s, n, b)  BY <1>6 DEF cache_memchr
  <2>2. BytesInv'  BY <1>3, <1>4, <2>1 DEF BytesInv, InLoop, IsArea, Inside
  <2>. QED  BY <1>3, <1>4, <2>1, <2>2
<1>7. CASE memcmp(d, s, n)
  <2>1. Inside(d, n) /\ Inside(s, n) /\ ByteCall("memcmp", d, s, n, 0)  BY <1>7 DEF memcmp
  <2>2. BytesInv'  BY <1>3, <1>4, <2>1 DEF BytesInv, InLoop, IsArea, Inside
  <2>. QED  BY <1>3, <1>4, <2>1, <2>2
<1>8. CASE strcmp(d, s)
  <2>1. EndsIn(d) /\ EndsIn(s) /\ ByteCall("strcmp", d, s, 0, 0)
    BY <1>1, <1>8, LengthNow DEF strcmp
  <2>2. BytesInv'  BY <1>3, <1>4, <2>1 DEF BytesInv, InLoop, EndsIn
  <2>. QED  BY <1>3, <1>4, <2>1, <2>2
<1>9. CASE strlen(s)
  <2>1. EndsIn(s) /\ ByteCall("strlen", None, s, 0, 0)
    BY <1>1, <1>9, LengthNow DEF strlen
  <2>2. BytesInv'  BY <1>3, <1>4, <2>1 DEF BytesInv, InLoop, EndsIn
  <2>. QED  BY <1>3, <1>4, <2>1, <2>2
<1>10. CASE stpcpy(d, s)
  <2>1. /\ EndsIn(s) /\ ByteCall("stpcpy", d, s, 0, 0)
        /\ Inside(d, OldLength(s) + 1) /\ Apart(d, s, OldLength(s) + 1)
    BY <1>1, <1>10, LengthNow DEF stpcpy
  <2>2. /\ call'.f = "stpcpy" /\ call'.d = d /\ call'.s = s /\ pc' = "bytes" /\ i' = 0
        /\ before' = before /\ Written(0, i)'
    BY <1>3, <1>4, <2>1
  <2>3. OldLength(call.s)' = OldLength(s)  BY <2>2 DEF OldLength, Old
  <2>4. EndsIn(call.s)'  BY <2>1, <2>2 DEF EndsIn
  <2>5. Inside(call.d, OldLength(call.s) + 1)' /\ Apart(call.d, call.s, OldLength(call.s) + 1)'
    BY <2>1, <2>2, <2>3 DEF Inside, Apart
  <2>6. BytesInv'  BY <2>2, <2>4, <2>5 DEF BytesInv, InLoop
  <2>. QED  BY <1>3, <1>4, <2>1, <2>6
<1>. QED  BY <1>5, <1>6, <1>7, <1>8, <1>9, <1>10

\* A call of read or write.
LEMMA ChunkCallsInv ==
    ASSUME IndInv, pc = "idle", NEW p \in Pointers, NEW n \in Nat,
           write(p, n) \/ \E f \in Files : read(p, n, f)
    PROVE  IndInv'
<1>1. mem = before /\ i = 0 /\ IsMem(before) /\ pins \in [0 .. NumPages - 1 -> Int]
  BY DEF IndInv, IdleInv, TypeOK
<1>2. ASSUME NEW f \in Files, read(p, n, f) PROVE IndInv'
  <2>1. /\ call' = Calls("read", p, None, n, 0) /\ UNCHANGED <<mem, i, before>>
        /\ pc' = "chunks" /\ file' = f /\ pins' = pins /\ Cached(p) /\ Inside(p, n)
    BY <1>2 DEF read, Called
  <2>2. call'.f = "read" /\ call'.d = p /\ call'.n = n  BY <2>1 DEF Calls
  <2>3. file' \in Seq(Bytes) /\ i' = 0 /\ i' <= Len(file')  BY <1>1, <2>1, FilesAssumption
  <2>4. Written(0, i)'
    <3>1. (AtStart /\ call.d \in Pointers)'  BY <1>1, <2>1, <2>2 DEF AtStart
    <3>2. (AtStart /\ call.d \in Pointers)' => Written(0, i)'  BY StartWritten, PTL
    <3>. QED  BY <3>1, <3>2
  <2>5. ChunksInv'  BY <2>1, <2>2, <2>3, <2>4 DEF ChunksInv, IsArea, Inside, Cached
  <2>6. CopyInv' /\ BytesInv'  BY <2>1 DEF CopyInv, BytesInv, InLoop
  <2>7. call'.f \in Functions10  BY <2>2 DEF Functions10
  <2>. QED  BY <1>1, <2>1, <2>2, <2>5, <2>6, <2>7, CallStep
<1>3. ASSUME write(p, n) PROVE IndInv'
  <2>1. /\ call' = Calls("write", None, p, n, 0) /\ UNCHANGED <<mem, i, before>>
        /\ pc' = "chunks" /\ file' = <<>> /\ pins' = pins /\ Cached(p) /\ Inside(p, n)
    BY <1>3 DEF write, Called
  <2>2. call'.f = "write" /\ call'.s = p /\ call'.n = n  BY <2>1 DEF Calls
  <2>3. file' = [k \in 1 .. i |-> Old(call.s, k - 1)]'
    <3>1. 1 .. i' = {}  BY <1>1, <2>1
    <3>. QED  BY <2>1, <3>1
  <2>5. ChunksInv'  BY <1>1, <2>1, <2>2, <2>3 DEF ChunksInv, IsArea, Inside, Cached
  <2>6. CopyInv' /\ BytesInv'  BY <2>1 DEF CopyInv, BytesInv, InLoop
  <2>7. call'.f \in Functions10  BY <2>2 DEF Functions10
  <2>. QED  BY <1>1, <2>1, <2>2, <2>5, <2>6, <2>7, CallStep
<1>. QED  BY <1>2, <1>3

\* Every call preserves the invariant.
LEMMA CallInv ==
    ASSUME IndInv, Call
    PROVE  IndInv'
<1>1. pc = "idle" /\ 0 .. CacheSize \subseteq Nat  BY Sizes DEF Call
<1>2. 0 \in Nat /\ 0 \in Bytes  BY BytesType
<1>3. ASSUME NEW d \in Pointers, NEW s \in Pointers, NEW n \in 0 .. CacheSize,
             cache_memcpy(d, s, n) \/ cache_memmove(d, s, n) \/ memcmp(d, s, n)
      PROVE  IndInv'
  BY <1>1, <1>2, <1>3, memcpyInv, memmoveInv, ByteCallsInv
<1>4. ASSUME NEW d \in Pointers, NEW s \in Pointers, strcmp(d, s) \/ stpcpy(d, s)
      PROVE  IndInv'
  BY <1>1, <1>2, <1>4, ByteCallsInv
<1>5. ASSUME NEW p \in Pointers, NEW n \in 0 .. CacheSize,
             write(p, n) \/ \E f \in Files : read(p, n, f)
      PROVE  IndInv'
  BY <1>1, <1>5, ChunkCallsInv
<1>6. ASSUME NEW p \in Pointers, NEW n \in 0 .. CacheSize, NEW b \in Bytes,
             cache_memset(p, b, n) \/ cache_memchr(p, b, n)
      PROVE  IndInv'
  BY <1>1, <1>6, ByteCallsInv
<1>7. ASSUME NEW p \in Pointers, strlen(p) PROVE IndInv'
  BY <1>1, <1>2, <1>7, ByteCallsInv
<1>. QED  BY <1>3, <1>4, <1>5, <1>6, <1>7 DEF Call

-----------------------------------------------------------------------------
(* The loops over bytes *)

\* A loop that has reached what it promises may return.
LEMMA ReturnsInv ==
    ASSUME IndInv, pc \in {"bytes", "chunks"}, NEW r, Returns(r), Promised'
    PROVE  IndInv'
<1>1. pc' = "done" /\ UNCHANGED <<mem, pins, call, raw, i, file, before>>  BY DEF Returns
<1>2. TypeOK'  BY <1>1 DEF IndInv, TypeOK, IsMem
<1>3. IdleInv' /\ CopyInv' /\ BytesInv' /\ ChunksInv' /\ CallsCorrect'
  BY <1>1 DEF IdleInv, CopyInv, BytesInv, ChunksInv, InLoop, CallsCorrect
<1>4. PinsInv'  BY <1>1 DEF IndInv, PinsInv
<1>. QED  BY <1>2, <1>3, <1>4 DEF IndInv

\* A byte loop that keeps its invariant may go on.
LEMMA ContinuesInv ==
    ASSUME IndInv, pc = "bytes", Continues(mem'), IsMem(mem'), BytesInv'
    PROVE  IndInv'
<1>1. i' = i + 1 /\ UNCHANGED <<pins, call, pc, raw, result, file, before>>  BY DEF Continues
<1>2. TypeOK'  BY <1>1 DEF IndInv, TypeOK, IsMem
<1>3. IdleInv' /\ CopyInv' /\ ChunksInv' /\ CallsCorrect'
  BY <1>1 DEF IdleInv, CopyInv, ChunksInv, CallsCorrect
<1>4. PinsInv'  BY <1>1 DEF IndInv, PinsInv
<1>. QED  BY <1>2, <1>3, <1>4 DEF IndInv

\* Writing the byte behind the range, or in front of it, extends the range.
LEMMA StoreByte ==
    ASSUME IsMem(mem), NEW d \in Pointers, d = call.d, NEW lo \in Nat, NEW hi \in Nat, NEW k \in Nat,
           Written(lo, hi), d.off + k < Space[d.in], NEW b \in Bytes, b = NewByte(k),
           UNCHANGED <<call, before, file>>, mem' = Stored(Plus(d, k), b)
    PROVE  /\ IsMem(mem')
           /\ k = hi /\ lo <= hi => Written(lo, hi + 1)'
           /\ k = lo - 1 /\ lo <= hi => Written(lo - 1, hi)'
<1>1. /\ d.in \in Spaces /\ d.off \in Nat /\ Plus(d, k).in = d.in /\ Plus(d, k).off = d.off + k
      /\ d.off + k \in 0 .. Space[d.in] - 1 /\ Space[d.in] \in Nat
  BY PointerIs, PlusIs
<1>2. /\ IsMem(mem')
      /\ \A x \in Spaces : \A a \in 0 .. Space[x] - 1 :
            mem'[x][a] = IF x = d.in /\ a = d.off + k THEN b ELSE mem[x][a]
  BY <1>1, StoredIs
<1>3. \A j : NewByte(j)' = NewByte(j)  BY DEF NewByte, Old
<1>4. ASSUME k = hi, lo <= hi PROVE Written(lo, hi + 1)'
  <2>1. ASSUME NEW x \in Spaces, NEW a \in 0 .. Space[x] - 1
        PROVE  mem'[x][a] = IF x = d.in /\ d.off + lo <= a /\ a < d.off + (hi + 1)
                            THEN NewByte(a - d.off) ELSE before[x][a]
    <3>1. a \in Nat  OBVIOUS
    <3>2. mem[x][a] = IF x = d.in /\ d.off + lo <= a /\ a < d.off + hi
                      THEN NewByte(a - d.off) ELSE before[x][a]
      BY DEF Written
    <3>3. CASE x = d.in /\ a = d.off + k
      <4>1. a - d.off = k  BY <1>1, <3>3
      <4>. QED  BY <1>1, <1>2, <1>4, <3>1, <3>3, <4>1
    <3>4. CASE ~ (x = d.in /\ a = d.off + k)
      <4>1. mem'[x][a] = mem[x][a]  BY <1>2, <3>4
      <4>2. x = d.in => (a < d.off + hi <=> a < d.off + (hi + 1))  BY <1>1, <1>4, <3>1, <3>4
      <4>. QED  BY <3>2, <4>1, <4>2
    <3>. QED  BY <3>3, <3>4
  <2>. QED  BY <1>3, <2>1 DEF Written
<1>5. ASSUME k = lo - 1, lo <= hi PROVE Written(lo - 1, hi)'
  <2>1. ASSUME NEW x \in Spaces, NEW a \in 0 .. Space[x] - 1
        PROVE  mem'[x][a] = IF x = d.in /\ d.off + (lo - 1) <= a /\ a < d.off + hi
                            THEN NewByte(a - d.off) ELSE before[x][a]
    <3>1. a \in Nat  OBVIOUS
    <3>2. mem[x][a] = IF x = d.in /\ d.off + lo <= a /\ a < d.off + hi
                      THEN NewByte(a - d.off) ELSE before[x][a]
      BY DEF Written
    <3>3. CASE x = d.in /\ a = d.off + k
      <4>1. a - d.off = k  BY <1>1, <3>3
      <4>. QED  BY <1>1, <1>2, <1>5, <3>1, <3>3, <4>1
    <3>4. CASE ~ (x = d.in /\ a = d.off + k)
      <4>1. mem'[x][a] = mem[x][a]  BY <1>2, <3>4
      <4>2. x = d.in => (d.off + lo <= a <=> d.off + (lo - 1) <= a)  BY <1>1, <1>5, <3>1, <3>4
      <4>. QED  BY <3>2, <4>1, <4>2
    <3>. QED  BY <3>3, <3>4
  <2>. QED  BY <1>3, <2>1 DEF Written
<1>. QED  BY <1>2, <1>4, <1>5

\* What a loop reads in unchanged memory are the bytes at the call.
LEMMA LoadIs ==
    ASSUME NEW p \in Pointers, NEW k \in Int
    PROVE  /\ Load(Plus(p, k)) = mem[p.in][p.off + k]
           /\ Old(p, k) = before[p.in][p.off + k]
           /\ mem = before => Load(Plus(p, k)) = Old(p, k)
  BY PlusIs DEF Load, Old

\* The types inside a byte loop.
LEMMA LoopTypes ==
    ASSUME IndInv, pc = "bytes"
    PROVE  IsMem(mem) /\ IsMem(before) /\ i \in Nat /\ call.n \in Nat
  BY DEF IndInv, TypeOK

\* One byte of memset.
LEMMA MemsetInv ==
    ASSUME IndInv, MemsetStep
    PROVE  IndInv'
<1>1. /\ pc = "bytes" /\ call.f = "memset" /\ IsMem(mem) /\ IsMem(before) /\ i \in Nat /\ call.n \in Nat
      /\ call.d \in Pointers /\ Inside(call.d, call.n) /\ call.b \in Bytes /\ i <= call.n /\ Written(0, i)
  BY LoopTypes DEF MemsetStep, Loop, IndInv, BytesInv, InLoop, IsArea
<1>2. CASE i < call.n
  <2>1. Continues(Stored(Plus(call.d, i), call.b))  BY <1>2 DEF MemsetStep
  <2>2. /\ mem' = Stored(Plus(call.d, i), call.b) /\ i' = i + 1
        /\ UNCHANGED <<pins, call, pc, raw, result, file, before>>
    BY <2>1 DEF Continues
  <2>3. PICK d \in Pointers, b \in Bytes : d = call.d /\ b = call.b  BY <1>1
  <2>4. d.off \in Nat /\ Space[d.in] \in Nat /\ d.off + i < Space[d.in]
    BY <1>1, <1>2, <2>3, PointerIs DEF Inside
  <2>5. b = NewByte(i)  BY <1>1, <2>3 DEF NewByte
  <2>6. PICK k \in Nat : k = i  BY <1>1
  <2>7. IsMem(mem') /\ Written(0, i)'
    <3>1. Written(0, k)  BY <1>1, <2>6
    <3>2. IsMem(mem') /\ Written(0, k + 1)'
      BY <1>1, <2>2, <2>3, <2>4, <2>5, <2>6, <3>1, StoreByte
    <3>3. i' = k + 1  BY <2>2, <2>6
    <3>. QED  BY <3>2, <3>3
  <2>8. BytesInv'  BY <1>1, <1>2, <2>2, <2>7 DEF BytesInv, InLoop, IsArea, Inside
  <2>. QED  BY <1>1, <2>1, <2>2, <2>7, <2>8, ContinuesInv
<1>3. CASE ~ (i < call.n)
  <2>1. Returns(0)  BY <1>3 DEF MemsetStep
  <2>2. i = call.n  BY <1>1, <1>3
  <2>3. SetEnd  BY <1>1, <2>2 DEF SetEnd
  <2>4. SetEnd'  BY <2>1, <2>3 DEF Returns, SetEnd, Written, NewByte, Old, IsMem
  <2>5. SetEnd' => Promised'  BY SetPromised, PTL
  <2>. QED  BY <1>1, <2>1, <2>4, <2>5, ReturnsInv
<1>. QED  BY <1>2, <1>3

\* One byte of memmove, forwards or backwards: the byte it reads has not been overwritten.
LEMMA MemmoveInv ==
    ASSUME IndInv, MemmoveStep
    PROVE  IndInv'
<1>1. /\ pc = "bytes" /\ call.f = "memmove" /\ IsMem(mem) /\ IsMem(before) /\ i \in Nat /\ call.n \in Nat
      /\ call.d \in Pointers /\ Inside(call.d, call.n) /\ call.s \in Pointers /\ Inside(call.s, call.n)
      /\ i <= call.n
      /\ call.n # 0 => call.d.in = call.s.in /\ call.d.off # call.s.off
      /\ IF call.d.off < call.s.off THEN Written(0, i) ELSE Written(call.n - i, call.n)
  BY LoopTypes DEF MemmoveStep, Loop, IndInv, BytesInv, InLoop, IsArea
<1>2. PICK d \in Pointers, s \in Pointers, n \in Nat, k \in Nat :
          d = call.d /\ s = call.s /\ n = call.n /\ k = i
  BY <1>1
<1>3. /\ d.off \in Nat /\ s.off \in Nat /\ d.in \in Spaces /\ s.in \in Spaces /\ Space[d.in] \in Nat
      /\ Space[s.in] \in Nat /\ d.off + n <= Space[d.in] /\ s.off + n <= Space[s.in]
  BY <1>1, <1>2, PointerIs DEF Inside
<1>4. CASE i < call.n
  <2>1. PICK j : j = Moved(call)  OBVIOUS
  <2>2. j \in 0 .. n - 1 /\ j = IF d.off < s.off THEN k ELSE n - 1 - k
    BY <1>1, <1>2, <1>4, <2>1 DEF Moved
  <2>3. Continues(Stored(Plus(d, j), Load(Plus(s, j))))  BY <1>2, <1>4, <2>1 DEF MemmoveStep
  <2>4. /\ mem' = Stored(Plus(d, j), Load(Plus(s, j))) /\ i' = i + 1
        /\ UNCHANGED <<pins, call, pc, raw, result, file, before>>
    BY <2>3 DEF Continues
  <2>5. d.in = s.in /\ d.off # s.off  BY <1>1, <1>2, <1>4
  <2>6. s.off + j \in 0 .. Space[s.in] - 1 /\ d.off + j < Space[d.in] /\ j \in Nat  BY <1>3, <2>2
  <2>7. mem[s.in][s.off + j] = before[s.in][s.off + j]
    <3>1. CASE d.off < s.off
      <4>1. Written(0, k)  BY <1>1, <1>2, <3>1
      <4>2. ~ (s.off + j < d.off + k)  BY <1>3, <2>2, <3>1
      <4>. QED  BY <1>2, <1>3, <2>6, <4>1, <4>2 DEF Written
    <3>2. CASE ~ (d.off < s.off)
      <4>1. Written(n - k, n)  BY <1>1, <1>2, <3>2
      <4>2. ~ (d.off + (n - k) <= s.off + j)  BY <1>2, <1>3, <2>2, <2>5, <3>2
      <4>. QED  BY <1>2, <1>3, <2>6, <4>1, <4>2 DEF Written
    <3>. QED  BY <3>1, <3>2
  <2>8. PICK b \in Bytes : b = Load(Plus(s, j)) /\ b = NewByte(j)
    <3>1. Load(Plus(s, j)) = mem[s.in][s.off + j] /\ Old(s, j) = before[s.in][s.off + j]
      BY <2>6, LoadIs
    <3>2. mem[s.in][s.off + j] \in Bytes  BY <1>1, <1>3, <2>6, MemTypes
    <3>3. NewByte(j) = Old(s, j)  BY <1>1, <1>2 DEF NewByte
    <3>. QED  BY <2>7, <3>1, <3>2, <3>3
  <2>9. IsMem(mem') /\ IF d.off < s.off THEN Written(0, k + 1)' ELSE Written(n - (k + 1), n)'
    <3>1. CASE d.off < s.off
      <4>1. Written(0, k)  BY <1>1, <1>2, <3>1
      <4>2. IsMem(mem') /\ Written(0, k + 1)'
        BY <1>1, <1>2, <2>2, <2>4, <2>6, <2>8, <3>1, <4>1, StoreByte
      <4>. QED  BY <3>1, <4>2
    <3>2. CASE ~ (d.off < s.off)
      <4>0. n - k \in Nat /\ j = (n - k) - 1 /\ n - k <= n  BY <1>1, <1>2, <2>2, <3>2
      <4>1. PICK lo \in Nat : lo = n - k /\ j = lo - 1 /\ lo <= n  BY <4>0
      <4>2. Written(lo, n)  BY <1>1, <1>2, <3>2, <4>1
      <4>3. IsMem(mem') /\ Written(lo - 1, n)'
        BY <1>1, <1>2, <2>4, <2>6, <2>8, <4>1, <4>2, StoreByte
      <4>4. lo - 1 = n - (k + 1)  BY <4>1
      <4>. QED  BY <3>2, <4>3, <4>4
    <3>. QED  BY <3>1, <3>2
  <2>10. i' = k + 1 /\ call'.d = d /\ call'.s = s /\ call'.n = n /\ k + 1 <= n
    BY <1>2, <1>4, <2>4
  <2>11. BytesInv'
    <3>1. IF d.off < s.off THEN Written(0, i)' ELSE Written(call.n - i, call.n)'
      BY <2>9, <2>10
    <3>. QED  BY <1>1, <1>2, <2>4, <2>5, <2>10, <3>1 DEF BytesInv, InLoop, IsArea, Inside
  <2>12. Continues(mem')  BY <2>3, <2>4
  <2>. QED  BY <1>1, <2>9, <2>11, <2>12, ContinuesInv
<1>5. CASE ~ (i < call.n)
  <2>1. Returns(0)  BY <1>5 DEF MemmoveStep
  <2>2. i = call.n /\ call.n - i = 0  BY <1>1, <1>5
  <2>3. Written(0, call.n)  BY <1>1, <2>2
  <2>4. CopyEnd  BY <1>1, <2>3 DEF CopyEnd
  <2>5. CopyEnd'  BY <2>1, <2>4 DEF Returns, CopyEnd, Written, NewByte, Old, IsMem
  <2>6. CopyEnd' => Promised'  BY CopyPromised, PTL
  <2>. QED  BY <1>1, <2>1, <2>5, <2>6, ReturnsInv
<1>. QED  BY <1>4, <1>5

\* One byte of memchr.
LEMMA MemchrInv ==
    ASSUME IndInv, MemchrStep
    PROVE  IndInv'
<1>1. /\ pc = "bytes" /\ call.f = "memchr" /\ IsMem(mem) /\ IsMem(before) /\ i \in Nat /\ call.n \in Nat
      /\ call.s \in Pointers /\ Inside(call.s, call.n) /\ i <= call.n /\ mem = before
      /\ \A k \in 0 .. i - 1 : Old(call.s, k) # call.b
  BY LoopTypes DEF MemchrStep, Loop, IndInv, BytesInv, InLoop, IsArea
<1>2. R = Old(call.s, i)  BY <1>1, LoadIs DEF R
<1>3. CASE i < call.n /\ R # call.b
  <2>1. Continues(mem)  BY <1>3 DEF MemchrStep
  <2>2. mem' = mem /\ i' = i + 1 /\ UNCHANGED <<pins, call, pc, raw, result, file, before>>
    BY <2>1 DEF Continues
  <2>3. \A k \in 0 .. i : Old(call.s, k) # call.b
    <3>1. \A k \in 0 .. i : k = i \/ k \in 0 .. i - 1  BY <1>1
    <3>. QED  BY <1>1, <1>2, <1>3, <3>1
  <2>4. \A k \in 0 .. i' - 1 : Old(call.s, k)' # call'.b
    <3>1. i' - 1 = i  BY <1>1, <2>2
    <3>. QED  BY <2>2, <2>3, <3>1 DEF Old
  <2>5. BytesInv'  BY <1>1, <1>3, <2>2, <2>4 DEF BytesInv, InLoop, IsArea, Inside
  <2>. QED  BY <1>1, <2>1, <2>2, <2>5, ContinuesInv
<1>4. CASE ~ (i < call.n /\ R # call.b)
  <2>1. PICK r : r = (IF i < call.n THEN i ELSE None) /\ Returns(r)  BY <1>4 DEF MemchrStep
  <2>2. \/ i < call.n /\ Old(call.s, i) = call.b /\ r = i
        \/ i = call.n /\ r = None
    BY <1>1, <1>2, <1>4, <2>1
  <2>3. ChrEnd'  BY <1>1, <2>1, <2>2 DEF Returns, ChrEnd, Old
  <2>4. ChrEnd' => Promised'  BY ChrPromised, PTL
  <2>. QED  BY <1>1, <2>1, <2>3, <2>4, ReturnsInv
<1>. QED  BY <1>3, <1>4

\* One byte of memcmp.
LEMMA MemcmpInv ==
    ASSUME IndInv, MemcmpStep
    PROVE  IndInv'
<1>1. /\ pc = "bytes" /\ call.f = "memcmp" /\ IsMem(mem) /\ IsMem(before) /\ i \in Nat /\ call.n \in Nat
      /\ call.d \in Pointers /\ Inside(call.d, call.n)
      /\ call.s \in Pointers /\ Inside(call.s, call.n) /\ i <= call.n /\ mem = before
      /\ \A k \in 0 .. i - 1 : Old(call.d, k) = Old(call.s, k)
  BY LoopTypes DEF MemcmpStep, Loop, IndInv, BytesInv, InLoop, IsArea
<1>2. R = Old(call.s, i) /\ L = Old(call.d, i)  BY <1>1, LoadIs DEF L, R
<1>3. CASE i < call.n /\ L = R
  <2>1. Continues(mem)  BY <1>3 DEF MemcmpStep
  <2>2. mem' = mem /\ i' = i + 1 /\ UNCHANGED <<pins, call, pc, raw, result, file, before>>
    BY <2>1 DEF Continues
  <2>3. \A k \in 0 .. i : Old(call.d, k) = Old(call.s, k)
    <3>1. \A k \in 0 .. i : k = i \/ k \in 0 .. i - 1  BY <1>1
    <3>. QED  BY <1>1, <1>2, <1>3, <3>1
  <2>4. \A k \in 0 .. i' - 1 : Old(call.d, k)' = Old(call.s, k)'
    <3>1. i' - 1 = i  BY <1>1, <2>2
    <3>. QED  BY <2>2, <2>3, <3>1 DEF Old
  <2>5. BytesInv'  BY <1>1, <1>3, <2>2, <2>4 DEF BytesInv, InLoop, IsArea, Inside
  <2>. QED  BY <1>1, <2>1, <2>2, <2>5, ContinuesInv
<1>4. CASE ~ (i < call.n /\ L = R)
  <2>1. PICK r : r = (IF i < call.n THEN L - R ELSE 0) /\ Returns(r)  BY <1>4 DEF MemcmpStep
  <2>2. \/ i < call.n /\ Old(call.d, i) # Old(call.s, i) /\ r = Old(call.d, i) - Old(call.s, i)
        \/ i = call.n /\ r = 0
    BY <1>1, <1>2, <1>4, <2>1
  <2>3. CmpEnd'  BY <1>1, <2>1, <2>2 DEF Returns, CmpEnd, Old
  <2>4. CmpEnd' => Promised'  BY CmpPromised, PTL
  <2>. QED  BY <1>1, <2>1, <2>3, <2>4, ReturnsInv
<1>. QED  BY <1>3, <1>4

\* One byte of strcmp.
LEMMA StrcmpInv ==
    ASSUME IndInv, StrcmpStep
    PROVE  IndInv'
<1>1. /\ pc = "bytes" /\ call.f = "strcmp" /\ IsMem(mem) /\ IsMem(before) /\ i \in Nat
      /\ call.d \in Pointers /\ call.s \in Pointers /\ mem = before
      /\ EndsIn(call.d) /\ EndsIn(call.s)
      /\ \A k \in 0 .. i - 1 : Old(call.d, k) = Old(call.s, k) /\ Old(call.s, k) # 0
  BY LoopTypes DEF StrcmpStep, Loop, IndInv, BytesInv, InLoop
<1>2. R = Old(call.s, i) /\ L = Old(call.d, i)  BY <1>1, LoadIs DEF L, R
<1>3. CASE L = R /\ L # 0
  <2>1. Continues(mem)  BY <1>3 DEF StrcmpStep
  <2>2. mem' = mem /\ i' = i + 1 /\ UNCHANGED <<pins, call, pc, raw, result, file, before>>
    BY <2>1 DEF Continues
  <2>3. \A k \in 0 .. i : Old(call.d, k) = Old(call.s, k) /\ Old(call.s, k) # 0
    <3>1. \A k \in 0 .. i : k = i \/ k \in 0 .. i - 1  BY <1>1
    <3>. QED  BY <1>1, <1>2, <1>3, <3>1
  <2>4. \A k \in 0 .. i' - 1 : Old(call.d, k)' = Old(call.s, k)' /\ Old(call.s, k)' # 0
    <3>1. i' - 1 = i  BY <1>1, <2>2
    <3>. QED  BY <2>2, <2>3, <3>1 DEF Old
  <2>5. BytesInv'  BY <1>1, <2>2, <2>4 DEF BytesInv, InLoop, EndsIn
  <2>. QED  BY <1>1, <2>1, <2>2, <2>5, ContinuesInv
<1>4. CASE ~ (L = R /\ L # 0)
  <2>1. Returns(L - R)  BY <1>4 DEF StrcmpStep
  <2>2. PICK r : r = L - R /\ r = Old(call.d, i) - Old(call.s, i) /\ Returns(r)  BY <1>2, <2>1
  <2>3. StrcmpEnd'  BY <1>1, <1>2, <1>4, <2>2 DEF Returns, StrcmpEnd, Old, EndsIn, IsMem
  <2>4. StrcmpEnd' => Promised'  BY StrcmpPromised, PTL
  <2>. QED  BY <1>1, <2>2, <2>3, <2>4, ReturnsInv
<1>. QED  BY <1>3, <1>4

\* One byte of strlen.
LEMMA StrlenInv ==
    ASSUME IndInv, StrlenStep
    PROVE  IndInv'
<1>1. /\ pc = "bytes" /\ call.f = "strlen" /\ IsMem(mem) /\ IsMem(before) /\ i \in Nat
      /\ call.s \in Pointers /\ mem = before /\ EndsIn(call.s)
      /\ \A k \in 0 .. i - 1 : Old(call.s, k) # 0
  BY LoopTypes DEF StrlenStep, Loop, IndInv, BytesInv, InLoop
<1>2. R = Old(call.s, i)  BY <1>1, LoadIs DEF R
<1>3. CASE R # 0
  <2>1. Continues(mem)  BY <1>3 DEF StrlenStep
  <2>2. mem' = mem /\ i' = i + 1 /\ UNCHANGED <<pins, call, pc, raw, result, file, before>>
    BY <2>1 DEF Continues
  <2>3. \A k \in 0 .. i : Old(call.s, k) # 0
    <3>1. \A k \in 0 .. i : k = i \/ k \in 0 .. i - 1  BY <1>1
    <3>. QED  BY <1>1, <1>2, <1>3, <3>1
  <2>4. \A k \in 0 .. i' - 1 : Old(call.s, k)' # 0
    <3>1. i' - 1 = i  BY <1>1, <2>2
    <3>. QED  BY <2>2, <2>3, <3>1 DEF Old
  <2>5. BytesInv'  BY <1>1, <2>2, <2>4 DEF BytesInv, InLoop, EndsIn
  <2>. QED  BY <1>1, <2>1, <2>2, <2>5, ContinuesInv
<1>4. CASE R = 0
  <2>1. PICK r : r = i /\ Returns(r)  BY <1>4 DEF StrlenStep
  <2>2. StrlenEnd'  BY <1>1, <1>2, <1>4, <2>1 DEF Returns, StrlenEnd, Old, EndsIn, IsMem
  <2>3. StrlenEnd' => Promised'  BY StrlenPromised, PTL
  <2>. QED  BY <1>1, <2>1, <2>2, <2>3, ReturnsInv
<1>. QED  BY <1>3, <1>4

\* One byte of stpcpy, the zero byte included.
LEMMA StpcpyInv ==
    ASSUME IndInv, StpcpyStep
    PROVE  IndInv'
<1>1. /\ pc = "bytes" /\ call.f = "stpcpy" /\ IsMem(mem) /\ IsMem(before) /\ i \in Nat
      /\ call.d \in Pointers /\ call.s \in Pointers /\ EndsIn(call.s)
      /\ \A k \in 0 .. i - 1 : Old(call.s, k) # 0
      /\ Inside(call.d, OldLength(call.s) + 1) /\ Apart(call.d, call.s, OldLength(call.s) + 1)
      /\ Written(0, i)
  BY LoopTypes DEF StpcpyStep, Loop, IndInv, BytesInv, InLoop
<1>2. PICK d \in Pointers, s \in Pointers, n \in Nat, k \in Nat :
          d = call.d /\ s = call.s /\ n = OldLength(s) /\ k = i
  BY <1>1, LengthFacts
<1>3. /\ n \in Nat /\ k <= n /\ s.off + k < Space[s.in]
      /\ Old(s, k) = 0 => k = n
      /\ Old(s, k) # 0 => k < n
  BY <1>1, <1>2, LengthFacts, LengthIs
<1>4. /\ d.off \in Nat /\ s.off \in Nat /\ d.in \in Spaces /\ s.in \in Spaces /\ Space[d.in] \in Nat
      /\ Space[s.in] \in Nat /\ d.off + (n + 1) <= Space[d.in] /\ Apart(d, s, n + 1)
  BY <1>1, <1>2, PointerIs DEF Inside
<1>5. mem[s.in][s.off + k] = before[s.in][s.off + k]
  <2>1. s.off + k \in 0 .. Space[s.in] - 1  BY <1>3, <1>4
  <2>2. ~ (s.in = d.in /\ d.off + 0 <= s.off + k /\ s.off + k < d.off + k)
    BY <1>3, <1>4 DEF Apart
  <2>. QED  BY <1>1, <1>2, <1>4, <2>1, <2>2 DEF Written
<1>6. PICK b \in Bytes : b = R /\ b = Old(s, k) /\ b = NewByte(k)
  <2>1. R = mem[s.in][s.off + k] /\ Old(s, k) = before[s.in][s.off + k]
    BY <1>2, LoadIs DEF R
  <2>2. s.off + k \in 0 .. Space[s.in] - 1  BY <1>3, <1>4
  <2>3. mem[s.in][s.off + k] \in Bytes  BY <1>1, <1>4, <2>2, MemTypes
  <2>4. NewByte(k) = Old(s, k)  BY <1>1, <1>2 DEF NewByte
  <2>. QED  BY <1>5, <2>1, <2>3, <2>4
<1>7. d.off + k < Space[d.in]  BY <1>3, <1>4
<1>8. ASSUME UNCHANGED <<call, before, file>>, mem' = Stored(Plus(d, k), b)
      PROVE  IsMem(mem') /\ Written(0, k + 1)'
  <2>1. Written(0, k)  BY <1>1, <1>2
  <2>. QED  BY <1>1, <1>2, <1>6, <1>7, <1>8, <2>1, StoreByte
<1>9. CASE R # 0
  <2>1. Continues(Stored(Plus(d, k), b))  BY <1>2, <1>6, <1>9 DEF StpcpyStep
  <2>2. /\ mem' = Stored(Plus(d, k), b) /\ i' = k + 1
        /\ UNCHANGED <<pins, call, pc, raw, result, file, before>>
    BY <1>2, <2>1 DEF Continues
  <2>3. IsMem(mem') /\ Written(0, k + 1)'  BY <1>8, <2>2
  <2>4. Written(0, i)'  BY <2>2, <2>3
  <2>5. \A j \in 0 .. i' - 1 : Old(call.s, j)' # 0
    <3>1. \A j \in 0 .. i' - 1 : j = k \/ j \in 0 .. i - 1  BY <1>2, <2>2
    <3>2. \A j \in 0 .. i' - 1 : Old(call.s, j) # 0  BY <1>1, <1>2, <1>6, <1>9, <3>1
    <3>. QED  BY <2>2, <3>2 DEF Old
  <2>6. OldLength(call.s)' = OldLength(call.s)  BY <2>2 DEF OldLength, Old
  <2>7. Inside(call.d, OldLength(call.s) + 1)' /\ Apart(call.d, call.s, OldLength(call.s) + 1)'
    BY <1>1, <2>2, <2>6 DEF Inside, Apart
  <2>8. EndsIn(call.s)'  BY <1>1, <2>2 DEF EndsIn
  <2>9. BytesInv'  BY <1>1, <2>2, <2>4, <2>5, <2>7, <2>8 DEF BytesInv, InLoop
  <2>10. Continues(mem')  BY <2>1, <2>2
  <2>. QED  BY <1>1, <2>3, <2>9, <2>10, ContinuesInv
<1>10. CASE R = 0
  <2>1. /\ mem' = Stored(Plus(d, k), b) /\ pc' = "done"
        /\ UNCHANGED <<pins, call, raw, i, file, before>>
    BY <1>2, <1>6, <1>10 DEF StpcpyStep
  <2>2. k = n  BY <1>3, <1>6, <1>10
  <2>3. IsMem(mem') /\ Written(0, k + 1)'  BY <1>8, <2>1
  <2>4. OldLength(call.s)' = n  BY <1>2, <2>1 DEF OldLength, Old
  <2>5. StpcpyEnd'
    <3>1. Written(0, OldLength(call.s) + 1)'  BY <2>2, <2>3, <2>4
    <3>2. IsMem(before)' /\ EndsIn(call.s)'  BY <1>1, <2>1 DEF IsMem, EndsIn
    <3>. QED  BY <1>1, <2>1, <2>3, <3>1, <3>2 DEF StpcpyEnd
  <2>6. StpcpyEnd' => Promised'  BY StpcpyPromised, PTL
  <2>7. TypeOK'  BY <1>1, <2>1, <2>3 DEF IndInv, TypeOK, IsMem
  <2>8. IdleInv' /\ CopyInv' /\ BytesInv' /\ ChunksInv' /\ CallsCorrect'
    BY <2>1, <2>5, <2>6 DEF IdleInv, CopyInv, BytesInv, ChunksInv, InLoop, CallsCorrect
  <2>9. PinsInv'  BY <1>1, <2>1 DEF IndInv, PinsInv
  <2>. QED  BY <2>7, <2>8, <2>9 DEF IndInv
<1>. QED  BY <1>9, <1>10

-----------------------------------------------------------------------------
(* memcpy *)

\* What is known inside private_cache_memcpy.
CopyState ==
    /\ pc = "copy" /\ call.f \in {"memcpy", "memmove"}
    /\ IsMem(mem) /\ IsMem(before) /\ i \in Nat /\ call.n \in Nat
    /\ \A x \in Sides : call[x] \in Pointers /\ Inside(call[x], call.n)
    /\ Apart(call.d, call.s, call.n)
    /\ i <= call.n
    /\ \A x \in Pinned(call) : call[x].off + i < CacheSize /\ raw[x] = RawOf(Plus(call[x], i))
    /\ Written(0, i)

\* The invariant implies it.
LEMMA CopyFacts ==
    ASSUME IndInv, pc = "copy"
    PROVE  CopyState
<1>1. \A x \in Sides : call[x] \in Pointers /\ Inside(call[x], call.n)
  BY DEF IndInv, CopyInv, IsArea, Sides
<1>. QED  BY <1>1 DEF IndInv, TypeOK, CopyInv, CopyState

\* The raw pointer of a cached side.
LEMMA PinnedSide ==
    ASSUME CopyState, NEW x \in Pinned(call)
    PROVE  /\ x \in Sides /\ call[x].in = "cache" /\ call[x].off \in Nat /\ call[x].off + i \in Nat
           /\ call[x].off + call.n <= CacheSize
           /\ raw[x] = [page |-> Page(call[x].off + i), offset |-> PageOffset(call[x].off + i)]
           /\ raw[x].page = Page(call[x].off + i) /\ raw[x].offset = PageOffset(call[x].off + i)
           /\ raw[x].page \in 0 .. NumPages - 1 /\ raw[x].offset \in 0 .. PageSize - 1
<1>1. x \in Sides /\ call[x] \in Pointers /\ Cached(call[x])  BY DEF Pinned, CopyState
<1>2. PICK p \in Pointers : p = call[x] /\ p.in = "cache"  BY <1>1 DEF Cached
<1>3. p.off \in Nat /\ i \in Nat /\ p.off + i \in Nat /\ p.off + call.n <= CacheSize
  BY <1>1, <1>2, PointerIs, Sizes DEF CopyState, Inside
<1>4. Plus(p, i).off = p.off + i  BY <1>3, PlusIs
<1>5. raw[x] = [page |-> Page(p.off + i), offset |-> PageOffset(p.off + i)]
  BY <1>2, <1>4 DEF CopyState, RawOf
<1>6. p.off + i < CacheSize  BY <1>2 DEF CopyState
<1>7. Page(p.off + i) \in Nat /\ PageOffset(p.off + i) \in 0 .. PageSize - 1  BY <1>3, DivMod
<1>8. Page(p.off + i) \in 0 .. NumPages - 1  BY <1>3, <1>6, <1>7, PageExists, Sizes
<1>. QED  BY <1>1, <1>2, <1>3, <1>5, <1>7, <1>8

\* A step copies at least one byte, and crosses no end of a page.
LEMMA StepLenIs ==
    ASSUME CopyState, i < call.n
    PROVE  /\ step_len(call) \in Nat \ {0} /\ i + step_len(call) <= call.n
           /\ \A x \in Pinned(call) : raw[x].offset + step_len(call) <= PageSize
<1>. DEFINE S == {call.n - i} \cup {PageSize - raw[x].offset : x \in Pinned(call)}
<1>1. call.n - i \in Nat \ {0} /\ i \in Nat /\ call.n \in Nat /\ PageSize \in Nat
  BY Sizes DEF CopyState
<1>2. ASSUME NEW x \in Pinned(call)
      PROVE  PageSize - raw[x].offset \in Nat \ {0} /\ raw[x].offset \in Nat
  <2>1. PICK o : o = raw[x].offset  OBVIOUS
  <2>2. o \in 0 .. PageSize - 1  BY <2>1, PinnedSide
  <2>. QED  BY <1>1, <2>1, <2>2
<1>3. S \in SUBSET (Nat \ {0}) /\ call.n - i \in S  BY <1>1, <1>2
<1>4. step_len(call) = Min(S)  BY DEF step_len
<1>5. \A x \in Pinned(call) : PageSize - raw[x].offset \in S  OBVIOUS
<1>. HIDE DEF S
<1>6. Min(S) \in S /\ \A m \in S : Min(S) <= m  BY <1>3, LeastNumber
<1>7. PICK n \in Nat \ {0} : n = Min(S) /\ \A m \in S : n <= m  BY <1>3, <1>6
<1>. QED  BY <1>1, <1>2, <1>3, <1>4, <1>5, <1>7

\* Through the raw pointers the step reaches the bytes of the call.
LEMMA RawByteIs ==
    ASSUME CopyState, NEW x \in Sides, NEW k \in Nat
    PROVE  RawByte(call, x, k) = [in |-> call[x].in, off |-> call[x].off + i + k]
<1>1. CASE Cached(call[x])
  <2>1. x \in Pinned(call)  BY <1>1 DEF Pinned
  <2>2. PICK a \in Nat : a = call[x].off + i
    <3>1. call[x].off + i \in Nat  BY <2>1, PinnedSide
    <3>. QED  BY <3>1
  <2>3. raw[x].page = Page(a) /\ raw[x].offset = PageOffset(a) /\ call[x].in = "cache"
    <3>1. /\ raw[x].page = Page(call[x].off + i) /\ raw[x].offset = PageOffset(call[x].off + i)
          /\ call[x].in = "cache"
      BY <2>1, PinnedSide
    <3>. QED  BY <2>2, <3>1
  <2>4. /\ PageSize \in Nat /\ Page(a) \in Nat /\ PageOffset(a) \in 0 .. PageSize - 1
        /\ a = PageSize * Page(a) + PageOffset(a)
    BY DivMod, Sizes
  <2>5. PageSize * Page(a) = Page(a) * PageSize  BY <2>4
  <2>6. Page(a) * PageSize + PageOffset(a) + k = a + k  BY <2>4, <2>5
  <2>. QED  BY <1>1, <2>2, <2>3, <2>6 DEF RawByte
<1>2. CASE ~ Cached(call[x])
  <2>1. PICK p \in Pointers : p = call[x]  BY DEF CopyState
  <2>2. p.off \in Nat /\ i \in Nat  BY PointerIs DEF CopyState
  <2>3. Plus(p, i + k) = [in |-> p.in, off |-> p.off + (i + k)]  BY <2>2, PlusIs
  <2>4. p.off + (i + k) = p.off + i + k  BY <2>2
  <2>. QED  BY <1>2, <2>1, <2>3, <2>4 DEF RawByte
<1>. QED  BY <1>1, <1>2

\* What memory is after copying n bytes.
LEMMA CopiedIs ==
    ASSUME CopyState, NEW n \in Nat, i + n <= call.n,
           NEW d \in Pointers, NEW s \in Pointers, d = call.d, s = call.s
    PROVE  /\ IsMem(Copied(call, n))
           /\ \A x \in Spaces : \A a \in 0 .. Space[x] - 1 :
                 Copied(call, n)[x][a] =
                     IF x = d.in /\ d.off + i <= a /\ a < d.off + (i + n)
                     THEN mem[s.in][s.off + (a - d.off)] ELSE mem[x][a]
<1>1. /\ d.off \in Nat /\ s.off \in Nat /\ i \in Nat /\ s.in \in Spaces /\ Space[s.in] \in Nat
      /\ s.off + call.n <= Space[s.in] /\ call.n \in Nat /\ call["d"] = d /\ call["s"] = s
  BY PointerIs DEF CopyState, Inside, Sides
<1>2. /\ mem = [x \in Spaces |-> mem[x]] /\ DOMAIN mem = Spaces
      /\ \A x \in Spaces : mem[x] \in [0 .. Space[x] - 1 -> Bytes] /\ DOMAIN mem[x] = 0 .. Space[x] - 1
  BY DEF CopyState, IsMem
<1>3. \A k \in 0 .. n - 1 : /\ RawByte(call, "d", k) = [in |-> d.in, off |-> d.off + i + k]
                            /\ RawByte(call, "s", k) = [in |-> s.in, off |-> s.off + i + k]
  BY <1>1, RawByteIs DEF Sides
<1>. DEFINE ks(x, a) == {k \in 0 .. n - 1 : RawByte(call, "d", k) = [in |-> x, off |-> a]}
            byte(x, a) == IF ks(x, a) = {} THEN mem[x][a]
                          ELSE Load(RawByte(call, "s", CHOOSE k \in ks(x, a) : TRUE))
<1>4. Copied(call, n) = [x \in Spaces |-> [a \in 0 .. Space[x] - 1 |-> byte(x, a)]]
  BY <1>2 DEF Copied
<1>5. ASSUME NEW x \in Spaces, NEW a \in 0 .. Space[x] - 1
      PROVE  /\ byte(x, a) = IF x = d.in /\ d.off + i <= a /\ a < d.off + (i + n)
                             THEN mem[s.in][s.off + (a - d.off)] ELSE mem[x][a]
             /\ byte(x, a) \in Bytes
  <2>1. \A k \in 0 .. n - 1 : k \in ks(x, a) <=> x = d.in /\ d.off + i + k = a  BY <1>3
  <2>2. a \in Nat  OBVIOUS
  <2>3. CASE x = d.in /\ d.off + i <= a /\ a < d.off + (i + n)
    <3>1. a - d.off - i \in 0 .. n - 1 /\ d.off + i + (a - d.off - i) = a  BY <1>1, <2>2, <2>3
    <3>2. ks(x, a) # {}  BY <2>1, <2>3, <3>1
    <3>3. PICK k : k = CHOOSE j \in ks(x, a) : TRUE  OBVIOUS
    <3>4. k \in ks(x, a)  BY <3>2, <3>3
    <3>5. k \in 0 .. n - 1 /\ d.off + i + k = a  BY <2>1, <3>4
    <3>6. byte(x, a) = Load(RawByte(call, "s", k))  BY <3>2, <3>3
    <3>7. Load(RawByte(call, "s", k)) = mem[s.in][s.off + i + k]  BY <1>3, <3>5 DEF Load
    <3>8. s.off + i + k = s.off + (a - d.off) /\ s.off + i + k \in 0 .. Space[s.in] - 1
      BY <1>1, <2>2, <3>5
    <3>9. mem[s.in][s.off + i + k] \in Bytes  BY <1>1, <3>8, MemTypes DEF CopyState
    <3>. HIDE DEF byte, ks
    <3>. QED  BY <2>3, <3>6, <3>7, <3>8, <3>9
  <2>4. CASE ~ (x = d.in /\ d.off + i <= a /\ a < d.off + (i + n))
    <3>1. \A k \in 0 .. n - 1 : ~ (x = d.in /\ d.off + i + k = a)  BY <1>1, <2>2, <2>4
    <3>2. ks(x, a) = {}
      <4>1. \A k \in ks(x, a) : k \in 0 .. n - 1  OBVIOUS
      <4>. HIDE DEF ks
      <4>. QED  BY <2>1, <3>1, <4>1
    <3>3. byte(x, a) = mem[x][a]  BY <3>2
    <3>4. mem[x][a] \in Bytes  BY <1>2
    <3>. HIDE DEF byte, ks
    <3>. QED  BY <2>4, <3>3, <3>4
  <2>. QED  BY <2>3, <2>4
<1>. HIDE DEF byte
<1>6. \A x \in Spaces : Copied(call, n)[x] = [a \in 0 .. Space[x] - 1 |-> byte(x, a)]  BY <1>4
<1>7. IsMem(Copied(call, n))
  <2>1. Copied(call, n) = [x \in Spaces |-> Copied(call, n)[x]]  BY <1>4
  <2>2. ASSUME NEW x \in Spaces PROVE Copied(call, n)[x] \in [0 .. Space[x] - 1 -> Bytes]
    <3>1. \A a \in 0 .. Space[x] - 1 : byte(x, a) \in Bytes  BY <1>5
    <3>. QED  BY <1>6, <3>1
  <2>. QED  BY <2>1, <2>2 DEF IsMem
<1>8. \A x \in Spaces : \A a \in 0 .. Space[x] - 1 : Copied(call, n)[x][a] = byte(x, a)  BY <1>6
<1>. QED  BY <1>5, <1>7, <1>8

\* They are the next n bytes of the promise: the source has not been overwritten.
LEMMA CopyWritten ==
    ASSUME CopyState, NEW n \in Nat, i + n <= call.n, mem' = Copied(call, n),
           UNCHANGED <<call, before, file>>, NEW j, j = i + n
    PROVE  IsMem(mem') /\ Written(0, j)'
<1>1. PICK d \in Pointers, s \in Pointers, k \in Nat, m \in Nat :
          d = call.d /\ s = call.s /\ k = i /\ m = call.n
  BY DEF CopyState, Sides
<1>2. /\ d.off \in Nat /\ s.off \in Nat /\ d.in \in Spaces /\ s.in \in Spaces
      /\ Space[d.in] \in Nat /\ Space[s.in] \in Nat
      /\ s.off + m <= Space[s.in] /\ k + n <= m /\ Apart(d, s, m) /\ Written(0, k)
  BY <1>1, PointerIs DEF CopyState, Inside, Sides
<1>3. /\ IsMem(mem')
      /\ \A x \in Spaces : \A a \in 0 .. Space[x] - 1 :
            mem'[x][a] = IF x = d.in /\ d.off + k <= a /\ a < d.off + (k + n)
                         THEN mem[s.in][s.off + (a - d.off)] ELSE mem[x][a]
  BY <1>1, CopiedIs
<1>4. \A e : NewByte(e)' = Old(s, e) /\ NewByte(e) = Old(s, e)
  BY <1>1 DEF NewByte, Old, CopyState
<1>5. ASSUME NEW x \in Spaces, NEW a \in 0 .. Space[x] - 1
      PROVE  mem'[x][a] = IF x = d.in /\ d.off + 0 <= a /\ a < d.off + (k + n)
                          THEN Old(s, a - d.off) ELSE before[x][a]
  <2>0. a \in Nat  OBVIOUS
  <2>1. mem[x][a] = IF x = d.in /\ d.off + 0 <= a /\ a < d.off + k
                    THEN Old(s, a - d.off) ELSE before[x][a]
    BY <1>1, <1>2, <1>4 DEF Written
  <2>2. CASE x = d.in /\ d.off + k <= a /\ a < d.off + (k + n)
    <3>1. PICK b \in Nat : b = s.off + (a - d.off)  BY <1>1, <1>2, <2>0, <2>2
    <3>2. b \in 0 .. Space[s.in] - 1  BY <1>1, <1>2, <2>0, <2>2, <3>1
    <3>3. ~ (s.in = d.in /\ d.off + 0 <= b /\ b < d.off + k)
      BY <1>1, <1>2, <2>0, <2>2, <3>1 DEF Apart
    <3>4. mem[s.in][b] = before[s.in][b]  BY <1>1, <1>2, <3>2, <3>3 DEF Written
    <3>5. Old(s, a - d.off) = before[s.in][b]  BY <3>1 DEF Old
    <3>6. mem'[x][a] = mem[s.in][b]  BY <1>3, <2>2, <3>1
    <3>7. d.off + 0 <= a  BY <1>1, <1>2, <2>0, <2>2
    <3>. QED  BY <2>2, <3>4, <3>5, <3>6, <3>7
  <2>3. CASE ~ (x = d.in /\ d.off + k <= a /\ a < d.off + (k + n))
    <3>1. mem'[x][a] = mem[x][a]  BY <1>3, <2>3
    <3>2. x = d.in => (a < d.off + k <=> a < d.off + (k + n))  BY <1>1, <1>2, <2>0, <2>3
    <3>. QED  BY <2>1, <3>1, <3>2
  <2>. QED  BY <2>2, <2>3
<1>6. j' = k + n  BY <1>1
<1>. QED  BY <1>1, <1>3, <1>4, <1>5, <1>6 DEF Written

\* The sides A of those in P go on to their next page: the old page is unpinned, the next
\* one is pinned.
MovedPins(P, A, q, from, to, j, k, r) ==
    /\ P \in SUBSET Sides /\ A \in SUBSET P /\ q \in [0 .. NumPages - 1 -> Int]
    /\ \A x \in P : from[x] = Page(call[x].off + j)
    /\ \A x \in A : to[x] = Page(call[x].off + k)
    /\ \A x \in P \ A : to[x] = from[x]
    /\ \A p \in 0 .. NumPages - 1 : q[p] = Cardinality({x \in P : from[x] = p})
    /\ r = PinsTaken(PinsGiven(q, call, A, j), call, A, k)

\* Afterwards each page is pinned once for each side that is in it.
LEMMA CopyPins ==
    ASSUME NEW P, NEW A, NEW q, NEW from, NEW to, NEW j, NEW k, NEW r,
           MovedPins(P, A, q, from, to, j, k, r)
    PROVE  /\ r \in [0 .. NumPages - 1 -> Int]
           /\ \A p \in 0 .. NumPages - 1 : r[p] = Cardinality({x \in P : to[x] = p})
<1>0. /\ P \in SUBSET Sides /\ A \in SUBSET P /\ q \in [0 .. NumPages - 1 -> Int]
      /\ \A x \in P : from[x] = Page(call[x].off + j)
      /\ \A x \in A : to[x] = Page(call[x].off + k)
      /\ \A x \in P \ A : to[x] = from[x]
      /\ \A p \in 0 .. NumPages - 1 : q[p] = Cardinality({x \in P : from[x] = p})
      /\ r = PinsTaken(PinsGiven(q, call, A, j), call, A, k)
  BY DEF MovedPins
<1>. DEFINE gone(p) == {x \in A : Page(call[x].off + j) = p}
            new(p) == {x \in A : Page(call[x].off + k) = p}
            was(p) == {x \in P : from[x] = p}
            is(p) == {x \in P : to[x] = p}
<1>1. DOMAIN q = 0 .. NumPages - 1  BY <1>0
<1>2. r = [p \in 0 .. NumPages - 1 |-> (q[p] - Cardinality(gone(p))) + Cardinality(new(p))]
  BY <1>0, <1>1 DEF PinsTaken, PinsGiven
<1>3. ASSUME NEW p \in 0 .. NumPages - 1
      PROVE  /\ r[p] = Cardinality(is(p)) /\ r[p] \in Int
  <2>1. /\ gone(p) \in SUBSET Sides /\ new(p) \in SUBSET Sides /\ was(p) \in SUBSET Sides
        /\ is(p) \in SUBSET Sides
    BY <1>0
  <2>2. /\ Cardinality(gone(p)) = (IF "d" \in gone(p) THEN 1 ELSE 0) + (IF "s" \in gone(p) THEN 1 ELSE 0)
        /\ Cardinality(new(p)) = (IF "d" \in new(p) THEN 1 ELSE 0) + (IF "s" \in new(p) THEN 1 ELSE 0)
        /\ Cardinality(was(p)) = (IF "d" \in was(p) THEN 1 ELSE 0) + (IF "s" \in was(p) THEN 1 ELSE 0)
        /\ Cardinality(is(p)) = (IF "d" \in is(p) THEN 1 ELSE 0) + (IF "s" \in is(p) THEN 1 ELSE 0)
    BY <2>1, SidesCount
  <2>3. \A x : /\ x \in gone(p) <=> x \in A /\ x \in was(p)
               /\ x \in new(p) <=> x \in A /\ x \in is(p)
               /\ x \notin A => (x \in was(p) <=> x \in is(p))
    BY <1>0
  <2>4. r[p] = (q[p] - Cardinality(gone(p))) + Cardinality(new(p)) /\ q[p] = Cardinality(was(p))
    BY <1>0, <1>2
  <2>. HIDE DEF gone, new, was, is
  <2>. QED  BY <2>2, <2>3, <2>4
<1>4. r = [p \in 0 .. NumPages - 1 |-> r[p]]  BY <1>2
<1>5. r \in [0 .. NumPages - 1 -> Int]  BY <1>3, <1>4
<1>. QED  BY <1>3, <1>5

\* After the step the raw pointer points at the next byte, also across the end of a page.
LEMMA SideMoved ==
    ASSUME CopyState, NEW x \in Pinned(call), NEW n \in Nat, raw[x].offset + n <= PageSize
    PROVE  /\ raw[x].offset + n = PageSize =>
                  [page |-> Page(call[x].off + (i + n)), offset |-> 0] = RawOf(Plus(call[x], i + n))
           /\ raw[x].offset + n # PageSize =>
                  /\ [raw[x] EXCEPT !.offset = @ + n] = RawOf(Plus(call[x], i + n))
                  /\ Page(call[x].off + (i + n)) = raw[x].page
                  /\ call[x].off + (i + n) < CacheSize
<1>1. PICK p \in Pointers : p = call[x]  BY DEF Pinned, CopyState
<1>2. p.off + i \in Nat /\ p.off \in Nat /\ i \in Nat  BY <1>1, PinnedSide DEF CopyState
<1>3. PICK a \in Nat : a = p.off + i  BY <1>2
<1>4. /\ raw[x] = [page |-> Page(p.off + i), offset |-> PageOffset(p.off + i)]
      /\ raw[x].page \in 0 .. NumPages - 1
  BY <1>1, PinnedSide
<1>5. raw[x] = [page |-> Page(a), offset |-> PageOffset(a)] /\ Page(a) \in 0 .. NumPages - 1
  BY <1>3, <1>4
<1>6. p.off + (i + n) = a + n /\ a + n \in Nat  BY <1>2, <1>3
<1>7. Plus(p, i + n).off = a + n  BY <1>2, <1>6, PlusIs
<1>8. RawOf(Plus(p, i + n)) = [page |-> Page(a + n), offset |-> PageOffset(a + n)]
  BY <1>7 DEF RawOf
<1>9. PageOffset(a) \in 0 .. PageSize - 1 /\ PageSize \in Nat  BY DivMod, Sizes
<1>10. CASE PageOffset(a) + n = PageSize
  <2>1. PageOffset(a + n) = 0  BY <1>10, NextPage
  <2>. QED  BY <1>1, <1>5, <1>6, <1>8, <1>10, <2>1
<1>11. CASE PageOffset(a) + n # PageSize
  <2>1. PageOffset(a) + n < PageSize  BY <1>5, <1>9, <1>11
  <2>2. Page(a + n) = Page(a) /\ PageOffset(a + n) = PageOffset(a) + n  BY <2>1, WithinPage
  <2>3. ~ (Page(a + n) >= NumPages)  BY <1>5, <2>2, Sizes
  <2>4. a + n < CacheSize  BY <1>6, <2>3, PageExists, Sizes
  <2>5. [raw[x] EXCEPT !.offset = @ + n] = [page |-> Page(a), offset |-> PageOffset(a) + n]  BY <1>5
  <2>. QED  BY <1>1, <1>5, <1>6, <1>8, <1>11, <2>2, <2>4, <2>5
<1>. QED  BY <1>10, <1>11

\* A step of the copy that goes on.
LEMMA CopyStepInv ==
    ASSUME IndInv, CopyStep
    PROVE  IndInv'
<1>1. CopyState /\ pc = "copy" /\ i < call.n  BY CopyFacts DEF CopyStep
<1>2. PICK n \in Nat \ {0} : /\ n = step_len(call) /\ i + n <= call.n
                             /\ \A x \in Pinned(call) : raw[x].offset + n <= PageSize
  BY <1>1, StepLenIs
<1>3. PICK P, A : P = Pinned(call) /\ A = {x \in P : raw[x].offset + n = PageSize}  OBVIOUS
<1>4. /\ mem' = Copied(call, n) /\ i' = i + n
      /\ raw' = [x \in Sides |->
                    IF x \notin P THEN None
                    ELSE IF x \in A THEN [page |-> Page(call[x].off + i + n), offset |-> 0]
                    ELSE [raw[x] EXCEPT !.offset = @ + n]]
      /\ IF PinThrows(call, A, i + n)
         THEN pc' = "thrown" /\ UNCHANGED pins
         ELSE pc' = "copy" /\ pins' = PinsTaken(PinsGiven(pins, call, A, i), call, A, i + n)
      /\ UNCHANGED <<call, result, file, before>>
  BY <1>2, <1>3 DEF CopyStep
<1>5. P \in SUBSET Sides /\ A \in SUBSET P  BY <1>3 DEF Pinned
<1>6. i \in Nat /\ n \in Nat /\ i + n \in Nat /\ call.n \in Nat  BY <1>1 DEF CopyState
<1>7. IsMem(mem') /\ Written(0, i)'
  <2>1. PICK j : j = i + n  OBVIOUS
  <2>2. IsMem(mem') /\ Written(0, j)'  BY <1>1, <1>2, <1>4, <1>6, <2>1, CopyWritten
  <2>3. j = i'  BY <1>4, <2>1
  <2>. QED  BY <2>2, <2>3
<1>8. ASSUME NEW x \in P
      PROVE  /\ raw'[x] = RawOf(Plus(call[x], i + n))
             /\ x \in A => raw'[x].page = Page(call[x].off + (i + n))
             /\ x \notin A => raw'[x].page = raw[x].page /\ call[x].off + (i + n) < CacheSize
  <2>1. x \in Pinned(call) /\ raw[x].offset + n <= PageSize  BY <1>2, <1>3
  <2>2. call[x].off \in Nat  BY <1>1, <2>1, PinnedSide
  <2>3. call[x].off + i + n = call[x].off + (i + n)  BY <1>6, <2>2
  <2>4. CASE x \in A
    <3>1. raw[x].offset + n = PageSize  BY <1>3, <2>4
    <3>2. raw'[x] = [page |-> Page(call[x].off + (i + n)), offset |-> 0]  BY <1>4, <1>5, <2>3, <2>4
    <3>3. [page |-> Page(call[x].off + (i + n)), offset |-> 0] = RawOf(Plus(call[x], i + n))
      BY <1>1, <1>6, <2>1, <3>1, SideMoved
    <3>. QED  BY <2>4, <3>2, <3>3
  <2>5. CASE x \notin A
    <3>1. raw[x].offset + n # PageSize  BY <1>3, <2>5
    <3>2. raw'[x] = [raw[x] EXCEPT !.offset = @ + n]  BY <1>4, <1>5, <2>5
    <3>3. [raw[x] EXCEPT !.offset = @ + n] = RawOf(Plus(call[x], i + n))
      BY <1>1, <1>6, <2>1, <3>1, SideMoved
    <3>4. call[x].off + (i + n) < CacheSize  BY <1>1, <1>6, <2>1, <3>1, SideMoved
    <3>5. raw[x] = [page |-> Page(call[x].off + i), offset |-> PageOffset(call[x].off + i)]
      BY <1>1, <2>1, PinnedSide
    <3>6. raw'[x].page = raw[x].page  BY <3>2, <3>5
    <3>. QED  BY <2>5, <3>2, <3>3, <3>4, <3>6
  <2>. QED  BY <2>4, <2>5
<1>9. Pinned(call)' = P  BY <1>3, <1>4 DEF Pinned
<1>10. IdleInv' /\ BytesInv' /\ ChunksInv'
  BY <1>4 DEF IdleInv, BytesInv, ChunksInv, InLoop
<1>11. CASE ~ PinThrows(call, A, i + n)
  <2>1. pc' = "copy" /\ pins' = PinsTaken(PinsGiven(pins, call, A, i), call, A, i + n)
    BY <1>4, <1>11
  <2>2. ASSUME NEW x \in P PROVE call[x].off + (i + n) < CacheSize
    <3>1. CASE x \in A
      <4>1. call[x].off \in Nat  BY <1>1, <1>3, PinnedSide
      <4>2. call[x].off + (i + n) \in Nat  BY <1>6, <4>1
      <4>3. ~ (Page(call[x].off + (i + n)) >= NumPages)  BY <1>11, <3>1 DEF PinThrows
      <4>. QED  BY <4>2, <4>3, PageExists, Sizes
    <3>2. CASE x \notin A  BY <1>8, <3>2
    <3>. QED  BY <3>1, <3>2
  <2>3. CopyInv'
    <3>1. \A x \in Pinned(call)' : call'[x].off + i' < CacheSize /\ raw'[x] = RawOf(Plus(call'[x], i'))
      BY <1>4, <1>8, <1>9, <2>2
    <3>2. IsArea(call.d)' /\ IsArea(call.s)' /\ Apart(call.d, call.s, call.n)' /\ i' <= call'.n
          /\ call'.f \in {"memcpy", "memmove"}
      BY <1>1, <1>2, <1>4 DEF CopyState, IsArea, Inside, Apart, Sides
    <3>. QED  BY <1>7, <2>1, <3>1, <3>2 DEF CopyInv
  <2>4. pins' \in [0 .. NumPages - 1 -> Int] /\ PinsInv'
    <3>. DEFINE from == [x \in P |-> raw[x].page]
                to == [x \in P |-> raw'[x].page]
    <3>1. \A x \in P : from[x] = Page(call[x].off + i)  BY <1>1, <1>3, PinnedSide
    <3>2. (\A x \in A : to[x] = Page(call[x].off + (i + n))) /\ \A x \in P \ A : to[x] = from[x]
      BY <1>5, <1>8
    <3>3. pins \in [0 .. NumPages - 1 -> Int]
          /\ \A p \in 0 .. NumPages - 1 : pins[p] = Cardinality({x \in P : from[x] = p})
      <4>1. ASSUME NEW p PROVE {x \in P : from[x] = p} = {x \in Pinned(call) : raw[x].page = p}
        BY <1>3
      <4>. HIDE DEF from
      <4>. QED  BY <1>1, <4>1 DEF IndInv, TypeOK, PinsInv
    <3>4. \A p : {x \in P : to[x] = p} = {x \in P : raw'[x].page = p}  OBVIOUS
    <3>. HIDE DEF from, to
    <3>5. /\ pins' \in [0 .. NumPages - 1 -> Int]
          /\ \A p \in 0 .. NumPages - 1 : pins'[p] = Cardinality({x \in P : to[x] = p})
      <4>1. PICK f, t, q, r, j, k : /\ f = from /\ t = to /\ q = pins /\ r = pins' /\ j = i
                                    /\ k = i + n
        OBVIOUS
      <4>2. MovedPins(P, A, q, f, t, j, k, r)
        BY <1>5, <2>1, <3>1, <3>2, <3>3, <4>1 DEF MovedPins
      <4>3. /\ r \in [0 .. NumPages - 1 -> Int]
            /\ \A p \in 0 .. NumPages - 1 : r[p] = Cardinality({x \in P : t[x] = p})
        BY <4>2, CopyPins
      <4>. QED  BY <4>1, <4>3
    <3>6. \A p \in 0 .. NumPages - 1 : pins'[p] = Cardinality({x \in Pinned(call)' : raw'[x].page = p})
      BY <1>9, <3>4, <3>5
    <3>. QED  BY <2>1, <3>5, <3>6 DEF PinsInv
  <2>5. TypeOK'
    <3>1. call'.n \in Nat /\ i' \in Nat /\ call'.f \in {"memcpy", "memmove"} /\ IsMem(before')
      BY <1>1, <1>4, <1>6 DEF CopyState
    <3>. QED  BY <1>7, <2>1, <2>4, <3>1 DEF TypeOK, IsMem
  <2>6. CallsCorrect'  BY <2>1 DEF CallsCorrect
  <2>. QED  BY <1>10, <2>3, <2>4, <2>5, <2>6 DEF IndInv
<1>12. CASE PinThrows(call, A, i + n)
  <2>1. pc' = "thrown" /\ pins' = pins  BY <1>4, <1>12
  <2>2. PICK x \in A : Page(call[x].off + (i + n)) >= NumPages  BY <1>12 DEF PinThrows
  <2>3. /\ x \in Sides /\ call[x].in = "cache" /\ call[x].off \in Nat
        /\ call[x].off + call.n <= CacheSize
    BY <1>1, <1>3, <1>5, PinnedSide
  <2>4. call[x].off + (i + n) >= CacheSize
    <3>1. call[x].off + (i + n) \in Nat  BY <1>6, <2>3
    <3>. QED  BY <2>2, <3>1, PageExists
  <2>5. i + n = call.n /\ call[x].off + call.n = CacheSize  BY <1>2, <1>6, <2>3, <2>4, Sizes
  <2>6. CopyEnd'
    <3>1. i' = call'.n /\ call'.f \in {"memcpy", "memmove"} /\ call'.d \in Pointers /\ call'.n \in Nat
          /\ IsMem(before')
      BY <1>1, <1>4, <1>6, <2>5 DEF CopyState, Sides
    <3>2. Written(0, call.n)'  BY <1>7, <3>1
    <3>. QED  BY <1>7, <3>1, <3>2 DEF CopyEnd, IsMem
  <2>7. CopyEnd' => Promised'  BY CopyPromised, PTL
  <2>8. CallsCorrect'
    <3>1. call[x] \in {call.d, call.s} /\ call[x] \in Pointers  BY <1>1, <2>3 DEF Sides, CopyState
    <3>2. call[x] # None  BY <3>1, PointerIs
    <3>3. \E p \in {call'.d, call'.s} \ {None} : p.in = "cache" /\ p.off + call'.n = CacheSize
      BY <1>4, <2>3, <2>5, <3>1, <3>2
    <3>. QED  BY <1>4, <2>1, <2>5, <2>6, <2>7, <3>3 DEF CallsCorrect, Cached
  <2>9. TypeOK'  BY <1>1, <1>4, <1>6, <1>7, <2>1 DEF IndInv, TypeOK, IsMem
  <2>10. CopyInv' /\ PinsInv'  BY <2>1 DEF CopyInv, PinsInv
  <2>. QED  BY <1>10, <2>8, <2>9, <2>10 DEF IndInv
<1>. QED  BY <1>11, <1>12

\* The end of the copy: it unpins the pages it has pinned.
LEMMA CopyReturnsInv ==
    ASSUME IndInv, CopyReturns
    PROVE  IndInv'
<1>1. /\ CopyState /\ i = call.n /\ pc' = "done" /\ pins' = PinsGiven(pins, call, Pinned(call), i)
      /\ UNCHANGED <<mem, call, i, file, before>>
  BY CopyFacts DEF CopyReturns
<1>2. CopyEnd'
  <2>1. CopyEnd  BY <1>1 DEF CopyState, CopyEnd, Sides
  <2>. QED  BY <1>1, <2>1 DEF CopyEnd, Written, NewByte, Old, IsMem
<1>3. CopyEnd' => Promised'  BY CopyPromised, PTL
<1>4. pins' \in [0 .. NumPages - 1 -> Int] /\ PinsInv'
  <2>1. /\ pins \in [0 .. NumPages - 1 -> Int]
        /\ \A p \in 0 .. NumPages - 1 : pins[p] = Cardinality({x \in Pinned(call) : raw[x].page = p})
    BY <1>1 DEF IndInv, TypeOK, PinsInv, CopyState
  <2>2. pins' = [p \in 0 .. NumPages - 1 |->
                    pins[p] - Cardinality({x \in Pinned(call) : Page(call[x].off + i) = p})]
    BY <1>1, <2>1 DEF PinsGiven
  <2>3. \A x \in Pinned(call) : raw[x].page = Page(call[x].off + i)  BY <1>1, PinnedSide
  <2>4. ASSUME NEW p \in 0 .. NumPages - 1 PROVE pins'[p] = 0
    <3>1. {x \in Pinned(call) : Page(call[x].off + i) = p} = {x \in Pinned(call) : raw[x].page = p}
      BY <2>3
    <3>2. pins'[p] = pins[p] - pins[p]  BY <2>1, <2>2, <3>1
    <3>. QED  BY <2>1, <3>2
  <2>5. pins' \in [0 .. NumPages - 1 -> Int]
    <3>1. pins' = [p \in 0 .. NumPages - 1 |-> pins'[p]]  BY <2>2
    <3>. QED  BY <2>4, <3>1
  <2>. QED  BY <1>1, <2>4, <2>5 DEF PinsInv
<1>5. TypeOK'  BY <1>1, <1>4 DEF IndInv, TypeOK, IsMem, CopyState
<1>6. IdleInv' /\ CopyInv' /\ BytesInv' /\ ChunksInv' /\ CallsCorrect'
  BY <1>1, <1>2, <1>3 DEF IdleInv, CopyInv, BytesInv, ChunksInv, InLoop, CallsCorrect
<1>. QED  BY <1>4, <1>5, <1>6 DEF IndInv

-----------------------------------------------------------------------------
(* read and write *)

\* A function on 1 .. n is a sequence.
LEMMA FunctionSeq ==
    ASSUME NEW S, NEW n \in Nat, NEW f \in [1 .. n -> S]
    PROVE  f \in Seq(S) /\ Len(f) = n
  OBVIOUS

\* h is f followed by g.
Joined(m, n, f, g, h) ==
    /\ m \in Nat /\ n \in Nat
    /\ f \in [1 .. m -> Bytes] /\ g \in [1 .. n -> Bytes] /\ h \in [1 .. m + n -> Bytes]
    /\ \A k \in 1 .. m : h[k] = f[k]
    /\ \A k \in 1 .. n : h[m + k] = g[k]

\* Then it is their concatenation.
LEMMA JoinIs ==
    ASSUME NEW m, NEW n, NEW f, NEW g, NEW h, Joined(m, n, f, g, h)
    PROVE  f \o g = h
<1>. USE DEF Joined
<1>1. f \in Seq(Bytes) /\ Len(f) = m /\ g \in Seq(Bytes) /\ Len(g) = n  BY FunctionSeq
<1>2. h \in Seq(Bytes) /\ Len(h) = m + n  BY FunctionSeq
<1>3. /\ f \o g \in Seq(Bytes) /\ Len(f \o g) = m + n
      /\ \A k \in 1 .. m + n : (f \o g)[k] = IF k <= m THEN f[k] ELSE g[k - m]
  BY <1>1, ConcatProperties
<1>4. ASSUME NEW k \in 1 .. m + n PROVE (f \o g)[k] = h[k]
  <2>1. CASE k <= m
    <3>1. k \in 1 .. m  BY <2>1
    <3>. QED  BY <1>3, <2>1, <3>1
  <2>2. CASE ~ (k <= m)
    <3>1. k - m \in 1 .. n /\ m + (k - m) = k  BY <2>2
    <3>2. h[m + (k - m)] = g[k - m]  BY <3>1
    <3>. QED  BY <1>3, <2>2, <3>1, <3>2
  <2>. QED  BY <2>1, <2>2
<1>. QED  BY <1>2, <1>3, <1>4, SeqEqual

\* A chunk is not empty, and inside the buffer.
LEMMA ChunkLen ==
    ASSUME IndInv, pc = "chunks", i < call.n
    PROVE  /\ chunk_len \in Nat \ {0} /\ i + chunk_len <= call.n
           /\ i \in Nat /\ call.n \in Nat
<1>1. i \in Nat /\ call.n \in Nat /\ call.n - i \in Nat \ {0} /\ ChunkSize \in Nat \ {0}
  BY MemoryOpsAssumption DEF IndInv, TypeOK
<1>2. PICK S : S = {call.n - i, ChunkSize}  OBVIOUS
<1>3. S \in SUBSET Nat /\ S # {}  BY <1>1, <1>2
<1>4. Min(S) \in S /\ \A m \in S : Min(S) <= m  BY <1>3, LeastNumber
<1>5. chunk_len = Min(S)  BY <1>2 DEF chunk_len
<1>. QED  BY <1>1, <1>2, <1>4, <1>5

\* A byte that was read has its place in the file.
LEMMA WithinFile ==
    ASSUME NEW a \in Nat, NEW o \in Nat, NEW k \in Nat, NEW r \in Nat, NEW l \in Nat,
           o + k <= a, a < o + (k + r), k + r <= l
    PROVE  a - o + 1 \in 1 .. l
  OBVIOUS

\* A chunk that was read is the next part of what read promises.
LEMMA ReadMem ==
    ASSUME IsMem(mem), NEW d \in Pointers, d.in = "cache", d = call.d, call.f = "read",
           NEW k \in Nat, NEW r \in Nat, k = i, Written(0, k), file \in Seq(Bytes), k + r <= Len(file),
           mem' = [mem EXCEPT !.cache = [a \in DOMAIN @ |->
                      IF a \in d.off + k .. d.off + k + r - 1
                      THEN file[a - d.off + 1] ELSE @[a]]],
           UNCHANGED <<call, before, file>>
    PROVE  IsMem(mem') /\ Written(0, k + r)'
<1>1. /\ d.off \in Nat /\ CacheSize \in Nat /\ Space["cache"] = CacheSize
      /\ "cache" \in Spaces /\ "local" \in Spaces
  BY PointerIs, Sizes DEF Spaces
<1>2. /\ mem = [x \in Spaces |-> mem[x]]
      /\ \A x \in Spaces : mem[x] \in [0 .. Space[x] - 1 -> Bytes]
  BY DEF IsMem
<1>. DEFINE g == [a \in 0 .. CacheSize - 1 |->
                     IF a \in d.off + k .. d.off + k + r - 1
                     THEN file[a - d.off + 1] ELSE mem["cache"][a]]
<1>3. mem' = [mem EXCEPT !["cache"] = g]  BY <1>1, <1>2
<1>4. ASSUME NEW a \in 0 .. CacheSize - 1
      PROVE  /\ g[a] \in Bytes
             /\ g[a] = IF d.off + k <= a /\ a < d.off + (k + r)
                       THEN NewByte(a - d.off) ELSE mem["cache"][a]
  <2>1. a \in Nat /\ (a \in d.off + k .. d.off + k + r - 1 <=> d.off + k <= a /\ a < d.off + (k + r))
    BY <1>1
  <2>2. CASE d.off + k <= a /\ a < d.off + (k + r)
    <3>0. Len(file) \in Nat  BY LenProperties
    <3>1. a - d.off + 1 \in 1 .. Len(file)  BY <1>1, <2>1, <2>2, <3>0, WithinFile
    <3>2. file[a - d.off + 1] \in Bytes  BY <3>1, ElementOfSeq
    <3>3. NewByte(a - d.off) = file[a - d.off + 1]  BY DEF NewByte
    <3>. QED  BY <2>1, <2>2, <3>2, <3>3
  <2>3. CASE ~ (d.off + k <= a /\ a < d.off + (k + r))
    BY <1>1, <1>2, <2>1, <2>3
  <2>. QED  BY <2>2, <2>3
<1>5. g \in [0 .. CacheSize - 1 -> Bytes]
  <2>1. g = [a \in 0 .. CacheSize - 1 |-> g[a]]  OBVIOUS
  <2>. HIDE DEF g
  <2>. QED  BY <1>4, <2>1
<1>. HIDE DEF g
<1>6. /\ \A x \in Spaces : mem'[x] = IF x = "cache" THEN g ELSE mem[x]
      /\ mem' = [x \in Spaces |-> mem'[x]]
  BY <1>1, <1>2, <1>3
<1>7. IsMem(mem')  BY <1>1, <1>2, <1>5, <1>6 DEF IsMem
<1>8. \A e : NewByte(e)' = NewByte(e)  BY DEF NewByte, Old
<1>9. ASSUME NEW x \in Spaces, NEW a \in 0 .. Space[x] - 1
      PROVE  mem'[x][a] = IF x = d.in /\ d.off + 0 <= a /\ a < d.off + (k + r)
                          THEN NewByte(a - d.off) ELSE before[x][a]
  <2>1. mem[x][a] = IF x = d.in /\ d.off + 0 <= a /\ a < d.off + k
                    THEN NewByte(a - d.off) ELSE before[x][a]
    BY DEF Written
  <2>2. a \in Nat  OBVIOUS
  <2>3. CASE x = "cache"
    <3>1. mem'[x][a] = IF d.off + k <= a /\ a < d.off + (k + r)
                       THEN NewByte(a - d.off) ELSE mem[x][a]
      BY <1>1, <1>4, <1>6, <2>3
    <3>. QED  BY <1>1, <2>1, <2>2, <2>3, <3>1
  <2>4. CASE x # "cache"  BY <1>6, <2>1, <2>4
  <2>. QED  BY <2>3, <2>4
<1>. QED  BY <1>7, <1>8, <1>9 DEF Written

\* The pointer behind the last page throws: nothing is promised then.
LEMMA ThrowsInv ==
    ASSUME IndInv, pc = "chunks", Throws, IsMem(mem'), call.f \in {"read", "write"},
           NEW p \in Pointers, p \in {call.d, call.s}, Cached(p), p.off + call.n = CacheSize
    PROVE  IndInv'
<1>1. pc' = "thrown" /\ UNCHANGED <<pins, call, raw, i, result, before>>  BY DEF Throws
<1>2. TypeOK'  BY <1>1 DEF IndInv, TypeOK, IsMem
<1>3. IdleInv' /\ CopyInv' /\ PinsInv' /\ BytesInv' /\ ChunksInv'
  BY <1>1 DEF IdleInv, CopyInv, PinsInv, BytesInv, ChunksInv, InLoop
<1>4. CallsCorrect'
  <2>1. p # None  BY PointerIs
  <2>. QED  BY <1>1, <2>1 DEF CallsCorrect, Cached
<1>. QED  BY <1>2, <1>3, <1>4 DEF IndInv

\* A transfer preserves the invariant when what it returns, or goes on with, is right.
LEMMA TransferredInv ==
    ASSUME IndInv, pc = "chunks", NEW r \in Nat, Transferred(r), IsMem(mem'),
           LastChunk(r) => Promised', ~ LastChunk(r) => ChunksInv'
    PROVE  IndInv'
<1>1. i' = i + r /\ UNCHANGED <<pins, call, raw, before>>  BY DEF Transferred
<1>2. i' \in Nat  BY <1>1 DEF IndInv, TypeOK
<1>3. CASE LastChunk(r)
  <2>1. pc' = "done"  BY <1>3 DEF Transferred
  <2>2. TypeOK'  BY <1>1, <1>2, <2>1 DEF IndInv, TypeOK, IsMem
  <2>3. IdleInv' /\ CopyInv' /\ BytesInv' /\ ChunksInv' /\ CallsCorrect'
    BY <1>3, <2>1 DEF IdleInv, CopyInv, BytesInv, ChunksInv, InLoop, CallsCorrect
  <2>4. PinsInv'  BY <1>1, <2>1 DEF IndInv, PinsInv
  <2>. QED  BY <2>2, <2>3, <2>4 DEF IndInv
<1>4. CASE ~ LastChunk(r)
  <2>1. pc' = "chunks"  BY <1>4 DEF Transferred
  <2>2. TypeOK'  BY <1>1, <1>2, <2>1 DEF IndInv, TypeOK, IsMem
  <2>3. IdleInv' /\ CopyInv' /\ BytesInv' /\ CallsCorrect'
    BY <2>1 DEF IdleInv, CopyInv, BytesInv, InLoop, CallsCorrect
  <2>4. PinsInv'  BY <1>1, <2>1 DEF IndInv, PinsInv
  <2>. QED  BY <1>4, <2>2, <2>3, <2>4 DEF IndInv
<1>. QED  BY <1>3, <1>4

\* One chunk of read, possibly a short one or an error.
LEMMA ReadInv ==
    ASSUME IndInv, ReadStep
    PROVE  IndInv'
<1>1. /\ pc = "chunks" /\ call.f = "read" /\ i < call.n /\ IsMem(mem) /\ IsMem(before)
      /\ call.d \in Pointers /\ Inside(call.d, call.n) /\ Cached(call.d)
      /\ file \in Seq(Bytes) /\ i <= Len(file) /\ Written(0, i)
  BY DEF ReadStep, IndInv, TypeOK, ChunksInv, IsArea
<1>2. /\ chunk_len \in Nat \ {0} /\ i + chunk_len <= call.n /\ i \in Nat /\ call.n \in Nat
      /\ Len(file) \in Nat
  BY <1>1, ChunkLen, LenProperties
<1>3. ReadEnd' => Promised'  BY ReadPromised, PTL
<1>4. CASE Returns(-1)
  <2>1. pc' = "done" /\ result' = -1 /\ UNCHANGED <<mem, pins, call, raw, i, file, before>>
    BY <1>4 DEF Returns
  <2>2. ReadEnd'  BY <1>1, <2>1 DEF ReadEnd, IsMem
  <2>. QED  BY <1>1, <1>3, <1>4, <2>2, ReturnsInv
<1>5. ASSUME NEW r \in 0 .. Min({chunk_len, Len(file) - i}),
             mem' = [mem EXCEPT !.cache = [a \in DOMAIN @ |->
                        IF a \in call.d.off + i .. call.d.off + i + r - 1
                        THEN file[a - call.d.off + 1] ELSE @[a]]],
             IF CopyThrows(call.d, r) THEN Throws ELSE Transferred(r),
             UNCHANGED file
      PROVE  IndInv'
  <2>1. PICK d \in Pointers, k \in Nat, c \in Nat : d = call.d /\ k = i /\ c = chunk_len
    BY <1>1, <1>2
  <2>2. d.off \in Nat /\ d.in = "cache" /\ d.off + call.n <= CacheSize
    BY <1>1, <2>1, PointerIs, Sizes DEF Inside, Cached
  <2>3. r \in Nat /\ k + r <= call.n /\ k + r <= Len(file)
    <3>0. PICK z \in Nat : z = Len(file) - i
      <4>1. Len(file) - i \in Nat  BY <1>1, <1>2
      <4>. QED  BY <4>1
    <3>1. PICK S : S = {c, z}  OBVIOUS
    <3>2. S \in SUBSET Nat /\ S # {}  BY <3>1
    <3>3. Min(S) \in S /\ \A m \in S : Min(S) <= m  BY <3>2, LeastNumber
    <3>4. Min(S) \in Nat /\ Min(S) <= c /\ Min(S) <= z  BY <3>1, <3>2, <3>3
    <3>5. r \in 0 .. Min(S)  BY <2>1, <3>0, <3>1
    <3>6. r \in Nat /\ r <= c /\ r <= z  BY <3>4, <3>5
    <3>. QED  BY <1>2, <2>1, <3>0, <3>6
  <2>4. UNCHANGED <<call, before, file>>  BY <1>5 DEF Throws, Transferred
  <2>5. IsMem(mem') /\ Written(0, k + r)'
    <3>1. mem' = [mem EXCEPT !.cache = [a \in DOMAIN @ |->
                     IF a \in d.off + k .. d.off + k + r - 1 THEN file[a - d.off + 1] ELSE @[a]]]
      BY <1>5, <2>1
    <3>2. Written(0, k)  BY <1>1, <2>1
    <3>. QED  BY <1>1, <2>1, <2>2, <2>3, <2>4, <3>1, <3>2, ReadMem
  <2>6. CASE CopyThrows(call.d, r)
    <3>1. Throws  BY <1>5, <2>6
    <3>2. d.off + k + r = CacheSize  BY <2>1, <2>6 DEF CopyThrows
    <3>3. d.off + call.n = CacheSize  BY <1>2, <2>2, <2>3, <3>2, Sizes
    <3>. QED  BY <1>1, <2>1, <2>5, <3>1, <3>3, ThrowsInv
  <2>7. CASE ~ CopyThrows(call.d, r)
    <3>1. Transferred(r)  BY <1>5, <2>7
    <3>2. i' = k + r /\ call' = call /\ before' = before  BY <2>1, <3>1 DEF Transferred
    <3>3. ASSUME LastChunk(r) PROVE Promised'
      <4>1. result' = k + r  BY <2>1, <3>1, <3>3 DEF Transferred
      <4>2. Written(0, result)'  BY <2>5, <4>1
      <4>3. ReadEnd'  BY <1>1, <2>3, <2>4, <2>5, <4>1, <4>2 DEF ReadEnd, IsMem
      <4>. QED  BY <1>3, <4>3
    <3>4. ASSUME ~ LastChunk(r) PROVE ChunksInv'
      <4>1. Written(0, i)'  BY <2>5, <3>2
      <4>2. pc' = "chunks"  BY <1>1, <3>1, <3>4 DEF Transferred
      <4>3. /\ call'.f = "read" /\ IsArea(call.d)' /\ Cached(call'.d) /\ i' <= call'.n
            /\ file' \in Seq(Bytes) /\ i' <= Len(file')
        BY <1>1, <2>3, <2>4, <3>2 DEF IsArea, Inside
      <4>. QED  BY <4>1, <4>2, <4>3 DEF ChunksInv
    <3>. QED  BY <1>1, <2>3, <2>5, <3>1, <3>3, <3>4, TransferredInv
  <2>. QED  BY <2>6, <2>7
<1>. QED  BY <1>4, <1>5 DEF ReadStep

\* One chunk of write, possibly a short one or an error.
LEMMA WriteInv ==
    ASSUME IndInv, WriteStep
    PROVE  IndInv'
<1>1. /\ pc = "chunks" /\ call.f = "write" /\ i < call.n /\ IsMem(mem) /\ IsMem(before)
      /\ call.s \in Pointers /\ Inside(call.s, call.n) /\ Cached(call.s)
      /\ mem = before /\ file = [k \in 1 .. i |-> Old(call.s, k - 1)]
  BY DEF WriteStep, IndInv, TypeOK, ChunksInv, IsArea
<1>2. PICK s \in Pointers, k \in Nat, c \in Nat, n \in Nat :
          s = call.s /\ k = i /\ c = chunk_len /\ n = call.n
  BY <1>1, ChunkLen
<1>3. /\ s.off \in Nat /\ s.in = "cache" /\ s.off + n <= CacheSize /\ CacheSize \in Nat
      /\ k + c <= n /\ Space["cache"] = CacheSize /\ "cache" \in Spaces
  BY <1>1, <1>2, ChunkLen, PointerIs, Sizes DEF Inside, Cached, Spaces
<1>4. WriteEnd' => Promised'  BY WritePromised, PTL
<1>5. CASE CopyThrows(call.s, chunk_len) /\ Throws /\ UNCHANGED <<mem, file>>
  <2>1. s.off + k + c = CacheSize  BY <1>2, <1>5 DEF CopyThrows
  <2>2. s.off + n = CacheSize  BY <1>2, <1>3, <2>1
  <2>3. IsMem(mem')  BY <1>1, <1>5
  <2>. QED  BY <1>1, <1>2, <1>5, <2>2, <2>3, ThrowsInv
<1>6. CASE Returns(-1)
  <2>1. pc' = "done" /\ result' = -1 /\ UNCHANGED <<mem, pins, call, raw, i, file, before>>
    BY <1>6 DEF Returns
  <2>2. WriteEnd'  BY <1>1, <2>1 DEF WriteEnd
  <2>. QED  BY <1>1, <1>4, <1>6, <2>2, ReturnsInv
<1>7. ASSUME NEW r \in 0 .. chunk_len,
             file' = file \o [j \in 1 .. r |-> Load(Plus(call.s, i + j - 1))],
             Transferred(r), UNCHANGED mem
      PROVE  IndInv'
  <2>1. r \in Nat /\ k + r <= n /\ r \in 0 .. c  BY <1>2, <1>3, <1>7
  <2>2. i' = k + r /\ UNCHANGED <<call, before, mem>>  BY <1>2, <1>7 DEF Transferred
  <2>3. PICK f, g, h : /\ f = [j \in 1 .. k |-> Old(s, j - 1)]
                       /\ g = [j \in 1 .. r |-> Load(Plus(s, k + j - 1))]
                       /\ h = [j \in 1 .. k + r |-> Old(s, j - 1)]
    OBVIOUS
  <2>4. ASSUME NEW j \in 0 .. n - 1 PROVE Old(s, j) \in Bytes /\ Load(Plus(s, j)) = Old(s, j)
    <3>1. s.off + j \in 0 .. Space["cache"] - 1  BY <1>2, <1>3
    <3>2. before["cache"][s.off + j] \in Bytes  BY <1>1, <1>3, <3>1, MemTypes
    <3>3. Old(s, j) = before["cache"][s.off + j] /\ Load(Plus(s, j)) = Old(s, j)
      <4>1. j \in Int  BY <1>2
      <4>. QED  BY <1>1, <1>3, <4>1, LoadIs
    <3>. QED  BY <3>2, <3>3
  <2>5. \A j \in 1 .. k + r : j - 1 \in 0 .. n - 1  BY <1>2, <2>1
  <2>6. h \in [1 .. k + r -> Bytes]  BY <2>3, <2>4, <2>5
  <2>7. \A j \in 1 .. k : j \in 1 .. k + r  BY <2>1
  <2>8. f \in [1 .. k -> Bytes] /\ \A j \in 1 .. k : h[j] = f[j]  BY <2>3, <2>4, <2>5, <2>7
  <2>9. ASSUME NEW j \in 1 .. r PROVE g[j] = h[k + j] /\ g[j] \in Bytes
    <3>1. k + j \in 1 .. k + r /\ k + j - 1 \in 0 .. n - 1  BY <2>1, <2>5
    <3>2. g[j] = Load(Plus(s, k + j - 1)) /\ h[k + j] = Old(s, k + j - 1)  BY <2>3, <3>1
    <3>. QED  BY <2>4, <3>1, <3>2
  <2>10. g \in [1 .. r -> Bytes]
    <3>1. g = [j \in 1 .. r |-> g[j]]  BY <2>3
    <3>. QED  BY <2>9, <3>1
  <2>11. f \o g = h
    <3>1. (\A j \in 1 .. k : h[j] = f[j]) /\ \A j \in 1 .. r : h[k + j] = g[j]  BY <2>8, <2>9
    <3>2. Joined(k, r, f, g, h)  BY <1>2, <2>1, <2>6, <2>8, <2>10, <3>1 DEF Joined
    <3>. QED  BY <3>2, JoinIs
  <2>12. file' = h  BY <1>1, <1>2, <1>7, <2>3, <2>11
  <2>13. Old(call.s, 0)' = Old(call.s, 0) /\ \A j : Old(call.s, j)' = Old(s, j)
    BY <1>2, <2>2 DEF Old
  <2>14. file' = [j \in 1 .. k + r |-> Old(call.s, j - 1)']  BY <2>3, <2>12, <2>13
  <2>15. ASSUME LastChunk(r) PROVE Promised'
    <3>1. result' = k + r  BY <1>2, <1>7, <2>15 DEF Transferred
    <3>2. WriteEnd'  BY <1>1, <2>1, <2>2, <2>14, <3>1 DEF WriteEnd
    <3>. QED  BY <1>4, <3>2
  <2>16. ASSUME ~ LastChunk(r) PROVE ChunksInv'
    <3>1. pc' = "chunks"  BY <1>1, <1>7, <2>16 DEF Transferred
    <3>2. call'.f = "write" /\ IsArea(call.s)' /\ Cached(call'.s) /\ i' <= call'.n /\ mem' = before'
      BY <1>1, <1>2, <2>1, <2>2 DEF IsArea, Inside
    <3>3. file' = [j \in 1 .. i' |-> Old(call.s, j - 1)']  BY <2>2, <2>14
    <3>. QED  BY <3>1, <3>2, <3>3 DEF ChunksInv
  <2>17. IsMem(mem')  BY <1>1, <1>7
  <2>. QED  BY <1>1, <1>7, <2>1, <2>15, <2>16, <2>17, TransferredInv
<1>. QED  BY <1>5, <1>6, <1>7 DEF WriteStep

\* The end of the buffer.
LEMMA ChunksReturnInv ==
    ASSUME IndInv, ChunksReturn
    PROVE  IndInv'
<1>1. /\ pc = "chunks" /\ call.f \in {"read", "write"} /\ i \in Nat /\ IsMem(mem) /\ IsMem(before)
      /\ call.f = "read" => call.d \in Pointers /\ Written(0, i)
      /\ call.f = "write" => mem = before /\ file = [k \in 1 .. i |-> Old(call.s, k - 1)]
  BY DEF ChunksReturn, IndInv, TypeOK, ChunksInv, IsArea
<1>2. PICK r \in Nat : r = i /\ Returns(r)  BY <1>1 DEF ChunksReturn
<1>3. pc' = "done" /\ result' = r /\ UNCHANGED <<mem, pins, call, raw, i, file, before>>
  BY <1>2 DEF Returns
<1>4. CASE call.f = "read"
  <2>1. Written(0, r)  BY <1>1, <1>2, <1>4
  <2>2. Written(0, r)'  BY <1>3, <2>1 DEF Written, NewByte, Old
  <2>3. Written(0, result)'  BY <1>3, <2>2
  <2>4. ReadEnd'  BY <1>1, <1>3, <1>4, <2>3 DEF ReadEnd, IsMem
  <2>5. ReadEnd' => Promised'  BY ReadPromised, PTL
  <2>. QED  BY <1>1, <1>2, <2>4, <2>5, ReturnsInv
<1>5. CASE call.f = "write"
  <2>1. WriteEnd'  BY <1>1, <1>2, <1>3, <1>5 DEF WriteEnd, Old
  <2>2. WriteEnd' => Promised'  BY WritePromised, PTL
  <2>. QED  BY <1>1, <1>2, <2>1, <2>2, ReturnsInv
<1>. QED  BY <1>1, <1>4, <1>5

-----------------------------------------------------------------------------

\* Every step preserves the invariant.
LEMMA NextIndInv == IndInv /\ [Next]_vars => IndInv'
<1>. SUFFICES ASSUME IndInv, [Next]_vars PROVE IndInv'  OBVIOUS
<1>1. CASE Call  BY <1>1, CallInv
<1>2. CASE CopyStep  BY <1>2, CopyStepInv
<1>3. CASE CopyReturns  BY <1>3, CopyReturnsInv
<1>4. CASE ByteStep
  BY <1>4, MemsetInv, MemmoveInv, MemchrInv, MemcmpInv, StrcmpInv, StrlenInv, StpcpyInv DEF ByteStep
<1>5. CASE ReadStep  BY <1>5, ReadInv
<1>6. CASE WriteStep  BY <1>6, WriteInv
<1>7. CASE ChunksReturn  BY <1>7, ChunksReturnInv
<1>8. CASE UNCHANGED vars
  <2>1. UNCHANGED <<mem, pins, call, pc, raw, i, result, file, before>>  BY <1>8 DEF vars
  <2>2. TypeOK' /\ IdleInv'  BY <2>1 DEF IndInv, TypeOK, IdleInv, IsMem
  <2>4. CopyInv'  BY <2>1 DEF IndInv, CopyInv, IsArea, Written, NewByte, Old
  <2>5. PinsInv'  BY <2>1 DEF IndInv, PinsInv
  <2>6. BytesInv'
    BY <2>1 DEF IndInv, BytesInv, InLoop, IsArea, Written, NewByte, Old, EndsIn, OldLength
  <2>7. ChunksInv'  BY <2>1 DEF IndInv, ChunksInv, IsArea, Written, NewByte, Old
  <2>8. CallsCorrect'
    <3>1. ASSUME Promised, call.f \in Functions10 PROVE Promised'
      <4>1. (\A p, k : Old(p, k)' = Old(p, k)) /\ \A p : OldLength(p)' = OldLength(p)
        BY <2>1 DEF Old, OldLength
      <4>2. CASE call.f \in {"memcpy", "memmove"}
        BY <2>1, <3>1, <4>2 DEF Promised, Overwritten, Old
      <4>3. CASE call.f = "memset"  BY <2>1, <3>1, <4>3 DEF Promised, Overwritten
      <4>4. CASE call.f = "stpcpy"  BY <2>1, <3>1, <4>4 DEF Promised, Overwritten, Old, OldLength
      <4>5. CASE call.f = "memchr"  BY <2>1, <3>1, <4>5 DEF Promised, Old
      <4>6. CASE call.f = "memcmp"  BY <2>1, <3>1, <4>6 DEF Promised, Old, DifferenceAt
      <4>7. CASE call.f = "strcmp"  BY <2>1, <3>1, <4>7 DEF Promised, Old, OldLength, DifferenceAt
      <4>8. CASE call.f = "strlen"  BY <2>1, <3>1, <4>8 DEF Promised, Old, OldLength
      <4>9. CASE call.f = "read"  BY <2>1, <3>1, <4>9 DEF Promised, Overwritten
      <4>10. CASE call.f = "write"  BY <2>1, <3>1, <4>10 DEF Promised, Old
      <4>. QED  BY <3>1, <4>2, <4>3, <4>4, <4>5, <4>6, <4>7, <4>8, <4>9, <4>10 DEF Functions10
    <3>2. pc # "idle" => call.f \in Functions10  BY DEF IndInv, TypeOK, Functions10
    <3>. QED  BY <2>1, <3>1, <3>2 DEF IndInv, CallsCorrect
  <2>. QED  BY <2>2, <2>4, <2>5, <2>6, <2>7, <2>8 DEF IndInv
<1>. QED  BY <1>1, <1>2, <1>3, <1>4, <1>5, <1>6, <1>7, <1>8 DEF Next

\* Every function returns what its C counterpart promises, for any page size, any number
\* of pages and any contents: also across the ends of pages, with overlapping areas, and
\* with short reads and writes.
THEOREM CallsCorrectHolds == Spec => []CallsCorrect
<1>1. IndInv => CallsCorrect  BY DEF IndInv
<1>. QED  BY <1>1, InitIndInv, NextIndInv, PTL DEF Spec

\* The invariant implies that raw pointers are into pinned pages.
LEMMA IndInvPinned == IndInv => PointersPinned
<1>. SUFFICES ASSUME IndInv PROVE PointersPinned  OBVIOUS
<1>1. pins \in [0 .. NumPages - 1 -> Int] /\ DOMAIN pins = 0 .. NumPages - 1  BY DEF IndInv, TypeOK
<1>2. ASSUME pc = "copy", NEW x \in Pinned(call)
      PROVE  raw[x] = RawOf(Plus(call[x], i)) /\ raw[x].offset < PageSize
  <2>1. CopyState  BY <1>2, CopyFacts
  <2>2. raw[x].offset \in 0 .. PageSize - 1  BY <2>1, PinnedSide
  <2>3. raw[x].offset < PageSize  BY <2>2, Sizes
  <2>. QED  BY <2>1, <2>3 DEF CopyState
<1>3. \A p \in DOMAIN pins :
          /\ pc = "copy" => pins[p] = Cardinality({x \in Pinned(call) : raw[x].page = p})
          /\ pc \in {"idle", "bytes", "chunks", "done"} => pins[p] = 0
  BY <1>1 DEF IndInv, PinsInv
<1>. QED  BY <1>2, <1>3 DEF PointersPinned

\* private_cache_memcpy uses a raw pointer only into a page it has pinned, and no
\* function leaves a page pinned.
THEOREM PointersPinnedHolds == Spec => []PointersPinned
  BY InitIndInv, NextIndInv, IndInvPinned, PTL DEF Spec

=============================================================================
