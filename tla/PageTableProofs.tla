-------------------------- MODULE PageTableProofs --------------------------
(***************************************************************************)
(* Proofs about PageTable, for any finite set of clients, any pages and    *)
(* any sizes: the pages clients hold stay mapped, references are counted   *)
(* on the right lines, hints stay good across I/O, no line is lost, and    *)
(* the walk to a held page only gets shorter.                              *)
(*                                                                         *)
(* The chains are a recursive function of the lines.  ChainIs relates it   *)
(* to sequences of lines that next leads along (IsWalk); everything else   *)
(* is said about those.  ChainIs is shown by induction, in the form that a *)
(* set of counterexamples would have a least element (LeastNumber).        *)
(***************************************************************************)
EXTENDS PageTable, FiniteSetTheorems, SequenceTheorems, WellFoundedInduction, TLAPS

\* The chains, each named by its first line.
Buckets == 0 .. bucket_size - 1
\* The tags of the pages.
Tags == {Tag(v) : v \in Pages}

\* A non-empty set of natural numbers has a least element.  This is what the proofs use
\* for induction: of the counterexamples, take the least.
LEMMA LeastNumber ==
    ASSUME NEW S \in SUBSET Nat, S # {}
    PROVE  \E n \in S : \A m \in S : n <= m
<1>1. PICK x \in S : \A y \in S : ~ (<<y, x>> \in OpToRel(<, Nat))
  BY NatLessThanWellFounded, WFMin
<1>2. \A y \in S : ~ (y < x)
  BY <1>1 DEF OpToRel
<1>. QED  BY <1>2

\* Division with remainder by the number of entries of a line.
LEMMA DivMod ==
    ASSUME NEW v \in Nat
    PROVE  /\ v \div Pack \in Nat
           /\ v % Pack \in 0 .. Pack - 1
           /\ v = Pack * (v \div Pack) + (v % Pack)
  BY SizesAssumption

\* Tag and offset determine the page.
LEMMA PageIs ==
    ASSUME NEW u \in Pages, NEW v \in Pages, Tag(u) = Tag(v), Offset(u) = Offset(v)
    PROVE  u = v
  BY DivMod, PagesAssumption DEF Tag, Offset

\* The tag of a page is a number, and its offset is an offset of a line.
LEMMA TagType ==
    ASSUME NEW v \in Pages
    PROVE  /\ Tag(v) \in Nat /\ Tag(v) # None /\ Tag(v) \in Tags
           /\ Offset(v) \in Offsets
  BY DivMod, PagesAssumption, NoneAssumption DEF Tag, Offset, Offsets, Tags

\* get_bucket gives the number of a bucket.
LEMMA BucketType ==
    ASSUME NEW t \in Nat
    PROVE  get_bucket(t) \in Buckets
  BY SizesAssumption DEF get_bucket, Buckets, bucket_size

\* The first lines of the buckets are lines, and None is not one.
LEMMA LinesType ==
    /\ Buckets \subseteq Lines /\ Lines \subseteq Nat /\ None \notin Lines
    /\ bucket_size \in Nat /\ NumFrames \in Nat
  BY SizesAssumption, NoneAssumption DEF Lines, Buckets, bucket_size

\* Following next from line b gives the sequence w of lines, and ends.
IsWalk(ln, b, w) ==
    /\ w \in Seq(Lines) /\ Len(w) >= 1 /\ w[1] = b
    /\ \A i \in 1 .. Len(w) - 1 : ln[w[i]].next = w[i + 1]
    /\ ln[w[Len(w)]].next = None

\* Chain, of any assignment of lines.
ChainIn(ln, b) ==
    LET walk[n \in 0 .. NumFrames] ==
            IF n = 0 THEN <<b>>
            ELSE LET w == walk[n - 1]
                 IN  IF ln[Last(w)].next = None THEN w
                     ELSE Append(w, ln[Last(w)].next)
    IN  walk[NumFrames]

\* The chains are those of the lines as they are ...
LEMMA ChainNow == \A b : Chain(b) = ChainIn(line, b)
  BY DEF Chain, ChainIn
\* ... and after a step those of the lines as they are then.
LEMMA ChainThen == \A b : Chain(b)' = ChainIn(line', b)
  BY DEF Chain, ChainIn

\* What the walk has collected after n steps.
Prefix(w, n) == SubSeq(w, 1, IF n + 1 <= Len(w) THEN n + 1 ELSE Len(w))

\* The lines of a prefix.
LEMMA PrefixProps ==
    ASSUME NEW w \in Seq(Lines), Len(w) >= 1, NEW n \in Nat
    PROVE  /\ Prefix(w, n) \in Seq(Lines)
           /\ Len(Prefix(w, n)) = IF n + 1 <= Len(w) THEN n + 1 ELSE Len(w)
           /\ \A i \in 1 .. Len(Prefix(w, n)) : Prefix(w, n)[i] = w[i]
  BY DEF Prefix

\* One step of the walk extends the prefix, or the walk is at its end.
LEMMA PrefixStep ==
    ASSUME NEW ln, NEW b, NEW w, IsWalk(ln, b, w), NEW n \in Nat \ {0}
    PROVE  Prefix(w, n) =
             IF ln[Last(Prefix(w, n - 1))].next = None THEN Prefix(w, n - 1)
             ELSE Append(Prefix(w, n - 1), ln[Last(Prefix(w, n - 1))].next)
<1>. DEFINE m == n - 1
            p == Prefix(w, m)
<1>1. m \in Nat /\ w \in Seq(Lines) /\ Len(w) >= 1 /\ Len(w) \in Nat
  BY DEF IsWalk
<1>2. CASE n + 1 <= Len(w)
  <2>1. Last(p) = w[n] /\ p \in Seq(Lines) /\ Len(p) = n
    BY <1>1, <1>2, PrefixProps DEF Last
  <2>2. ln[Last(p)].next = w[n + 1]
    BY <2>1, <1>1, <1>2 DEF IsWalk
  <2>3. w[n + 1] \in Lines /\ w[n + 1] # None
    BY <1>1, <1>2, LinesType
  <2>4. Append(p, w[n + 1]) = Prefix(w, n)
    <3>1. Len(Prefix(w, n)) = n + 1 /\ Prefix(w, n) \in Seq(Lines)
      BY <1>1, <1>2, PrefixProps
    <3>2. \A i \in 1 .. n : p[i] = w[i]
      BY <1>1, <1>2, <2>1, PrefixProps
    <3>3. \A i \in 1 .. n + 1 : Prefix(w, n)[i] = w[i]
      BY <1>1, <1>2, <3>1, PrefixProps
    <3>4. /\ Append(p, w[n + 1]) \in Seq(Lines) /\ Len(Append(p, w[n + 1])) = n + 1
          /\ \A i \in 1 .. n : Append(p, w[n + 1])[i] = p[i]
          /\ Append(p, w[n + 1])[n + 1] = w[n + 1]
      BY <2>1, <2>3
    <3>5. \A i \in 1 .. n + 1 : Append(p, w[n + 1])[i] = Prefix(w, n)[i]
      BY <3>2, <3>3, <3>4
    <3>. QED  BY <3>1, <3>4, <3>5
  <2>. QED  BY <2>2, <2>3, <2>4
<1>3. CASE ~ (n + 1 <= Len(w))
  <2>1. Prefix(w, n) = w /\ p = w
    BY <1>1, <1>3 DEF Prefix
  <2>2. ln[Last(p)].next = None
    BY <2>1 DEF IsWalk, Last
  <2>. QED  BY <2>1, <2>2
<1>. QED  BY <1>2, <1>3

\* The recursive function that defines a chain follows next to the end: a walk that is
\* not too long is the chain.
LEMMA ChainIs ==
    ASSUME NEW ln, NEW b, NEW w, IsWalk(ln, b, w), Len(w) <= NumFrames + 1
    PROVE  ChainIn(ln, b) = w
<1>. DEFINE Fn(f) == [n \in 0 .. NumFrames |->
                         IF n = 0 THEN <<b>>
                         ELSE IF ln[Last(f[n - 1])].next = None THEN f[n - 1]
                              ELSE Append(f[n - 1], ln[Last(f[n - 1])].next)]
            wk == CHOOSE walk : walk = Fn(walk)
            pf == [n \in 0 .. NumFrames |-> Prefix(w, n)]
<1>0. NumFrames \in Nat /\ w \in Seq(Lines) /\ Len(w) >= 1 /\ w[1] = b /\ Len(w) \in Nat
  BY LinesType DEF IsWalk
<1>1. ChainIn(ln, b) = wk[NumFrames]
  BY DEF ChainIn
<1>2. pf = Fn(pf)
  <2>. HIDE DEF wk
  <2>1. ASSUME NEW n \in 0 .. NumFrames PROVE pf[n] = Fn(pf)[n]
    <3>1. CASE n = 0
      <4>1. pf[n] = Prefix(w, 0)  BY <3>1
      <4>2. Prefix(w, 0) = <<b>>
        <5>0. /\ Prefix(w, 0) \in Seq(Lines)
              /\ Len(Prefix(w, 0)) = IF 0 + 1 <= Len(w) THEN 0 + 1 ELSE Len(w)
              /\ \A i \in 1 .. Len(Prefix(w, 0)) : Prefix(w, 0)[i] = w[i]
          BY <1>0, PrefixProps, 0 \in Nat
        <5>1. Len(Prefix(w, 0)) = 1 /\ Prefix(w, 0) \in Seq(Lines) /\ Prefix(w, 0)[1] = b
          BY <1>0, <5>0
        <5>2. <<b>> \in Seq(Lines) /\ Len(<<b>>) = 1 /\ <<b>>[1] = b
          BY <1>0
        <5>. QED  BY <5>1, <5>2, SeqEqual
      <4>. QED  BY <4>1, <4>2, <3>1
    <3>2. CASE n # 0
      <4>1. n \in Nat \ {0} /\ n - 1 \in 0 .. NumFrames
        BY <3>2, <1>0
      <4>2. pf[n] = Prefix(w, n) /\ pf[n - 1] = Prefix(w, n - 1)
        BY <4>1
      <4>. QED  BY <4>1, <4>2, <3>2, PrefixStep
    <3>. QED  BY <3>1, <3>2
  <2>. QED  BY <2>1
<1>3. wk = Fn(wk)
  BY <1>2
<1>. HIDE DEF wk
<1>4. \A n \in 0 .. NumFrames : wk[n] = pf[n]
  <2>. DEFINE S == {n \in 0 .. NumFrames : wk[n] # pf[n]}
  <2>1. SUFFICES ASSUME S # {} PROVE FALSE  OBVIOUS
  <2>2. PICK n \in S : \A m \in S : n <= m
    BY <2>1, LeastNumber, S \in SUBSET Nat
  <2>3. n # 0
    BY <1>2, <1>3
  <2>4. n - 1 \in 0 .. NumFrames /\ n - 1 \notin S
    BY <2>2, <2>3, <1>0
  <2>5. wk[n - 1] = pf[n - 1]
    BY <2>4
  <2>6. wk[n] = Fn(wk)[n] /\ pf[n] = Fn(pf)[n]
    BY <1>2, <1>3
  <2>7. Fn(wk)[n] = Fn(pf)[n]
    BY <2>3, <2>5
  <2>. QED  BY <2>6, <2>7
<1>5. pf[NumFrames] = w
  BY <1>0 DEF Prefix
<1>. QED  BY <1>1, <1>4, <1>5, <1>0

\* A walk stays a walk when the next of its lines stay.
LEMMA WalkKept ==
    ASSUME NEW ln, NEW l2, NEW b, NEW w, IsWalk(ln, b, w),
           \A i \in 1 .. Len(w) : l2[w[i]].next = ln[w[i]].next
    PROVE  IsWalk(l2, b, w)
  BY DEF IsWalk

\* A line linked behind the last one of a walk makes it one line longer.
LEMMA WalkAppended ==
    ASSUME NEW ln, NEW l2, NEW b, NEW w, IsWalk(ln, b, w), NEW l \in Lines,
           \A i \in 1 .. Len(w) - 1 : l2[w[i]].next = ln[w[i]].next,
           l2[w[Len(w)]].next = l, l2[l].next = None
    PROVE  IsWalk(l2, b, Append(w, l))
<1>. DEFINE v == Append(w, l)
<1>1. /\ v \in Seq(Lines) /\ Len(v) = Len(w) + 1 /\ Len(w) \in Nat /\ Len(w) >= 1
      /\ \A i \in 1 .. Len(w) : v[i] = w[i]
      /\ v[Len(w) + 1] = l /\ w \in Seq(Lines)
  BY DEF IsWalk
<1>. HIDE DEF v
<1>2. ASSUME NEW i \in 1 .. Len(v) - 1 PROVE l2[v[i]].next = v[i + 1]
  <2>1. CASE i = Len(w)  BY <1>1, <2>1
  <2>2. CASE i # Len(w)
    <3>1. i \in 1 .. Len(w) - 1 /\ i + 1 \in 1 .. Len(w)  BY <1>1, <2>2
    <3>. QED  BY <3>1, <1>1 DEF IsWalk
  <2>. QED  BY <2>1, <2>2
<1>3. v[1] = b  BY <1>1 DEF IsWalk
<1>4. l2[v[Len(v)]].next = None  BY <1>1
<1>. QED  BY <1>1, <1>2, <1>3, <1>4 DEF IsWalk, v

\* A walk without its n-th line.
Without(w, n) == [j \in 1 .. Len(w) - 1 |-> IF j < n THEN w[j] ELSE w[j + 1]]

\* The lines of such a walk.
LEMMA WithoutProps ==
    ASSUME NEW w \in Seq(Lines), NEW n \in 2 .. Len(w)
    PROVE  /\ Without(w, n) \in Seq(Lines)
           /\ Len(Without(w, n)) = Len(w) - 1
           /\ \A j \in 1 .. Len(w) - 1 : Without(w, n)[j] = IF j < n THEN w[j] ELSE w[j + 1]
           /\ DOMAIN Without(w, n) = 1 .. Len(w) - 1
  BY DEF Without

\* Setting the next of the line in front of a line to the line behind it takes the line
\* out of the walk.
LEMMA WalkCut ==
    ASSUME NEW ln, NEW l2, NEW b, NEW w, IsWalk(ln, b, w), NEW n \in 2 .. Len(w),
           \A i \in 1 .. Len(w) : i \notin {n - 1, n} => l2[w[i]].next = ln[w[i]].next,
           l2[w[n - 1]].next = ln[w[n]].next
    PROVE  IsWalk(l2, b, Without(w, n))
<1>. DEFINE v == Without(w, n)
<1>0. w \in Seq(Lines) /\ Len(w) \in Nat /\ Len(w) >= 2
  BY DEF IsWalk
<1>1. /\ v \in Seq(Lines) /\ Len(v) = Len(w) - 1 /\ Len(w) \in Nat /\ Len(w) >= 2
      /\ \A j \in 1 .. Len(w) - 1 : v[j] = IF j < n THEN w[j] ELSE w[j + 1]
      /\ w \in Seq(Lines)
  BY <1>0, WithoutProps
<1>. HIDE DEF v
<1>2. ASSUME NEW i \in 1 .. Len(v) - 1 PROVE l2[v[i]].next = v[i + 1]
  <2>1. CASE i < n - 1
    <3>1. v[i] = w[i] /\ v[i + 1] = w[i + 1] /\ i \in 1 .. Len(w) - 1 /\ i \notin {n - 1, n} BY <1>1, <2>1
    <3>. QED  BY <3>1, <1>1 DEF IsWalk
  <2>2. CASE i = n - 1
    <3>1. v[i] = w[n - 1] /\ v[i + 1] = w[n + 1] /\ n \in 1 .. Len(w) - 1 BY <1>1, <2>2
    <3>. QED  BY <3>1, <1>1 DEF IsWalk
  <2>3. CASE i >= n
    <3>0. i \in 1 .. Len(w) - 1 /\ i + 1 \in 1 .. Len(w) - 1 /\ ~ (i < n) /\ ~ (i + 1 < n)
      BY <1>1, <2>3
    <3>1. v[i] = w[i + 1] /\ v[i + 1] = w[(i + 1) + 1] /\ (i + 1) + 1 = i + 2 /\ i + 1 \notin {n - 1, n}
      BY <1>1, <3>0
    <3>2. ln[w[i + 1]].next = w[i + 2]  BY <3>0, <3>1 DEF IsWalk
    <3>. QED  BY <3>0, <3>1, <3>2, <1>1
  <2>. QED  BY <2>1, <2>2, <2>3, <1>1
<1>3. v[1] = b  BY <1>1 DEF IsWalk
<1>4. l2[v[Len(v)]].next = None
  <2>1. CASE n = Len(w)
    <3>1. v[Len(v)] = w[n - 1]  BY <1>1, <2>1
    <3>. QED  BY <3>1, <2>1 DEF IsWalk
  <2>2. CASE n # Len(w)
    <3>1. v[Len(v)] = w[Len(w)] /\ Len(w) \notin {n - 1, n} /\ Len(w) \in 1 .. Len(w)  BY <1>1, <2>2
    <3>. QED  BY <3>1 DEF IsWalk
  <2>. QED  BY <2>1, <2>2
<1>. QED  BY <1>1, <1>2, <1>3, <1>4 DEF IsWalk, v

\* C gives for each bucket its walk.
IsFamily(ln, C) == \A b \in Buckets : IsWalk(ln, b, C[b])

\* No line is twice in a chain, or in two chains.
DisjointIn(C) ==
    \A b, c \in Buckets : \A i \in 1 .. Len(C[b]), j \in 1 .. Len(C[c]) :
        C[b][i] = C[c][j] => b = c /\ i = j

\* Of lines that are not in two chains, no more than NumFrames + 1 fit into one: the
\* other buckets keep their first lines.  So a chain is never longer than what Chain can
\* follow.
LEMMA ShortWalks ==
    ASSUME NEW ln, NEW C, IsFamily(ln, C), DisjointIn(C), NEW b \in Buckets
    PROVE  Len(C[b]) <= NumFrames + 1
<1>. DEFINE w == C[b]
            T == bucket_size .. bucket_size + NumFrames - 1
<1>1. w \in Seq(Lines) /\ Len(w) \in Nat /\ Len(w) >= 1 /\ w[1] = b
  BY DEF IsFamily, IsWalk
<1>2. \A i \in 2 .. Len(w) : w[i] \in T
  <2>1. ASSUME NEW i \in 2 .. Len(w), w[i] \in Buckets PROVE FALSE
    <3>1. C[w[i]][1] = w[i] /\ 1 \in 1 .. Len(C[w[i]])
      BY <2>1 DEF IsFamily, IsWalk
    <3>2. i \in 1 .. Len(C[b])  BY <1>1
    <3>3. i = 1  BY <3>1, <3>2, <2>1 DEF DisjointIn
    <3>. QED  BY <3>3
  <2>2. \A i \in 2 .. Len(w) : w[i] \in Lines  BY <1>1
  <2>. QED  BY <2>1, <2>2, LinesType DEF Lines, Buckets
<1>3. IsFiniteSet(T) /\ Cardinality(T) = NumFrames
  BY FS_Interval, LinesType, bucket_size \in Int, bucket_size + NumFrames - 1 \in Int
<1>4. IsFiniteSet(2 .. Len(w)) /\ Cardinality(2 .. Len(w)) = Len(w) - 1
  <2>1. /\ IsFiniteSet(2 .. Len(w))
        /\ Cardinality(2 .. Len(w)) = IF 2 > Len(w) THEN 0 ELSE Len(w) - 2 + 1
    BY FS_Interval, <1>1, 2 \in Int, Len(w) \in Int
  <2>. QED  BY <2>1, <1>1
<1>5. SUFFICES ASSUME Cardinality(T) < Cardinality(2 .. Len(w)) PROVE FALSE
  BY <1>1, <1>3, <1>4, LinesType
<1>. DEFINE f == [i \in 2 .. Len(w) |-> w[i]]
<1>6. f \in [2 .. Len(w) -> T]  BY <1>2
<1>7. \E x, y \in 2 .. Len(w) : x # y /\ f[x] = f[y]
  <2>. HIDE DEF f, T, w
  <2>. QED  BY <1>3, <1>4, <1>5, <1>6, FS_PigeonHole
<1>8. PICK x, y \in 2 .. Len(w) : x # y /\ w[x] = w[y]  BY <1>7
<1>. QED  BY <1>1, <1>8 DEF DisjointIn

\* Disjoint walks are the chains.
LEMMA FamilyIs ==
    ASSUME NEW ln, NEW C, IsFamily(ln, C), DisjointIn(C)
    PROVE  \A b \in Buckets : ChainIn(ln, b) = C[b]
  BY ShortWalks, ChainIs DEF IsFamily

-----------------------------------------------------------------------------
(* The inductive invariant *)

\* The headers of entries.
Header == [exist : BOOLEAN, busy : BOOLEAN, ref_count : Nat, ppage_id : 1 .. NumFrames \cup {None}]

\* The types of the variables.
TypeOK ==
    /\ line \in [Lines -> [tag : Tags \cup {None}, next : Lines \cup {None}, num_using : Nat]]
    /\ header \in [Lines -> [Offsets -> Header]]
    /\ pool \in Seq(Lines)
    /\ evictable \in SUBSET Pages /\ allocated \in 0 .. NumFrames
    /\ srv_pc \in {"loop", "link", "init", "cut", "push"}
    /\ job \in [client : Clients \cup {None}, line : Lines \cup {None}, pre : Lines \cup {None}]
    /\ ctx \in [Clients -> [phase : {"End", "Evicting", "Loading"}, hint : Lines \cup {None},
                            victim : Pages \cup {None}, pre_hint : Lines \cup {None}]]
    /\ pc \in [Clients -> {"idle", "tag", "next", "found", "check", "wait", "held"}]
    /\ op \in [Clients -> {"pin", "unpin"}]
    /\ page \in [Clients -> Pages \cup {None}]
    /\ at \in [Clients -> Lines \cup {None}]
    /\ first \in [Clients -> BOOLEAN]
    /\ frame \in [Clients -> 1 .. NumFrames \cup {None}]

\* The chains of all buckets.
Chains == [b \in Buckets |-> Chain(b)]

\* Line l is in the chain of bucket b ...
OnChain(b, l) == \E i \in 1 .. Len(Chain(b)) : Chain(b)[i] = l

\* ... in some chain ...
InChain(l) == \E b \in Buckets : OnChain(b, l)

\* ... in the pool of free lines ...
InPool(l) == \E i \in 1 .. Len(pool) : pool[i] = l

\* ... or with the server, between pool and chain: taken and not linked yet, or cut and
\* not yet returned.
Moving(l) == srv_pc \in {"link", "cut", "push"} /\ job.line = l

\* No entry of line l is in use.
EmptyLine(l) == line[l].num_using = 0 /\ \A o \in Offsets : header[l][o] = EmptyHeader

\* The chains end, and are disjoint.
ChainsOK == IsFamily(line, Chains) /\ DisjointIn(Chains)

\* No line is twice in the pool.
PoolDistinct == \A i, j \in 1 .. Len(pool) : pool[i] = pool[j] => i = j

\* Every line is at exactly one of the three places.
Placed ==
    \A l \in Lines : /\ InChain(l) \/ InPool(l) \/ Moving(l)
                     /\ ~ (InChain(l) /\ InPool(l))
                     /\ ~ (InChain(l) /\ Moving(l))
                     /\ ~ (InPool(l) /\ Moving(l))

\* No two lines have the same tag: create_cacheline is only called when the walk found no line.
TagsUnique == \A l, m \in Lines : line[l].tag = line[m].tag /\ line[l].tag # None => l = m

\* A line with a tag is in the chain of its tag, unless it is with the server.
TagsHome ==
    \A l \in Lines :
        line[l].tag # None => Moving(l) \/ OnChain(get_bucket(line[l].tag), l)

\* Lines in the pool have neither tag nor next.
PoolEmpty == \A l \in Lines : InPool(l) => line[l].tag = None /\ line[l].next = None

\* A line with the server is empty, has its tag, and does not lead into a chain; the line
\* the server will link it to is the last one of its chain.
MovingEmpty ==
    /\ \A l \in Lines : Moving(l) => EmptyLine(l) /\ line[l].tag # None
    /\ srv_pc \in {"link", "push"} => line[job.line].next = None
    /\ srv_pc = "link" =>
           LET w == Chain(get_bucket(line[job.line].tag)) IN job.pre = w[Len(w)]

\* A line without a tag is empty.
Untagged == \A l \in Lines : line[l].tag = None => EmptyLine(l)

\* The shape of the table: what the lock-free walks of the clients rely on.
Structure ==
    /\ ChainsOK /\ PoolDistinct /\ Placed
    /\ TagsUnique /\ TagsHome /\ PoolEmpty /\ MovingEmpty /\ Untagged

\* Entry o of line l is mapped, or locked for its eviction.
InUse(l, o) == header[l][o].exist \/ header[l][o].busy

\* num_using is the number of entries in use: delete_cacheline frees a line when the
\* last of them goes.
Counts ==
    \A l \in Lines : line[l].num_using = Cardinality({o \in Offsets : InUse(l, o)})

\* Client c has a reference on an entry of line l: between Inc and Check, as a holder, or
\* while its request loads the page.
Ref(c, l) ==
    \/ pc[c] = "check" /\ at[c] = l
    \/ c \in Holders /\ line[l].tag = Tag(page[c])
    \/ ctx[c].phase # "End" /\ ctx[c].hint = l

\* The clients with a reference on an entry.
Refs(l, o) == {c \in Clients : Ref(c, l) /\ Offset(page[c]) = o}

\* ref_count is their number, and only mapped entries are referenced.
RefsCounted ==
    \A l \in Lines : \A o \in Offsets :
        /\ header[l][o].ref_count = Cardinality(Refs(l, o))
        /\ header[l][o].exist \/ Refs(l, o) = {}

\* No frame is mapped twice.
FramesDistinct ==
    \A l, m \in Lines : \A o, q \in Offsets :
        header[l][o].exist /\ header[m][q].exist /\ header[l][o].ppage_id = header[m][q].ppage_id
            => l = m /\ o = q

\* The mapped frames are among those handed out.
FramesAllocated ==
    \A l \in Lines : \A o \in Offsets :
        /\ header[l][o].exist => header[l][o].ppage_id \in 1 .. allocated
        /\ ~ header[l][o].exist => header[l][o].ppage_id = None

\* The entry is mapped and not locked.
Solid(l, o) == header[l][o].exist /\ ~ header[l][o].busy

\* What a client's place in its call says of its local variables.
Control(c) ==
    /\ pc[c] # "idle" => page[c] \in Pages
    /\ pc[c] = "idle" => page[c] = None
    /\ pc[c] \in {"tag", "next", "found", "check"} => at[c] # None
    /\ op[c] = "unpin" => pc[c] \in {"tag", "next", "found"}

\* Dec finds the line of its page; an entry is not locked between Inc and Check; a
\* holder's page is mapped, to the frame it holds.
Access(c) ==
    /\ op[c] = "unpin" /\ pc[c] = "found" => line[at[c]].tag = Tag(page[c])
    /\ pc[c] = "check" => Solid(at[c], Offset(page[c]))
    /\ c \in Holders => \E l \in Lines :
          /\ line[l].tag = Tag(page[c])
          /\ Solid(l, Offset(page[c]))
          /\ header[l][Offset(page[c])].ppage_id = frame[c]

\* A request in progress: the hint is the line of its page, and the entry is mapped and
\* locked.
Loading(c) ==
    ctx[c].phase # "End" =>
        /\ pc[c] = "wait" /\ op[c] = "pin"
        /\ ctx[c].hint # None
        /\ line[ctx[c].hint].tag = Tag(page[c])
        /\ header[ctx[c].hint][Offset(page[c])].exist
        /\ header[ctx[c].hint][Offset(page[c])].busy

\* While it evicts, pre_hint is the line of the victim, whose entry is locked and not
\* mapped.
Evicting(c) ==
    ctx[c].phase = "Evicting" =>
        /\ ctx[c].pre_hint # None /\ ctx[c].victim # None
        /\ line[ctx[c].pre_hint].tag = Tag(ctx[c].victim)
        /\ ~ header[ctx[c].pre_hint][Offset(ctx[c].victim)].exist
        /\ header[ctx[c].pre_hint][Offset(ctx[c].victim)].busy

\* A context that ended keeps no hint.
Ended(c) == ctx[c].phase = "End" => ctx[c].hint = None

\* No two requests load the same page, or evict the same one.
ContextsDistinct ==
    \A c, d \in Clients :
        /\ ctx[c].phase # "End" /\ ctx[d].phase # "End" /\ page[c] = page[d] => c = d
        /\ ctx[c].phase = "Evicting" /\ ctx[d].phase = "Evicting"
             /\ ctx[c].victim = ctx[d].victim => c = d

\* What the server has in hand: a waiting client and the line of its page, whose entry is
\* not locked.
JobOK ==
    /\ srv_pc \in {"link", "init"} =>
          /\ job.client # None /\ job.line # None
          /\ pc[job.client] = "wait" /\ op[job.client] = "pin" /\ ctx[job.client].phase = "End"
          /\ line[job.line].tag = Tag(page[job.client])
          /\ ~ header[job.line][Offset(page[job.client])].busy
    /\ srv_pc \in {"link", "cut", "push"} => job.line # None
    /\ srv_pc = "link" => job.pre # None

\* Pages the policy may choose are mapped.
EvictableMapped ==
    \A u \in evictable : \E l \in Lines : line[l].tag = Tag(u) /\ header[l][Offset(u)].exist

\* The inductive invariant.  The properties are not inductive: that a holder finds its
\* line needs the shape of the chains, that a line is not freed under a reference needs
\* the counts, and that the counts are right needs every reference accounted for.
Inv ==
    /\ TypeOK /\ Structure /\ Counts /\ RefsCounted /\ FramesDistinct /\ FramesAllocated
    /\ \A c \in Clients : Control(c) /\ Access(c) /\ Loading(c) /\ Evicting(c) /\ Ended(c)
    /\ ContextsDistinct /\ JobOK /\ EvictableMapped

-----------------------------------------------------------------------------
(* What a tag says about its line *)

\* The chains under the invariant.
LEMMA ChainFacts ==
    ASSUME Inv, NEW b \in Buckets
    PROVE  /\ Chain(b) \in Seq(Lines) /\ Len(Chain(b)) \in Nat /\ Len(Chain(b)) >= 1
           /\ Chain(b)[1] = b
           /\ DOMAIN Chain(b) = 1 .. Len(Chain(b))
           /\ IsWalk(line, b, Chain(b))
           /\ ToSet(Chain(b)) = {l \in Lines : OnChain(b, l)}
<1>1. IsWalk(line, b, Chain(b))
  BY DEF Inv, Structure, ChainsOK, IsFamily, Chains
<1>2. /\ Chain(b) \in Seq(Lines) /\ Len(Chain(b)) \in Nat /\ Len(Chain(b)) >= 1
      /\ Chain(b)[1] = b /\ DOMAIN Chain(b) = 1 .. Len(Chain(b))
  BY <1>1 DEF IsWalk
<1>3. \A i \in 1 .. Len(Chain(b)) : Chain(b)[i] \in Lines
  BY <1>2
<1>. QED  BY <1>1, <1>2, <1>3 DEF ToSet, OnChain

\* A tag that is not None is the tag of a page.
LEMMA TagFacts ==
    ASSUME Inv, NEW l \in Lines, line[l].tag # None
    PROVE  /\ line[l].tag \in Nat /\ get_bucket(line[l].tag) \in Buckets
           /\ \E v \in Pages : line[l].tag = Tag(v)
<1>1. line[l].tag \in Tags  BY DEF Inv, TypeOK
<1>2. PICK v \in Pages : line[l].tag = Tag(v)  BY <1>1 DEF Tags
<1>. QED  BY <1>2, TagType, BucketType

\* A walk along the chain of a tag finds just the lines with that tag that are in a
\* chain.
LEMMA LinesOfIs ==
    ASSUME Inv, NEW v \in Pages
    PROVE  LinesOf(Tag(v)) = {l \in Lines : line[l].tag = Tag(v) /\ ~ Moving(l)}
<1>1. Tag(v) \in Nat /\ Tag(v) # None /\ get_bucket(Tag(v)) \in Buckets
  BY TagType, BucketType
<1>2. LinesOf(Tag(v)) = {l \in Lines : OnChain(get_bucket(Tag(v)), l) /\ line[l].tag = Tag(v)}
  BY <1>1, ChainFacts DEF LinesOf
<1>3. ASSUME NEW l \in Lines, line[l].tag = Tag(v)
      PROVE  OnChain(get_bucket(Tag(v)), l) <=> ~ Moving(l)
  BY <1>1, <1>3 DEF Inv, Structure, TagsHome, Placed, InChain
<1>. QED  BY <1>2, <1>3

\* There is at most one, and the walk finds it ...
LEMMA LineOfIs ==
    ASSUME Inv, NEW v \in Pages, NEW l \in Lines, line[l].tag = Tag(v), ~ Moving(l)
    PROVE  /\ HasLine(Tag(v)) /\ LineOf(Tag(v)) = l /\ LinesOf(Tag(v)) = {l}
           /\ Entry(v) = header[l][Offset(v)]
<1>1. LinesOf(Tag(v)) = {l}
  BY LinesOfIs, TagType DEF Inv, Structure, TagsUnique
<1>2. LineOf(Tag(v)) = l /\ HasLine(Tag(v))
  BY <1>1 DEF LineOf, HasLine
<1>. QED  BY <1>1, <1>2 DEF Entry

\* ... and it finds no other.
LEMMA LineOfHas ==
    ASSUME Inv, NEW v \in Pages, HasLine(Tag(v))
    PROVE  /\ LineOf(Tag(v)) \in Lines /\ line[LineOf(Tag(v))].tag = Tag(v)
           /\ ~ Moving(LineOf(Tag(v)))
           /\ Entry(v) = header[LineOf(Tag(v))][Offset(v)]
<1>1. LineOf(Tag(v)) \in LinesOf(Tag(v))
  BY DEF HasLine, LineOf
<1>. QED  BY <1>1, LinesOfIs DEF Entry

\* Nothing of an empty line is used or referenced.
LEMMA EmptyFacts ==
    ASSUME Inv, NEW l \in Lines, EmptyLine(l), NEW o \in Offsets
    PROVE  ~ InUse(l, o) /\ ~ Solid(l, o) /\ Refs(l, o) = {}
<1>1. header[l][o] = EmptyHeader  BY DEF EmptyLine
<1>2. ~ header[l][o].exist /\ ~ header[l][o].busy  BY <1>1 DEF EmptyHeader
<1>. QED  BY <1>2 DEF InUse, Solid, Inv, RefsCounted

\* A line with an entry in use is in a chain, with its tag.
LEMMA UsedFacts ==
    ASSUME Inv, NEW l \in Lines, NEW o \in Offsets, InUse(l, o)
    PROVE  ~ Moving(l) /\ line[l].tag # None
  BY EmptyFacts DEF Inv, Structure, MovingEmpty, Untagged

-----------------------------------------------------------------------------
(* What a step has to leave alone *)

\* Disjoint walks after a step are the chains after it.
LEMMA NewChains ==
    ASSUME NEW C, IsFamily(line', C), DisjointIn(C), C = [b \in Buckets |-> C[b]]
    PROVE  /\ \A b \in Buckets : Chain(b)' = C[b]
           /\ ChainsOK'
<1>1. \A b \in Buckets : Chain(b)' = C[b]
  BY FamilyIs, ChainThen
<1>2. Chains' = C
  BY <1>1 DEF Chains
<1>. QED  BY <1>1, <1>2 DEF ChainsOK

\* A step that leaves next alone, of the lines in chains, leaves the chains alone.
LEMMA SameChains ==
    ASSUME Inv, \A l \in Lines : InChain(l) => line'[l].next = line[l].next
    PROVE  /\ \A b \in Buckets : Chain(b)' = Chain(b)
           /\ ChainsOK'
           /\ \A l : InChain(l)' <=> InChain(l)
           /\ \A b \in Buckets, l \in Lines : OnChain(b, l)' <=> OnChain(b, l)
<1>1. ASSUME NEW b \in Buckets PROVE IsWalk(line', b, Chain(b))
  <2>1. IsWalk(line, b, Chain(b)) /\ Chain(b) \in Seq(Lines)  BY ChainFacts
  <2>2. \A i \in 1 .. Len(Chain(b)) : Chain(b)[i] \in Lines /\ InChain(Chain(b)[i])
    BY <2>1 DEF InChain, OnChain
  <2>3. \A i \in 1 .. Len(Chain(b)) : line'[Chain(b)[i]].next = line[Chain(b)[i]].next
    BY <2>2
  <2>. QED  BY <2>1, <2>3, WalkKept
<1>2. IsFamily(line', Chains) /\ DisjointIn(Chains)
  BY <1>1 DEF IsFamily, Chains, Inv, Structure, ChainsOK
<1>3. (\A b \in Buckets : Chain(b)' = Chains[b]) /\ ChainsOK'
  BY <1>2, NewChains DEF Chains
<1>4. \A b \in Buckets : Chain(b)' = Chain(b)
  BY <1>3 DEF Chains
<1>. QED  BY <1>3, <1>4 DEF InChain, OnChain

\* A step on the headers and counts preserves the shape, when untagged lines stay empty.
LEMMA StructureKept ==
    ASSUME Inv, pool' = pool,
           \A l \in Lines : line'[l].tag = line[l].tag /\ line'[l].next = line[l].next,
           \/ srv_pc' = srv_pc /\ job' = job
           \/ srv_pc \in {"loop", "init"} /\ srv_pc' \in {"loop", "init"},
           \A l \in Lines : line[l].tag = None \/ Moving(l) => EmptyLine(l)'
    PROVE  Structure'
<1>1. /\ \A b \in Buckets : Chain(b)' = Chain(b)
      /\ ChainsOK'
      /\ \A l : InChain(l)' <=> InChain(l)
      /\ \A b \in Buckets, l \in Lines : OnChain(b, l)' <=> OnChain(b, l)
  BY SameChains
<1>2. /\ \A l : Moving(l)' <=> Moving(l)
      /\ \A l : InPool(l)' <=> InPool(l)
  BY DEF Moving, InPool
<1>3. PoolDistinct' /\ Placed'
  BY <1>1, <1>2 DEF PoolDistinct, Placed, Inv, Structure
<1>4. TagsUnique'
  BY DEF TagsUnique, Inv, Structure
<1>5. TagsHome'
  <2>1. ASSUME NEW l \in Lines, line[l].tag # None PROVE get_bucket(line[l].tag) \in Buckets
    BY <2>1, TagFacts
  <2>. QED  BY <1>1, <1>2, <2>1 DEF TagsHome, Inv, Structure
<1>6. PoolEmpty' /\ Untagged'
  BY <1>2 DEF PoolEmpty, Untagged, Inv, Structure
<1>7. MovingEmpty'
  <2>1. \A l \in Lines : Moving(l)' => EmptyLine(l)' /\ line'[l].tag # None
    BY <1>2 DEF MovingEmpty, Inv, Structure
  <2>2. ASSUME srv_pc' \in {"link", "push"}
        PROVE  line'[job'.line].next = None
    <3>1. srv_pc = srv_pc' /\ job' = job /\ job.line \in Lines
      BY <2>2 DEF Inv, JobOK, TypeOK
    <3>. QED  BY <3>1, <2>2 DEF MovingEmpty, Inv, Structure
  <2>3. ASSUME srv_pc' = "link"
        PROVE  (LET w == Chain(get_bucket(line[job.line].tag)) IN job.pre = w[Len(w)])'
    <3>1. srv_pc = "link" /\ job' = job /\ job.line \in Lines /\ Moving(job.line)
      BY <2>3 DEF Inv, JobOK, TypeOK, Moving
    <3>2. line[job.line].tag # None /\ line'[job.line].tag = line[job.line].tag
      BY <3>1 DEF Inv, Structure, MovingEmpty
    <3>3. get_bucket(line[job.line].tag) \in Buckets  BY <3>1, <3>2, TagFacts
    <3>4. Chain(get_bucket(line[job.line].tag))' = Chain(get_bucket(line[job.line].tag))
      BY <3>1, <3>2, <3>3, <1>1, ChainNow, ChainThen
    <3>. QED  BY <3>1, <3>4 DEF Inv, Structure, MovingEmpty
  <2>. QED  BY <2>1, <2>2, <2>3 DEF MovingEmpty
<1>. QED  BY <1>1, <1>3, <1>4, <1>5, <1>6, <1>7 DEF Structure

\* The step leaves the entry's mapping and lock alone.
SameEntry(l, o) ==
    /\ header'[l][o].exist = header[l][o].exist
    /\ header'[l][o].busy = header[l][o].busy
    /\ header'[l][o].ppage_id = header[l][o].ppage_id

\* Lines that are used before and after the step keep their tags.
TagsStay == \A l \in Lines : \A o \in Offsets :
                InUse(l, o) /\ InUse(l, o)' => line'[l].tag = line[l].tag

\* Entries with a reference that are not locked stay as they are.
SolidStay == \A l \in Lines : \A o \in Offsets :
                Solid(l, o) /\ Refs(l, o) # {} => SameEntry(l, o)

\* The step leaves client d alone.
SameClient(d) ==
    /\ pc'[d] = pc[d] /\ op'[d] = op[d] /\ page'[d] = page[d]
    /\ at'[d] = at[d] /\ frame'[d] = frame[d] /\ ctx'[d] = ctx[d]

\* A holder has the line of its page, and is one of the references on it.
LEMMA HolderLine ==
    ASSUME Inv, NEW d \in Holders
    PROVE  /\ d \in Clients /\ page[d] \in Pages
           /\ \E l \in Lines :
                /\ line[l].tag = Tag(page[d]) /\ line[l].tag # None
                /\ Solid(l, Offset(page[d])) /\ InUse(l, Offset(page[d]))
                /\ header[l][Offset(page[d])].ppage_id = frame[d]
                /\ d \in Refs(l, Offset(page[d]))
<1>1. Access(d) /\ Control(d) /\ page[d] \in Pages \cup {None} /\ d \in Clients
  BY DEF Inv, TypeOK, Holders
<1>2. page[d] \in Pages  BY <1>1 DEF Holders, Control
<1>3. PICK l \in Lines : /\ line[l].tag = Tag(page[d])
                         /\ Solid(l, Offset(page[d]))
                         /\ header[l][Offset(page[d])].ppage_id = frame[d]
  BY <1>1 DEF Access
<1>4. d \in Refs(l, Offset(page[d]))  BY <1>1, <1>3 DEF Refs, Ref
<1>5. InUse(l, Offset(page[d])) BY <1>3 DEF Solid, InUse
<1>6. line[l].tag # None BY <1>2, <1>3, TagType
<1>. QED  BY <1>1, <1>2, <1>3, <1>4, <1>5, <1>6

\* A step on other clients keeps what a client may access.
LEMMA AccessKept ==
    ASSUME Inv, NEW d \in Clients, SameClient(d), TagsStay, SolidStay
    PROVE  /\ Access(d)'
           /\ d \in Holders <=> d \in Holders'
           /\ d \in Holders => \E l \in Lines : line[l].tag = Tag(page[d]) /\ line'[l].tag = Tag(page[d])
<1>1. Access(d) /\ Control(d) /\ at[d] \in Lines \cup {None} /\ page[d] \in Pages \cup {None}
  BY DEF Inv, TypeOK
<1>2. d \in Holders <=> d \in Holders'
  BY DEF Holders, SameClient
<1>3. ASSUME d \in Holders
      PROVE  \E l \in Lines :
               /\ line[l].tag = Tag(page[d]) /\ line'[l].tag = Tag(page[d])
               /\ Solid(l, Offset(page[d]))'
               /\ header'[l][Offset(page[d])].ppage_id = frame[d]
  <2>2. PICK l \in Lines :
                /\ line[l].tag = Tag(page[d]) /\ line[l].tag # None
                /\ Solid(l, Offset(page[d])) /\ InUse(l, Offset(page[d]))
                /\ header[l][Offset(page[d])].ppage_id = frame[d]
                /\ d \in Refs(l, Offset(page[d]))
    BY <1>3, HolderLine
  <2>3. Offset(page[d]) \in Offsets  BY <1>3, HolderLine, TagType
  <2>4. SameEntry(l, Offset(page[d]))  BY <2>2, <2>3 DEF SolidStay
  <2>5. page[d]' = page[d]  BY DEF SameClient
  <2>6. Solid(l, Offset(page[d]))' /\ InUse(l, Offset(page[d]))'
    BY <2>2, <2>4, <2>5 DEF SameEntry, Solid, InUse
  <2>7. InUse(l, Offset(page[d]))' = (header'[l][Offset(page[d])].exist \/ header'[l][Offset(page[d])].busy)
    BY <2>5 DEF InUse
  <2>8. line'[l].tag = line[l].tag  BY <2>2, <2>3, <2>6, <2>7 DEF TagsStay, InUse
  <2>. QED  BY <2>2, <2>4, <2>6, <2>8 DEF SameEntry
<1>4. ASSUME op[d] = "unpin", pc[d] = "found" PROVE line'[at[d]].tag = Tag(page[d])
  <2>1. d \in Holders /\ at[d] \in Lines /\ page[d] \in Pages /\ line[at[d]].tag = Tag(page[d])
    BY <1>1, <1>4 DEF Holders, Control, Access
  <2>2. PICK l \in Lines : line[l].tag = Tag(page[d]) /\ line'[l].tag = Tag(page[d])
    BY <1>3, <2>1
  <2>3. l = at[d]  BY <2>1, <2>2, TagType DEF Inv, Structure, TagsUnique
  <2>. QED  BY <2>2, <2>3
<1>5. ASSUME pc[d] = "check" PROVE Solid(at[d], Offset(page[d]))'
  <2>1. /\ at[d] \in Lines /\ page[d] \in Pages /\ Solid(at[d], Offset(page[d]))
        /\ d \in Refs(at[d], Offset(page[d])) /\ Offset(page[d]) \in Offsets
    BY <1>1, <1>5, TagType DEF Control, Access, Refs, Ref
  <2>2. at[d]' = at[d] /\ page[d]' = page[d] BY DEF SameClient
  <2>3. SameEntry(at[d], Offset(page[d]))  BY <2>1 DEF SolidStay
  <2>. QED  BY <2>1, <2>2, <2>3 DEF Solid, SameEntry
<1>. QED  BY <1>2, <1>3, <1>4, <1>5 DEF Access, Solid, SameClient

\* A step that leaves alone the entries of a request keeps the request.
LEMMA LoadingKept ==
    ASSUME Inv, NEW d \in Clients,
           pc'[d] = pc[d], op'[d] = op[d], page'[d] = page[d], ctx'[d] = ctx[d], TagsStay,
           ctx[d].phase # "End" => SameEntry(ctx[d].hint, Offset(page[d])),
           ctx[d].phase = "Evicting" => SameEntry(ctx[d].pre_hint, Offset(ctx[d].victim))
    PROVE  Loading(d)' /\ Evicting(d)' /\ Ended(d)'
<1>1. /\ Loading(d) /\ Evicting(d) /\ Ended(d) /\ Control(d)
      /\ ctx[d].hint \in Lines \cup {None} /\ ctx[d].pre_hint \in Lines \cup {None}
      /\ ctx[d].victim \in Pages \cup {None} /\ page[d] \in Pages \cup {None}
  BY DEF Inv, TypeOK
<1>2. ASSUME ctx[d].phase # "End"
      PROVE  /\ line'[ctx[d].hint].tag = Tag(page[d])
             /\ header'[ctx[d].hint][Offset(page[d])].exist
             /\ header'[ctx[d].hint][Offset(page[d])].busy
  <2>1. /\ ctx[d].hint \in Lines /\ page[d] \in Pages /\ Offset(page[d]) \in Offsets
        /\ line[ctx[d].hint].tag = Tag(page[d])
        /\ header[ctx[d].hint][Offset(page[d])].exist /\ header[ctx[d].hint][Offset(page[d])].busy
    BY <1>1, <1>2, TagType DEF Loading, Control
  <2>2. SameEntry(ctx[d].hint, Offset(page[d]))  BY <1>2
  <2>. QED  BY <2>1, <2>2 DEF SameEntry, TagsStay, InUse
<1>3. ASSUME ctx[d].phase = "Evicting"
      PROVE  /\ line'[ctx[d].pre_hint].tag = Tag(ctx[d].victim)
             /\ ~ header'[ctx[d].pre_hint][Offset(ctx[d].victim)].exist
             /\ header'[ctx[d].pre_hint][Offset(ctx[d].victim)].busy
  <2>1. /\ ctx[d].pre_hint \in Lines /\ ctx[d].victim \in Pages /\ Offset(ctx[d].victim) \in Offsets
        /\ line[ctx[d].pre_hint].tag = Tag(ctx[d].victim)
        /\ ~ header[ctx[d].pre_hint][Offset(ctx[d].victim)].exist
        /\ header[ctx[d].pre_hint][Offset(ctx[d].victim)].busy
    BY <1>1, <1>3, TagType DEF Evicting
  <2>2. SameEntry(ctx[d].pre_hint, Offset(ctx[d].victim))  BY <1>3
  <2>. QED  BY <2>1, <2>2 DEF SameEntry, TagsStay, InUse
<1>. QED  BY <1>1, <1>2, <1>3 DEF Loading, Evicting, Ended

\* What is known of a client, and its references, survive a step on others.
LEMMA OthersKept ==
    ASSUME Inv, NEW d \in Clients, SameClient(d), TagsUnique', TagsStay, SolidStay,
           ctx[d].phase # "End" => SameEntry(ctx[d].hint, Offset(page[d])),
           ctx[d].phase = "Evicting" => SameEntry(ctx[d].pre_hint, Offset(ctx[d].victim))
    PROVE  /\ Control(d)' /\ Access(d)' /\ Loading(d)' /\ Evicting(d)' /\ Ended(d)'
           /\ \A l \in Lines : \A o \in Offsets : d \in Refs(l, o)' <=> d \in Refs(l, o)
<1>1. Access(d)' /\ Loading(d)' /\ Evicting(d)' /\ Ended(d)'
  BY AccessKept, LoadingKept DEF SameClient
<1>2. Control(d)'
  BY DEF Inv, Control, SameClient
<1>3. ASSUME NEW l \in Lines, d \in Holders
      PROVE  line[l].tag = Tag(page[d]) <=> line'[l].tag = Tag(page[d])
  <2>1. PICK m \in Lines : line[m].tag = Tag(page[d]) /\ line'[m].tag = Tag(page[d])
    BY <1>3, AccessKept
  <2>2. Tag(page[d]) # None  BY <1>3, HolderLine, TagType
  <2>. QED  BY <2>1, <2>2 DEF Inv, Structure, TagsUnique
<1>4. d \in Holders <=> d \in Holders'
  BY AccessKept
<1>5. ASSUME NEW l \in Lines PROVE Ref(d, l)' <=> Ref(d, l)
  BY <1>3, <1>4 DEF Ref, SameClient
<1>. QED  BY <1>1, <1>2, <1>5 DEF Refs, SameClient

\* Sets of clients are finite: ref_count is a number.
LEMMA RefsFinite ==
    ASSUME NEW S \in SUBSET Clients
    PROVE  IsFiniteSet(S) /\ Cardinality(S) \in Nat /\ (Cardinality(S) = 0 <=> S = {})
  BY ClientsAssumption, FS_Subset, FS_CardinalityType, FS_EmptySet

\* Two sets that differ in at most one client differ in size by that client.
LEMMA OneClient ==
    ASSUME NEW S \in SUBSET Clients, NEW T \in SUBSET Clients, NEW c \in Clients,
           \A d \in Clients \ {c} : d \in S <=> d \in T
    PROVE  /\ Cardinality(S) \in Nat /\ Cardinality(T) \in Nat
           /\ Cardinality(T) + (IF c \in S THEN 1 ELSE 0) = Cardinality(S) + (IF c \in T THEN 1 ELSE 0)
<1>. DEFINE R == S \ {c}
<1>1. R \in SUBSET Clients /\ IsFiniteSet(R) /\ Cardinality(R) \in Nat  BY RefsFinite
<1>2. Cardinality(R \cup {c}) = Cardinality(R) + 1
  BY <1>1, FS_AddElement
<1>3. (S = R \/ S = R \cup {c}) /\ (c \in S <=> S = R \cup {c})
  OBVIOUS
<1>4. (T = R \/ T = R \cup {c}) /\ (c \in T <=> T = R \cup {c})
  OBVIOUS
<1>. DEFINE r == Cardinality(R)
<1>5. R # R \cup {c}  OBVIOUS
<1>6. Cardinality(S) = (IF c \in S THEN r + 1 ELSE r)  BY <1>2, <1>3
<1>7. Cardinality(T) = (IF c \in T THEN r + 1 ELSE r)  BY <1>2, <1>4
<1>8. r \in Nat  BY <1>1
<1>. HIDE DEF r
<1>. QED  BY <1>6, <1>7, <1>8

\* A step that counts what client c gains and loses keeps the counts right.
LEMMA RefsMove ==
    ASSUME Inv, NEW c \in Clients,
           \A l \in Lines : \A o \in Offsets : header'[l][o].ref_count \in Nat,
           \A d \in Clients \ {c} : \A l \in Lines : \A o \in Offsets :
               d \in Refs(l, o)' <=> d \in Refs(l, o),
           \A l \in Lines : \A o \in Offsets :
               header'[l][o].ref_count + (IF c \in Refs(l, o) THEN 1 ELSE 0)
                 = header[l][o].ref_count + (IF c \in Refs(l, o)' THEN 1 ELSE 0),
           \A l \in Lines : \A o \in Offsets : header'[l][o].exist \/ Refs(l, o)' = {}
    PROVE  RefsCounted'
<1>1. ASSUME NEW l \in Lines, NEW o \in Offsets
      PROVE  header'[l][o].ref_count = Cardinality(Refs(l, o)')
  <2>. DEFINE S == Refs(l, o)
              T == Refs(l, o)'
  <2>1. S \in SUBSET Clients /\ T \in SUBSET Clients  BY DEF Refs
  <2>2. header[l][o].ref_count = Cardinality(S)  BY DEF Inv, RefsCounted
  <2>3. \A d \in Clients \ {c} : d \in S <=> d \in T  OBVIOUS
  <2>4. header'[l][o].ref_count + (IF c \in S THEN 1 ELSE 0)
                 = header[l][o].ref_count + (IF c \in T THEN 1 ELSE 0)  OBVIOUS
  <2>5. header'[l][o].ref_count \in Nat  OBVIOUS
  <2>. HIDE DEF S, T
  <2>. QED  BY <2>1, <2>2, <2>3, <2>4, <2>5, OneClient DEF T
<1>. QED  BY <1>1 DEF RefsCounted, Refs, Ref, Holders

\* A step that moves no reference keeps the counts right.
LEMMA RefsStay ==
    ASSUME Inv,
           \A d \in Clients : \A l \in Lines : \A o \in Offsets :
               d \in Refs(l, o)' <=> d \in Refs(l, o),
           \A l \in Lines : \A o \in Offsets :
               /\ \/ header'[l][o].ref_count = header[l][o].ref_count
                  \/ Refs(l, o) = {} /\ header'[l][o].ref_count = 0
               /\ header'[l][o].exist = header[l][o].exist \/ Refs(l, o) = {}
    PROVE  RefsCounted'
<1>1. ASSUME NEW l \in Lines, NEW o \in Offsets PROVE Refs(l, o)' = Refs(l, o)
  BY DEF Refs
<1>2. ASSUME NEW l \in Lines, NEW o \in Offsets
      PROVE  /\ header'[l][o].ref_count = Cardinality(Refs(l, o)')
             /\ header'[l][o].exist \/ Refs(l, o)' = {}
  BY <1>1, RefsFinite, Refs(l, o) \in SUBSET Clients, Cardinality(Refs(l, o)) = 0 <=> Refs(l,
     o) = {} DEF Inv, RefsCounted, Refs
<1>. QED  BY <1>2 DEF RefsCounted

\* Counting changes one ref_count and nothing else.
LEMMA CountedFacts ==
    ASSUME Inv, NEW l \in Lines, NEW v \in Pages, NEW d \in Int,
           header[l][Offset(v)].ref_count + d \in Nat,
           header' = Counted(l, v, d)
    PROVE  /\ header' \in [Lines -> [Offsets -> Header]]
           /\ \A m \in Lines : \A q \in Offsets :
                /\ SameEntry(m, q)
                /\ header'[m][q].ref_count = IF m = l /\ q = Offset(v)
                                             THEN header[m][q].ref_count + d
                                             ELSE header[m][q].ref_count
                /\ ~ (m = l /\ q = Offset(v)) => header'[m][q] = header[m][q]
<1>1. Offset(v) \in Offsets  BY TagType
<1>2. header \in [Lines -> [Offsets -> Header]]  BY DEF Inv, TypeOK
<1>3. header[l][Offset(v)] \in Header  BY <1>1, <1>2
<1>4. header' = [header EXCEPT ![l] = [header[l] EXCEPT ![Offset(v)] =
                   [header[l][Offset(v)] EXCEPT !.ref_count = header[l][Offset(v)].ref_count + d]]]
  BY DEF Counted
<1>. DEFINE e == [header[l][Offset(v)] EXCEPT !.ref_count = header[l][Offset(v)].ref_count + d]
<1>5. /\ e \in Header /\ e.exist = header[l][Offset(v)].exist /\ e.busy = header[l][Offset(v)].busy
      /\ e.ppage_id = header[l][Offset(v)].ppage_id
      /\ e.ref_count = header[l][Offset(v)].ref_count + d
  BY <1>3 DEF Header
<1>6. header' = [header EXCEPT ![l] = [header[l] EXCEPT ![Offset(v)] = e]]
  BY <1>4
<1>. HIDE DEF e
<1>7. header' \in [Lines -> [Offsets -> Header]]  BY <1>1, <1>2, <1>5, <1>6
<1>8. ASSUME NEW m \in Lines, NEW q \in Offsets
      PROVE  header'[m][q] = IF m = l /\ q = Offset(v) THEN e ELSE header[m][q]
  BY <1>1, <1>2, <1>6
<1>. QED  BY <1>5, <1>7, <1>8 DEF SameEntry

\* A step that changes only ref_counts preserves everything that is not about clients.
LEMMA QuietTable ==
    ASSUME Inv, line' = line, pool' = pool, allocated' = allocated,
           \A l \in Lines : \A o \in Offsets :
               SameEntry(l, o) /\ (~ InUse(l, o) => header'[l][o] = header[l][o]),
           \/ srv_pc' = srv_pc /\ job' = job
           \/ srv_pc \in {"loop", "init"} /\ srv_pc' \in {"loop", "init"}
    PROVE  /\ Structure' /\ Counts' /\ FramesDistinct' /\ FramesAllocated'
           /\ TagsStay /\ SolidStay
<1>1. ASSUME NEW l \in Lines, EmptyLine(l) PROVE EmptyLine(l)'
  BY <1>1, EmptyFacts DEF EmptyLine
<1>2. Structure'
  <2>1. \A l \in Lines : line[l].tag = None \/ Moving(l) => EmptyLine(l)'
    BY <1>1 DEF Inv, Structure, Untagged, MovingEmpty
  <2>. QED  BY <2>1, StructureKept
<1>3. \A l \in Lines : \A o \in Offsets : InUse(l, o)' <=> InUse(l, o)
  BY DEF InUse, SameEntry
<1>4. Counts'
  <2>1. \A l \in Lines : {o \in Offsets : InUse(l, o)}' = {o \in Offsets : InUse(l, o)}
    BY <1>3
  <2>. QED  BY <2>1 DEF Counts, Inv
<1>5. FramesDistinct' /\ FramesAllocated'
  BY DEF FramesDistinct, FramesAllocated, Inv, SameEntry
<1>6. TagsStay /\ SolidStay
  BY DEF TagsStay, SolidStay
<1>. QED  BY <1>2, <1>4, <1>5, <1>6

\* A step of one client that changes nothing but a ref_count preserves the invariant,
\* when it counts what it gains and loses.
LEMMA CallStep ==
    ASSUME Inv, NEW c \in Clients, TypeOK',
           line' = line, pool' = pool, allocated' = allocated,
           \A l \in Lines : \A o \in Offsets :
               SameEntry(l, o) /\ (~ InUse(l, o) => header'[l][o] = header[l][o]),
           \/ srv_pc' = srv_pc /\ job' = job
           \/ srv_pc \in {"loop", "init"} /\ srv_pc' \in {"loop", "init"},
           ctx' = ctx, ctx[c].phase = "End", JobOK',
           \A d \in Clients \ {c} : SameClient(d),
           Control(c)', Access(c)',
           \A l \in Lines : \A o \in Offsets :
               /\ header'[l][o].ref_count + (IF c \in Refs(l, o) THEN 1 ELSE 0)
                    = header[l][o].ref_count + (IF c \in Refs(l, o)' THEN 1 ELSE 0)
               /\ c \in Refs(l, o)' => header[l][o].exist,
           \A u \in evictable' : u \in evictable \/
               \E l \in Lines : line[l].tag = Tag(u) /\ header[l][Offset(u)].exist
    PROVE  Inv'
<1>1. /\ Structure' /\ Counts' /\ FramesDistinct' /\ FramesAllocated'
      /\ TagsStay /\ SolidStay
  BY QuietTable
<1>2. TagsUnique'  BY <1>1 DEF Structure
<1>3. ASSUME NEW d \in Clients
      PROVE  /\ ctx[d].phase # "End" => SameEntry(ctx[d].hint, Offset(page[d]))
             /\ ctx[d].phase = "Evicting" => SameEntry(ctx[d].pre_hint, Offset(ctx[d].victim))
  <2>1. /\ Loading(d) /\ Evicting(d) /\ Control(d)
        /\ ctx[d].hint \in Lines \cup {None} /\ ctx[d].pre_hint \in Lines \cup {None}
        /\ ctx[d].victim \in Pages \cup {None} /\ page[d] \in Pages \cup {None}
    BY DEF Inv, TypeOK
  <2>. QED  BY <2>1, TagType DEF Loading, Evicting, Control
<1>4. ASSUME NEW d \in Clients \ {c}
      PROVE  /\ Control(d)' /\ Access(d)' /\ Loading(d)' /\ Evicting(d)' /\ Ended(d)'
             /\ \A l \in Lines : \A o \in Offsets : d \in Refs(l, o)' <=> d \in Refs(l, o)
  BY <1>1, <1>2, <1>3, OthersKept
<1>5. ctx[c].phase = "End" /\ ctx[c].hint = None
  BY DEF Inv, Ended
<1>6. Loading(c)' /\ Evicting(c)' /\ Ended(c)'
  BY <1>5 DEF Loading, Evicting, Ended
<1>7. RefsCounted'
  <2>1. ASSUME NEW l \in Lines, NEW o \in Offsets PROVE header'[l][o].exist \/ Refs(l, o)' = {}
    <3>1. SUFFICES ASSUME ~ header[l][o].exist PROVE Refs(l, o)' = {}
      BY DEF SameEntry
    <3>2. Refs(l, o) = {}  BY <3>1 DEF Inv, RefsCounted
    <3>3. c \notin Refs(l, o)'  BY <3>1
    <3>4. \A d \in Clients \ {c} : d \notin Refs(l, o)'  BY <1>4, <3>2
    <3>5. Refs(l, o)' \subseteq Clients  BY DEF Refs
    <3>. QED  BY <3>3, <3>4, <3>5
  <2>2. \A l \in Lines : \A o \in Offsets : header'[l][o].ref_count \in Nat
    BY DEF TypeOK, Header
  <2>. QED  BY <1>4, <2>1, <2>2, RefsMove
<1>8. ContextsDistinct'
  BY <1>5 DEF ContextsDistinct, Inv, SameClient
<1>10. EvictableMapped'
  <2>1. evictable' \subseteq Pages  BY DEF TypeOK
  <2>2. ASSUME NEW u \in evictable'
        PROVE  \E l \in Lines : line'[l].tag = Tag(u) /\ header'[l][Offset(u)].exist
    <3>1. PICK l \in Lines : line[l].tag = Tag(u) /\ header[l][Offset(u)].exist
      BY DEF Inv, EvictableMapped
    <3>2. Offset(u) \in Offsets  BY <2>1, TagType
    <3>. QED  BY <3>1, <3>2 DEF SameEntry
  <2>. QED  BY <2>2 DEF EvictableMapped
<1>. QED  BY <1>1, <1>4, <1>6, <1>7, <1>8, <1>10 DEF Inv

\* The same, of a client that the server is not serving.
LEMMA ClientStep ==
    ASSUME Inv, NEW c \in Clients, TypeOK',
           line' = line, pool' = pool, allocated' = allocated,
           \A l \in Lines : \A o \in Offsets :
               SameEntry(l, o) /\ (~ InUse(l, o) => header'[l][o] = header[l][o]),
           srv_pc' = srv_pc, job' = job, ctx' = ctx, pc[c] # "wait",
           \A d \in Clients \ {c} : SameClient(d),
           Control(c)', Access(c)',
           \A l \in Lines : \A o \in Offsets :
               /\ header'[l][o].ref_count + (IF c \in Refs(l, o) THEN 1 ELSE 0)
                    = header[l][o].ref_count + (IF c \in Refs(l, o)' THEN 1 ELSE 0)
               /\ c \in Refs(l, o)' => header[l][o].exist,
           \A u \in evictable' : u \in evictable \/
               \E l \in Lines : line[l].tag = Tag(u) /\ header[l][Offset(u)].exist
    PROVE  Inv'
<1>1. ctx[c].phase = "End"  BY DEF Inv, Loading
<1>2. JobOK'
  <2>1. ASSUME srv_pc \in {"link", "init"}
        PROVE  /\ job.client \in Clients \ {c} /\ job.line \in Lines
               /\ page[job.client] \in Pages
    BY <2>1 DEF Inv, JobOK, TypeOK, Control
  <2>2. ASSUME srv_pc \in {"link", "init"}
        PROVE  SameClient(job.client) /\ SameEntry(job.line, Offset(page[job.client]))
    BY <2>1, <2>2, TagType
  <2>. QED  BY <2>1, <2>2 DEF JobOK, Inv, SameClient, SameEntry
<1>. QED  BY <1>1, <1>2, CallStep

-----------------------------------------------------------------------------
(* The steps of the clients *)

\* Unchanged headers are the same entries.
LEMMA SameHeader ==
    ASSUME header' = header
    PROVE  \A l \in Lines : \A o \in Offsets :
               /\ SameEntry(l, o) /\ header'[l][o] = header[l][o]
  BY DEF SameEntry

\* A client that does not wait has no request in progress.
LEMMA NoContextOf ==
    ASSUME Inv, NEW c \in Clients, pc[c] # "wait"
    PROVE  ctx[c].phase = "End" /\ ctx[c].hint = None
  BY DEF Inv, Loading, Ended

\* The first step of a walk preserves the invariant.
LEMMA StartWalkInv ==
    ASSUME Inv, NEW c \in Clients, NEW v \in Pages, NEW call \in {"pin", "unpin"},
           StartWalk(c, v, call),
           \/ call = "pin" /\ pc[c] = "idle"
           \/ call = "unpin" /\ pc[c] = "held" /\ page[c] = v
    PROVE  Inv'
<1>1. get_bucket(Tag(v)) \in Lines  BY TagType, BucketType, LinesType
<1>2. TypeOK'  BY <1>1 DEF Inv, TypeOK, StartWalk, table, policy, server
<1>3. /\ line' = line /\ header' = header /\ pool' = pool /\ allocated' = allocated
      /\ srv_pc' = srv_pc /\ job' = job /\ ctx' = ctx /\ evictable' = evictable
      /\ frame' = frame /\ pc[c] # "wait"
      /\ pc'[c] = "tag" /\ op'[c] = call /\ page'[c] = v /\ at'[c] = get_bucket(Tag(v))
      /\ \A d \in Clients \ {c} : SameClient(d)
  BY DEF StartWalk, table, policy, server, Inv, TypeOK, SameClient
<1>4. Control(c)'
  BY <1>1, <1>3, LinesType DEF Control
<1>5. op[c] = "pin"  BY DEF Inv, Control, TypeOK
<1>6. c \in Holders' <=> call = "unpin"
  BY <1>3 DEF Holders
<1>7. c \in Holders <=> call = "unpin"
  BY <1>5 DEF Holders
<1>8. Access(c)'
  <2>1. call = "unpin" => page[c] = v  BY <1>3
  <2>2. Access(c)  BY DEF Inv
  <2>. QED  BY <1>3, <1>6, <1>7, <2>1, <2>2 DEF Access, Solid
<1>9. ctx[c].phase = "End"  BY <1>3, NoContextOf
<1>10. ASSUME NEW l \in Lines, NEW o \in Offsets
       PROVE  c \in Refs(l, o)' <=> c \in Refs(l, o)
  <2>1. call = "unpin" => page[c] = v  BY <1>3
  <2>. QED  BY <1>3, <1>6, <1>7, <1>9, <2>1 DEF Refs, Ref
<1>11. ASSUME NEW l \in Lines, NEW o \in Offsets
       PROVE  /\ header'[l][o].ref_count + (IF c \in Refs(l, o) THEN 1 ELSE 0)
                   = header[l][o].ref_count + (IF c \in Refs(l, o)' THEN 1 ELSE 0)
              /\ c \in Refs(l, o)' => header[l][o].exist
  BY <1>3, <1>10 DEF Inv, RefsCounted
<1>. QED  BY <1>2, <1>3, <1>4, <1>8, <1>11, SameHeader, ClientStep

\* So does a call of pin ...
LEMMA PinCallInv ==
    ASSUME Inv, NEW c \in Clients, NEW v \in Pages, PinCall(c, v)
    PROVE  Inv'
  BY StartWalkInv DEF PinCall

\* ... and one of unpin.
LEMMA UnpinCallInv ==
    ASSUME Inv, NEW c \in Clients, UnpinCall(c)
    PROVE  Inv'
<1>1. page[c] \in Pages  BY DEF Inv, Control, TypeOK, UnpinCall
<1>. QED  BY <1>1, StartWalkInv DEF UnpinCall

\* So does any step along a chain that stops only at the line of the page.
LEMMA WalkStepInv ==
    ASSUME Inv, NEW c \in Clients, pc[c] \in {"tag", "next"},
           UNCHANGED <<table, policy, server, op, page, first, frame>>,
           \A d \in Clients \ {c} : pc'[d] = pc[d] /\ at'[d] = at[d],
           pc' \in [Clients -> {"tag", "next", "found", "wait", "idle", "held", "check"}],
           at' \in [Clients -> Lines \cup {None}],
           pc'[c] \in {"tag", "next", "found", "wait"},
           pc'[c] = "found" => line[at'[c]].tag = Tag(page[c]),
           pc'[c] = "wait" => op[c] = "pin",
           pc'[c] # "wait" => at'[c] # None
    PROVE  Inv'
<1>1. TypeOK'  BY DEF Inv, TypeOK, table, policy, server
<1>2. /\ line' = line /\ header' = header /\ pool' = pool /\ allocated' = allocated
      /\ srv_pc' = srv_pc /\ job' = job /\ ctx' = ctx /\ evictable' = evictable
      /\ pc[c] # "wait" /\ op' = op /\ page' = page /\ frame' = frame
      /\ \A d \in Clients \ {c} : SameClient(d)
  BY DEF table, policy, server, SameClient
<1>3. Control(c)'
  BY <1>2 DEF Control, Inv, TypeOK
<1>4. c \in Holders' <=> c \in Holders
  BY <1>2 DEF Holders
<1>5. Access(c)'
  BY <1>2, <1>4 DEF Access, Inv, Solid
<1>6. ctx[c].phase = "End"  BY <1>2, NoContextOf
<1>7. ASSUME NEW l \in Lines, NEW o \in Offsets
      PROVE  c \in Refs(l, o)' <=> c \in Refs(l, o)
  BY <1>2, <1>4, <1>6 DEF Refs, Ref
<1>8. ASSUME NEW l \in Lines, NEW o \in Offsets
      PROVE  /\ header'[l][o].ref_count + (IF c \in Refs(l, o) THEN 1 ELSE 0)
                  = header[l][o].ref_count + (IF c \in Refs(l, o)' THEN 1 ELSE 0)
             /\ c \in Refs(l, o)' => header[l][o].exist
  BY <1>2, <1>7 DEF Inv, RefsCounted
<1>. QED  BY <1>1, <1>2, <1>3, <1>5, <1>8, SameHeader, ClientStep

\* The walk reads a tag.
LEMMA ReadTagInv ==
    ASSUME Inv, NEW c \in Clients, ReadTag(c)
    PROVE  Inv'
<1>1. at[c] # None  BY DEF Inv, Control, ReadTag
<1>2. /\ pc' \in [Clients -> {"tag", "next", "found", "wait", "idle", "held", "check"}]
      /\ at' \in [Clients -> Lines \cup {None}]
      /\ at' = at /\ pc'[c] \in {"next", "found"}
      /\ pc'[c] = "found" => line[at[c]].tag = Tag(page[c])
      /\ \A d \in Clients \ {c} : pc'[d] = pc[d]
  BY DEF ReadTag, Inv, TypeOK
<1>. QED  BY <1>1, <1>2, WalkStepInv DEF ReadTag

\* The walk reads a next, possibly of a line that was freed or has become another page's.
\* A holder's walk does not miss its line: see WalksGetShorter.
LEMMA ReadNextInv ==
    ASSUME Inv, NEW c \in Clients, ReadNext(c)
    PROVE  Inv'
<1>1. at[c] \in Lines /\ page[c] \in Pages
  BY DEF Inv, Control, TypeOK, ReadNext
<1>2. line[at[c]].next \in Lines \cup {None} /\ get_bucket(Tag(page[c])) \in Lines
  BY <1>1, TagType, BucketType, LinesType DEF Inv, TypeOK
<1>3. /\ pc' \in [Clients -> {"tag", "next", "found", "wait", "idle", "held", "check"}]
      /\ at' \in [Clients -> Lines \cup {None}]
      /\ \A d \in Clients \ {c} : pc'[d] = pc[d] /\ at'[d] = at[d]
      /\ pc'[c] \in {"tag", "wait"}
      /\ pc'[c] = "wait" => op[c] = "pin"
      /\ pc'[c] # "wait" => at'[c] # None
  <2>0. pc \in [Clients -> {"tag", "next", "found", "wait", "idle", "held", "check"}]
        /\ at \in [Clients -> Lines \cup {None}] /\ op[c] \in {"pin", "unpin"}
    BY DEF Inv, TypeOK
  <2>1. CASE line[at[c]].next # None
    <3>1. at' = [at EXCEPT ![c] = line[at[c]].next] /\ pc' = [pc EXCEPT ![c] = "tag"]
      BY <2>1 DEF ReadNext
    <3>. QED  BY <2>0, <2>1, <3>1, <1>2
  <2>2. CASE line[at[c]].next = None /\ op[c] = "pin"
    <3>1. at' = [at EXCEPT ![c] = None] /\ pc' = [pc EXCEPT ![c] = "wait"]
      BY <2>2 DEF ReadNext, AtEnd
    <3>. QED  BY <2>0, <2>2, <3>1
  <2>3. CASE line[at[c]].next = None /\ op[c] # "pin"
    <3>1. at' = [at EXCEPT ![c] = get_bucket(Tag(page[c]))] /\ pc' = [pc EXCEPT ![c] = "tag"]
      BY <2>3 DEF ReadNext, AtEnd
    <3>. QED  BY <2>0, <2>3, <3>1, <1>2, LinesType
  <2>. QED  BY <2>1, <2>2, <2>3
<1>. QED  BY <1>1, <1>2, <1>3, WalkStepInv DEF ReadNext

\* inc_ref_count on the line the walk found, whatever page it belongs to by now.
LEMMA IncInv ==
    ASSUME Inv, NEW c \in Clients, Inc(c)
    PROVE  Inv'
<1>. DEFINE l0 == at[c]
            o0 == Offset(page[c])
<1>1. /\ l0 \in Lines /\ page[c] \in Pages /\ o0 \in Offsets /\ op[c] = "pin" /\ pc[c] = "found"
      /\ ctx[c].phase = "End"
  BY TagType, NoContextOf DEF Inv, Control, TypeOK, Inc
<1>2. \A l \in Lines, o \in Offsets : c \notin Refs(l, o)
  BY <1>1 DEF Refs, Ref, Holders
<1>3. /\ line' = line /\ pool' = pool /\ allocated' = allocated /\ evictable' = evictable
      /\ srv_pc' = srv_pc /\ job' = job /\ ctx' = ctx /\ op' = op /\ page' = page
      /\ frame' = frame /\ pinned_size' = pinned_size
  BY DEF Inc, policy, server
<1>4. header[l0][o0] \in Header  BY <1>1 DEF Inv, TypeOK
<1>5. CASE Pinnable(header[l0][o0])
  <2>1. /\ header' = Counted(l0, page[c], 1)
        /\ first' = [first EXCEPT ![c] = header[l0][o0].ref_count = 0]
        /\ pc' = [pc EXCEPT ![c] = "check"] /\ at' = at
    BY <1>5 DEF Inc
  <2>2. header[l0][o0].ref_count + 1 \in Nat  BY <1>4 DEF Header
  <2>3. /\ header' \in [Lines -> [Offsets -> Header]]
        /\ \A m \in Lines : \A q \in Offsets :
             /\ SameEntry(m, q)
             /\ header'[m][q].ref_count = IF m = l0 /\ q = o0
                                          THEN header[m][q].ref_count + 1
                                          ELSE header[m][q].ref_count
             /\ ~ (m = l0 /\ q = o0) => header'[m][q] = header[m][q]
    BY <1>1, <2>1, <2>2, CountedFacts, 1 \in Int
  <2>4. (header[l0][o0].ref_count = 0) \in BOOLEAN  OBVIOUS
  <2>5. TypeOK'  BY <1>3, <2>1, <2>3, <2>4 DEF Inv, TypeOK
  <2>6. Solid(l0, o0) /\ InUse(l0, o0)  BY <1>5 DEF Pinnable, Solid, InUse
  <2>7. \A m \in Lines : \A q \in Offsets :
             SameEntry(m, q) /\ (~ InUse(m, q) => header'[m][q] = header[m][q])
    BY <2>3, <2>6
  <2>8. pc'[c] = "check" /\ \A d \in Clients \ {c} : SameClient(d)
    BY <1>3, <2>1 DEF SameClient, Inv, TypeOK
  <2>9. Control(c)'  BY <1>1, <1>3, <2>1, <2>8, LinesType DEF Control
  <2>10. c \notin Holders'  BY <1>1, <1>3, <2>8 DEF Holders
  <2>11. Access(c)'
    <3>1. Solid(l0, o0)'  BY <1>1, <1>3, <2>1, <2>3, <2>6 DEF Solid, SameEntry
    <3>. QED  BY <1>1, <1>3, <2>8, <2>10, <3>1 DEF Access
  <2>12. ASSUME NEW l \in Lines, NEW o \in Offsets
         PROVE  c \in Refs(l, o)' <=> l = l0 /\ o = o0
    BY <1>1, <1>3, <2>1, <2>8, <2>10 DEF Refs, Ref
  <2>13. ASSUME NEW l \in Lines, NEW o \in Offsets
         PROVE  /\ header'[l][o].ref_count + (IF c \in Refs(l, o) THEN 1 ELSE 0)
                     = header[l][o].ref_count + (IF c \in Refs(l, o)' THEN 1 ELSE 0)
                /\ c \in Refs(l, o)' => header[l][o].exist
    <3>1. header[l][o].ref_count \in Nat  BY DEF Inv, TypeOK, Header
    <3>. QED  BY <3>1, <1>2, <2>3, <2>6, <2>12 DEF Solid
  <2>. QED  BY <1>1, <1>3, <2>5, <2>7, <2>8, <2>9, <2>11, <2>13, ClientStep
<1>6. CASE ~ Pinnable(header[l0][o0])
  <2>1. /\ header' = header /\ first' = first
        /\ pc' = [pc EXCEPT ![c] = "wait"] /\ at' = [at EXCEPT ![c] = None]
    BY <1>6 DEF Inc
  <2>2. TypeOK'  BY <1>3, <2>1 DEF Inv, TypeOK
  <2>3. pc'[c] = "wait" /\ \A d \in Clients \ {c} : SameClient(d)
    BY <1>3, <2>1 DEF SameClient, Inv, TypeOK
  <2>4. Control(c)' /\ c \notin Holders' /\ Access(c)'
    BY <1>1, <1>3, <2>3 DEF Control, Access, Holders
  <2>5. ASSUME NEW l \in Lines, NEW o \in Offsets
         PROVE  c \notin Refs(l, o)'
    BY <1>1, <1>3, <2>3, <2>4 DEF Refs, Ref
  <2>6. ASSUME NEW l \in Lines, NEW o \in Offsets
         PROVE  /\ header'[l][o].ref_count + (IF c \in Refs(l, o) THEN 1 ELSE 0)
                     = header[l][o].ref_count + (IF c \in Refs(l, o)' THEN 1 ELSE 0)
                /\ c \in Refs(l, o)' => header[l][o].exist
    BY <2>1, <2>5, <1>2
  <2>. QED  BY <1>1, <1>3, <2>1, <2>2, <2>3, <2>4, <2>6, SameHeader, ClientStep
<1>. QED  BY <1>5, <1>6

\* An entry with a reference is mapped and counts it.
LEMMA CountPositive ==
    ASSUME Inv, NEW l \in Lines, NEW o \in Offsets, NEW c \in Refs(l, o)
    PROVE  /\ header[l][o].exist /\ header[l][o].ref_count \in Nat \ {0}
           /\ InUse(l, o)
<1>1. header[l][o].exist /\ header[l][o].ref_count = Cardinality(Refs(l, o))
  BY DEF Inv, RefsCounted
<1>2. Refs(l, o) \in SUBSET Clients  BY DEF Refs
<1>. QED  BY <1>1, <1>2, RefsFinite DEF InUse

\* The line still has the page's tag: the pin is good.
LEMMA CheckInv ==
    ASSUME Inv, NEW c \in Clients, Check(c)
    PROVE  Inv'
<1>. DEFINE l0 == at[c]
            o0 == Offset(page[c])
<1>1. /\ l0 \in Lines /\ page[c] \in Pages /\ o0 \in Offsets /\ op[c] = "pin" /\ pc[c] = "check"
      /\ ctx[c].phase = "End" /\ line[l0].tag = Tag(page[c]) /\ Solid(l0, o0)
      /\ Tag(page[c]) # None
  <2>1. pc[c] = "check" /\ line[l0].tag = Tag(page[c])  BY DEF Check, SameLine
  <2>2. Control(c) /\ Access(c) /\ op[c] \in {"pin", "unpin"} /\ page[c] \in Pages \cup {None}
        /\ l0 \in Lines \cup {None}
    BY DEF Inv, TypeOK
  <2>3. l0 \in Lines /\ page[c] \in Pages /\ op[c] = "pin" /\ Solid(l0, o0)
    BY <2>1, <2>2 DEF Control, Access
  <2>. QED  BY <2>1, <2>3, TagType, NoContextOf
<1>2. /\ line' = line /\ pool' = pool /\ allocated' = allocated /\ header' = header
      /\ srv_pc' = srv_pc /\ job' = job /\ ctx' = ctx /\ op' = op /\ page' = page
      /\ pc' = [pc EXCEPT ![c] = "held"] /\ at' = [at EXCEPT ![c] = None]
      /\ first' = [first EXCEPT ![c] = FALSE]
      /\ frame' = [frame EXCEPT ![c] = header[l0][o0].ppage_id]
      /\ evictable' \subseteq evictable
  BY DEF Check, Holds, table, server
<1>3. header[l0][o0] \in Header  BY <1>1 DEF Inv, TypeOK
<1>4. header[l0][o0].ppage_id \in 1 .. NumFrames \cup {None}  BY <1>3 DEF Header
<1>5. TypeOK'  BY <1>2, <1>4 DEF Inv, TypeOK
<1>6. /\ pc'[c] = "held" /\ frame'[c] = header[l0][o0].ppage_id
      /\ \A d \in Clients \ {c} : SameClient(d)
  BY <1>2 DEF SameClient, Inv, TypeOK
<1>7. Control(c)' /\ c \in Holders'  BY <1>1, <1>2, <1>6 DEF Control, Holders
<1>8. Access(c)'
  BY <1>1, <1>2, <1>6 DEF Access, Solid
<1>9. c \notin Holders  BY <1>1 DEF Holders
<1>10. ASSUME NEW l \in Lines, NEW o \in Offsets
       PROVE  c \in Refs(l, o)' <=> c \in Refs(l, o)
  <2>1. line[l].tag = Tag(page[c]) <=> l = l0
    BY <1>1 DEF Inv, Structure, TagsUnique
  <2>2. Ref(c, l)' <=> l = l0
    BY <1>1, <1>2, <1>6, <1>7, <2>1 DEF Ref
  <2>3. Ref(c, l) <=> l = l0
    BY <1>1, <1>9 DEF Ref
  <2>. QED  BY <1>2, <2>2, <2>3 DEF Refs
<1>11. ASSUME NEW l \in Lines, NEW o \in Offsets
       PROVE  /\ header'[l][o].ref_count + (IF c \in Refs(l, o) THEN 1 ELSE 0)
                   = header[l][o].ref_count + (IF c \in Refs(l, o)' THEN 1 ELSE 0)
              /\ c \in Refs(l, o)' => header[l][o].exist
  BY <1>2, <1>10 DEF Inv, RefsCounted
<1>. QED  BY <1>1, <1>2, <1>5, <1>6, <1>7, <1>8, <1>11, SameHeader, ClientStep

\* Giving up a reference preserves the invariant.
LEMMA UncountInv ==
    ASSUME Inv, NEW c \in Clients, pc[c] \in {"found", "check"}, page[c] \in Pages, at[c] \in Lines,
           \A l \in Lines : \A o \in Offsets :
               c \in Refs(l, o) <=> l = at[c] /\ o = Offset(page[c]),
           header' = Counted(at[c], page[c], -1),
           line' = line, pool' = pool, allocated' = allocated,
           srv_pc' = srv_pc, job' = job, ctx' = ctx,
           \A d \in Clients \ {c} : SameClient(d),
           \/ pc'[c] = "wait" /\ op'[c] = "pin" /\ page'[c] = page[c]
           \/ pc'[c] = "idle" /\ op'[c] = "pin" /\ page'[c] = None,
           evictable' \subseteq evictable \cup (IF line[at[c]].tag = Tag(page[c]) THEN {page[c]} ELSE {}),
           header' \in [Lines -> [Offsets -> Header]] => TypeOK'
    PROVE  Inv'
<1>. DEFINE l0 == at[c]
            o0 == Offset(page[c])
<1>1. o0 \in Offsets /\ ctx[c].phase = "End" /\ c \in Refs(l0, o0)
  BY TagType, NoContextOf
<1>2. header[l0][o0].exist /\ header[l0][o0].ref_count \in Nat \ {0} /\ InUse(l0, o0)
  BY <1>1, CountPositive
<1>3. header[l0][o0].ref_count + (-1) \in Nat  BY <1>2
<1>4. /\ header' \in [Lines -> [Offsets -> Header]]
      /\ \A m \in Lines : \A q \in Offsets :
           /\ SameEntry(m, q)
           /\ header'[m][q].ref_count = IF m = l0 /\ q = o0
                                        THEN header[m][q].ref_count + (-1)
                                        ELSE header[m][q].ref_count
           /\ ~ (m = l0 /\ q = o0) => header'[m][q] = header[m][q]
  BY <1>3, CountedFacts, -1 \in Int
<1>5. TypeOK'  BY <1>4
<1>6. \A m \in Lines : \A q \in Offsets :
             SameEntry(m, q) /\ (~ InUse(m, q) => header'[m][q] = header[m][q])
  BY <1>2, <1>4
<1>7. c \notin Holders' /\ Control(c)' /\ Access(c)'
  BY DEF Holders, Control, Access
<1>8. ASSUME NEW l \in Lines, NEW o \in Offsets PROVE c \notin Refs(l, o)'
  BY <1>1, <1>7 DEF Refs, Ref
<1>9. ASSUME NEW l \in Lines, NEW o \in Offsets
      PROVE  /\ header'[l][o].ref_count + (IF c \in Refs(l, o) THEN 1 ELSE 0)
                   = header[l][o].ref_count + (IF c \in Refs(l, o)' THEN 1 ELSE 0)
             /\ c \in Refs(l, o)' => header[l][o].exist
  <2>1. header[l][o].ref_count \in Nat  BY DEF Inv, TypeOK, Header
  <2>. QED  BY <2>1, <1>4, <1>8
<1>10. \A u \in evictable' : u \in evictable \/
               \E l \in Lines : line[l].tag = Tag(u) /\ header[l][Offset(u)].exist
  BY <1>2
<1>. QED  BY <1>5, <1>6, <1>7, <1>9, <1>10, ClientStep

\* The line has become another page's: the reference taken on it is given up.
LEMMA CheckFailsInv ==
    ASSUME Inv, NEW c \in Clients, CheckFails(c)
    PROVE  Inv'
<1>1. /\ at[c] \in Lines /\ page[c] \in Pages /\ op[c] = "pin" /\ pc[c] = "check"
      /\ ctx[c].phase = "End"
  BY NoContextOf DEF Inv, Control, TypeOK, CheckFails
<1>2. /\ line' = line /\ pool' = pool /\ allocated' = allocated /\ evictable' = evictable
      /\ srv_pc' = srv_pc /\ job' = job /\ ctx' = ctx /\ op' = op /\ page' = page
      /\ frame' = frame /\ header' = Counted(at[c], page[c], -1)
      /\ pc' = [pc EXCEPT ![c] = "wait"] /\ at' = [at EXCEPT ![c] = None]
      /\ first' = [first EXCEPT ![c] = FALSE]
  BY DEF CheckFails, policy, server
<1>3. ASSUME header' \in [Lines -> [Offsets -> Header]] PROVE TypeOK'
  BY <1>2, <1>3 DEF Inv, TypeOK
<1>4. /\ pc'[c] = "wait" /\ op'[c] = "pin" /\ page'[c] = page[c]
      /\ \A d \in Clients \ {c} : SameClient(d)
  BY <1>1, <1>2 DEF SameClient, Inv, TypeOK
<1>5. \A l \in Lines : \A o \in Offsets :
          c \in Refs(l, o) <=> l = at[c] /\ o = Offset(page[c])
  BY <1>1 DEF Refs, Ref, Holders
<1>. QED  BY <1>1, <1>2, <1>3, <1>4, <1>5, UncountInv

\* unpin gives up the reference.
LEMMA DecInv ==
    ASSUME Inv, NEW c \in Clients, Dec(c)
    PROVE  Inv'
<1>1. /\ at[c] \in Lines /\ page[c] \in Pages /\ op[c] = "unpin" /\ pc[c] = "found"
      /\ ctx[c].phase = "End" /\ line[at[c]].tag = Tag(page[c]) /\ Tag(page[c]) # None
  BY NoContextOf, TagType DEF Inv, Control, Access, TypeOK, Dec
<1>2. /\ line' = line /\ pool' = pool /\ allocated' = allocated
      /\ evictable' \subseteq evictable \cup {page[c]}
      /\ srv_pc' = srv_pc /\ job' = job /\ ctx' = ctx /\ first' = first
      /\ header' = Counted(at[c], page[c], -1)
      /\ pc' = [pc EXCEPT ![c] = "idle"] /\ at' = [at EXCEPT ![c] = None]
      /\ op' = [op EXCEPT ![c] = "pin"] /\ page' = [page EXCEPT ![c] = None]
      /\ frame' = [frame EXCEPT ![c] = None]
  BY DEF Dec, Return, server
<1>3. ASSUME header' \in [Lines -> [Offsets -> Header]] PROVE TypeOK'
  BY <1>1, <1>2, <1>3 DEF Inv, TypeOK
<1>4. /\ pc'[c] = "idle" /\ op'[c] = "pin" /\ page'[c] = None
      /\ \A d \in Clients \ {c} : SameClient(d)
  BY <1>1, <1>2 DEF SameClient, Inv, TypeOK
<1>5. ASSUME NEW l \in Lines, NEW o \in Offsets
      PROVE  c \in Refs(l, o) <=> l = at[c] /\ o = Offset(page[c])
  <2>1. line[l].tag = Tag(page[c]) <=> l = at[c]
    BY <1>1 DEF Inv, Structure, TagsUnique
  <2>2. c \in Holders  BY <1>1 DEF Holders
  <2>. QED  BY <1>1, <2>1, <2>2 DEF Refs, Ref
<1>. QED  BY <1>1, <1>2, <1>3, <1>4, <1>5, UncountInv

-----------------------------------------------------------------------------
(* The steps of the server that leave the chains alone *)

\* One more entry in use, one more in num_using.
LEMMA CountUp ==
    ASSUME Inv, NEW m \in Lines, NEW q \in Offsets, ~ InUse(m, q), InUse(m, q)',
           \A l \in Lines : \A o \in Offsets : ~ (l = m /\ o = q) => (InUse(l, o)' <=> InUse(l, o)),
           \A l \in Lines : line'[l].num_using = IF l = m THEN line[l].num_using + 1
                                                 ELSE line[l].num_using
    PROVE  Counts'
<1>. DEFINE U(l) == {o \in Offsets : InUse(l, o)}
<1>1. IsFiniteSet(Offsets)  BY FS_Interval, SizesAssumption, 0 \in Int, Pack - 1 \in Int DEF Offsets
<1>2. \A l \in Lines : line[l].num_using = Cardinality(U(l))  BY DEF Inv, Counts
<1>3. ASSUME NEW l \in Lines, l # m PROVE U(l)' = U(l)
  BY <1>3
<1>4. U(m)' = U(m) \cup {q} /\ q \notin U(m)  OBVIOUS
<1>5. IsFiniteSet(U(m))  BY <1>1, FS_Subset
<1>6. Cardinality(U(m) \cup {q}) = Cardinality(U(m)) + 1  BY <1>4, <1>5, FS_AddElement
<1>7. ASSUME NEW l \in Lines PROVE line'[l].num_using = Cardinality(U(l)')
  <2>. HIDE DEF U
  <2>. QED  BY <1>2, <1>3, <1>4, <1>6
<1>. QED  BY <1>7 DEF Counts

\* One entry less, one less in num_using.
LEMMA CountDown ==
    ASSUME Inv, NEW m \in Lines, NEW q \in Offsets, InUse(m, q), ~ InUse(m, q)',
           \A l \in Lines : \A o \in Offsets : ~ (l = m /\ o = q) => (InUse(l, o)' <=> InUse(l, o)),
           \A l \in Lines : line'[l].num_using = IF l = m THEN line[l].num_using - 1
                                                 ELSE line[l].num_using
    PROVE  Counts'
<1>. DEFINE U(l) == {o \in Offsets : InUse(l, o)}
<1>1. IsFiniteSet(Offsets)  BY FS_Interval, SizesAssumption, 0 \in Int, Pack - 1 \in Int DEF Offsets
<1>2. \A l \in Lines : line[l].num_using = Cardinality(U(l))  BY DEF Inv, Counts
<1>3. ASSUME NEW l \in Lines, l # m PROVE U(l)' = U(l)
  BY <1>3
<1>4. U(m)' = U(m) \ {q} /\ q \in U(m)  OBVIOUS
<1>5. IsFiniteSet(U(m))  BY <1>1, FS_Subset
<1>6. Cardinality(U(m) \ {q}) = Cardinality(U(m)) - 1  BY <1>4, <1>5, FS_RemoveElement
<1>7. ASSUME NEW l \in Lines PROVE line'[l].num_using = Cardinality(U(l)')
  <2>. HIDE DEF U
  <2>. QED  BY <1>2, <1>3, <1>4, <1>6
<1>. QED  BY <1>7 DEF Counts

\* When num_using is 1, an entry in use is the only one of its line.
LEMMA UsedAlone ==
    ASSUME Inv, NEW m \in Lines, NEW q \in Offsets, InUse(m, q)
    PROVE  /\ line[m].num_using \in Nat \ {0}
           /\ line[m].num_using = 1 => \A o \in Offsets : InUse(m, o) => o = q
<1>. DEFINE U == {o \in Offsets : InUse(m, o)}
<1>1. IsFiniteSet(Offsets)  BY FS_Interval, SizesAssumption, 0 \in Int, Pack - 1 \in Int DEF Offsets
<1>2. IsFiniteSet(U) /\ q \in U /\ line[m].num_using = Cardinality(U)
  BY <1>1, FS_Subset DEF Inv, Counts
<1>3. Cardinality(U) \in Nat /\ (Cardinality(U) = 0 <=> U = {})
  BY <1>2, FS_CardinalityType, FS_EmptySet
<1>4. ASSUME Cardinality(U) = 1 PROVE \A o \in U : o = q
  <2>1. PICK x : U = {x}  BY <1>2, <1>4, FS_Singleton
  <2>. QED  BY <2>1, <1>2
<1>. QED  BY <1>2, <1>3, <1>4

\* A step of the server that only looks preserves the invariant.
LEMMA IdleStep ==
    ASSUME Inv, TypeOK', JobOK', line' = line, header' = header, pool' = pool, allocated' = allocated,
           evictable' \subseteq evictable, \A d \in Clients : SameClient(d),
           \/ srv_pc' = srv_pc /\ job' = job
           \/ srv_pc \in {"loop", "init"} /\ srv_pc' \in {"loop", "init"}
    PROVE  Inv'
<1>1. \A l \in Lines : \A o \in Offsets : SameEntry(l, o) /\ header'[l][o] = header[l][o]
  BY SameHeader
<1>2. /\ Structure' /\ Counts' /\ FramesDistinct' /\ FramesAllocated' /\ TagsStay /\ SolidStay
  BY <1>1, QuietTable
<1>3. TagsUnique'  BY <1>2 DEF Structure
<1>4. ASSUME NEW d \in Clients
      PROVE  /\ Control(d)' /\ Access(d)' /\ Loading(d)' /\ Evicting(d)' /\ Ended(d)'
             /\ \A l \in Lines : \A o \in Offsets : d \in Refs(l, o)' <=> d \in Refs(l, o)
  <2>1. /\ SameEntry(ctx[d].hint, Offset(page[d]))
        /\ SameEntry(ctx[d].pre_hint, Offset(ctx[d].victim))
    BY DEF SameEntry
  <2>. QED  BY <2>1, <1>2, <1>3, OthersKept
<1>5. RefsCounted'
  <2>1. \A d \in Clients : \A l \in Lines : \A o \in Offsets :
            d \in Refs(l, o)' <=> d \in Refs(l, o)
    BY <1>4
  <2>2. \A l \in Lines : \A o \in Offsets :
            /\ \/ header'[l][o].ref_count = header[l][o].ref_count
               \/ Refs(l, o) = {} /\ header'[l][o].ref_count = 0
            /\ header'[l][o].exist = header[l][o].exist \/ Refs(l, o) = {}
    OBVIOUS
  <2>. QED  BY ONLY Inv, <2>1, <2>2, RefsStay
<1>6. ContextsDistinct'  BY DEF ContextsDistinct, Inv, SameClient
<1>7. EvictableMapped'  BY DEF EvictableMapped, Inv
<1>. QED  BY <1>2, <1>4, <1>5, <1>6, <1>7 DEF Inv

\* A client the server may serve.
LEMMA WaitsFacts ==
    ASSUME Inv, NEW c \in Clients, Waits(c)
    PROVE  /\ page[c] \in Pages /\ pc[c] = "wait" /\ op[c] = "pin" /\ ctx[c].phase = "End"
           /\ Offset(page[c]) \in Offsets /\ Tag(page[c]) \in Nat /\ Tag(page[c]) # None
           /\ get_bucket(Tag(page[c])) \in Buckets /\ get_bucket(Tag(page[c])) \in Lines
           /\ c # None
<1>1. page[c] \in Pages /\ pc[c] = "wait" /\ op[c] = "pin" /\ ctx[c].phase = "End"
  BY DEF Waits, Inv, Control, TypeOK
<1>. QED  BY <1>1, TagType, BucketType, LinesType, NoneAssumption

\* The server finds the line of the page.
LEMMA ServeFindInv ==
    ASSUME Inv, NEW c \in Clients, ServeFind(c)
    PROVE  Inv'
<1>. DEFINE l == LineOf(Tag(page[c]))
<1>1. /\ page[c] \in Pages /\ pc[c] = "wait" /\ op[c] = "pin" /\ ctx[c].phase = "End" /\ c # None
  BY WaitsFacts DEF ServeFind
<1>2. /\ l \in Lines /\ line[l].tag = Tag(page[c]) /\ ~ header[l][Offset(page[c])].busy /\ l # None
  BY <1>1, LineOfHas, LinesType DEF ServeFind
<1>3. /\ line' = line /\ header' = header /\ pool' = pool /\ allocated' = allocated
      /\ evictable' = evictable /\ pinned_size' = pinned_size /\ ctx' = ctx /\ pc' = pc /\ op' = op
      /\ page' = page /\ at' = at /\ first' = first /\ frame' = frame
      /\ srv_pc = "loop" /\ srv_pc' = "init"
      /\ job' = [client |-> c, line |-> l, pre |-> None]
  BY DEF ServeFind, table, policy, client
<1>. HIDE DEF l
<1>4. TypeOK'  BY <1>2, <1>3 DEF Inv, TypeOK
<1>5. JobOK'   BY <1>1, <1>2, <1>3 DEF JobOK
<1>6. \A d \in Clients : SameClient(d)  BY <1>3 DEF SameClient
<1>. QED  BY <1>3, <1>4, <1>5, <1>6, IdleStep

\* The request is refused at the limit of pinned pages, or the entry is locked.
LEMMA InitRefusedInv ==
    ASSUME Inv, InitRefused
    PROVE  Inv'
<1>1. /\ line' = line /\ header' = header /\ pool' = pool /\ allocated' = allocated
      /\ evictable' = evictable /\ pinned_size' = pinned_size /\ ctx' = ctx /\ pc' = pc /\ op' = op
      /\ page' = page /\ at' = at /\ first' = first /\ frame' = frame
      /\ srv_pc = "init" /\ srv_pc' = "loop" /\ job' = NoJob
  BY DEF InitRefused, table, policy, client
<1>2. TypeOK' /\ JobOK'  BY <1>1 DEF Inv, TypeOK, NoJob, JobOK
<1>3. \A d \in Clients : SameClient(d)  BY <1>1 DEF SameClient
<1>. QED  BY <1>1, <1>2, <1>3, IdleStep

\* The victim has a reference: the server tries again.
LEMMA InitEvictFailsInv ==
    ASSUME Inv, NEW u \in Pages, InitEvictFails(u)
    PROVE  Inv'
<1>1. /\ line' = line /\ header' = header /\ pool' = pool /\ allocated' = allocated
      /\ evictable' \subseteq evictable /\ pinned_size' = pinned_size /\ ctx' = ctx /\ pc' = pc /\ op' = op
      /\ page' = page /\ at' = at /\ first' = first /\ frame' = frame
      /\ srv_pc' = srv_pc /\ job' = job
  BY DEF InitEvictFails, table, server, client
<1>2. TypeOK' /\ JobOK'  BY <1>1 DEF Inv, TypeOK, JobOK
<1>3. \A d \in Clients : SameClient(d)  BY <1>1 DEF SameClient
<1>. QED  BY <1>1, <1>2, <1>3, IdleStep

\* The server's job when it has the line.
LEMMA JobFacts ==
    ASSUME Inv, srv_pc = "init"
    PROVE  /\ job.client \in Clients /\ job.line \in Lines /\ JobPage \in Pages
           /\ pc[job.client] = "wait" /\ op[job.client] = "pin" /\ ctx[job.client].phase = "End"
           /\ line[job.line].tag = Tag(JobPage) /\ line[job.line].tag # None
           /\ Offset(JobPage) \in Offsets
           /\ JobEntry = header[job.line][Offset(JobPage)] /\ JobEntry \in Header
           /\ ~ JobEntry.busy
           /\ \A l \in Lines : \A o \in Offsets : job.client \notin Refs(l, o)
           /\ \A l : ~ Moving(l)
<1>1. /\ job.client \in Clients /\ job.line \in Lines
      /\ pc[job.client] = "wait" /\ op[job.client] = "pin" /\ ctx[job.client].phase = "End"
      /\ line[job.line].tag = Tag(JobPage)
      /\ ~ JobEntry.busy
  BY DEF Inv, JobOK, TypeOK, JobPage, JobEntry
<1>2. JobPage \in Pages  BY <1>1 DEF Inv, Control, TypeOK, JobPage
<1>3. Offset(JobPage) \in Offsets /\ Tag(JobPage) # None  BY <1>2, TagType
<1>4. JobEntry \in Header  BY <1>1, <1>3 DEF Inv, TypeOK, JobEntry
<1>5. job.client \notin Holders  BY <1>1 DEF Holders
<1>6. \A l \in Lines : \A o \in Offsets : job.client \notin Refs(l, o)
  BY <1>1, <1>5 DEF Refs, Ref
<1>. QED  BY <1>1, <1>2, <1>3, <1>4, <1>6 DEF JobEntry, Moving

\* The page is mapped by now: the server takes the reference for the client.
LEMMA InitHitInv ==
    ASSUME Inv, InitHit
    PROVE  Inv'
<1>1. srv_pc = "init" /\ JobEntry.exist  BY DEF InitHit
<1>0. PICK c \in Clients, l0 \in Lines, v \in Pages :
          c = job.client /\ l0 = job.line /\ v = JobPage /\ v = page[c]
  BY <1>1, JobFacts DEF JobPage
<1>. DEFINE o0 == Offset(v)
<1>2. /\ c \in Clients /\ l0 \in Lines /\ v \in Pages
      /\ pc[c] = "wait" /\ op[c] = "pin" /\ ctx[c].phase = "End"
      /\ line[l0].tag = Tag(v) /\ line[l0].tag # None
      /\ o0 \in Offsets
      /\ JobEntry = header[l0][o0] /\ JobEntry \in Header
      /\ ~ JobEntry.busy
      /\ \A l \in Lines : \A o \in Offsets : c \notin Refs(l, o)
  BY <1>0, <1>1, JobFacts
<1>3. /\ line' = line /\ pool' = pool /\ allocated' = allocated
      /\ ctx' = ctx /\ op' = op /\ page' = page
      /\ srv_pc' = "loop" /\ job' = NoJob
      /\ pc' = [pc EXCEPT ![c] = "held"] /\ at' = [at EXCEPT ![c] = None]
      /\ first' = [first EXCEPT ![c] = FALSE]
      /\ frame' = [frame EXCEPT ![c] = JobEntry.ppage_id]
      /\ evictable' \subseteq evictable
      /\ header' = Counted(l0, v, 1)
      /\ page[c] = v
  BY <1>0 DEF InitHit, Holds, JobPage
<1>4. header[l0][o0].ref_count + 1 \in Nat /\ JobEntry.ppage_id \in 1 .. NumFrames \cup {None}
  BY <1>2 DEF Header
<1>5. /\ header' \in [Lines -> [Offsets -> Header]]
      /\ \A m \in Lines : \A q \in Offsets :
           /\ SameEntry(m, q)
           /\ header'[m][q].ref_count = IF m = l0 /\ q = o0
                                        THEN header[m][q].ref_count + 1
                                        ELSE header[m][q].ref_count
           /\ ~ (m = l0 /\ q = o0) => header'[m][q] = header[m][q]
  BY <1>2, <1>3, <1>4, CountedFacts, 1 \in Int
<1>6. TypeOK'  BY <1>2, <1>3, <1>4, <1>5 DEF Inv, TypeOK, NoJob
<1>7. JobOK'  BY <1>3 DEF JobOK
<1>8. \A m \in Lines : \A q \in Offsets :
             SameEntry(m, q) /\ (~ InUse(m, q) => header'[m][q] = header[m][q])
  BY <1>1, <1>2, <1>5 DEF InUse
<1>9. /\ pc'[c] = "held" /\ frame'[c] = JobEntry.ppage_id
      /\ \A d \in Clients \ {c} : SameClient(d)
  BY <1>2, <1>3 DEF SameClient, Inv, TypeOK
<1>10. Control(c)' /\ c \in Holders'
  BY <1>2, <1>3, <1>9 DEF Control, Holders
<1>11. Access(c)'
  <2>2. header'[l0][o0].ppage_id = JobEntry.ppage_id  BY <1>2, <1>5 DEF SameEntry
  <2>3. /\ header'[l0][o0].exist /\ ~ header'[l0][o0].busy  BY <1>1, <1>2, <1>5 DEF SameEntry
  <2>. QED  BY <1>2, <1>3, <1>9, <2>2, <2>3 DEF Access, Solid
<1>12. ASSUME NEW l \in Lines, NEW o \in Offsets
       PROVE  c \in Refs(l, o)' <=> l = l0 /\ o = o0
  <2>1. line[l].tag = Tag(page[c]) <=> l = l0
    BY <1>2, <1>3 DEF Inv, Structure, TagsUnique
  <2>. QED  BY <1>2, <1>3, <1>9, <1>10, <2>1 DEF Refs, Ref
<1>13. ASSUME NEW l \in Lines, NEW o \in Offsets
       PROVE  /\ header'[l][o].ref_count + (IF c \in Refs(l, o) THEN 1 ELSE 0)
                   = header[l][o].ref_count + (IF c \in Refs(l, o)' THEN 1 ELSE 0)
              /\ c \in Refs(l, o)' => header[l][o].exist
  <2>1. header[l][o].ref_count \in Nat  BY DEF Inv, TypeOK, Header
  <2>. QED  BY <2>1, <1>1, <1>2, <1>5, <1>12
<1>. QED  BY <1>1, <1>2, <1>3, <1>6, <1>7, <1>8, <1>9, <1>10, <1>11, <1>13, CallStep

\* The header the server writes for the new page ...
New(f) == [exist |-> TRUE, busy |-> TRUE, ref_count |-> 1, ppage_id |-> f]
\* ... and for the victim.
Gone == [EmptyHeader EXCEPT !.busy = TRUE]

\* Mapping a page to a frame that no other page keeps preserves the invariant.
LEMMA MapStep ==
    ASSUME Inv, TypeOK', srv_pc = "init", ~ JobEntry.exist,
           NEW c \in Clients, c = job.client, NEW l0 \in Lines, l0 = job.line,
           NEW v \in Pages, v = page[c],
           NEW f \in 1 .. NumFrames, NEW m \in Lines, NEW q \in Offsets, NEW ev \in BOOLEAN,
           \A l \in Lines : \A o \in Offsets :
               header'[l][o] = IF l = l0 /\ o = Offset(v) THEN New(f)
                               ELSE IF ev /\ l = m /\ o = q THEN Gone ELSE header[l][o],
           ev => Solid(m, q) /\ header[m][q].ref_count = 0,
           \A l \in Lines : /\ line'[l].tag = line[l].tag /\ line'[l].next = line[l].next
                            /\ line'[l].num_using = IF l = l0 THEN line[l].num_using + 1
                                                    ELSE line[l].num_using,
           \A l \in Lines : \A o \in Offsets :
               header[l][o].exist /\ ~ (ev /\ l = m /\ o = q) => header[l][o].ppage_id # f,
           f \in 1 .. allocated', allocated' >= allocated, pool' = pool, evictable' \subseteq evictable,
           \A u \in evictable' : ~ (ev /\ line[m].tag = Tag(u) /\ Offset(u) = q),
           \A d \in Clients \ {c} : ctx'[d] = ctx[d],
           ctx'[c].phase \in {"Loading", "Evicting"}, ctx'[c].hint = l0,
           ctx'[c].phase = "Evicting" =>
               /\ ev /\ ctx'[c].pre_hint = m /\ ctx'[c].victim \in Pages
               /\ line[m].tag = Tag(ctx'[c].victim) /\ q = Offset(ctx'[c].victim),
           UNCHANGED client, srv_pc' = "loop"
    PROVE  Inv'
<1>. DEFINE o0 == Offset(v)
<1>1. /\ pc[c] = "wait" /\ op[c] = "pin" /\ ctx[c].phase = "End"
      /\ line[l0].tag = Tag(v) /\ line[l0].tag # None
      /\ o0 \in Offsets
      /\ ~ header[l0][o0].exist /\ ~ header[l0][o0].busy
      /\ \A l \in Lines : \A o \in Offsets : c \notin Refs(l, o)
      /\ \A l : ~ Moving(l)
  BY JobFacts DEF JobPage
<1>2. pc' = pc /\ op' = op /\ page' = page /\ at' = at /\ frame' = frame
  BY DEF client
<1>3. \A d \in Clients \ {c} : SameClient(d)  BY <1>2 DEF SameClient
<1>4. ev => ~ (m = l0 /\ q = o0)  BY <1>1 DEF Solid
<1>5. /\ New(f).exist /\ New(f).busy /\ New(f).ref_count = 1 /\ New(f).ppage_id = f
      /\ ~ Gone.exist /\ Gone.busy /\ Gone.ref_count = 0 /\ Gone.ppage_id = None
  BY DEF New, Gone, EmptyHeader
<1>. HIDE DEF o0
<1>6. /\ header'[l0][o0].exist /\ header'[l0][o0].busy /\ header'[l0][o0].ref_count = 1
      /\ header'[l0][o0].ppage_id = f
  BY <1>1, <1>5 DEF o0
<1>7. ASSUME ev
      PROVE  /\ ~ header'[m][q].exist /\ header'[m][q].busy /\ header'[m][q].ref_count = 0
             /\ header'[m][q].ppage_id = None
             /\ header[m][q].exist /\ ~ header[m][q].busy /\ Refs(m, q) = {}
  <2>1. header'[m][q] = Gone  BY <1>4, <1>7 DEF o0
  <2>2. header[m][q].exist /\ ~ header[m][q].busy /\ header[m][q].ref_count = 0
    BY <1>7 DEF Solid
  <2>3. Refs(m, q) = {}
    BY <2>2, RefsFinite, Refs(m, q) \in SUBSET Clients DEF Inv, RefsCounted, Refs
  <2>. QED  BY <2>1, <2>2, <2>3, <1>5
<1>8. ASSUME NEW l \in Lines, NEW o \in Offsets, ~ (l = l0 /\ o = o0), ~ (ev /\ l = m /\ o = q)
      PROVE  header'[l][o] = header[l][o]
  BY <1>8 DEF o0
<1>9. Structure'
  <2>1. ASSUME NEW l \in Lines, line[l].tag = None \/ Moving(l) PROVE EmptyLine(l)'
    <3>1. EmptyLine(l) /\ l # l0
      BY <1>1, <2>1 DEF Inv, Structure, Untagged, MovingEmpty
    <3>2. ev => l # m  BY <3>1, <1>7, EmptyFacts DEF InUse
    <3>3. \A o \in Offsets : header'[l][o] = header[l][o]  BY <3>1, <3>2, <1>8
    <3>. QED  BY <3>1, <3>3 DEF EmptyLine
  <2>. QED  BY <2>1, StructureKept
<1>10. TagsUnique' /\ TagsStay  BY <1>9 DEF Structure, TagsStay
<1>11. SolidStay
  <2>1. ASSUME NEW l \in Lines, NEW o \in Offsets, Solid(l, o), Refs(l, o) # {}
        PROVE  SameEntry(l, o)
    <3>1. ~ (l = l0 /\ o = o0) /\ ~ (ev /\ l = m /\ o = q)
      BY <2>1, <1>1, <1>7 DEF Solid
    <3>. QED  BY <3>1, <1>8 DEF SameEntry
  <2>. QED  BY <2>1 DEF SolidStay
<1>12. Counts'
  <2>1. ~ InUse(l0, o0) /\ InUse(l0, o0)'
    BY <1>1, <1>6 DEF InUse, o0
  <2>2. \A l \in Lines : \A o \in Offsets : ~ (l = l0 /\ o = o0) => (InUse(l, o)' <=> InUse(l, o))
    BY <1>7, <1>8 DEF InUse
  <2>. QED  BY <1>1, <2>1, <2>2, CountUp DEF o0
<1>13. ASSUME NEW d \in Clients \ {c}
       PROVE  /\ Control(d)' /\ Access(d)' /\ Loading(d)' /\ Evicting(d)' /\ Ended(d)'
              /\ \A l \in Lines : \A o \in Offsets : d \in Refs(l, o)' <=> d \in Refs(l, o)
  <2>1. /\ Loading(d) /\ Evicting(d) /\ Control(d)
        /\ ctx[d].hint \in Lines \cup {None} /\ ctx[d].pre_hint \in Lines \cup {None}
        /\ ctx[d].victim \in Pages \cup {None} /\ page[d] \in Pages \cup {None}
    BY DEF Inv, TypeOK
  <2>2. ASSUME ctx[d].phase # "End" PROVE SameEntry(ctx[d].hint, Offset(page[d]))
    <3>1. /\ ctx[d].hint \in Lines /\ Offset(page[d]) \in Offsets
          /\ header[ctx[d].hint][Offset(page[d])].exist /\ header[ctx[d].hint][Offset(page[d])].busy
      BY <2>1, <2>2, TagType DEF Loading, Control
    <3>2. ~ (ctx[d].hint = l0 /\ Offset(page[d]) = o0) /\ ~ (ev /\ ctx[d].hint = m /\ Offset(page[d]) = q)
      BY <3>1, <1>1, <1>7
    <3>3. header'[ctx[d].hint][Offset(page[d])] = header[ctx[d].hint][Offset(page[d])]
      BY <3>1, <3>2, <1>8
    <3>. QED  BY <3>3 DEF SameEntry
  <2>3. ASSUME ctx[d].phase = "Evicting" PROVE SameEntry(ctx[d].pre_hint, Offset(ctx[d].victim))
    <3>1. /\ ctx[d].pre_hint \in Lines /\ Offset(ctx[d].victim) \in Offsets
          /\ header[ctx[d].pre_hint][Offset(ctx[d].victim)].busy
      BY <2>1, <2>3, TagType DEF Evicting
    <3>2. ~ (ctx[d].pre_hint = l0 /\ Offset(ctx[d].victim) = o0) /\ ~ (ev /\ ctx[d].pre_hint = m /\ Offset(ctx[d].victim) = q)
      BY <3>1, <1>1, <1>7
    <3>3. header'[ctx[d].pre_hint][Offset(ctx[d].victim)] = header[ctx[d].pre_hint][Offset(ctx[d].victim)]
      BY <3>1, <3>2, <1>8
    <3>. QED  BY <3>3 DEF SameEntry
  <2>. QED  BY <2>2, <2>3, <1>3, <1>10, <1>11, OthersKept
<1>14. Control(c)' /\ Access(c)' /\ c \notin Holders'
  BY <1>1, <1>2 DEF Control, Access, Holders, Inv
<1>15. Loading(c)' /\ Ended(c)'
  BY <1>1, <1>2, <1>6, LinesType DEF Loading, Ended, o0
<1>16. Evicting(c)'
  <2>1. ASSUME ctx'[c].phase = "Evicting"
        PROVE  /\ ctx'[c].pre_hint # None /\ ctx'[c].victim # None
               /\ line'[ctx'[c].pre_hint].tag = Tag(ctx'[c].victim)
               /\ ~ header'[ctx'[c].pre_hint][Offset(ctx'[c].victim)].exist
               /\ header'[ctx'[c].pre_hint][Offset(ctx'[c].victim)].busy
    <3>1. ev /\ ctx'[c].pre_hint = m /\ line[m].tag = Tag(ctx'[c].victim) /\ q = Offset(ctx'[c].victim)
      BY <2>1
    <3>2. ctx'[c].victim # None /\ m # None  BY <2>1, LinesType, PagesAssumption, NoneAssumption
    <3>3. ~ header'[m][q].exist /\ header'[m][q].busy /\ line'[m].tag = line[m].tag
      BY <3>1, <1>7
    <3>. QED  BY <3>1, <3>2, <3>3
  <2>. QED  BY <2>1 DEF Evicting
<1>17. RefsCounted'
  <2>1. ASSUME NEW l \in Lines, NEW o \in Offsets
        PROVE  c \in Refs(l, o)' <=> l = l0 /\ o = o0
    BY <1>1, <1>2, <1>14 DEF Refs, Ref, o0
  <2>2. header[l0][o0].ref_count = 0
    <3>1. Refs(l0, o0) = {} /\ header[l0][o0].ref_count = Cardinality(Refs(l0, o0))
      BY <1>1 DEF Inv, RefsCounted
    <3>. QED  BY <3>1, FS_EmptySet
  <2>3. ASSUME NEW l \in Lines, NEW o \in Offsets
        PROVE  /\ header'[l][o].ref_count + (IF c \in Refs(l, o) THEN 1 ELSE 0)
                    = header[l][o].ref_count + (IF c \in Refs(l, o)' THEN 1 ELSE 0)
               /\ header'[l][o].ref_count \in Nat
    <3>0. header[l][o].ref_count \in Nat /\ c \notin Refs(l, o)  BY <1>1 DEF Inv, TypeOK, Header
    <3>1. CASE l = l0 /\ o = o0  BY <3>1, <2>1, <2>2, <1>6, <3>0
    <3>2. CASE ev /\ l = m /\ o = q
      <4>1. header[l][o].ref_count = 0 /\ c \notin Refs(l, o)'  BY <3>2, <1>4, <2>1 DEF o0
      <4>. QED  BY <3>0, <3>2, <4>1, <1>7
    <3>3. CASE ~ (l = l0 /\ o = o0) /\ ~ (ev /\ l = m /\ o = q)
      BY <3>3, <2>1, <1>8, <3>0
    <3>. QED  BY <3>1, <3>2, <3>3
  <2>4. ASSUME NEW l \in Lines, NEW o \in Offsets PROVE header'[l][o].exist \/ Refs(l, o)' = {}
    <3>1. SUFFICES ASSUME ~ header'[l][o].exist PROVE Refs(l, o)' = {}  OBVIOUS
    <3>2. ~ (l = l0 /\ o = o0)  BY <3>1, <1>6
    <3>3. Refs(l, o) = {}
      BY <3>1, <3>2, <1>7, <1>8 DEF Inv, RefsCounted
    <3>4. \A d \in Clients : d \notin Refs(l, o)'  BY <3>2, <3>3, <2>1, <1>13
    <3>5. Refs(l, o)' \subseteq Clients  BY DEF Refs
    <3>. QED  BY <3>4, <3>5
  <2>. QED  BY <1>13, <2>3, <2>4, RefsMove
<1>18. FramesDistinct' /\ FramesAllocated'
  <2>1. ASSUME NEW l \in Lines, NEW o \in Offsets, header'[l][o].exist
        PROVE  \/ l = l0 /\ o = o0 /\ header'[l][o].ppage_id = f
               \/ /\ header[l][o].exist /\ header'[l][o].ppage_id = header[l][o].ppage_id
                  /\ header[l][o].ppage_id # f
    BY <2>1, <1>6, <1>7, <1>8
  <2>2. FramesDistinct'
    BY <2>1 DEF FramesDistinct, Inv
  <2>3. ASSUME NEW l \in Lines, NEW o \in Offsets, header'[l][o].exist
        PROVE  header'[l][o].ppage_id \in 1 .. allocated'
    <3>1. allocated \in Nat /\ allocated' \in Nat  BY LinesType DEF Inv, TypeOK
    <3>2. header[l][o].exist => header[l][o].ppage_id \in 1 .. allocated
      BY DEF Inv, FramesAllocated
    <3>. QED  BY <2>1, <2>3, <3>1, <3>2
  <2>4. ASSUME NEW l \in Lines, NEW o \in Offsets, ~ header'[l][o].exist
        PROVE  header'[l][o].ppage_id = None
    BY <2>4, <1>6, <1>7, <1>8 DEF Inv, FramesAllocated
  <2>. QED  BY <2>2, <2>3, <2>4 DEF FramesAllocated
<1>19. ContextsDistinct'
  <2>1. ASSUME NEW d \in Clients \ {c}, ctx[d].phase # "End", page[d] = page[c] PROVE FALSE
    <3>1. /\ ctx[d].hint \in Lines /\ line[ctx[d].hint].tag = Tag(v)
          /\ header[ctx[d].hint][o0].exist
      BY <2>1 DEF Inv, TypeOK, Loading, o0
    <3>2. ctx[d].hint = l0  BY <3>1, <1>1 DEF Inv, Structure, TagsUnique
    <3>. QED  BY <3>1, <3>2, <1>1
  <2>2. ASSUME NEW d \in Clients \ {c}, ctx[d].phase = "Evicting", ctx'[c].phase = "Evicting",
               ctx[d].victim = ctx'[c].victim
        PROVE  FALSE
    <3>1. /\ ctx[d].pre_hint \in Lines /\ line[ctx[d].pre_hint].tag = Tag(ctx'[c].victim)
          /\ ~ header[ctx[d].pre_hint][q].exist
      BY <2>2 DEF Inv, TypeOK, Evicting
    <3>2. line[m].tag = Tag(ctx'[c].victim) /\ ev /\ line[m].tag # None
      BY <2>2, TagType
    <3>3. ctx[d].pre_hint = m  BY <3>1, <3>2 DEF Inv, Structure, TagsUnique
    <3>. QED  BY <3>1, <3>2, <3>3, <1>7
  <2>3. ContextsDistinct  BY DEF Inv
  <2>. QED  BY <1>2, <1>3, <2>1, <2>2, <2>3 DEF ContextsDistinct, SameClient
<1>20. JobOK'  BY DEF JobOK
<1>21. EvictableMapped'
  <2>1. ASSUME NEW u \in evictable'
        PROVE  \E l \in Lines : line'[l].tag = Tag(u) /\ header'[l][Offset(u)].exist
    <3>1. PICK l \in Lines : line[l].tag = Tag(u) /\ header[l][Offset(u)].exist
      BY DEF Inv, EvictableMapped
    <3>2. u \in Pages /\ Offset(u) \in Offsets  BY TagType DEF Inv, TypeOK
    <3>3. ~ (ev /\ l = m /\ Offset(u) = q)  BY <3>1
    <3>4. header'[l][Offset(u)].exist  BY <3>1, <3>2, <3>3, <1>6, <1>8
    <3>. QED  BY <3>1, <3>4
  <2>. QED  BY <2>1 DEF EvictableMapped
<1>22. \A d \in Clients : Control(d)' /\ Access(d)' /\ Loading(d)' /\ Evicting(d)' /\ Ended(d)'
  BY <1>13, <1>14, <1>15, <1>16
<1>. QED  BY <1>9, <1>12, <1>17, <1>18, <1>19, <1>20, <1>21, <1>22 DEF Inv

\* The line counts its new entry.
LEMMA OneMoreUsed ==
    ASSUME Inv, NEW l0 \in Lines,
           line' = [line EXCEPT ![l0] = [line[l0] EXCEPT !.num_using = line[l0].num_using + 1]]
    PROVE  /\ line' \in [Lines -> [tag : Tags \cup {None}, next : Lines \cup {None}, num_using : Nat]]
           /\ \A l \in Lines : /\ line'[l].tag = line[l].tag /\ line'[l].next = line[l].next
                               /\ line'[l].num_using = IF l = l0 THEN line[l].num_using + 1
                                                       ELSE line[l].num_using
<1>. DEFINE T == [tag : Tags \cup {None}, next : Lines \cup {None}, num_using : Nat]
            r == [line[l0] EXCEPT !.num_using = line[l0].num_using + 1]
<1>1. line \in [Lines -> T] /\ line[l0] \in T  BY DEF Inv, TypeOK
<1>2. /\ r \in T /\ r.tag = line[l0].tag /\ r.next = line[l0].next
      /\ r.num_using = line[l0].num_using + 1
  BY <1>1
<1>3. line' = [line EXCEPT ![l0] = r]  OBVIOUS
<1>. HIDE DEF r, T
<1>4. line' \in [Lines -> T]  BY <1>1, <1>2, <1>3
<1>5. \A l \in Lines : line'[l] = IF l = l0 THEN r ELSE line[l]  BY <1>1, <1>3
<1>. QED  BY <1>2, <1>4, <1>5 DEF T

\* The server maps the page to a frame not used before ...
LEMMA InitAllocInv ==
    ASSUME Inv, InitAlloc
    PROVE  Inv'
<1>1. srv_pc = "init" /\ ~ JobEntry.exist  BY DEF InitAlloc
<1>2. PICK c \in Clients, l0 \in Lines, v \in Pages :
          c = job.client /\ l0 = job.line /\ v = JobPage /\ v = page[c]
  BY <1>1, JobFacts DEF JobPage
<1>3. /\ header' = [header EXCEPT ![l0] = [header[l0] EXCEPT ![Offset(v)] = New(allocated + 1)]]
      /\ allocated < NumFrames /\ allocated' = allocated + 1
      /\ line' = [line EXCEPT ![l0] = [line[l0] EXCEPT !.num_using = line[l0].num_using + 1]]
      /\ ctx' = [ctx EXCEPT ![c] = [NoContext EXCEPT !.phase = "Loading", !.hint = l0]]
      /\ pool' = pool /\ evictable' = evictable /\ srv_pc' = "loop" /\ job' = NoJob
      /\ UNCHANGED client
  BY <1>2 DEF InitAlloc, Mapped, New
<1>4. Offset(v) \in Offsets  BY TagType
<1>5. /\ line \in [Lines -> [tag : Tags \cup {None}, next : Lines \cup {None}, num_using : Nat]]
      /\ header \in [Lines -> [Offsets -> Header]]
      /\ ctx \in [Clients -> [phase : {"End", "Evicting", "Loading"}, hint : Lines \cup {None},
                              victim : Pages \cup {None}, pre_hint : Lines \cup {None}]]
      /\ allocated \in 0 .. NumFrames /\ allocated \in Nat
  BY LinesType DEF Inv, TypeOK
<1>6. PICK f \in 1 .. NumFrames : f = allocated + 1
  BY <1>3, <1>5, LinesType
<1>7. New(f) \in Header  BY DEF New, Header
<1>8. header' \in [Lines -> [Offsets -> Header]]  BY <1>3, <1>4, <1>5, <1>6, <1>7
<1>9. line' \in [Lines -> [tag : Tags \cup {None}, next : Lines \cup {None}, num_using : Nat]]
  BY <1>3, OneMoreUsed
<1>10. /\ ctx'[c] = [phase |-> "Loading", hint |-> l0, victim |-> None, pre_hint |-> None]
       /\ \A d \in Clients \ {c} : ctx'[d] = ctx[d]
       /\ ctx' \in [Clients -> [phase : {"End", "Evicting", "Loading"}, hint : Lines \cup {None},
                                victim : Pages \cup {None}, pre_hint : Lines \cup {None}]]
  BY <1>3, <1>5 DEF NoContext
<1>11. allocated' \in 0 .. NumFrames  BY <1>3, <1>5, LinesType
<1>12. TypeOK'
  BY <1>3, <1>8, <1>9, <1>10, <1>11 DEF Inv, TypeOK, NoJob, client
<1>0. PICK ev \in BOOLEAN : ~ ev  BY FALSE \in BOOLEAN
<1>13. \A l \in Lines : \A o \in Offsets :
          header'[l][o] = IF l = l0 /\ o = Offset(v) THEN New(f)
                          ELSE IF ev /\ l = l0 /\ o = Offset(v) THEN Gone ELSE header[l][o]
  BY <1>0, <1>3, <1>4, <1>5, <1>6
<1>14. \A l \in Lines : /\ line'[l].tag = line[l].tag /\ line'[l].next = line[l].next
                        /\ line'[l].num_using = IF l = l0 THEN line[l].num_using + 1
                                                ELSE line[l].num_using
  BY <1>3, OneMoreUsed
<1>15. \A l \in Lines : \A o \in Offsets :
          header[l][o].exist /\ ~ (ev /\ l = l0 /\ o = Offset(v)) => header[l][o].ppage_id # f
  BY <1>5, <1>6 DEF Inv, FramesAllocated
<1>16. f \in 1 .. allocated' /\ allocated' >= allocated  BY <1>3, <1>5, <1>6
<1>17. evictable' \subseteq evictable /\ pool' = pool /\ srv_pc' = "loop" /\ UNCHANGED client
  BY <1>3
<1>18. ctx'[c].phase = "Loading" /\ ctx'[c].hint = l0  BY <1>10
<1>19. \A d \in Clients \ {c} : ctx'[d] = ctx[d]  BY <1>10
<1>. QED
  BY <1>0, <1>1, <1>2, <1>4, <1>12, <1>13, <1>14, <1>15, <1>16, <1>17, <1>18, <1>19, MapStep

\* ... or to that of a victim without references.
LEMMA InitEvictInv ==
    ASSUME Inv, NEW u \in Pages, InitEvict(u)
    PROVE  Inv'
<1>1. srv_pc = "init" /\ ~ JobEntry.exist /\ u \in evictable  BY DEF InitEvict
<1>2. PICK c \in Clients, l0 \in Lines, v \in Pages :
          c = job.client /\ l0 = job.line /\ v = JobPage /\ v = page[c]
  BY <1>1, JobFacts DEF JobPage
<1>3. PICK m \in Lines : line[m].tag = Tag(u) /\ header[m][Offset(u)].exist
  BY <1>1 DEF Inv, EvictableMapped
<1>4. LineOf(Tag(u)) = m
  BY <1>1, <1>3, JobFacts, LineOfIs
<1>. DEFINE q == Offset(u)
<1>5. q \in Offsets /\ Offset(v) \in Offsets  BY TagType
<1>6. PICK f : f = header[m][q].ppage_id  OBVIOUS
<1>. DEFINE h == [header EXCEPT ![m] = [header[m] EXCEPT ![q] = Gone]]
<1>7. /\ header' = [h EXCEPT ![l0] = [h[l0] EXCEPT ![Offset(v)] = New(f)]]
      /\ Lockable(header[m][q]) /\ allocated' = allocated
      /\ line' = [line EXCEPT ![l0] = [line[l0] EXCEPT !.num_using = line[l0].num_using + 1]]
      /\ ctx' = [ctx EXCEPT ![c] = [phase |-> "Evicting", hint |-> l0, victim |-> u, pre_hint |-> m]]
      /\ pool' = pool /\ evictable' = evictable \ {u} /\ srv_pc' = "loop" /\ job' = NoJob
      /\ UNCHANGED client
  BY <1>2, <1>4, <1>6 DEF InitEvict, Mapped, Unmapped, New, Gone
<1>8. /\ line \in [Lines -> [tag : Tags \cup {None}, next : Lines \cup {None}, num_using : Nat]]
      /\ header \in [Lines -> [Offsets -> Header]]
      /\ ctx \in [Clients -> [phase : {"End", "Evicting", "Loading"}, hint : Lines \cup {None},
                              victim : Pages \cup {None}, pre_hint : Lines \cup {None}]]
      /\ allocated \in 0 .. NumFrames /\ allocated \in Nat
  BY LinesType DEF Inv, TypeOK
<1>9. f \in 1 .. allocated /\ f \in 1 .. NumFrames
  BY <1>3, <1>5, <1>6, <1>8, LinesType DEF Inv, FramesAllocated
<1>10. New(f) \in Header /\ Gone \in Header  BY <1>9 DEF New, Gone, EmptyHeader, Header
<1>0. PICK ev \in BOOLEAN : ev  BY TRUE \in BOOLEAN
<1>11. /\ h \in [Lines -> [Offsets -> Header]]
       /\ \A l \in Lines : \A o \in Offsets :
             h[l][o] = IF l = m /\ o = q THEN Gone ELSE header[l][o]
  BY <1>5, <1>8, <1>10
<1>. HIDE DEF h
<1>12. /\ header' \in [Lines -> [Offsets -> Header]]
       /\ \A l \in Lines : \A o \in Offsets :
             header'[l][o] = IF l = l0 /\ o = Offset(v) THEN New(f) ELSE h[l][o]
  BY <1>5, <1>7, <1>10, <1>11
<1>23. \A l \in Lines : \A o \in Offsets :
          header'[l][o] = IF l = l0 /\ o = Offset(v) THEN New(f)
                          ELSE IF ev /\ l = m /\ o = q THEN Gone ELSE header[l][o]
  BY <1>0, <1>11, <1>12
<1>13. line' \in [Lines -> [tag : Tags \cup {None}, next : Lines \cup {None}, num_using : Nat]]
  BY <1>7, OneMoreUsed
<1>14. /\ ctx'[c] = [phase |-> "Evicting", hint |-> l0, victim |-> u, pre_hint |-> m]
       /\ \A d \in Clients \ {c} : ctx'[d] = ctx[d]
       /\ ctx' \in [Clients -> [phase : {"End", "Evicting", "Loading"}, hint : Lines \cup {None},
                                victim : Pages \cup {None}, pre_hint : Lines \cup {None}]]
  BY <1>7, <1>8
<1>15. TypeOK'
  BY <1>7, <1>12, <1>13, <1>14 DEF Inv, TypeOK, NoJob, client
<1>16. \A l \in Lines : /\ line'[l].tag = line[l].tag /\ line'[l].next = line[l].next
                        /\ line'[l].num_using = IF l = l0 THEN line[l].num_using + 1
                                                ELSE line[l].num_using
  BY <1>7, OneMoreUsed
<1>17. \A l \in Lines : \A o \in Offsets :
          header[l][o].exist /\ ~ (ev /\ l = m /\ o = q) => header[l][o].ppage_id # f
  BY <1>0, <1>3, <1>5, <1>6 DEF Inv, FramesDistinct
<1>18. Solid(m, q) /\ header[m][q].ref_count = 0
  BY <1>3, <1>7 DEF Lockable, Solid
<1>19. \A w \in evictable' : ~ (ev /\ line[m].tag = Tag(w) /\ Offset(w) = q)
  BY <1>3, <1>7, PageIs DEF Inv, TypeOK
<1>20. f \in 1 .. allocated' /\ allocated' >= allocated /\ evictable' \subseteq evictable
  BY <1>7, <1>8, <1>9
<1>21. /\ ctx'[c].phase = "Evicting" /\ ctx'[c].hint = l0 /\ ctx'[c].pre_hint = m
       /\ ctx'[c].victim = u
  BY <1>14
<1>22. pool' = pool /\ srv_pc' = "loop" /\ UNCHANGED client  BY <1>7
<1>24. \A d \in Clients \ {c} : ctx'[d] = ctx[d]  BY <1>14
<1>25. line[m].tag = Tag(u) /\ q = Offset(u)  BY <1>3
<1>26. /\ ctx'[c].phase \in {"Loading", "Evicting"} /\ ctx'[c].hint = l0
       /\ ctx'[c].phase = "Evicting" =>
               /\ ev /\ ctx'[c].pre_hint = m /\ ctx'[c].victim \in Pages
               /\ line[m].tag = Tag(ctx'[c].victim) /\ q = Offset(ctx'[c].victim)
  BY <1>0, <1>21, <1>25
<1>27. f \in 1 .. NumFrames /\ q \in Offsets  BY <1>5, <1>9
<1>28. ev => Solid(m, q) /\ header[m][q].ref_count = 0  BY <1>18
<1>. HIDE DEF q
<1>. QED
  BY <1>1, <1>2, <1>15, <1>16, <1>17, <1>19, <1>20, <1>22, <1>23, <1>24, <1>26, <1>27, <1>28,
     MapStep

\* Unlocking changes one lock and nothing else.
LEMMA UnlockedFacts ==
    ASSUME Inv, NEW l \in Lines, NEW v \in Pages, header' = Unlocked(l, v)
    PROVE  /\ header' \in [Lines -> [Offsets -> Header]]
           /\ \A m \in Lines : \A q \in Offsets :
                /\ header'[m][q].exist = header[m][q].exist
                /\ header'[m][q].ref_count = header[m][q].ref_count
                /\ header'[m][q].ppage_id = header[m][q].ppage_id
                /\ ~ (m = l /\ q = Offset(v)) => header'[m][q] = header[m][q]
           /\ ~ header'[l][Offset(v)].busy
<1>1. Offset(v) \in Offsets  BY TagType
<1>2. header \in [Lines -> [Offsets -> Header]]  BY DEF Inv, TypeOK
<1>3. header[l][Offset(v)] \in Header  BY <1>1, <1>2
<1>. DEFINE e == [header[l][Offset(v)] EXCEPT !.busy = FALSE]
<1>4. /\ e \in Header /\ e.exist = header[l][Offset(v)].exist /\ ~ e.busy
      /\ e.ppage_id = header[l][Offset(v)].ppage_id
      /\ e.ref_count = header[l][Offset(v)].ref_count
  BY <1>3 DEF Header
<1>5. header' = [header EXCEPT ![l] = [header[l] EXCEPT ![Offset(v)] = e]]
  BY DEF Unlocked
<1>. HIDE DEF e
<1>6. header' \in [Lines -> [Offsets -> Header]]  BY <1>1, <1>2, <1>4, <1>5
<1>7. ASSUME NEW m \in Lines, NEW q \in Offsets
      PROVE  header'[m][q] = IF m = l /\ q = Offset(v) THEN e ELSE header[m][q]
  BY <1>1, <1>2, <1>5
<1>. QED  BY <1>1, <1>4, <1>6, <1>7

\* The load ends: the page is unlocked and its client holds it.
LEMMA ReleaseLoadedInv ==
    ASSUME Inv, NEW c \in Clients, ReleaseLoaded(c)
    PROVE  Inv'
<1>1. PICK l0 : l0 = ctx[c].hint  OBVIOUS
<1>2. PICK v : v = page[c]  OBVIOUS
<1>. DEFINE o0 == Offset(v)
<1>3. /\ srv_pc = "loop" /\ ctx[c].phase = "Loading" /\ header' = Unlocked(l0, v)
      /\ pc' = [pc EXCEPT ![c] = "held"] /\ at' = [at EXCEPT ![c] = None]
      /\ first' = [first EXCEPT ![c] = FALSE]
      /\ frame' = [frame EXCEPT ![c] = header[l0][o0].ppage_id]
      /\ ctx' = [ctx EXCEPT ![c] = NoContext]
      /\ line' = line /\ pool' = pool /\ evictable' = evictable /\ allocated' = allocated
      /\ srv_pc' = srv_pc /\ job' = job /\ op' = op /\ page' = page
  BY <1>1, <1>2 DEF ReleaseLoaded, Holds, policy
<1>4. /\ l0 \in Lines /\ v \in Pages /\ o0 \in Offsets /\ line[l0].tag = Tag(v) /\ Tag(v) # None
      /\ pc[c] = "wait" /\ op[c] = "pin" /\ header[l0][o0].exist /\ header[l0][o0].busy
  <2>1. Loading(c) /\ Control(c) /\ ctx[c].hint \in Lines \cup {None} /\ page[c] \in Pages \cup {None}
    BY DEF Inv, TypeOK
  <2>2. l0 \in Lines /\ v \in Pages  BY <1>1, <1>2, <1>3, <2>1 DEF Loading, Control
  <2>. QED  BY <1>1, <1>2, <1>3, <2>1, <2>2, TagType DEF Loading
<1>5. /\ header' \in [Lines -> [Offsets -> Header]]
      /\ \A m \in Lines : \A q \in Offsets :
           /\ header'[m][q].exist = header[m][q].exist
           /\ header'[m][q].ref_count = header[m][q].ref_count
           /\ header'[m][q].ppage_id = header[m][q].ppage_id
           /\ ~ (m = l0 /\ q = o0) => header'[m][q] = header[m][q]
      /\ ~ header'[l0][o0].busy
  BY <1>3, <1>4, UnlockedFacts
<1>. HIDE DEF o0
<1>6. TypeOK'
  <2>1. header[l0][o0].ppage_id \in 1 .. NumFrames \cup {None}
    BY <1>4 DEF Inv, TypeOK, Header
  <2>. QED  BY <1>3, <1>5, <2>1 DEF Inv, TypeOK, NoContext
<1>7. \A l \in Lines : \A o \in Offsets : InUse(l, o)' <=> InUse(l, o)
  BY <1>4, <1>5 DEF InUse
<1>8. Structure'
  <2>1. ASSUME NEW l \in Lines, line[l].tag = None \/ Moving(l) PROVE EmptyLine(l)'
    <3>1. EmptyLine(l)  BY <2>1 DEF Inv, Structure, Untagged, MovingEmpty
    <3>2. l # l0  BY <3>1, <1>4, EmptyFacts DEF InUse
    <3>. QED  BY <1>3, <1>5, <3>1, <3>2 DEF EmptyLine
  <2>. QED  BY <1>3, <2>1, StructureKept
<1>9. Counts'
  <2>1. \A l \in Lines : {o \in Offsets : InUse(l, o)}' = {o \in Offsets : InUse(l, o)}
    BY <1>7
  <2>. QED  BY <1>3, <2>1 DEF Counts, Inv
<1>10. FramesDistinct' /\ FramesAllocated'
  <2>1. FramesDistinct'  BY <1>5 DEF FramesDistinct, Inv
  <2>2. FramesAllocated'  BY <1>3, <1>5 DEF FramesAllocated, Inv
  <2>. QED  BY <2>1, <2>2
<1>11. TagsUnique' /\ TagsStay  BY <1>3, <1>8 DEF Structure, TagsStay
<1>12. SolidStay
  <2>1. ~ Solid(l0, o0)  BY <1>4 DEF Solid
  <2>. QED  BY <1>5, <2>1 DEF SolidStay, SameEntry
<1>13. /\ pc'[c] = "held" /\ frame'[c] = header[l0][o0].ppage_id /\ ctx'[c] = NoContext
       /\ \A d \in Clients \ {c} : SameClient(d)
  BY <1>3 DEF SameClient, Inv, TypeOK
<1>14. ASSUME NEW d \in Clients \ {c}
       PROVE  /\ Control(d)' /\ Access(d)' /\ Loading(d)' /\ Evicting(d)' /\ Ended(d)'
              /\ \A l \in Lines : \A o \in Offsets : d \in Refs(l, o)' <=> d \in Refs(l, o)
  <2>1. /\ Loading(d) /\ Evicting(d) /\ Control(d)
        /\ ctx[d].hint \in Lines \cup {None} /\ ctx[d].pre_hint \in Lines \cup {None}
        /\ ctx[d].victim \in Pages \cup {None} /\ page[d] \in Pages \cup {None}
    BY DEF Inv, TypeOK
  <2>2. ASSUME ctx[d].phase # "End" PROVE SameEntry(ctx[d].hint, Offset(page[d]))
    <3>1. /\ ctx[d].hint \in Lines /\ Offset(page[d]) \in Offsets /\ page[d] \in Pages
          /\ line[ctx[d].hint].tag = Tag(page[d])
      BY <2>1, <2>2, TagType DEF Loading, Control
    <3>2. page[d] # v  BY <1>2, <1>3, <2>2 DEF Inv, ContextsDistinct
    <3>3. ~ (ctx[d].hint = l0 /\ Offset(page[d]) = o0)
      BY <3>1, <3>2, <1>4, PageIs DEF o0
    <3>4. header'[ctx[d].hint][Offset(page[d])] = header[ctx[d].hint][Offset(page[d])]
      BY <1>5, <3>1, <3>3
    <3>. QED  BY <3>4 DEF SameEntry
  <2>3. ASSUME ctx[d].phase = "Evicting" PROVE SameEntry(ctx[d].pre_hint, Offset(ctx[d].victim))
    <3>1. /\ ctx[d].pre_hint \in Lines /\ Offset(ctx[d].victim) \in Offsets
          /\ ~ header[ctx[d].pre_hint][Offset(ctx[d].victim)].exist
      BY <2>1, <2>3, TagType DEF Evicting
    <3>2. ~ (ctx[d].pre_hint = l0 /\ Offset(ctx[d].victim) = o0)  BY <3>1, <1>4
    <3>3. header'[ctx[d].pre_hint][Offset(ctx[d].victim)] = header[ctx[d].pre_hint][Offset(ctx[d].victim)]
      BY <1>5, <3>1, <3>2
    <3>. QED  BY <3>3 DEF SameEntry
  <2>. QED  BY <2>2, <2>3, <1>11, <1>12, <1>13, OthersKept
<1>15. Control(c)' /\ c \in Holders'
  BY <1>2, <1>3, <1>4, <1>13 DEF Control, Holders
<1>16. Access(c)'
  <2>1. header'[l0][o0].exist /\ ~ header'[l0][o0].busy /\ header'[l0][o0].ppage_id = frame'[c]
    BY <1>4, <1>5, <1>13
  <2>. QED  BY <1>2, <1>3, <1>4, <1>13, <2>1 DEF Access, Solid, o0
<1>17. Loading(c)' /\ Evicting(c)' /\ Ended(c)'
  BY <1>13 DEF Loading, Evicting, Ended, NoContext
<1>18. ASSUME NEW l \in Lines, NEW o \in Offsets
       PROVE  c \in Refs(l, o)' <=> c \in Refs(l, o)
  <2>1. line[l].tag = Tag(v) <=> l = l0
    BY <1>4 DEF Inv, Structure, TagsUnique
  <2>2. Ref(c, l)' <=> l = l0
    BY <1>2, <1>3, <1>13, <1>15, <2>1 DEF Ref, NoContext
  <2>3. Ref(c, l) <=> l = l0
    BY <1>1, <1>3, <1>4 DEF Ref, Holders
  <2>. QED  BY <1>3, <2>2, <2>3 DEF Refs
<1>19. RefsCounted'
  <2>1. \A d \in Clients : \A l \in Lines : \A o \in Offsets :
            d \in Refs(l, o)' <=> d \in Refs(l, o)
    BY <1>14, <1>18
  <2>. QED  BY <2>1, <1>5, RefsStay
<1>20. ContextsDistinct'
  BY <1>3, <1>13 DEF ContextsDistinct, Inv, SameClient, NoContext
<1>21. JobOK'  BY <1>3 DEF JobOK
<1>22. EvictableMapped'
  <2>1. \A u \in evictable : Offset(u) \in Offsets  BY TagType DEF Inv, TypeOK
  <2>. QED  BY <1>3, <1>5, <2>1 DEF EvictableMapped, Inv
<1>. QED
  BY <1>6, <1>8, <1>9, <1>10, <1>14, <1>15, <1>16, <1>17, <1>19, <1>20, <1>21, <1>22 DEF Inv

-----------------------------------------------------------------------------
(* The steps of the server on the chains *)

\* A step on tags and next only preserves the invariant when it keeps the shape of the
\* table and the tags of lines in use.
LEMMA LineStep ==
    ASSUME Inv, TypeOK', Structure', JobOK', header' = header, allocated' = allocated,
           evictable' = evictable, \A d \in Clients : SameClient(d),
           \A l \in Lines : line'[l].num_using = line[l].num_using,
           \A l \in Lines : \A o \in Offsets : InUse(l, o) => line'[l].tag = line[l].tag
    PROVE  Inv'
<1>1. \A l \in Lines : \A o \in Offsets : SameEntry(l, o) /\ header'[l][o] = header[l][o]
  BY SameHeader
<1>2. TagsStay /\ SolidStay /\ TagsUnique'
  BY <1>1 DEF TagsStay, SolidStay, Structure
<1>3. ASSUME NEW d \in Clients
      PROVE  /\ Control(d)' /\ Access(d)' /\ Loading(d)' /\ Evicting(d)' /\ Ended(d)'
             /\ \A l \in Lines : \A o \in Offsets : d \in Refs(l, o)' <=> d \in Refs(l, o)
  <2>1. /\ SameEntry(ctx[d].hint, Offset(page[d]))
        /\ SameEntry(ctx[d].pre_hint, Offset(ctx[d].victim))
    BY DEF SameEntry
  <2>. QED  BY <2>1, <1>2, OthersKept
<1>4. RefsCounted'
  <2>1. \A d \in Clients : \A l \in Lines : \A o \in Offsets :
            d \in Refs(l, o)' <=> d \in Refs(l, o)
    BY <1>3
  <2>. QED  BY <2>1, <1>1, RefsStay
<1>5. Counts' /\ FramesDistinct' /\ FramesAllocated'
  BY DEF Counts, FramesDistinct, FramesAllocated, InUse, Inv
<1>6. ContextsDistinct'  BY DEF ContextsDistinct, Inv, SameClient
<1>7. EvictableMapped'
  <2>1. ASSUME NEW u \in evictable
        PROVE  \E l \in Lines : line'[l].tag = Tag(u) /\ header[l][Offset(u)].exist
    <3>1. PICK l \in Lines : line[l].tag = Tag(u) /\ header[l][Offset(u)].exist
      BY DEF Inv, EvictableMapped
    <3>2. Offset(u) \in Offsets  BY TagType DEF Inv, TypeOK
    <3>. QED  BY <3>1, <3>2 DEF InUse
  <2>. QED  BY <2>1 DEF EvictableMapped
<1>. QED  BY <1>3, <1>4, <1>5, <1>6, <1>7 DEF Inv

\* When the walk found no line, no line has the tag.
LEMMA NewTag ==
    ASSUME Inv, srv_pc = "loop", NEW v \in Pages, ~ HasLine(Tag(v))
    PROVE  \A l \in Lines : line[l].tag # Tag(v)
<1>1. \A l : ~ Moving(l)  BY DEF Moving
<1>. QED  BY <1>1, LinesOfIs DEF HasLine

\* The lines.
LineType == [tag : Tags \cup {None}, next : Lines \cup {None}, num_using : Nat]

\* Setting a tag changes nothing else.
LEMMA TagSet ==
    ASSUME Inv, NEW l0 \in Lines, NEW t \in Tags \cup {None},
           line' = [line EXCEPT ![l0].tag = t]
    PROVE  /\ line' \in [Lines -> LineType]
           /\ \A l \in Lines : /\ line'[l].next = line[l].next
                               /\ line'[l].num_using = line[l].num_using
                               /\ line'[l].tag = IF l = l0 THEN t ELSE line[l].tag
<1>. DEFINE r == [line[l0] EXCEPT !.tag = t]
<1>1. line \in [Lines -> LineType] /\ line[l0] \in LineType  BY DEF Inv, TypeOK, LineType
<1>2. r \in LineType /\ r.tag = t /\ r.next = line[l0].next /\ r.num_using = line[l0].num_using
  BY <1>1 DEF LineType
<1>3. line' = [line EXCEPT ![l0] = r]  OBVIOUS
<1>. HIDE DEF r
<1>4. \A l \in Lines : line'[l] = IF l = l0 THEN r ELSE line[l]  BY <1>1, <1>3
<1>. QED  BY <1>1, <1>2, <1>3, <1>4

\* Setting a next changes nothing else.
LEMMA NextSet ==
    ASSUME Inv, NEW l0 \in Lines, NEW n \in Lines \cup {None},
           line' = [line EXCEPT ![l0].next = n]
    PROVE  /\ line' \in [Lines -> LineType]
           /\ \A l \in Lines : /\ line'[l].tag = line[l].tag
                               /\ line'[l].num_using = line[l].num_using
                               /\ line'[l].next = IF l = l0 THEN n ELSE line[l].next
<1>. DEFINE r == [line[l0] EXCEPT !.next = n]
<1>1. line \in [Lines -> LineType] /\ line[l0] \in LineType  BY DEF Inv, TypeOK, LineType
<1>2. r \in LineType /\ r.next = n /\ r.tag = line[l0].tag /\ r.num_using = line[l0].num_using
  BY <1>1 DEF LineType
<1>3. line' = [line EXCEPT ![l0] = r]  OBVIOUS
<1>. HIDE DEF r
<1>4. \A l \in Lines : line'[l] = IF l = l0 THEN r ELSE line[l]  BY <1>1, <1>3
<1>. QED  BY <1>1, <1>2, <1>3, <1>4

\* The first line of a bucket is always in its chain.
LEMMA FirstOfBucket ==
    ASSUME Inv, NEW b \in Buckets
    PROVE  OnChain(b, b) /\ InChain(b) /\ b \in Lines /\ ~ InPool(b) /\ ~ Moving(b)
<1>1. OnChain(b, b)  BY ChainFacts DEF OnChain
<1>2. InChain(b) /\ b \in Lines  BY <1>1, LinesType DEF InChain
<1>. QED  BY <1>1, <1>2 DEF Inv, Structure, Placed

\* The first line of the bucket is free, and gets the tag.
LEMMA ServeCreateHeadInv ==
    ASSUME Inv, NEW c \in Clients, ServeCreateHead(c)
    PROVE  Inv'
<1>1. PICK v \in Pages : v = page[c]  BY WaitsFacts DEF ServeCreateHead
<1>0. PICK t, b : t = Tag(v) /\ b = get_bucket(t)  OBVIOUS
<1>2. /\ pc[c] = "wait" /\ op[c] = "pin" /\ ctx[c].phase = "End" /\ c # None
      /\ Offset(v) \in Offsets /\ t \in Nat /\ t # None /\ t \in Tags /\ b \in Buckets /\ b \in Lines
  BY <1>0, <1>1, WaitsFacts, TagType DEF ServeCreateHead
<1>3. /\ srv_pc = "loop" /\ ~ HasLine(t) /\ line[b].tag = None
      /\ line' = [line EXCEPT ![b].tag = t] /\ header' = header /\ pool' = pool
      /\ srv_pc' = "init" /\ job' = [client |-> c, line |-> b, pre |-> None]
      /\ allocated' = allocated /\ evictable' = evictable /\ ctx' = ctx
      /\ pc' = pc /\ op' = op /\ page' = page /\ at' = at /\ first' = first /\ frame' = frame
  BY <1>0, <1>1 DEF ServeCreateHead, policy, client
<1>4. /\ line' \in [Lines -> LineType]
      /\ \A l \in Lines : /\ line'[l].next = line[l].next
                          /\ line'[l].num_using = line[l].num_using
                          /\ line'[l].tag = IF l = b THEN t ELSE line[l].tag
  BY <1>2, <1>3, TagSet
<1>5. TypeOK'
  BY <1>2, <1>3, <1>4 DEF Inv, TypeOK, LineType
<1>6. \A l \in Lines : line[l].tag # t  BY <1>3, NewTag, <1>0
<1>7. EmptyLine(b)  BY <1>2, <1>3 DEF Inv, Structure, Untagged
<1>8. /\ \A a \in Buckets : Chain(a)' = Chain(a)
      /\ ChainsOK'
      /\ \A l : InChain(l)' <=> InChain(l)
      /\ \A a \in Buckets, l \in Lines : OnChain(a, l)' <=> OnChain(a, l)
  BY <1>4, SameChains
<1>9. /\ \A l : ~ Moving(l) /\ ~ Moving(l)'
      /\ \A l : InPool(l)' <=> InPool(l)
      /\ \A l \in Lines : EmptyLine(l)' <=> EmptyLine(l)
  BY <1>3, <1>4 DEF Moving, InPool, EmptyLine
<1>10. OnChain(b, b) /\ ~ InPool(b)  BY <1>2, FirstOfBucket
<1>11. Structure'
  <2>1. PoolDistinct' /\ Placed'
    BY <1>3, <1>8, <1>9 DEF PoolDistinct, Placed, Inv, Structure
  <2>2. TagsUnique'  BY <1>4, <1>6 DEF TagsUnique, Inv, Structure
  <2>3. TagsHome'
    <3>1. ASSUME NEW l \in Lines, line'[l].tag # None
          PROVE  OnChain(get_bucket(line[l].tag), l)'
      <4>1. CASE l = b  BY <4>1, <1>2, <1>4, <1>8, <1>10, <1>0
      <4>2. CASE l # b
        <5>1. line'[l].tag = line[l].tag  BY <4>2, <1>4
        <5>2. get_bucket(line[l].tag) \in Buckets  BY <3>1, <5>1, TagFacts
        <5>3. OnChain(get_bucket(line[l].tag), l)
          BY <3>1, <5>1, <1>9 DEF Inv, Structure, TagsHome
        <5>. QED  BY <5>1, <5>2, <5>3, <1>8
      <4>. QED  BY <4>1, <4>2
    <3>. QED  BY <3>1 DEF TagsHome
  <2>4. PoolEmpty'  BY <1>4, <1>9, <1>10 DEF PoolEmpty, Inv, Structure
  <2>5. MovingEmpty'  BY <1>3, <1>9 DEF MovingEmpty
  <2>6. Untagged'  BY <1>2, <1>4, <1>9 DEF Untagged, Inv, Structure
  <2>. QED  BY <1>8, <2>1, <2>2, <2>3, <2>4, <2>5, <2>6 DEF Structure
<1>12. JobOK'
  <2>1. ~ header[b][Offset(v)].busy  BY <1>2, <1>7, EmptyFacts DEF InUse
  <2>. QED  BY <1>1, <1>2, <1>3, <1>4, <2>1, LinesType, <1>0 DEF JobOK
<1>13. \A d \in Clients : SameClient(d)  BY <1>3 DEF SameClient
<1>14. \A l \in Lines : \A o \in Offsets : InUse(l, o) => line'[l].tag = line[l].tag
  BY <1>4, <1>7, EmptyFacts
<1>. QED  BY <1>3, <1>4, <1>5, <1>11, <1>12, <1>13, <1>14, LineStep

\* Otherwise a line of the pool gets it.
LEMMA ServeCreatePoolInv ==
    ASSUME Inv, NEW c \in Clients, ServeCreatePool(c)
    PROVE  Inv'
<1>1. PICK v \in Pages : v = page[c]  BY WaitsFacts DEF ServeCreatePool
<1>2. PICK k : k = Last(pool)  OBVIOUS
<1>0. PICK t, b : t = Tag(v) /\ b = get_bucket(t)  OBVIOUS
<1>3. /\ pc[c] = "wait" /\ op[c] = "pin" /\ ctx[c].phase = "End" /\ c # None
      /\ Offset(v) \in Offsets /\ t \in Nat /\ t # None /\ t \in Tags /\ b \in Buckets /\ b \in Lines
  BY <1>0, <1>1, WaitsFacts, TagType DEF ServeCreatePool
<1>4. /\ srv_pc = "loop" /\ ~ HasLine(t) /\ pool # <<>>
      /\ line' = [line EXCEPT ![k].tag = t] /\ header' = header /\ pool' = Front(pool)
      /\ srv_pc' = "link" /\ job' = [client |-> c, line |-> k, pre |-> Last(Chain(b))]
      /\ allocated' = allocated /\ evictable' = evictable /\ ctx' = ctx
      /\ pc' = pc /\ op' = op /\ page' = page /\ at' = at /\ first' = first /\ frame' = frame
  BY <1>0, <1>1, <1>2 DEF ServeCreatePool, policy, client
<1>5. /\ pool \in Seq(Lines) /\ Len(pool) \in Nat \ {0} /\ k = pool[Len(pool)] /\ k \in Lines
  BY <1>2, <1>4 DEF Inv, TypeOK, Last
<1>6. /\ pool' \in Seq(Lines) /\ Len(pool') = Len(pool) - 1
      /\ \A i \in 1 .. Len(pool) - 1 : pool'[i] = pool[i]
  <2>1. PICK n \in Nat : n = Len(pool) - 1  BY <1>5
  <2>2. pool' = SubSeq(pool, 1, n)  BY <2>1, <1>4 DEF Front
  <2>3. \A i \in 1 .. n : pool[i] \in Lines  BY <1>5, <2>1
  <2>4. Len(SubSeq(pool, 1, n)) = n /\ SubSeq(pool, 1, n) \in Seq(Lines)
    BY <1>5, <2>1, SubSeqProperties
  <2>5. \A i \in 1 .. n : SubSeq(pool, 1, n)[i] = pool[i]
    BY <1>5, <2>1, <2>4
  <2>. QED  BY <2>1, <2>2, <2>4, <2>5
<1>7. /\ line' \in [Lines -> LineType]
      /\ \A l \in Lines : /\ line'[l].next = line[l].next
                          /\ line'[l].num_using = line[l].num_using
                          /\ line'[l].tag = IF l = k THEN t ELSE line[l].tag
  <2>1. k \in Lines /\ t \in Tags \cup {None}  BY <1>3, <1>5
  <2>. QED  BY <1>4, <2>1, TagSet
<1>8. /\ Last(Chain(b)) \in Lines /\ Last(Chain(b)) = Chain(b)[Len(Chain(b))]
  BY <1>3, ChainFacts DEF Last
<1>9. TypeOK'
  BY <1>3, <1>4, <1>5, <1>6, <1>7, <1>8 DEF Inv, TypeOK, LineType
<1>10. \A l \in Lines : line[l].tag # t  BY <1>4, NewTag, <1>0
<1>11. InPool(k)  BY <1>5 DEF InPool
<1>12. /\ line[k].tag = None /\ line[k].next = None /\ EmptyLine(k) /\ ~ InChain(k)
  BY <1>5, <1>11 DEF Inv, Structure, PoolEmpty, Untagged, Placed
<1>13. /\ \A a \in Buckets : Chain(a)' = Chain(a)
       /\ ChainsOK'
       /\ \A l : InChain(l)' <=> InChain(l)
       /\ \A a \in Buckets, l \in Lines : OnChain(a, l)' <=> OnChain(a, l)
  BY <1>7, SameChains
<1>14. /\ \A l : ~ Moving(l) /\ (Moving(l)' <=> l = k)
       /\ \A l \in Lines : EmptyLine(l)' <=> EmptyLine(l)
  BY <1>4, <1>7 DEF Moving, EmptyLine
<1>15. \A l : InPool(l)' <=> InPool(l) /\ l # k
  <2>1. PoolDistinct  BY DEF Inv, Structure
  <2>2. ASSUME NEW l, InPool(l)' PROVE InPool(l) /\ l # k
    <3>1. PICK i \in 1 .. Len(pool) - 1 : pool[i] = l  BY <1>6, <2>2 DEF InPool
    <3>2. i \in 1 .. Len(pool) /\ Len(pool) \in 1 .. Len(pool) /\ i # Len(pool)  BY <1>5
    <3>. QED  BY <1>5, <2>1, <3>1, <3>2 DEF InPool, PoolDistinct
  <2>3. ASSUME NEW l, InPool(l), l # k PROVE InPool(l)'
    <3>1. PICK i \in 1 .. Len(pool) : pool[i] = l  BY <2>3 DEF InPool
    <3>2. i \in 1 .. Len(pool) - 1  BY <1>5, <2>3, <3>1
    <3>. QED  BY <1>6, <3>1, <3>2 DEF InPool
  <2>. QED  BY <2>2, <2>3
<1>16. Structure'
  <2>1. PoolDistinct'
    BY <1>5, <1>6 DEF PoolDistinct, Inv, Structure
  <2>2. Placed'
    <3>1. ASSUME NEW l \in Lines
          PROVE  /\ InChain(l)' \/ InPool(l)' \/ Moving(l)'
                 /\ ~ (InChain(l)' /\ InPool(l)')
                 /\ ~ (InChain(l)' /\ Moving(l)')
                 /\ ~ (InPool(l)' /\ Moving(l)')
      <4>1. (InChain(l) \/ InPool(l)) /\ ~ (InChain(l) /\ InPool(l))
        BY <1>14 DEF Placed, Inv, Structure
      <4>2. InChain(l)' <=> InChain(l)  BY <1>13
      <4>. QED  BY <4>1, <4>2, <1>12, <1>14, <1>15
    <3>. QED  BY <3>1 DEF Placed
  <2>3. TagsUnique'  BY <1>7, <1>10 DEF TagsUnique, Inv, Structure
  <2>4. TagsHome'
    <3>1. ASSUME NEW l \in Lines, line'[l].tag # None, l # k
          PROVE  OnChain(get_bucket(line[l].tag), l)'
      <4>1. line'[l].tag = line[l].tag  BY <3>1, <1>7
      <4>2. get_bucket(line[l].tag) \in Buckets  BY <3>1, <4>1, TagFacts
      <4>3. OnChain(get_bucket(line[l].tag), l)
        BY <3>1, <4>1, <1>14 DEF Inv, Structure, TagsHome
      <4>4. PICK a \in Buckets : a = get_bucket(line[l].tag)  BY <4>2
      <4>5. OnChain(a, l)'  BY <4>3, <4>4, <1>13
      <4>. QED  BY <4>1, <4>4, <4>5
    <3>. QED  BY <3>1, <1>14 DEF TagsHome
  <2>5. PoolEmpty'  BY <1>7, <1>15 DEF PoolEmpty, Inv, Structure
  <2>6. MovingEmpty'
    <3>1. \A l \in Lines : Moving(l)' => EmptyLine(l)' /\ line'[l].tag # None
      BY <1>3, <1>7, <1>12, <1>14
    <3>2. line'[job'.line].next = None  BY <1>4, <1>5, <1>7, <1>12
    <3>3. (LET w == Chain(get_bucket(line[job.line].tag)) IN job.pre = w[Len(w)])'
      <4>1. job'.line = k /\ line'[k].tag = t /\ job'.pre = Chain(b)[Len(Chain(b))]
        BY <1>4, <1>5, <1>7, <1>8
      <4>2. ChainIn(line', b) = Chain(b)  BY <1>3, <1>13, ChainThen
      <4>3. Chain(get_bucket(line[job.line].tag))' = ChainIn(line', get_bucket(line'[job'.line].tag))
        BY DEF Chain, ChainIn
      <4>. QED  BY <4>1, <4>2, <4>3, <1>0
    <3>. QED  BY <1>4, <3>1, <3>2, <3>3 DEF MovingEmpty
  <2>7. Untagged'  BY <1>3, <1>7, <1>14 DEF Untagged, Inv, Structure
  <2>. QED  BY <1>13, <2>1, <2>2, <2>3, <2>4, <2>5, <2>6, <2>7 DEF Structure
<1>17. JobOK'
  <2>1. ~ header[k][Offset(v)].busy  BY <1>3, <1>5, <1>12, EmptyFacts DEF InUse
  <2>. QED  BY <1>1, <1>3, <1>4, <1>5, <1>7, <1>8, <2>1, LinesType, <1>0 DEF JobOK
<1>18. \A d \in Clients : SameClient(d)  BY <1>4 DEF SameClient
<1>19. \A l \in Lines : \A o \in Offsets : InUse(l, o) => line'[l].tag = line[l].tag
  BY <1>7, <1>12, EmptyFacts
<1>. QED  BY <1>4, <1>7, <1>9, <1>16, <1>17, <1>18, <1>19, LineStep

\* A step inside one chain leaves the others alone.
LEMMA OtherChains ==
    ASSUME Inv, NEW b \in Buckets, NEW w,
           IsWalk(line', b, w),
           \A i \in 1 .. Len(w) : \A a \in Buckets \ {b} : ~ OnChain(a, w[i]),
           \A i, j \in 1 .. Len(w) : w[i] = w[j] => i = j,
           \A l \in Lines : ~ OnChain(b, l) /\ InChain(l) => line'[l].next = line[l].next
    PROVE  /\ Chain(b)' = w /\ \A a \in Buckets \ {b} : Chain(a)' = Chain(a)
           /\ ChainsOK'
           /\ \A a \in Buckets \ {b} : \A l : OnChain(a, l)' <=> OnChain(a, l)
           /\ \A l : InChain(l)' <=> \/ \E i \in 1 .. Len(w) : w[i] = l
                                     \/ \E a \in Buckets \ {b} : OnChain(a, l)
<1>. DEFINE C == [a \in Buckets |-> IF a = b THEN w ELSE Chain(a)]
<1>0. /\ \A x, y \in Buckets : \A i \in 1 .. Len(Chain(x)), j \in 1 .. Len(Chain(y)) :
            Chain(x)[i] = Chain(y)[j] => x = y /\ i = j
  BY DEF Inv, Structure, ChainsOK, DisjointIn, Chains
<1>1. ASSUME NEW a \in Buckets \ {b} PROVE IsWalk(line', a, Chain(a))
  <2>1. IsWalk(line, a, Chain(a)) /\ Chain(a) \in Seq(Lines)  BY ChainFacts
  <2>2. ASSUME NEW i \in 1 .. Len(Chain(a))
        PROVE  line'[Chain(a)[i]].next = line[Chain(a)[i]].next
    <3>1. Chain(a)[i] \in Lines /\ InChain(Chain(a)[i])  BY <2>1 DEF InChain, OnChain
    <3>2. ~ OnChain(b, Chain(a)[i])  BY <1>0 DEF OnChain
    <3>. QED  BY <3>1, <3>2
  <2>. QED  BY <2>1, <2>2, WalkKept
<1>2. IsFamily(line', C)  BY <1>1 DEF IsFamily
<1>3. DisjointIn(C)
  <2>1. ASSUME NEW x \in Buckets, NEW y \in Buckets,
               NEW i \in 1 .. Len(C[x]), NEW j \in 1 .. Len(C[y]), C[x][i] = C[y][j]
        PROVE  x = y /\ i = j
    <3>1. CASE x = b /\ y = b  BY <2>1, <3>1
    <3>2. CASE x = b /\ y # b
      <4>1. C[x] = w /\ C[y] = Chain(y)  BY <3>2
      <4>2. OnChain(y, w[i])  BY <2>1, <4>1 DEF OnChain
      <4>. QED  BY <3>2, <4>1, <4>2
    <3>3. CASE x # b /\ y = b
      <4>1. C[x] = Chain(x) /\ C[y] = w  BY <3>3
      <4>2. OnChain(x, w[j])  BY <2>1, <4>1 DEF OnChain
      <4>. QED  BY <3>3, <4>1, <4>2
    <3>4. CASE x # b /\ y # b
      <4>1. C[x] = Chain(x) /\ C[y] = Chain(y)  BY <3>4
      <4>. QED  BY <2>1, <4>1, <1>0
    <3>. QED  BY <3>1, <3>2, <3>3, <3>4
  <2>. QED  BY <2>1 DEF DisjointIn
<1>4. (\A a \in Buckets : Chain(a)' = C[a]) /\ ChainsOK'
  <2>1. C = [a \in Buckets |-> C[a]]  OBVIOUS
  <2>. HIDE DEF C
  <2>. QED  BY <1>2, <1>3, <2>1, NewChains
<1>5. Chain(b)' = w /\ \A a \in Buckets \ {b} : Chain(a)' = Chain(a)
  BY <1>4
<1>6. \A a \in Buckets \ {b} : \A l : OnChain(a, l)' <=> OnChain(a, l)
  BY <1>5 DEF OnChain
<1>7. \A l : OnChain(b, l)' <=> \E i \in 1 .. Len(w) : w[i] = l
  BY <1>5 DEF OnChain
<1>. QED  BY <1>4, <1>5, <1>6, <1>7 DEF InChain

\* Linking a line to the end of a chain appends it there.
LEMMA LinkChains ==
    ASSUME Inv, NEW b \in Buckets, NEW k \in Lines, ~ InChain(k), line[k].next = None,
           \A l \in Lines : line'[l].next = IF l = Chain(b)[Len(Chain(b))] THEN k ELSE line[l].next
    PROVE  /\ Chain(b)' = Append(Chain(b), k)
           /\ \A a \in Buckets \ {b} : Chain(a)' = Chain(a)
           /\ ChainsOK'
           /\ \A a \in Buckets : \A l : OnChain(a, l)' <=> (OnChain(a, l) \/ (a = b /\ l = k))
           /\ \A l : InChain(l)' <=> (InChain(l) \/ l = k)
<1>. DEFINE u == Chain(b)
            w == Append(u, k)
<1>1. u \in Seq(Lines) /\ Len(u) \in Nat /\ Len(u) >= 1 /\ IsWalk(line, b, u)
  BY ChainFacts
<1>2. /\ w \in Seq(Lines) /\ Len(w) = Len(u) + 1
      /\ \A i \in 1 .. Len(u) : w[i] = u[i] /\ w[Len(u) + 1] = k
  BY <1>1
<1>0. \A x, y \in Buckets : \A i \in 1 .. Len(Chain(x)), j \in 1 .. Len(Chain(y)) :
            Chain(x)[i] = Chain(y)[j] => x = y /\ i = j
  BY DEF Inv, Structure, ChainsOK, DisjointIn, Chains
<1>3. /\ \A i \in 1 .. Len(u) : u[i] \in Lines /\ u[i] # k /\ OnChain(b, u[i])
      /\ \A i, j \in 1 .. Len(u) : u[i] = u[j] => i = j
  BY <1>0, <1>1 DEF InChain, OnChain
<1>4. IsWalk(line', b, w)
  <2>1. /\ \A i \in 1 .. Len(u) - 1 : line'[u[i]].next = line[u[i]].next
        /\ line'[u[Len(u)]].next = k
    BY <1>1, <1>3
  <2>2. line'[k].next = None  BY <1>1, <1>3
  <2>. HIDE DEF u
  <2>. QED  BY <1>1, <2>1, <2>2, WalkAppended
<1>. HIDE DEF w
<1>5. ASSUME NEW i \in 1 .. Len(w), NEW a \in Buckets \ {b} PROVE ~ OnChain(a, w[i])
  <2>1. CASE i = Len(u) + 1
    <3>1. w[i] = k  BY <2>1, <1>1, <1>2
    <3>. QED  BY <3>1 DEF InChain
  <2>2. CASE i # Len(u) + 1
    <3>1. i \in 1 .. Len(u) /\ w[i] = u[i]  BY <2>2, <1>1, <1>2
    <3>. QED  BY <3>1, <1>0 DEF OnChain
  <2>. QED  BY <2>1, <2>2
<1>6. ASSUME NEW i \in 1 .. Len(w), NEW j \in 1 .. Len(w), w[i] = w[j] PROVE i = j
  <2>1. \A n \in 1 .. Len(w) : n = Len(u) + 1 \/ n \in 1 .. Len(u)  BY <1>1, <1>2
  <2>2. w[Len(u) + 1] = k  BY <1>1, <1>2
  <2>. QED  BY <1>2, <1>3, <1>6, <2>1, <2>2
<1>7. \A l \in Lines : ~ OnChain(b, l) /\ InChain(l) => line'[l].next = line[l].next
  BY <1>1, <1>3
<1>8. /\ Chain(b)' = w /\ \A a \in Buckets \ {b} : Chain(a)' = Chain(a)
      /\ ChainsOK'
      /\ \A a \in Buckets \ {b} : \A l : OnChain(a, l)' <=> OnChain(a, l)
  BY <1>4, <1>5, <1>6, <1>7, OtherChains
<1>9. \A l : OnChain(b, l)' <=> (OnChain(b, l) \/ l = k)
  <2>1. \A l : OnChain(b, l)' <=> \E i \in 1 .. Len(w) : w[i] = l
    BY <1>8 DEF OnChain
  <2>2. \A l : OnChain(b, l) <=> \E i \in 1 .. Len(u) : u[i] = l
    BY DEF OnChain
  <2>3. ASSUME NEW l, NEW i \in 1 .. Len(w), w[i] = l PROVE l = k \/ \E j \in 1 .. Len(u) : u[j] = l
    BY <1>1, <1>2, <2>3
  <2>4. ASSUME NEW l, NEW j \in 1 .. Len(u), u[j] = l PROVE \E i \in 1 .. Len(w) : w[i] = l
    BY <1>1, <1>2, <2>4
  <2>5. \E i \in 1 .. Len(w) : w[i] = k
    BY <1>1, <1>2, Len(u) + 1 \in 1 .. Len(w)
  <2>. QED  BY <2>1, <2>2, <2>3, <2>4, <2>5
<1>10. \A a \in Buckets : \A l : OnChain(a, l)' <=> (OnChain(a, l) \/ (a = b /\ l = k))
  BY <1>8, <1>9
<1>11. \A l : InChain(l)' <=> (InChain(l) \/ l = k)
  BY <1>10 DEF InChain
<1>. QED  BY <1>8, <1>10, <1>11 DEF w

\* Cutting a line removes it from its chain.
LEMMA CutChains ==
    ASSUME Inv, NEW b \in Buckets, NEW n \in 2 .. Len(Chain(b)), NEW k, k = Chain(b)[n],
           \A l \in Lines : l # Chain(b)[n - 1] => line'[l].next = line[l].next,
           line'[Chain(b)[n - 1]].next = line[k].next
    PROVE  /\ Chain(b)' = Without(Chain(b), n)
           /\ \A a \in Buckets \ {b} : Chain(a)' = Chain(a)
           /\ ChainsOK'
           /\ \A a \in Buckets : \A l : OnChain(a, l)' <=> (OnChain(a, l) /\ l # k)
           /\ \A l : InChain(l)' <=> (InChain(l) /\ l # k)
<1>. DEFINE u == Chain(b)
            w == Without(u, n)
<1>1. u \in Seq(Lines) /\ Len(u) \in Nat /\ Len(u) >= 1 /\ IsWalk(line, b, u) /\ n \in Nat /\ 2 <= n /\ n <= Len(u)
  BY ChainFacts
<1>2. /\ w \in Seq(Lines) /\ Len(w) = Len(u) - 1
      /\ \A j \in 1 .. Len(u) - 1 : w[j] = IF j < n THEN u[j] ELSE u[j + 1]
  BY <1>1, WithoutProps
<1>0. \A x, y \in Buckets : \A i \in 1 .. Len(Chain(x)), j \in 1 .. Len(Chain(y)) :
            Chain(x)[i] = Chain(y)[j] => x = y /\ i = j
  BY DEF Inv, Structure, ChainsOK, DisjointIn, Chains
<1>3. /\ \A i \in 1 .. Len(u) : u[i] \in Lines /\ OnChain(b, u[i])
      /\ \A i, j \in 1 .. Len(u) : u[i] = u[j] => i = j
  BY <1>0, <1>1 DEF OnChain
<1>4. IsWalk(line', b, w)
  <2>1. \A i \in 1 .. Len(u) : i \notin {n - 1, n} => line'[u[i]].next = line[u[i]].next
    <3>1. n - 1 \in 1 .. Len(u)  BY <1>1
    <3>. QED  BY <1>3, <3>1
  <2>2. line'[u[n - 1]].next = line[u[n]].next  OBVIOUS
  <2>. HIDE DEF u
  <2>. QED  BY <1>1, <2>1, <2>2, WalkCut DEF u
<1>. HIDE DEF w
<1>5. ASSUME NEW i \in 1 .. Len(w)
      PROVE  \E j \in 1 .. Len(u) : w[i] = u[j] /\ j # n /\ j = IF i < n THEN i ELSE i + 1
  <2>1. CASE i < n
    <3>1. i \in 1 .. Len(u) /\ i \in 1 .. Len(u) - 1 /\ w[i] = u[i] /\ i # n  BY <2>1, <1>1, <1>2
    <3>. QED  BY <2>1, <3>1
  <2>2. CASE ~ (i < n)
    <3>1. i + 1 \in 1 .. Len(u) /\ i \in 1 .. Len(u) - 1 /\ w[i] = u[i + 1] /\ i + 1 # n
      BY <2>2, <1>1, <1>2
    <3>. QED  BY <2>2, <3>1
  <2>. QED  BY <2>1, <2>2
<1>6. ASSUME NEW j \in 1 .. Len(u), j # n PROVE \E i \in 1 .. Len(w) : w[i] = u[j]
  <2>1. CASE j < n
    <3>1. j \in 1 .. Len(w) /\ w[j] = u[j]  BY <2>1, <1>1, <1>2
    <3>. QED  BY <3>1
  <2>2. CASE ~ (j < n)
    <3>1. j - 1 \in 1 .. Len(u) - 1 /\ ~ (j - 1 < n) /\ (j - 1) + 1 = j  BY <2>2, <1>1, <1>6
    <3>2. w[j - 1] = u[j] /\ j - 1 \in 1 .. Len(w)  BY <3>1, <1>2
    <3>. QED  BY <3>2
  <2>. QED  BY <2>1, <2>2
<1>7. ASSUME NEW i \in 1 .. Len(w), NEW a \in Buckets \ {b} PROVE ~ OnChain(a, w[i])
  BY <1>0, <1>5 DEF OnChain
<1>8. ASSUME NEW i \in 1 .. Len(w), NEW j \in 1 .. Len(w), w[i] = w[j] PROVE i = j
  <2>1. PICK x \in 1 .. Len(u) : w[i] = u[x] /\ x = IF i < n THEN i ELSE i + 1  BY <1>5
  <2>2. PICK y \in 1 .. Len(u) : w[j] = u[y] /\ y = IF j < n THEN j ELSE j + 1  BY <1>5
  <2>3. x = y  BY <1>3, <1>8, <2>1, <2>2
  <2>. QED  BY <1>1, <1>2, <2>1, <2>2, <2>3
<1>9. \A l \in Lines : ~ OnChain(b, l) /\ InChain(l) => line'[l].next = line[l].next
  <2>1. OnChain(b, u[n - 1])  BY <1>1, <1>3
  <2>. QED  BY <2>1
<1>10. /\ Chain(b)' = w /\ \A a \in Buckets \ {b} : Chain(a)' = Chain(a)
       /\ ChainsOK'
       /\ \A a \in Buckets \ {b} : \A l : OnChain(a, l)' <=> OnChain(a, l)
  BY <1>4, <1>7, <1>8, <1>9, OtherChains
<1>11. \A l : OnChain(b, l)' <=> (OnChain(b, l) /\ l # k)
  <2>1. \A l : OnChain(b, l)' <=> \E i \in 1 .. Len(w) : w[i] = l
    BY <1>10 DEF OnChain
  <2>2. \A l : OnChain(b, l) <=> \E i \in 1 .. Len(u) : u[i] = l
    BY DEF OnChain
  <2>3. n \in 1 .. Len(u) /\ u[n] = k  BY <1>1
  <2>4. ASSUME NEW l, NEW i \in 1 .. Len(w), w[i] = l
        PROVE  l # k /\ \E j \in 1 .. Len(u) : u[j] = l
    <3>1. PICK j \in 1 .. Len(u) : w[i] = u[j] /\ j # n  BY <1>5
    <3>. QED  BY <2>3, <2>4, <3>1, <1>3
  <2>5. ASSUME NEW l, NEW j \in 1 .. Len(u), u[j] = l, l # k PROVE \E i \in 1 .. Len(w) : w[i] = l
    BY <1>6, <2>3, <2>5
  <2>. QED  BY <2>1, <2>2, <2>4, <2>5
<1>12. ASSUME NEW a \in Buckets \ {b} PROVE ~ OnChain(a, k)
  BY <1>0, <1>1 DEF OnChain
<1>13. \A a \in Buckets : \A l : OnChain(a, l)' <=> (OnChain(a, l) /\ l # k)
  BY <1>10, <1>11, <1>12
<1>14. \A l : InChain(l)' <=> (InChain(l) /\ l # k)
  BY <1>13 DEF InChain
<1>. QED  BY <1>10, <1>13, <1>14 DEF w

\* A line with the server is empty, and at no other place.
LEMMA MovingFacts ==
    ASSUME Inv, srv_pc \in {"link", "cut", "push"}
    PROVE  /\ job.line \in Lines /\ Moving(job.line) /\ EmptyLine(job.line)
           /\ line[job.line].tag # None
           /\ ~ InChain(job.line) /\ ~ InPool(job.line)
           /\ \A l : Moving(l) <=> l = job.line
           /\ \A o \in Offsets : ~ InUse(job.line, o)
<1>1. job.line \in Lines  BY DEF Inv, JobOK, TypeOK
<1>2. \A l : Moving(l) <=> l = job.line  BY DEF Moving
<1>3. EmptyLine(job.line) /\ line[job.line].tag # None
  BY <1>1, <1>2 DEF Inv, Structure, MovingEmpty
<1>. QED  BY <1>1, <1>2, <1>3, EmptyFacts DEF Inv, Structure, Placed

\* The server links the line with the tag to the end of its chain.
LEMMA ServeLinkInv ==
    ASSUME Inv, ServeLink
    PROVE  Inv'
<1>1. PICK k, p, c : k = job.line /\ p = job.pre /\ c = job.client  OBVIOUS
<1>2. /\ srv_pc = "link" /\ line' = [line EXCEPT ![p].next = k] /\ srv_pc' = "init"
      /\ job' = [job EXCEPT !.pre = None]
      /\ header' = header /\ pool' = pool /\ allocated' = allocated /\ evictable' = evictable
      /\ ctx' = ctx /\ pc' = pc /\ op' = op /\ page' = page /\ at' = at /\ first' = first /\ frame' = frame
  BY <1>1 DEF ServeLink, Linked, policy, client
<1>3. /\ k \in Lines /\ Moving(k) /\ EmptyLine(k) /\ line[k].tag # None /\ ~ InChain(k) /\ ~ InPool(k)
      /\ \A l : Moving(l) <=> l = k
  BY <1>1, <1>2, MovingFacts
<1>4. PICK b \in Buckets : b = get_bucket(line[k].tag)  BY <1>3, TagFacts
<1>5. /\ line[k].next = None /\ p = Chain(b)[Len(Chain(b))] /\ p \in Lines
  <2>1. line[k].next = None /\ p = Chain(b)[Len(Chain(b))]
    BY <1>1, <1>2, <1>4 DEF Inv, Structure, MovingEmpty
  <2>. QED  BY <2>1, ChainFacts
<1>6. /\ line' \in [Lines -> LineType]
      /\ \A l \in Lines : /\ line'[l].tag = line[l].tag
                          /\ line'[l].num_using = line[l].num_using
                          /\ line'[l].next = IF l = p THEN k ELSE line[l].next
  <2>1. p \in Lines /\ k \in Lines \cup {None} /\ line' = [line EXCEPT ![p].next = k]
    BY <1>2, <1>3, <1>5
  <2>. QED  BY <2>1, NextSet
<1>7. /\ job' \in [client : Clients \cup {None}, line : Lines \cup {None}, pre : Lines \cup {None}]
      /\ job'.client = c /\ job'.line = k
  BY <1>1, <1>2 DEF Inv, TypeOK
<1>8. TypeOK'  BY <1>2, <1>6, <1>7 DEF Inv, TypeOK, LineType
<1>9. /\ ChainsOK'
      /\ \A a \in Buckets : \A l : OnChain(a, l)' <=> (OnChain(a, l) \/ (a = b /\ l = k))
      /\ \A l : InChain(l)' <=> (InChain(l) \/ l = k)
  BY <1>3, <1>5, <1>6, LinkChains
<1>10. /\ \A l : ~ Moving(l)'
       /\ \A l : InPool(l)' <=> InPool(l)
       /\ \A l \in Lines : EmptyLine(l)' <=> EmptyLine(l)
  BY <1>2, <1>6 DEF Moving, InPool, EmptyLine
<1>11. Structure'
  <2>1. PoolDistinct'  BY <1>2 DEF PoolDistinct, Inv, Structure
  <2>2. Placed'
    <3>1. ASSUME NEW l \in Lines
          PROVE  (InChain(l)' \/ InPool(l)') /\ ~ (InChain(l)' /\ InPool(l)')
      <4>1. (InChain(l) \/ InPool(l) \/ l = k) /\ ~ (InChain(l) /\ InPool(l))
        BY <1>3 DEF Placed, Inv, Structure
      <4>. QED  BY <4>1, <1>3, <1>9, <1>10
    <3>. QED  BY <3>1, <1>10 DEF Placed
  <2>3. TagsUnique'  BY <1>6 DEF TagsUnique, Inv, Structure
  <2>4. TagsHome'
    <3>1. ASSUME NEW l \in Lines, line'[l].tag # None
          PROVE  OnChain(get_bucket(line[l].tag), l)'
      <4>1. line'[l].tag = line[l].tag /\ line[l].tag # None  BY <3>1, <1>6
      <4>2. PICK a \in Buckets : a = get_bucket(line[l].tag)  BY <4>1, TagFacts
      <4>3. OnChain(a, l) \/ l = k  BY <4>1, <4>2, <1>3 DEF Inv, Structure, TagsHome
      <4>4. OnChain(a, l)'  BY <4>2, <4>3, <1>4, <1>9
      <4>. QED  BY <4>1, <4>2, <4>4
    <3>. QED  BY <3>1 DEF TagsHome
  <2>5. PoolEmpty'
    <3>1. ~ InPool(p)
      <4>1. InChain(p)  BY <1>5, ChainFacts DEF InChain, OnChain
      <4>. QED  BY <4>1, <1>5 DEF Inv, Structure, Placed
    <3>. QED  BY <1>6, <1>10, <3>1 DEF PoolEmpty, Inv, Structure
  <2>6. MovingEmpty'  BY <1>2, <1>10 DEF MovingEmpty
  <2>7. Untagged'  BY <1>6, <1>10 DEF Untagged, Inv, Structure
  <2>. QED  BY <1>9, <2>1, <2>2, <2>3, <2>4, <2>5, <2>6, <2>7 DEF Structure
<1>12. JobOK'
  <2>1. /\ c # None /\ k # None
        /\ pc[c] = "wait" /\ op[c] = "pin" /\ ctx[c].phase = "End"
        /\ line[k].tag = Tag(page[c])
        /\ ~ header[k][Offset(page[c])].busy
    BY <1>1, <1>2 DEF Inv, JobOK
  <2>. QED  BY <1>2, <1>3, <1>6, <1>7, <2>1 DEF JobOK
<1>13. \A d \in Clients : SameClient(d)  BY <1>2 DEF SameClient
<1>. QED  BY <1>2, <1>6, <1>8, <1>11, <1>12, <1>13, LineStep

\* The next of a line that was cut is cleared: a walk on it ends here.
LEMMA DeleteCutInv ==
    ASSUME Inv, DeleteCut
    PROVE  Inv'
<1>1. PICK k : k = job.line  OBVIOUS
<1>2. /\ srv_pc = "cut" /\ line' = [line EXCEPT ![k].next = None] /\ srv_pc' = "push"
      /\ job' = job
      /\ header' = header /\ pool' = pool /\ allocated' = allocated /\ evictable' = evictable
      /\ ctx' = ctx /\ pc' = pc /\ op' = op /\ page' = page /\ at' = at /\ first' = first /\ frame' = frame
  BY <1>1 DEF DeleteCut, policy, client
<1>3. /\ k \in Lines /\ Moving(k) /\ EmptyLine(k) /\ line[k].tag # None /\ ~ InChain(k) /\ ~ InPool(k)
      /\ \A l : Moving(l) <=> l = k
  BY <1>1, <1>2, MovingFacts
<1>4. /\ line' \in [Lines -> LineType]
      /\ \A l \in Lines : /\ line'[l].tag = line[l].tag
                          /\ line'[l].num_using = line[l].num_using
                          /\ line'[l].next = IF l = k THEN None ELSE line[l].next
  BY <1>2, <1>3, NextSet
<1>5. TypeOK'  BY <1>2, <1>4 DEF Inv, TypeOK, LineType
<1>6. /\ ChainsOK'
      /\ \A l : InChain(l)' <=> InChain(l)
      /\ \A a \in Buckets, l \in Lines : OnChain(a, l)' <=> OnChain(a, l)
  BY <1>3, <1>4, SameChains
<1>7. /\ \A l : Moving(l)' <=> Moving(l)
      /\ \A l : InPool(l)' <=> InPool(l)
      /\ \A l \in Lines : EmptyLine(l)' <=> EmptyLine(l)
  BY <1>2, <1>4 DEF Moving, InPool, EmptyLine
<1>8. Structure'
  <2>1. PoolDistinct' /\ Placed'
    BY <1>2, <1>6, <1>7 DEF PoolDistinct, Placed, Inv, Structure
  <2>2. TagsUnique'  BY <1>4 DEF TagsUnique, Inv, Structure
  <2>3. TagsHome'
    <3>1. ASSUME NEW l \in Lines, line'[l].tag # None
          PROVE  Moving(l)' \/ OnChain(get_bucket(line[l].tag), l)'
      <4>1. line'[l].tag = line[l].tag /\ line[l].tag # None  BY <3>1, <1>4
      <4>2. PICK a \in Buckets : a = get_bucket(line[l].tag)  BY <4>1, TagFacts
      <4>3. OnChain(a, l) \/ Moving(l)  BY <4>1, <4>2 DEF Inv, Structure, TagsHome
      <4>4. OnChain(a, l)' \/ Moving(l)'  BY <4>3, <1>6, <1>7
      <4>. QED  BY <4>1, <4>2, <4>4
    <3>. QED  BY <3>1 DEF TagsHome
  <2>4. PoolEmpty' /\ Untagged'  BY <1>4, <1>7 DEF PoolEmpty, Untagged, Inv, Structure
  <2>5. MovingEmpty'
    <3>1. \A l \in Lines : Moving(l)' => EmptyLine(l)' /\ line'[l].tag # None
      BY <1>3, <1>4, <1>7
    <3>2. line'[job'.line].next = None  BY <1>1, <1>2, <1>3, <1>4
    <3>. QED  BY <1>2, <3>1, <3>2 DEF MovingEmpty
  <2>. QED  BY <1>6, <2>1, <2>2, <2>3, <2>4, <2>5 DEF Structure
<1>9. JobOK'  BY <1>2 DEF JobOK, Inv
<1>10. \A d \in Clients : SameClient(d)  BY <1>2 DEF SameClient
<1>. QED  BY <1>2, <1>4, <1>5, <1>8, <1>9, <1>10, LineStep

\* The line loses its tag and returns to the pool.
LEMMA DeletePushInv ==
    ASSUME Inv, DeletePush
    PROVE  Inv'
<1>1. PICK k : k = job.line  OBVIOUS
<1>2. /\ srv_pc = "push" /\ line' = [line EXCEPT ![k].tag = None] /\ srv_pc' = "loop"
      /\ job' = NoJob /\ pool' = Append(pool, k)
      /\ header' = header /\ allocated' = allocated /\ evictable' = evictable
      /\ ctx' = ctx /\ pc' = pc /\ op' = op /\ page' = page /\ at' = at /\ first' = first /\ frame' = frame
  BY <1>1 DEF DeletePush, policy, client
<1>3. /\ k \in Lines /\ Moving(k) /\ EmptyLine(k) /\ ~ InChain(k) /\ ~ InPool(k)
      /\ \A l : Moving(l) <=> l = k
      /\ \A o \in Offsets : ~ InUse(k, o)
  BY <1>1, <1>2, MovingFacts
<1>4. line[k].next = None  BY <1>1, <1>2 DEF Inv, Structure, MovingEmpty
<1>5. /\ line' \in [Lines -> LineType]
      /\ \A l \in Lines : /\ line'[l].next = line[l].next
                          /\ line'[l].num_using = line[l].num_using
                          /\ line'[l].tag = IF l = k THEN None ELSE line[l].tag
  BY <1>2, <1>3, TagSet
<1>6. /\ pool \in Seq(Lines) /\ Len(pool) \in Nat /\ pool' \in Seq(Lines) /\ Len(pool') = Len(pool) + 1
      /\ \A i \in 1 .. Len(pool) : pool'[i] = pool[i]
      /\ pool'[Len(pool) + 1] = k
  BY <1>2, <1>3 DEF Inv, TypeOK
<1>7. TypeOK'  BY <1>2, <1>5, <1>6 DEF Inv, TypeOK, LineType, NoJob
<1>8. /\ ChainsOK'
      /\ \A l : InChain(l)' <=> InChain(l)
      /\ \A a \in Buckets, l \in Lines : OnChain(a, l)' <=> OnChain(a, l)
  BY <1>5, SameChains
<1>9. /\ \A l : ~ Moving(l)'
      /\ \A l \in Lines : EmptyLine(l)' <=> EmptyLine(l)
  BY <1>2, <1>5 DEF Moving, EmptyLine
<1>10. \A l : InPool(l)' <=> (InPool(l) \/ l = k)
  <2>1. ASSUME NEW l, InPool(l)' PROVE InPool(l) \/ l = k
    <3>1. PICK i \in 1 .. Len(pool) + 1 : pool'[i] = l  BY <1>6, <2>1 DEF InPool
    <3>2. i \in 1 .. Len(pool) \/ i = Len(pool) + 1  BY <1>6
    <3>. QED  BY <1>6, <3>1, <3>2 DEF InPool
  <2>2. ASSUME NEW l, InPool(l) PROVE InPool(l)'
    <3>1. PICK i \in 1 .. Len(pool) : pool[i] = l  BY <2>2 DEF InPool
    <3>2. i \in 1 .. Len(pool')  BY <1>6
    <3>. QED  BY <1>6, <3>1, <3>2 DEF InPool
  <2>3. InPool(k)'
    <3>1. Len(pool) + 1 \in 1 .. Len(pool')  BY <1>6
    <3>. QED  BY <1>6, <3>1 DEF InPool
  <2>. QED  BY <2>1, <2>2, <2>3
<1>11. Structure'
  <2>1. PoolDistinct'
    <3>1. ASSUME NEW i \in 1 .. Len(pool'), NEW j \in 1 .. Len(pool'), pool'[i] = pool'[j] PROVE i = j
      <4>1. \A n \in 1 .. Len(pool') : n = Len(pool) + 1 \/ n \in 1 .. Len(pool)  BY <1>6
      <4>2. \A n \in 1 .. Len(pool) : pool'[n] # k  BY <1>3, <1>6 DEF InPool
      <4>. QED  BY <3>1, <4>1, <4>2, <1>6 DEF PoolDistinct, Inv, Structure
    <3>. QED  BY <3>1 DEF PoolDistinct
  <2>2. Placed'
    <3>1. ASSUME NEW l \in Lines
          PROVE  (InChain(l)' \/ InPool(l)') /\ ~ (InChain(l)' /\ InPool(l)')
      <4>1. (InChain(l) \/ InPool(l) \/ l = k) /\ ~ (InChain(l) /\ InPool(l))
        BY <1>3 DEF Placed, Inv, Structure
      <4>. QED  BY <4>1, <1>3, <1>8, <1>10
    <3>. QED  BY <3>1, <1>9 DEF Placed
  <2>3. TagsUnique'  BY <1>5 DEF TagsUnique, Inv, Structure
  <2>4. TagsHome'
    <3>1. ASSUME NEW l \in Lines, line'[l].tag # None
          PROVE  OnChain(get_bucket(line[l].tag), l)'
      <4>1. line'[l].tag = line[l].tag /\ line[l].tag # None /\ l # k  BY <3>1, <1>5
      <4>2. PICK a \in Buckets : a = get_bucket(line[l].tag)  BY <4>1, TagFacts
      <4>3. OnChain(a, l)  BY <4>1, <4>2, <1>3 DEF Inv, Structure, TagsHome
      <4>4. OnChain(a, l)'  BY <4>3, <1>8
      <4>. QED  BY <4>1, <4>2, <4>4
    <3>. QED  BY <3>1 DEF TagsHome
  <2>5. PoolEmpty'  BY <1>4, <1>5, <1>10 DEF PoolEmpty, Inv, Structure
  <2>6. MovingEmpty'  BY <1>2, <1>9 DEF MovingEmpty
  <2>7. Untagged'  BY <1>3, <1>5, <1>9 DEF Untagged, Inv, Structure
  <2>. QED  BY <1>8, <2>1, <2>2, <2>3, <2>4, <2>5, <2>6, <2>7 DEF Structure
<1>12. JobOK'  BY <1>2 DEF JobOK
<1>13. \A d \in Clients : SameClient(d)  BY <1>2 DEF SameClient
<1>14. \A l \in Lines : \A o \in Offsets : InUse(l, o) => line'[l].tag = line[l].tag
  BY <1>3, <1>5
<1>. QED  BY <1>2, <1>5, <1>7, <1>11, <1>12, <1>13, <1>14, LineStep

\* The line in front of a line.
LEMMA PreOfIs ==
    ASSUME Inv, NEW l \in Lines, line[l].tag # None, ~ Moving(l)
    PROVE  \E b \in Buckets : \E n \in 1 .. Len(Chain(b)) :
              /\ b = get_bucket(line[l].tag) /\ Chain(b)[n] = l
              /\ PreOf(l) = IF n = 1 THEN None ELSE Chain(b)[n - 1]
              /\ n # 1 => Chain(b)[n - 1] \in Lines /\ Chain(b)[n - 1] # l
<1>1. PICK b \in Buckets : b = get_bucket(line[l].tag)  BY TagFacts
<1>2. OnChain(b, l)  BY <1>1 DEF Inv, Structure, TagsHome
<1>3. Chain(b) \in Seq(Lines) /\ Len(Chain(b)) \in Nat /\ DOMAIN Chain(b) = 1 .. Len(Chain(b))
  BY ChainFacts
<1>4. PICK n : n = CHOOSE i \in DOMAIN Chain(b) : Chain(b)[i] = l  OBVIOUS
<1>5. n \in 1 .. Len(Chain(b)) /\ Chain(b)[n] = l  BY <1>2, <1>3, <1>4 DEF OnChain
<1>6. PreOf(l) = IF n = 1 THEN None ELSE Chain(b)[n - 1]  BY <1>1, <1>4 DEF PreOf
<1>7. ASSUME n # 1 PROVE Chain(b)[n - 1] \in Lines /\ Chain(b)[n - 1] # l
  <2>1. n - 1 \in 1 .. Len(Chain(b)) /\ n - 1 # n  BY <1>3, <1>5, <1>7
  <2>2. \A i, j \in 1 .. Len(Chain(b)) : Chain(b)[i] = Chain(b)[j] => i = j
    BY DEF Inv, Structure, ChainsOK, DisjointIn, Chains
  <2>. QED  BY <1>3, <1>5, <2>1, <2>2
<1>. QED  BY <1>1, <1>5, <1>6, <1>7

\* A header with nothing in it is the empty one.
LEMMA EmptyIs ==
    ASSUME NEW e \in Header, ~ e.exist, ~ e.busy, e.ref_count = 0, e.ppage_id = None
    PROVE  e = EmptyHeader
<1>1. e.exist = FALSE /\ e.busy = FALSE  BY DEF Header
<1>2. e = [exist |-> e.exist, busy |-> e.busy, ref_count |-> e.ref_count, ppage_id |-> e.ppage_id]
  BY DEF Header
<1>. QED  BY <1>1, <1>2 DEF EmptyHeader

\* Entries that are not in use are empty.
LEMMA UnusedIs ==
    ASSUME Inv, NEW l \in Lines, NEW o \in Offsets, ~ InUse(l, o)
    PROVE  header[l][o] = EmptyHeader
<1>1. header[l][o] \in Header /\ ~ header[l][o].exist /\ ~ header[l][o].busy
  BY DEF Inv, TypeOK, InUse
<1>2. header[l][o].ref_count = 0
  <2>1. Refs(l, o) = {} /\ header[l][o].ref_count = Cardinality(Refs(l, o))
    BY <1>1 DEF Inv, RefsCounted
  <2>. QED  BY <2>1, FS_EmptySet
<1>3. header[l][o].ppage_id = None  BY <1>1 DEF Inv, FramesAllocated
<1>. QED  BY <1>1, <1>2, <1>3, EmptyIs

\* What releasing the victim, entry q of line m, does to headers and contexts.
VictimFacts(c, m, q) ==
    /\ m \in Lines /\ q \in Offsets /\ line[m].tag # None /\ ~ Moving(m)
    /\ ~ header[m][q].exist /\ header[m][q].busy /\ InUse(m, q)
    /\ header' \in [Lines -> [Offsets -> Header]]
    /\ header'[m][q] = EmptyHeader
    /\ \A l \in Lines : \A o \in Offsets : ~ (l = m /\ o = q) => header'[l][o] = header[l][o]
    /\ ctx' \in [Clients -> [phase : {"End", "Evicting", "Loading"}, hint : Lines \cup {None},
                             victim : Pages \cup {None}, pre_hint : Lines \cup {None}]]
    /\ ctx'[c].phase = "Loading" /\ ctx'[c].hint = ctx[c].hint
    /\ \A d \in Clients \ {c} :
          /\ ctx'[d] = ctx[d]
          /\ ctx[d].phase = "Evicting" => ~ (ctx[d].pre_hint = m /\ Offset(ctx[d].victim) = q)

\* ReleaseVictim does that.
LEMMA VictimIs ==
    ASSUME Inv, NEW c \in Clients, ReleaseVictim(c)
    PROVE  \E m, q : m = ctx[c].pre_hint /\ VictimFacts(c, m, q)
<1>1. ctx[c].phase = "Evicting" /\ srv_pc = "loop"  BY DEF ReleaseVictim
<1>2. PICK m, u : m = ctx[c].pre_hint /\ u = ctx[c].victim  OBVIOUS
<1>3. /\ m \in Lines /\ u \in Pages /\ line[m].tag = Tag(u)
      /\ ~ header[m][Offset(u)].exist /\ header[m][Offset(u)].busy
  BY <1>1, <1>2 DEF Inv, TypeOK, Evicting
<1>4. PICK q \in Offsets : q = Offset(u)  BY <1>3, TagType
<1>5. line[m].tag # None  BY <1>3, TagType
<1>6. header' = Unlocked(m, u)  BY <1>2 DEF ReleaseVictim
<1>7. /\ header' \in [Lines -> [Offsets -> Header]]
      /\ \A l \in Lines : \A o \in Offsets :
           /\ header'[l][o].exist = header[l][o].exist
           /\ header'[l][o].ref_count = header[l][o].ref_count
           /\ header'[l][o].ppage_id = header[l][o].ppage_id
           /\ ~ (l = m /\ o = q) => header'[l][o] = header[l][o]
      /\ ~ header'[m][q].busy
  BY <1>3, <1>4, <1>6, UnlockedFacts
<1>8. header'[m][q] = EmptyHeader
  <2>1. header[m][q].ref_count = 0
    <3>1. Refs(m, q) = {} /\ header[m][q].ref_count = Cardinality(Refs(m, q))
      BY <1>3, <1>4 DEF Inv, RefsCounted
    <3>. QED  BY <3>1, FS_EmptySet
  <2>2. header[m][q].ppage_id = None  BY <1>3, <1>4 DEF Inv, FramesAllocated
  <2>3. header'[m][q] \in Header  BY <1>3, <1>7
  <2>. QED  BY <1>3, <1>4, <1>7, <2>1, <2>2, <2>3, EmptyIs
<1>. DEFINE CT == [phase : {"End", "Evicting", "Loading"}, hint : Lines \cup {None},
                   victim : Pages \cup {None}, pre_hint : Lines \cup {None}]
            r == [ctx[c] EXCEPT !.phase = "Loading", !.victim = None, !.pre_hint = None]
<1>9. ctx \in [Clients -> CT] /\ ctx[c] \in CT  BY DEF Inv, TypeOK
<1>10. r \in CT /\ r.phase = "Loading" /\ r.hint = ctx[c].hint  BY <1>9
<1>11. ctx' = [ctx EXCEPT ![c] = r]  BY <1>9 DEF ReleaseVictim
<1>12. /\ ctx' \in [Clients -> CT] /\ ctx'[c] = r /\ \A d \in Clients \ {c} : ctx'[d] = ctx[d]
  <2>. HIDE DEF r, CT
  <2>. QED  BY <1>9, <1>10, <1>11
<1>13. ASSUME NEW d \in Clients \ {c}, ctx[d].phase = "Evicting",
              ctx[d].pre_hint = m, Offset(ctx[d].victim) = q
       PROVE  FALSE
  <2>1. ctx[d].victim \in Pages /\ line[m].tag = Tag(ctx[d].victim)
    BY <1>13 DEF Inv, TypeOK, Evicting
  <2>2. ctx[d].victim = u  BY <2>1, <1>3, <1>4, <1>13, PageIs
  <2>. QED  BY <2>2, <1>1, <1>2, <1>13 DEF Inv, ContextsDistinct
<1>14. ~ Moving(m) /\ InUse(m, q)  BY <1>1, <1>3, <1>4 DEF Moving, InUse
<1>. QED  BY <1>2, <1>3, <1>4, <1>5, <1>7, <1>8, <1>10, <1>12, <1>13, <1>14 DEF VictimFacts

\* It preserves the invariant when the shape of the table and num_using stay right.
LEMMA VictimStep ==
    ASSUME Inv, TypeOK', Structure', Counts', JobOK', NEW c \in Clients, ctx[c].phase = "Evicting",
           NEW m, NEW q, VictimFacts(c, m, q),
           \A l \in Lines : \A o \in Offsets :
               InUse(l, o) /\ ~ (l = m /\ o = q) => line'[l].tag = line[l].tag,
           allocated' = allocated, evictable' = evictable, UNCHANGED client
    PROVE  Inv'
<1>1. pc' = pc /\ op' = op /\ page' = page /\ at' = at /\ frame' = frame
  BY DEF client
<1>2. /\ m \in Lines /\ q \in Offsets
      /\ ~ header[m][q].exist /\ header[m][q].busy
      /\ ~ header'[m][q].exist /\ ~ header'[m][q].busy
      /\ header'[m][q].ref_count = 0 /\ header'[m][q].ppage_id = None
      /\ \A l \in Lines : \A o \in Offsets : ~ (l = m /\ o = q) => header'[l][o] = header[l][o]
      /\ ctx'[c].phase = "Loading" /\ ctx'[c].hint = ctx[c].hint
      /\ \A d \in Clients \ {c} :
            /\ ctx'[d] = ctx[d]
            /\ ctx[d].phase = "Evicting" => ~ (ctx[d].pre_hint = m /\ Offset(ctx[d].victim) = q)
  BY DEF VictimFacts, EmptyHeader
<1>3. Refs(m, q) = {}  BY <1>2 DEF Inv, RefsCounted
<1>4. TagsStay /\ TagsUnique'
  <2>1. ~ InUse(m, q)'
    <3>1. InUse(m, q)' = (header'[m][q].exist \/ header'[m][q].busy)  BY DEF InUse
    <3>. QED  BY <1>2, <3>1
  <2>. QED  BY <1>2, <2>1 DEF TagsStay, Structure
<1>5. SolidStay
  <2>1. ~ Solid(m, q)  BY <1>2 DEF Solid
  <2>. QED  BY <1>2, <2>1 DEF SolidStay, SameEntry
<1>6. ASSUME NEW d \in Clients, ctx[d].phase # "End" PROVE SameEntry(ctx[d].hint, Offset(page[d]))
  <2>1. /\ Loading(d) /\ Control(d) /\ ctx[d].hint \in Lines \cup {None} /\ page[d] \in Pages \cup {None}
    BY DEF Inv, TypeOK
  <2>2. /\ ctx[d].hint \in Lines /\ Offset(page[d]) \in Offsets
        /\ header[ctx[d].hint][Offset(page[d])].exist
    BY <2>1, <1>6, TagType DEF Loading, Control
  <2>3. ~ (ctx[d].hint = m /\ Offset(page[d]) = q)  BY <1>2, <2>2
  <2>4. header'[ctx[d].hint][Offset(page[d])] = header[ctx[d].hint][Offset(page[d])]
    BY <1>2, <2>2, <2>3
  <2>. QED  BY <2>4 DEF SameEntry
<1>7. ASSUME NEW d \in Clients \ {c}
      PROVE  /\ Control(d)' /\ Access(d)' /\ Loading(d)' /\ Evicting(d)' /\ Ended(d)'
             /\ \A l \in Lines : \A o \in Offsets : d \in Refs(l, o)' <=> d \in Refs(l, o)
  <2>1. ASSUME ctx[d].phase = "Evicting" PROVE SameEntry(ctx[d].pre_hint, Offset(ctx[d].victim))
    <3>1. ctx[d].pre_hint \in Lines /\ ctx[d].victim \in Pages
      BY <2>1 DEF Inv, TypeOK, Evicting
    <3>2. Offset(ctx[d].victim) \in Offsets  BY <3>1, TagType
    <3>3. header'[ctx[d].pre_hint][Offset(ctx[d].victim)] = header[ctx[d].pre_hint][Offset(ctx[d].victim)]
      BY <1>2, <2>1, <3>1, <3>2
    <3>. QED  BY <3>3 DEF SameEntry
  <2>2. SameClient(d)  BY <1>1, <1>2 DEF SameClient
  <2>. QED  BY <1>4, <1>5, <1>6, <2>1, <2>2, OthersKept
<1>8. pc[c] = "wait" /\ op[c] = "pin" /\ ctx[c].hint # None
      /\ ctx[c].hint \in Lines /\ page[c] \in Pages /\ Offset(page[c]) \in Offsets
      /\ line[ctx[c].hint].tag = Tag(page[c])
      /\ header[ctx[c].hint][Offset(page[c])].exist /\ header[ctx[c].hint][Offset(page[c])].busy
  <2>1. /\ Loading(c) /\ Control(c) /\ ctx[c].hint \in Lines \cup {None} /\ page[c] \in Pages \cup {None}
    BY DEF Inv, TypeOK
  <2>2. /\ pc[c] = "wait" /\ op[c] = "pin" /\ ctx[c].hint \in Lines /\ page[c] \in Pages
    BY <2>1 DEF Loading, Control
  <2>. QED  BY <2>1, <2>2, TagType DEF Loading
<1>9. c \notin Holders /\ c \notin Holders' /\ Control(c)' /\ Access(c)'
  BY <1>1, <1>8 DEF Holders, Control, Access
<1>10. Loading(c)' /\ Evicting(c)' /\ Ended(c)'
  <2>1. SameEntry(ctx[c].hint, Offset(page[c]))  BY <1>6
  <2>2. line'[ctx[c].hint].tag = line[ctx[c].hint].tag
    BY <1>4, <1>8, <2>1 DEF TagsStay, InUse, SameEntry
  <2>. QED  BY <1>1, <1>2, <1>8, <2>1, <2>2 DEF Loading, Evicting, Ended, SameEntry
<1>11. ASSUME NEW l \in Lines, NEW o \in Offsets PROVE c \in Refs(l, o)' <=> c \in Refs(l, o)
  BY <1>1, <1>2, <1>8, <1>9 DEF Refs, Ref
<1>12. RefsCounted'
  <2>1. \A d \in Clients : \A l \in Lines : \A o \in Offsets : d \in Refs(l, o)' <=> d \in Refs(l, o)
    BY <1>7, <1>11
  <2>2. \A l \in Lines : \A o \in Offsets :
            /\ \/ header'[l][o].ref_count = header[l][o].ref_count
               \/ Refs(l, o) = {} /\ header'[l][o].ref_count = 0
            /\ header'[l][o].exist = header[l][o].exist \/ Refs(l, o) = {}
    BY <1>2, <1>3
  <2>. QED  BY <2>1, <2>2, RefsStay
<1>13. \A l \in Lines : \A o \in Offsets :
          /\ header'[l][o].exist <=> header[l][o].exist
          /\ header[l][o].exist => header'[l][o].ppage_id = header[l][o].ppage_id
          /\ ~ header[l][o].exist => header'[l][o].ppage_id = None
  <2>1. \A l \in Lines : \A o \in Offsets : ~ header[l][o].exist => header[l][o].ppage_id = None
    BY DEF Inv, FramesAllocated
  <2>. QED  BY <1>2, <2>1
<1>14. FramesDistinct'  BY <1>13 DEF FramesDistinct, Inv
<1>15. FramesAllocated'  BY <1>13 DEF FramesAllocated, Inv
<1>16. ContextsDistinct'
  BY <1>1, <1>2 DEF ContextsDistinct, Inv
<1>17. EvictableMapped'
  <2>1. ASSUME NEW u \in evictable
        PROVE  \E l \in Lines : line'[l].tag = Tag(u) /\ header'[l][Offset(u)].exist
    <3>1. PICK l \in Lines : line[l].tag = Tag(u) /\ header[l][Offset(u)].exist
      BY DEF Inv, EvictableMapped
    <3>2. Offset(u) \in Offsets  BY TagType DEF Inv, TypeOK
    <3>3. InUse(l, Offset(u)) /\ ~ (l = m /\ Offset(u) = q)  BY <1>2, <3>1 DEF InUse
    <3>. QED  BY <1>13, <3>1, <3>2, <3>3
  <2>. QED  BY <2>1 DEF EvictableMapped
<1>18. \A d \in Clients : Control(d)' /\ Access(d)' /\ Loading(d)' /\ Evicting(d)' /\ Ended(d)'
  BY <1>7, <1>9, <1>10
<1>. QED  BY <1>12, <1>14, <1>15, <1>16, <1>17, <1>18 DEF Inv

\* Counting an entry down changes nothing else.
LEMMA UsedSet ==
    ASSUME Inv, NEW m \in Lines, line[m].num_using \in Nat \ {0}
    PROVE  /\ Used(m) \in [Lines -> LineType]
           /\ \A l \in Lines : /\ Used(m)[l].next = line[l].next /\ Used(m)[l].tag = line[l].tag
                               /\ Used(m)[l].num_using = IF l = m THEN line[l].num_using - 1
                                                         ELSE line[l].num_using
<1>. DEFINE r == [line[m] EXCEPT !.num_using = line[m].num_using - 1]
<1>1. line \in [Lines -> LineType] /\ line[m] \in LineType  BY DEF Inv, TypeOK, LineType
<1>2. r \in LineType /\ r.tag = line[m].tag /\ r.next = line[m].next /\ r.num_using = line[m].num_using - 1
  BY <1>1 DEF LineType
<1>3. Used(m) = [line EXCEPT ![m] = r]  BY DEF Used
<1>. HIDE DEF r
<1>4. \A l \in Lines : Used(m)[l] = IF l = m THEN r ELSE line[l]  BY <1>1, <1>3
<1>. QED  BY <1>1, <1>2, <1>3, <1>4

\* num_using stays right.
LEMMA VictimCounts ==
    ASSUME Inv, NEW c \in Clients, NEW m, NEW q, VictimFacts(c, m, q),
           \A l \in Lines : line'[l].num_using = IF l = m THEN line[l].num_using - 1
                                                 ELSE line[l].num_using
    PROVE  Counts'
<1>1. m \in Lines /\ q \in Offsets /\ InUse(m, q)  BY DEF VictimFacts
<1>2. ~ InUse(m, q)'
  <2>1. InUse(m, q)' = (header'[m][q].exist \/ header'[m][q].busy)  BY DEF InUse
  <2>2. header'[m][q] = EmptyHeader  BY DEF VictimFacts
  <2>3. ~ EmptyHeader.exist /\ ~ EmptyHeader.busy  BY DEF EmptyHeader
  <2>. QED  BY <2>1, <2>2, <2>3
<1>3. \A l \in Lines : \A o \in Offsets : ~ (l = m /\ o = q) => (InUse(l, o)' <=> InUse(l, o))
  BY DEF VictimFacts, InUse
<1>. QED  BY <1>1, <1>2, <1>3, CountDown

\* When num_using was 1, the line is empty afterwards.
LEMMA VictimEmpties ==
    ASSUME Inv, NEW c \in Clients, NEW m, NEW q, VictimFacts(c, m, q), line[m].num_using = 1
    PROVE  /\ \A o \in Offsets : header'[m][o] = EmptyHeader
           /\ \A o \in Offsets : InUse(m, o) => o = q
<1>1. m \in Lines /\ q \in Offsets /\ InUse(m, q)  BY DEF VictimFacts
<1>2. \A o \in Offsets : InUse(m, o) => o = q  BY <1>1, UsedAlone
<1>3. ASSUME NEW o \in Offsets PROVE header'[m][o] = EmptyHeader
  <2>1. CASE o = q  BY <2>1 DEF VictimFacts
  <2>2. CASE o # q
    <3>1. header[m][o] = EmptyHeader  BY <1>1, <1>2, <2>2, UnusedIs
    <3>. QED  BY <3>1, <2>2, <1>1 DEF VictimFacts
  <2>. QED  BY <2>1, <2>2
<1>. QED  BY <1>2, <1>3

\* The other lines are as empty as before.
LEMMA EmptyOthers ==
    ASSUME Inv, NEW c \in Clients, NEW m, NEW q, VictimFacts(c, m, q),
           NEW l \in Lines, l # m, line'[l].num_using = line[l].num_using
    PROVE  EmptyLine(l)' <=> EmptyLine(l)
  BY DEF VictimFacts, EmptyLine

\* The line that became empty is the first one of its bucket: it loses its tag and stays.
LEMMA VictimHead ==
    ASSUME Inv, NEW c \in Clients, NEW m, NEW q, VictimFacts(c, m, q), srv_pc = "loop",
           line[m].num_using = 1, OnChain(m, m), m \in Buckets,
           line' = HeadDeleted(m), pool' = pool, srv_pc' = srv_pc, job' = job
    PROVE  /\ Structure' /\ line' \in [Lines -> LineType]
           /\ \A l \in Lines : /\ line'[l].num_using = IF l = m THEN line[l].num_using - 1
                                                       ELSE line[l].num_using
                               /\ line'[l].tag = IF l = m THEN None ELSE line[l].tag
<1>. DEFINE r == [[line[m] EXCEPT !.tag = None] EXCEPT !.num_using = 0]
<1>0. m \in Lines  BY DEF VictimFacts
<1>1. line \in [Lines -> LineType] /\ line[m] \in LineType  BY <1>0 DEF Inv, TypeOK, LineType
<1>2. r \in LineType /\ r.tag = None /\ r.next = line[m].next /\ r.num_using = 0
  BY <1>1 DEF LineType
<1>3. line' = [line EXCEPT ![m] = r]
  <2>1. HeadDeleted(m) = [[line EXCEPT ![m] = [line[m] EXCEPT !.tag = None]]
                             EXCEPT ![m] = [[line EXCEPT ![m] = [line[m] EXCEPT !.tag = None]][m]
                                               EXCEPT !.num_using = 0]]
    BY DEF HeadDeleted
  <2>. DEFINE x == [line[m] EXCEPT !.tag = None]
  <2>2. HeadDeleted(m) = [[line EXCEPT ![m] = x] EXCEPT ![m] = [[line EXCEPT ![m] = x][m] EXCEPT !.num_using = 0]]
    BY <2>1
  <2>3. r = [x EXCEPT !.num_using = 0]  OBVIOUS
  <2>. HIDE DEF x, r
  <2>4. [line EXCEPT ![m] = x][m] = x  BY <1>0, <1>1
  <2>5. HeadDeleted(m) = [[line EXCEPT ![m] = x] EXCEPT ![m] = r]  BY <2>2, <2>3, <2>4
  <2>. QED  BY <2>5, <1>0, <1>1
<1>. HIDE DEF r
<1>4. \A l \in Lines : line'[l] = IF l = m THEN r ELSE line[l]  BY <1>0, <1>1, <1>3
<1>5. /\ line' \in [Lines -> LineType]
      /\ \A l \in Lines : /\ line'[l].num_using = IF l = m THEN line[l].num_using - 1
                                                  ELSE line[l].num_using
                          /\ line'[l].tag = IF l = m THEN None ELSE line[l].tag
                          /\ line'[l].next = line[l].next
  <2>1. line' \in [Lines -> LineType]  BY <1>1, <1>2, <1>3
  <2>2. line[m].num_using - 1 = 0  OBVIOUS
  <2>3. line'[m] = r  BY <1>0, <1>4
  <2>4. ASSUME NEW l \in Lines
        PROVE  /\ line'[l].num_using = IF l = m THEN line[l].num_using - 1
                                       ELSE line[l].num_using
               /\ line'[l].tag = IF l = m THEN None ELSE line[l].tag
               /\ line'[l].next = line[l].next
    <3>1. CASE l = m  BY <3>1, <1>2, <2>2, <2>3
    <3>2. CASE l # m
      <4>1. line'[l] = line[l]  BY <1>4, <3>2
      <4>. QED  BY <4>1, <3>2
    <3>. QED  BY <3>1, <3>2
  <2>. QED  BY <2>1, <2>4
<1>6. /\ ChainsOK'
      /\ \A l : InChain(l)' <=> InChain(l)
      /\ \A a \in Buckets, l \in Lines : OnChain(a, l)' <=> OnChain(a, l)
  BY <1>5, SameChains
<1>7. /\ \A l : ~ Moving(l) /\ ~ Moving(l)'
      /\ \A l : InPool(l)' <=> InPool(l)
  BY DEF Moving, InPool
<1>8. \A l \in Lines : l # m => (EmptyLine(l)' <=> EmptyLine(l))
  BY <1>5, EmptyOthers
<1>9. EmptyLine(m)'
  <2>1. \A o \in Offsets : header'[m][o] = EmptyHeader  BY VictimEmpties
  <2>2. line'[m].num_using = 0  BY <1>0, <1>2, <1>4
  <2>. QED  BY <2>1, <2>2 DEF EmptyLine
<1>10. ~ InPool(m)  BY <1>0 DEF InChain, Inv, Structure, Placed
<1>11. PoolDistinct' /\ Placed'
  BY <1>6, <1>7 DEF PoolDistinct, Placed, Inv, Structure
<1>12. TagsUnique'  BY <1>5 DEF TagsUnique, Inv, Structure
<1>13. TagsHome'
  <2>1. ASSUME NEW l \in Lines, line'[l].tag # None
        PROVE  OnChain(get_bucket(line[l].tag), l)'
    <3>1. line'[l].tag = line[l].tag /\ line[l].tag # None  BY <2>1, <1>5
    <3>2. PICK a \in Buckets : a = get_bucket(line[l].tag)  BY <3>1, TagFacts
    <3>3. OnChain(a, l)  BY <3>1, <3>2, <1>7 DEF Inv, Structure, TagsHome
    <3>4. OnChain(a, l)'  BY <3>3, <1>6
    <3>. QED  BY <3>1, <3>2, <3>4
  <2>. QED  BY <2>1 DEF TagsHome
<1>14. PoolEmpty'  BY <1>5, <1>7, <1>10 DEF PoolEmpty, Inv, Structure
<1>15. MovingEmpty'  BY <1>7 DEF MovingEmpty
<1>16. Untagged'  BY <1>5, <1>8, <1>9 DEF Untagged, Inv, Structure
<1>. QED  BY <1>5, <1>6, <1>11, <1>12, <1>13, <1>14, <1>15, <1>16 DEF Structure

\* It is not: it is taken out of its chain, and still leads into it.
LEMMA VictimCut ==
    ASSUME Inv, NEW c \in Clients, NEW m, NEW q, VictimFacts(c, m, q), srv_pc = "loop",
           line[m].num_using = 1, NEW b \in Buckets, NEW n \in 2 .. Len(Chain(b)), Chain(b)[n] = m,
           Chain(b)[n - 1] \in Lines, Chain(b)[n - 1] # m,
           line' = [Used(m) EXCEPT ![Chain(b)[n - 1]].next = line[m].next],
           pool' = pool, srv_pc' = "cut", job'.line = m
    PROVE  /\ Structure' /\ line' \in [Lines -> LineType]
           /\ \A l \in Lines : /\ line'[l].num_using = IF l = m THEN line[l].num_using - 1
                                                       ELSE line[l].num_using
                               /\ line'[l].tag = line[l].tag
           /\ Chain(b)' = Without(Chain(b), n)
           /\ \A a \in Buckets \ {b} : Chain(a)' = Chain(a)
<1>. DEFINE p == Chain(b)[n - 1]
            r == [Used(m)[p] EXCEPT !.next = line[m].next]
<1>0. m \in Lines /\ line[m].num_using \in Nat \ {0} /\ line[m].tag # None  BY DEF VictimFacts
<1>1. /\ Used(m) \in [Lines -> LineType] /\ Used(m)[p] \in LineType
      /\ \A l \in Lines : /\ Used(m)[l].next = line[l].next /\ Used(m)[l].tag = line[l].tag
                          /\ Used(m)[l].num_using = IF l = m THEN line[l].num_using - 1
                                                    ELSE line[l].num_using
  BY <1>0, UsedSet
<1>2. line[m].next \in Lines \cup {None}  BY <1>0 DEF Inv, TypeOK
<1>3. r \in LineType /\ r.tag = Used(m)[p].tag /\ r.num_using = Used(m)[p].num_using /\ r.next = line[m].next
  BY <1>1, <1>2 DEF LineType
<1>4. line' = [Used(m) EXCEPT ![p] = r]  OBVIOUS
<1>. HIDE DEF r, p
<1>5. p \in Lines /\ p # m  BY DEF p
<1>6. \A l \in Lines : line'[l] = IF l = p THEN r ELSE Used(m)[l]  BY <1>1, <1>4
<1>7. /\ line' \in [Lines -> LineType]
      /\ \A l \in Lines : /\ line'[l].num_using = IF l = m THEN line[l].num_using - 1
                                                  ELSE line[l].num_using
                          /\ line'[l].tag = line[l].tag
                          /\ line'[l].next = IF l = p THEN line[m].next ELSE line[l].next
  BY <1>1, <1>3, <1>4, <1>5, <1>6
<1>8. /\ Chain(b)' = Without(Chain(b), n)
      /\ \A a \in Buckets \ {b} : Chain(a)' = Chain(a)
      /\ ChainsOK'
      /\ \A a \in Buckets : \A l : OnChain(a, l)' <=> (OnChain(a, l) /\ l # m)
      /\ \A l : InChain(l)' <=> (InChain(l) /\ l # m)
  <2>1. \A l \in Lines : l # Chain(b)[n - 1] => line'[l].next = line[l].next
    BY <1>7 DEF p
  <2>2. line'[Chain(b)[n - 1]].next = line[m].next  BY <1>5, <1>7 DEF p
  <2>. QED  BY <2>1, <2>2, CutChains
<1>9. /\ \A l : ~ Moving(l) /\ (Moving(l)' <=> l = m)
      /\ \A l : InPool(l)' <=> InPool(l)
  BY DEF Moving, InPool
<1>10. InChain(m)
  <2>1. n \in 1 .. Len(Chain(b))  BY ChainFacts
  <2>. QED  BY <2>1 DEF InChain, OnChain
<1>11. ~ InPool(m) /\ ~ InPool(p)
  <2>1. InChain(p)
    <3>1. n - 1 \in 1 .. Len(Chain(b))  BY ChainFacts
    <3>. QED  BY <3>1 DEF InChain, OnChain, p
  <2>. QED  BY <1>0, <1>5, <1>10, <2>1 DEF Inv, Structure, Placed
<1>12. \A l \in Lines : l # m => (EmptyLine(l)' <=> EmptyLine(l))
  BY <1>7, EmptyOthers
<1>13. EmptyLine(m)'
  <2>1. \A o \in Offsets : header'[m][o] = EmptyHeader  BY VictimEmpties
  <2>2. line'[m].num_using = 0  BY <1>0, <1>7
  <2>. QED  BY <2>1, <2>2 DEF EmptyLine
<1>14. PoolDistinct'  BY DEF PoolDistinct, Inv, Structure
<1>15. Placed'
  <2>1. ASSUME NEW l \in Lines
        PROVE  /\ InChain(l)' \/ InPool(l)' \/ Moving(l)'
               /\ ~ (InChain(l)' /\ InPool(l)')
               /\ ~ (InChain(l)' /\ Moving(l)')
               /\ ~ (InPool(l)' /\ Moving(l)')
    <3>1. (InChain(l) \/ InPool(l)) /\ ~ (InChain(l) /\ InPool(l))
      BY <1>9 DEF Placed, Inv, Structure
    <3>. QED  BY <3>1, <1>8, <1>9, <1>11
  <2>. QED  BY <2>1 DEF Placed
<1>16. TagsUnique'  BY <1>7 DEF TagsUnique, Inv, Structure
<1>17. TagsHome'
  <2>1. ASSUME NEW l \in Lines, line'[l].tag # None, l # m
        PROVE  OnChain(get_bucket(line[l].tag), l)'
    <3>1. line'[l].tag = line[l].tag /\ line[l].tag # None  BY <2>1, <1>7
    <3>2. PICK a \in Buckets : a = get_bucket(line[l].tag)  BY <3>1, TagFacts
    <3>3. OnChain(a, l)  BY <3>1, <3>2, <1>9 DEF Inv, Structure, TagsHome
    <3>4. OnChain(a, l)'  BY <2>1, <3>3, <1>8
    <3>. QED  BY <3>1, <3>2, <3>4
  <2>. QED  BY <2>1, <1>9 DEF TagsHome
<1>18. PoolEmpty'  BY <1>7, <1>9, <1>11 DEF PoolEmpty, Inv, Structure
<1>19. MovingEmpty'  BY <1>0, <1>7, <1>9, <1>13 DEF MovingEmpty
<1>20. Untagged'  BY <1>0, <1>7, <1>12, <1>13 DEF Untagged, Inv, Structure
<1>. QED  BY <1>7, <1>8, <1>14, <1>15, <1>16, <1>17, <1>18, <1>19, <1>20 DEF Structure

\* The eviction ends, and the line is freed when it has become empty.
LEMMA ReleaseVictimInv ==
    ASSUME Inv, NEW c \in Clients, ReleaseVictim(c)
    PROVE  Inv'
<1>1. PICK m, q : m = ctx[c].pre_hint /\ VictimFacts(c, m, q)  BY VictimIs
<1>2. /\ m \in Lines /\ q \in Offsets /\ line[m].tag # None /\ ~ Moving(m) /\ InUse(m, q)
      /\ header' \in [Lines -> [Offsets -> Header]] /\ header'[m][q] = EmptyHeader
      /\ \A l \in Lines : \A o \in Offsets : ~ (l = m /\ o = q) => header'[l][o] = header[l][o]
      /\ ctx' \in [Clients -> [phase : {"End", "Evicting", "Loading"}, hint : Lines \cup {None},
                               victim : Pages \cup {None}, pre_hint : Lines \cup {None}]]
  BY <1>1 DEF VictimFacts
<1>3. /\ srv_pc = "loop" /\ ctx[c].phase = "Evicting" /\ pool' = pool /\ allocated' = allocated
      /\ evictable' = evictable /\ UNCHANGED client
      /\ IF ~ LastOfLine(m)
         THEN line' = Used(m) /\ UNCHANGED <<srv_pc, job>>
         ELSE IF PreOf(m) = None
         THEN line' = HeadDeleted(m) /\ UNCHANGED <<srv_pc, job>>
         ELSE /\ line' = [Used(m) EXCEPT ![PreOf(m)].next = line[m].next]
              /\ srv_pc' = "cut"
              /\ job' = [NoJob EXCEPT !.line = m]
  BY <1>1 DEF ReleaseVictim, policy
<1>4. line[m].num_using \in Nat \ {0}  BY <1>2, UsedAlone
<1>5. ASSUME line' \in [Lines -> LineType], srv_pc' \in {"loop", "cut"},
             job' \in [client : Clients \cup {None}, line : Lines \cup {None}, pre : Lines \cup {None}]
      PROVE  TypeOK'
  BY <1>2, <1>3, <1>5 DEF Inv, TypeOK, LineType, client
<1>6. job \in [client : Clients \cup {None}, line : Lines \cup {None}, pre : Lines \cup {None}]
  BY DEF Inv, TypeOK
<1>7. CASE ~ LastOfLine(m)
  <2>1. line' = Used(m) /\ srv_pc' = srv_pc /\ job' = job  BY <1>3, <1>7
  <2>2. /\ line' \in [Lines -> LineType]
        /\ \A l \in Lines : /\ line'[l].next = line[l].next /\ line'[l].tag = line[l].tag
                            /\ line'[l].num_using = IF l = m THEN line[l].num_using - 1
                                                    ELSE line[l].num_using
    BY <1>2, <1>4, <2>1, UsedSet
  <2>3. TypeOK'  BY <1>3, <1>5, <1>6, <2>1, <2>2
  <2>4. Counts'  BY <1>1, <2>2, VictimCounts
  <2>5. Structure'
    <3>1. ASSUME NEW l \in Lines, line[l].tag = None \/ Moving(l) PROVE EmptyLine(l)'
      <4>1. EmptyLine(l) /\ l # m
        BY <1>2, <3>1 DEF Inv, Structure, Untagged, MovingEmpty
      <4>2. line'[l].num_using = line[l].num_using  BY <2>2, <4>1
      <4>. QED  BY <1>1, <4>1, <4>2, EmptyOthers
    <3>. QED  BY <1>3, <2>1, <2>2, <3>1, StructureKept
  <2>6. JobOK'  BY <1>3, <2>1 DEF JobOK
  <2>. QED  BY <1>1, <1>3, <2>2, <2>3, <2>4, <2>5, <2>6, VictimStep
<1>8. CASE LastOfLine(m)
  <2>1. line[m].num_using = 1  BY <1>8 DEF LastOfLine
  <2>2. PICK b \in Buckets : \E i \in 1 .. Len(Chain(b)) :
              /\ b = get_bucket(line[m].tag) /\ Chain(b)[i] = m
              /\ PreOf(m) = IF i = 1 THEN None ELSE Chain(b)[i - 1]
              /\ i # 1 => Chain(b)[i - 1] \in Lines /\ Chain(b)[i - 1] # m
    BY <1>2, PreOfIs
  <2>3. PICK n \in 1 .. Len(Chain(b)) :
              /\ Chain(b)[n] = m
              /\ PreOf(m) = IF n = 1 THEN None ELSE Chain(b)[n - 1]
              /\ n # 1 => Chain(b)[n - 1] \in Lines /\ Chain(b)[n - 1] # m
    BY <2>2
  <2>4. \A o \in Offsets : InUse(m, o) => o = q  BY <1>1, <2>1, VictimEmpties
  <2>5. CASE n = 1
    <3>1. line' = HeadDeleted(m) /\ srv_pc' = srv_pc /\ job' = job  BY <1>3, <1>8, <2>3, <2>5
    <3>2. m = b /\ m \in Buckets /\ OnChain(m, m)  BY <2>3, <2>5, ChainFacts, FirstOfBucket
    <3>3. /\ Structure' /\ line' \in [Lines -> LineType]
          /\ \A l \in Lines : /\ line'[l].num_using = IF l = m THEN line[l].num_using - 1
                                                      ELSE line[l].num_using
                              /\ line'[l].tag = IF l = m THEN None ELSE line[l].tag
      BY <1>1, <1>3, <2>1, <3>1, <3>2, VictimHead
    <3>4. TypeOK'  BY <1>3, <1>5, <1>6, <3>1, <3>3
    <3>5. Counts'  BY <1>1, <3>3, VictimCounts
    <3>6. JobOK'  BY <1>3, <3>1 DEF JobOK
    <3>7. \A l \in Lines : \A o \in Offsets :
               InUse(l, o) /\ ~ (l = m /\ o = q) => line'[l].tag = line[l].tag
      BY <2>4, <3>3
    <3>. QED  BY <1>1, <1>3, <3>3, <3>4, <3>5, <3>6, <3>7, VictimStep
  <2>6. CASE n # 1
    <3>1. /\ PreOf(m) = Chain(b)[n - 1] /\ PreOf(m) # None
          /\ Chain(b)[n - 1] \in Lines /\ Chain(b)[n - 1] # m
      BY <2>3, <2>6, LinesType
    <3>2. /\ line' = [Used(m) EXCEPT ![Chain(b)[n - 1]].next = line[m].next]
          /\ srv_pc' = "cut" /\ job' = [NoJob EXCEPT !.line = m]
      BY <1>3, <1>8, <3>1
    <3>3. job'.line = m /\ job' \in [client : Clients \cup {None}, line : Lines \cup {None}, pre : Lines \cup {None}]
      BY <1>2, <3>2 DEF NoJob
    <3>4. n \in 2 .. Len(Chain(b))  BY <2>6, ChainFacts
    <3>5. /\ Structure' /\ line' \in [Lines -> LineType]
          /\ \A l \in Lines : /\ line'[l].num_using = IF l = m THEN line[l].num_using - 1
                                                      ELSE line[l].num_using
                              /\ line'[l].tag = line[l].tag
      BY <1>1, <1>3, <2>1, <2>3, <3>1, <3>2, <3>3, <3>4, VictimCut
    <3>6. TypeOK'  BY <1>5, <3>2, <3>3, <3>5
    <3>7. Counts'  BY <1>1, <3>5, VictimCounts
    <3>8. JobOK'  BY <1>2, <3>2, <3>3, LinesType DEF JobOK
    <3>. QED  BY <1>1, <1>3, <3>5, <3>6, <3>7, <3>8, VictimStep
  <2>. QED  BY <2>5, <2>6
<1>. QED  BY <1>7, <1>8

\* At first each chain is its first line.
LEMMA InitChains ==
    ASSUME Init
    PROVE  /\ ChainsOK
           /\ \A b \in Buckets : Chain(b) = <<b>>
<1>. DEFINE C == [b \in Buckets |-> <<b>>]
<1>1. \A l \in Lines : line[l].next = None  BY DEF Init
<1>2. IsFamily(line, C)
  <2>1. ASSUME NEW b \in Buckets PROVE IsWalk(line, b, C[b])
    <3>1. C[b] = <<b>> /\ b \in Lines  BY LinesType
    <3>2. <<b>> \in Seq(Lines) /\ Len(<<b>>) = 1 /\ <<b>>[1] = b  BY <3>1
    <3>3. IsWalk(line, b, <<b>>)  BY <1>1, <3>1, <3>2 DEF IsWalk
    <3>. QED  BY <3>1, <3>3
  <2>. QED  BY <2>1 DEF IsFamily
<1>3. DisjointIn(C)
  <2>1. \A b \in Buckets : Len(C[b]) = 1 /\ C[b][1] = b  OBVIOUS
  <2>. HIDE DEF C
  <2>. QED  BY <2>1 DEF DisjointIn
<1>4. \A b \in Buckets : Chain(b) = C[b]  BY <1>2, <1>3, FamilyIs, ChainNow
<1>5. Chains = C  BY <1>4 DEF Chains
<1>6. ChainsOK  BY <1>2, <1>3, <1>5 DEF ChainsOK
<1>. QED  BY <1>4, <1>6

\* The invariant holds at first.
LEMMA InitInv == Init => Inv
<1>. SUFFICES ASSUME Init PROVE Inv  OBVIOUS
<1>1. /\ \A l \in Lines : line[l].tag = None /\ line[l].next = None /\ line[l].num_using = 0
      /\ \A l \in Lines : \A o \in Offsets : header[l][o] = EmptyHeader
      /\ srv_pc = "loop" /\ job = NoJob /\ evictable = {} /\ allocated = 0
      /\ \A c \in Clients : /\ ctx[c] = NoContext /\ pc[c] = "idle" /\ op[c] = "pin"
                            /\ page[c] = None /\ at[c] = None
  BY DEF Init
<1>2. /\ ~ EmptyHeader.exist /\ ~ EmptyHeader.busy /\ EmptyHeader.ref_count = 0
      /\ EmptyHeader.ppage_id = None /\ EmptyHeader \in Header
  BY DEF EmptyHeader, Header
<1>3. /\ NoContext.phase = "End" /\ NoContext.hint = None
      /\ NoContext \in [phase : {"End", "Evicting", "Loading"}, hint : Lines \cup {None},
                        victim : Pages \cup {None}, pre_hint : Lines \cup {None}]
  BY DEF NoContext
<1>4. /\ pool \in Seq(Lines) /\ Len(pool) = NumFrames
      /\ \A i \in 1 .. NumFrames : pool[i] = bucket_size + i - 1
  <2>1. pool = [i \in 1 .. NumFrames |-> bucket_size + i - 1]  BY DEF Init
  <2>2. \A i \in 1 .. NumFrames : bucket_size + i - 1 \in Lines  BY LinesType DEF Lines
  <2>. QED  BY <2>1, <2>2, LinesType
<1>5. TypeOK
  <2>1. line \in [Lines -> [tag : Tags \cup {None}, next : Lines \cup {None}, num_using : Nat]]
    BY DEF Init
  <2>2. header \in [Lines -> [Offsets -> Header]]  BY <1>2 DEF Init
  <2>3. job \in [client : Clients \cup {None}, line : Lines \cup {None}, pre : Lines \cup {None}]
    BY <1>1 DEF NoJob
  <2>4. evictable \in SUBSET Pages /\ allocated \in 0 .. NumFrames  BY <1>1, LinesType
  <2>5. ctx \in [Clients -> [phase : {"End", "Evicting", "Loading"}, hint : Lines \cup {None},
                            victim : Pages \cup {None}, pre_hint : Lines \cup {None}]]
    BY <1>3 DEF Init
  <2>6. /\ pc \in [Clients -> {"idle", "tag", "next", "found", "check", "wait", "held"}]
        /\ op \in [Clients -> {"pin", "unpin"}]
        /\ page \in [Clients -> Pages \cup {None}]
        /\ at \in [Clients -> Lines \cup {None}]
        /\ first \in [Clients -> BOOLEAN]
        /\ frame \in [Clients -> 1 .. NumFrames \cup {None}]
    BY DEF Init
  <2>. QED  BY <1>1, <1>4, <2>1, <2>2, <2>3, <2>4, <2>5, <2>6 DEF TypeOK
<1>6. \A l : ~ Moving(l)  BY <1>1 DEF Moving
<1>7. \A l \in Lines : EmptyLine(l)  BY <1>1 DEF EmptyLine
<1>8. \A l \in Lines : InChain(l) <=> l \in Buckets
  <2>1. \A b \in Buckets : Len(<<b>>) = 1 /\ <<b>>[1] = b  OBVIOUS
  <2>2. \A b \in Buckets : \A l : OnChain(b, l) <=> l = b  BY <2>1, InitChains DEF OnChain
  <2>. QED  BY <2>2 DEF InChain
<1>9. \A l \in Lines : InPool(l) <=> l \notin Buckets
  <2>1. ASSUME NEW l \in Lines, InPool(l) PROVE l \notin Buckets
    <3>1. PICK i \in 1 .. NumFrames : l = bucket_size + i - 1  BY <2>1, <1>4 DEF InPool
    <3>. QED  BY <3>1, LinesType DEF Buckets
  <2>2. ASSUME NEW l \in Lines, l \notin Buckets PROVE InPool(l)
    <3>1. l - bucket_size + 1 \in 1 .. NumFrames  BY <2>2, LinesType DEF Buckets, Lines
    <3>2. pool[l - bucket_size + 1] = l  BY <1>4, <3>1, LinesType DEF Lines
    <3>. QED  BY <1>4, <3>1, <3>2 DEF InPool
  <2>. QED  BY <2>1, <2>2
<1>10. Structure
  <2>1. PoolDistinct  BY <1>4, LinesType DEF PoolDistinct
  <2>2. Placed  BY <1>6, <1>8, <1>9 DEF Placed
  <2>3. TagsUnique /\ TagsHome /\ PoolEmpty /\ Untagged
    BY <1>1, <1>7 DEF TagsUnique, TagsHome, PoolEmpty, Untagged
  <2>4. MovingEmpty  BY <1>1, <1>6 DEF MovingEmpty
  <2>. QED  BY <2>1, <2>2, <2>3, <2>4, InitChains DEF Structure
<1>11. Counts
  <2>1. ASSUME NEW l \in Lines PROVE line[l].num_using = Cardinality({o \in Offsets : InUse(l, o)})
    <3>1. {o \in Offsets : InUse(l, o)} = {}  BY <1>1, <1>2 DEF InUse
    <3>. QED  BY <3>1, <1>1, FS_EmptySet
  <2>. QED  BY <2>1 DEF Counts
<1>12. Holders = {}  BY <1>1 DEF Holders
<1>13. RefsCounted
  <2>1. ASSUME NEW l \in Lines, NEW o \in Offsets
        PROVE  header[l][o].ref_count = Cardinality(Refs(l, o)) /\ Refs(l, o) = {}
    <3>1. \A c \in Clients : ~ Ref(c, l)  BY <1>1, <1>3, <1>12 DEF Ref
    <3>2. Refs(l, o) = {}  BY <3>1 DEF Refs
    <3>. QED  BY <3>2, <1>1, <1>2, FS_EmptySet
  <2>. QED  BY <2>1 DEF RefsCounted
<1>14. FramesDistinct /\ FramesAllocated  BY <1>1, <1>2 DEF FramesDistinct, FramesAllocated
<1>15. \A c \in Clients : Control(c) /\ Access(c) /\ Loading(c) /\ Evicting(c) /\ Ended(c)
  BY <1>1, <1>3, <1>12 DEF Control, Access, Loading, Evicting, Ended
<1>16. ContextsDistinct  BY <1>1, <1>3 DEF ContextsDistinct
<1>17. JobOK /\ EvictableMapped  BY <1>1 DEF JobOK, EvictableMapped
<1>. QED  BY <1>5, <1>10, <1>11, <1>13, <1>14, <1>15, <1>16, <1>17 DEF Inv

\* A step that changes nothing preserves the invariant.
LEMMA StutterInv ==
    ASSUME Inv, UNCHANGED vars
    PROVE  Inv'
<1>1. /\ line' = line /\ header' = header /\ pool' = pool /\ allocated' = allocated
      /\ evictable' = evictable /\ srv_pc' = srv_pc /\ job' = job /\ ctx' = ctx
      /\ pc' = pc /\ op' = op /\ page' = page /\ at' = at /\ first' = first /\ frame' = frame
  BY DEF vars, table, policy, server, client
<1>2. TypeOK'  BY <1>1 DEF TypeOK, Inv
<1>3. JobOK'  BY <1>1 DEF JobOK, Inv
<1>4. \A d \in Clients : SameClient(d)  BY <1>1 DEF SameClient
<1>. QED  BY <1>1, <1>2, <1>3, <1>4, IdleStep

\* Every step preserves the invariant.
LEMMA NextInv == Inv /\ [Next]_vars => Inv'
<1>. SUFFICES ASSUME Inv, [Next]_vars PROVE Inv'  OBVIOUS
<1>1. ASSUME NEW c \in Clients, InCall(c) PROVE Inv'
  BY <1>1, ReadTagInv, ReadNextInv, IncInv, CheckInv, CheckFailsInv, DecInv DEF InCall
<1>2. ASSUME NEW c \in Clients, UnpinCall(c) PROVE Inv'
  BY <1>2, UnpinCallInv
<1>3. ASSUME NEW c \in Clients, NEW v \in Pages, PinCall(c, v) PROVE Inv'
  BY <1>3, PinCallInv
<1>4. ASSUME NEW c \in Clients, ServeFind(c) PROVE Inv'
  BY <1>4, ServeFindInv
<1>5. ASSUME NEW c \in Clients, ServeCreateHead(c) PROVE Inv'
  BY <1>5, ServeCreateHeadInv
<1>6. ASSUME NEW c \in Clients, ServeCreatePool(c) PROVE Inv'
  BY <1>6, ServeCreatePoolInv
<1>7. ASSUME NEW c \in Clients, ReleaseVictim(c) PROVE Inv'
  BY <1>7, ReleaseVictimInv
<1>8. ASSUME NEW c \in Clients, ReleaseLoaded(c) PROVE Inv'
  BY <1>8, ReleaseLoadedInv
<1>9. ASSUME NEW u \in Pages, InitEvict(u) PROVE Inv'
  BY <1>9, InitEvictInv
<1>10. ASSUME NEW u \in Pages, InitEvictFails(u) PROVE Inv'
  BY <1>10, InitEvictFailsInv
<1>11. ASSUME ServeLink \/ InitHit \/ InitRefused \/ InitAlloc PROVE Inv'
  BY <1>11, ServeLinkInv, InitHitInv, InitRefusedInv, InitAllocInv
<1>12. ASSUME DeleteCut \/ DeletePush PROVE Inv'
  BY <1>12, DeleteCutInv, DeletePushInv
<1>13. ASSUME Serve PROVE Inv'
  BY <1>13, <1>4, <1>5, <1>6, <1>7, <1>8, <1>9, <1>10, <1>11, <1>12 DEF Serve
<1>14. CASE UNCHANGED vars  BY <1>14, StutterInv
<1>15. CASE Next  BY <1>15, <1>1, <1>2, <1>3, <1>13 DEF Next
<1>. QED  BY <1>14, <1>15

\* The invariant of CompactHashPageTable, for any number of clients, pages and frames and any
\* length of a line: the chains end and are disjoint, every line is in one place,
\* tags are unique, and num_using and every ref_count are exact.
THEOREM TableInvariant == Spec => []Inv
<1>1. Init => Inv  BY InitInv
<1>2. Inv /\ [Next]_vars => Inv'  BY NextInv
<1>. QED  BY <1>1, <1>2, PTL DEF Spec

\* It implies that pointers stay mapped.
LEMMA PointersMappedStep == Inv => PointersMapped
<1>. SUFFICES ASSUME Inv PROVE PointersMapped  OBVIOUS
<1>1. ASSUME NEW c \in Holders
      PROVE  \E l \in Lines :
                /\ line[l].tag = Tag(page[c]) /\ Solid(l, Offset(page[c]))
                /\ header[l][Offset(page[c])].ppage_id = frame[c]
                /\ Entry(page[c]) = header[l][Offset(page[c])]
                /\ Offset(page[c]) \in Offsets /\ page[c] \in Pages
  <2>1. PICK l \in Lines :
                /\ line[l].tag = Tag(page[c]) /\ line[l].tag # None
                /\ Solid(l, Offset(page[c])) /\ InUse(l, Offset(page[c]))
                /\ header[l][Offset(page[c])].ppage_id = frame[c]
    BY HolderLine
  <2>2. page[c] \in Pages /\ Offset(page[c]) \in Offsets  BY HolderLine, TagType
  <2>3. ~ Moving(l)  BY <2>1, <2>2, UsedFacts
  <2>. QED  BY <2>1, <2>2, <2>3, LineOfIs
<1>2. ASSUME NEW c \in Holders, NEW d \in Holders
      PROVE  frame[c] = frame[d] <=> page[c] = page[d]
  <2>1. PICK l \in Lines :
                /\ line[l].tag = Tag(page[c]) /\ Solid(l, Offset(page[c]))
                /\ header[l][Offset(page[c])].ppage_id = frame[c]
                /\ Entry(page[c]) = header[l][Offset(page[c])]
                /\ Offset(page[c]) \in Offsets /\ page[c] \in Pages
    BY <1>1
  <2>2. PICK m \in Lines :
                /\ line[m].tag = Tag(page[d]) /\ Solid(m, Offset(page[d]))
                /\ header[m][Offset(page[d])].ppage_id = frame[d]
                /\ Entry(page[d]) = header[m][Offset(page[d])]
                /\ Offset(page[d]) \in Offsets /\ page[d] \in Pages
    BY <1>1
  <2>3. frame[c] = frame[d] => page[c] = page[d]
    <3>1. SUFFICES ASSUME frame[c] = frame[d] PROVE page[c] = page[d]  OBVIOUS
    <3>2. l = m /\ Offset(page[c]) = Offset(page[d])
      BY <2>1, <2>2, <3>1 DEF Solid, Inv, FramesDistinct
    <3>. QED  BY <2>1, <2>2, <3>2, PageIs
  <2>4. page[c] = page[d] => frame[c] = frame[d]  BY <2>1, <2>2
  <2>. QED  BY <2>3, <2>4
<1>. QED  BY <1>1, <1>2 DEF PointersMapped, Solid

\* The frame a pin returned stays the one of its page until the unpin: no interleaving of
\* lock-free walks, line reuse and evictions takes a page from its holder.
THEOREM PointersMappedHolds == Spec => []PointersMapped
  BY TableInvariant, PointersMappedStep, PTL

\* It implies that hints stay good.
LEMMA HintsStayStep == Inv => HintsStay
<1>. SUFFICES ASSUME Inv, NEW c \in Clients
              PROVE  /\ ctx[c].phase # "End" =>
                            /\ line[ctx[c].hint].tag = Tag(page[c])
                            /\ ctx[c].hint \in LinesOf(Tag(page[c]))
                     /\ ctx[c].phase = "Evicting" => ctx[c].pre_hint \in LinesOf(Tag(ctx[c].victim))
  BY DEF HintsStay
<1>1. ASSUME ctx[c].phase # "End"
      PROVE  line[ctx[c].hint].tag = Tag(page[c]) /\ ctx[c].hint \in LinesOf(Tag(page[c]))
  <2>1. /\ ctx[c].hint \in Lines /\ page[c] \in Pages
        /\ line[ctx[c].hint].tag = Tag(page[c])
        /\ header[ctx[c].hint][Offset(page[c])].exist
    BY <1>1 DEF Inv, TypeOK, Loading, Control
  <2>2. ~ Moving(ctx[c].hint)  BY <2>1, TagType, UsedFacts DEF InUse
  <2>. QED  BY <2>1, <2>2, LinesOfIs
<1>2. ASSUME ctx[c].phase = "Evicting"
      PROVE  ctx[c].pre_hint \in LinesOf(Tag(ctx[c].victim))
  <2>1. /\ ctx[c].pre_hint \in Lines /\ ctx[c].victim \in Pages
        /\ line[ctx[c].pre_hint].tag = Tag(ctx[c].victim)
        /\ header[ctx[c].pre_hint][Offset(ctx[c].victim)].busy
    BY <1>2 DEF Inv, TypeOK, Evicting
  <2>2. ~ Moving(ctx[c].pre_hint)  BY <2>1, TagType, UsedFacts DEF InUse
  <2>. QED  BY <2>1, <2>2, LinesOfIs
<1>. QED  BY <1>1, <1>2

\* The pte hints a request keeps across the I/O still are the lines of its pages when
\* the request returns to them.
THEOREM HintsStayHolds == Spec => []HintsStay
  BY TableInvariant, HintsStayStep, PTL

\* It implies that references are on the right lines.
LEMMA RefsOnLineStep == Inv => RefsOnLine
<1>. SUFFICES ASSUME Inv PROVE RefsOnLine  OBVIOUS
<1>. DEFINE ref == [c \in Clients |->
                       IF pc[c] = "check" THEN at[c]
                       ELSE IF c \in Holders THEN LineOf(Tag(page[c]))
                       ELSE ctx[c].hint]
<1>1. ASSUME NEW c \in Clients, NEW l \in Lines PROVE ref[c] = l <=> Ref(c, l)
  <2>1. CASE pc[c] = "check"
    <3>1. c \notin Holders /\ ctx[c].phase = "End"
      BY <2>1, NoContextOf DEF Holders, Inv, Control
    <3>. QED  BY <2>1, <3>1 DEF Ref
  <2>2. CASE pc[c] # "check" /\ c \in Holders
    <3>1. PICK m \in Lines :
                /\ line[m].tag = Tag(page[c]) /\ line[m].tag # None
                /\ Solid(m, Offset(page[c])) /\ InUse(m, Offset(page[c]))
      BY <2>2, HolderLine
    <3>2. page[c] \in Pages /\ Offset(page[c]) \in Offsets  BY <2>2, HolderLine, TagType
    <3>3. ~ Moving(m)  BY <3>1, <3>2, UsedFacts
    <3>4. ref[c] = m  BY <2>2, <3>1, <3>2, <3>3, LineOfIs
    <3>5. ctx[c].phase = "End"
      <4>1. pc[c] # "wait"  BY <2>2 DEF Holders, Inv, Control
      <4>. QED  BY <4>1, NoContextOf
    <3>6. Ref(c, l) <=> line[l].tag = Tag(page[c])  BY <2>2, <3>5 DEF Ref
    <3>7. line[l].tag = Tag(page[c]) <=> l = m
      BY <3>1 DEF Inv, Structure, TagsUnique
    <3>. QED  BY <3>4, <3>6, <3>7
  <2>3. CASE pc[c] # "check" /\ c \notin Holders
    <3>1. ref[c] = ctx[c].hint  BY <2>3
    <3>2. Ref(c, l) <=> ctx[c].phase # "End" /\ ctx[c].hint = l  BY <2>3 DEF Ref
    <3>3. ctx[c].phase = "End" => ctx[c].hint # l  BY LinesType DEF Inv, Ended
    <3>. QED  BY <3>1, <3>2, <3>3
  <2>. QED  BY <2>1, <2>2, <2>3
<1>. HIDE DEF ref
<1>2. ASSUME NEW l \in Lines, NEW o \in Offsets
      PROVE  header[l][o].ref_count
               = Cardinality({c \in Clients : ref[c] = l /\ Offset(page[c]) = o})
  <2>1. {c \in Clients : ref[c] = l /\ Offset(page[c]) = o} = Refs(l, o)
    BY <1>1 DEF Refs
  <2>. QED  BY <2>1 DEF Inv, RefsCounted
<1>. QED  BY <1>2 DEF RefsOnLine, ref

\* ref_count of an entry counts its holders, the request that loads it and the walks
\* that are about to check; Inc on a line that changed its page is counted where it went.
THEOREM RefsOnLineHolds == Spec => []RefsOnLine
  BY TableInvariant, RefsOnLineStep, PTL

\* It implies that no line is lost.
LEMMA LinesConservedStep == Inv => LinesConserved
<1>. SUFFICES ASSUME Inv, srv_pc = "loop" PROVE LinesConserved  BY DEF LinesConserved
<1>. DEFINE chains == [b \in 0 .. bucket_size - 1 |-> ToSet(Chain(b))]
<1>1. \A l : ~ Moving(l)  BY DEF Moving
<1>2. DOMAIN chains = Buckets /\ \A b \in Buckets : chains[b] = {l \in Lines : OnChain(b, l)}
  BY ChainFacts DEF Buckets
<1>3. DOMAIN pool = 1 .. Len(pool) /\ \A i \in 1 .. Len(pool) : pool[i] \in Lines
  BY DEF Inv, TypeOK
<1>. HIDE DEF chains
<1>4. ASSUME NEW l \in Lines
      PROVE  Cardinality({b \in DOMAIN chains : l \in chains[b]})
               + Cardinality({i \in DOMAIN pool : pool[i] = l}) = 1
  <2>1. {b \in DOMAIN chains : l \in chains[b]} = {b \in Buckets : OnChain(b, l)}  BY <1>2
  <2>2. (InChain(l) \/ InPool(l)) /\ ~ (InChain(l) /\ InPool(l))
    BY <1>1 DEF Inv, Structure, Placed
  <2>3. CASE InChain(l)
    <3>1. PICK b \in Buckets : OnChain(b, l)  BY <2>3 DEF InChain
    <3>2. {a \in Buckets : OnChain(a, l)} = {b}
      BY <3>1 DEF Inv, Structure, ChainsOK, DisjointIn, Chains, OnChain
    <3>3. {i \in DOMAIN pool : pool[i] = l} = {}  BY <1>3, <2>2, <2>3 DEF InPool
    <3>4. Cardinality({b}) = 1 /\ Cardinality({}) = 0  BY FS_Singleton, FS_EmptySet
    <3>. QED  BY <2>1, <3>2, <3>3, <3>4
  <2>4. CASE InPool(l)
    <3>1. PICK i \in 1 .. Len(pool) : pool[i] = l  BY <2>4 DEF InPool
    <3>2. {j \in DOMAIN pool : pool[j] = l} = {i}
      BY <1>3, <3>1 DEF Inv, Structure, PoolDistinct
    <3>3. {b \in Buckets : OnChain(b, l)} = {}  BY <2>2, <2>4 DEF InChain
    <3>4. Cardinality({i}) = 1 /\ Cardinality({}) = 0  BY FS_Singleton, FS_EmptySet
    <3>5. Cardinality({j \in DOMAIN pool : pool[j] = l}) = 1  BY <3>2, <3>4
    <3>6. Cardinality({b \in DOMAIN chains : l \in chains[b]}) = 0  BY <2>1, <3>3, <3>4
    <3>. QED  BY <3>5, <3>6
  <2>. QED  BY <2>2, <2>3, <2>4
<1>5. ASSUME NEW i \in DOMAIN pool
      PROVE  /\ line[pool[i]] = [tag |-> None, next |-> None, num_using |-> 0]
             /\ header[pool[i]] = [o \in Offsets |-> EmptyHeader]
  <2>1. PICK l \in Lines : l = pool[i]  BY <1>3
  <2>2. InPool(l)  BY <1>3, <2>1 DEF InPool
  <2>3. line[l].tag = None /\ line[l].next = None /\ EmptyLine(l)
    BY <2>2 DEF Inv, Structure, PoolEmpty, Untagged
  <2>4. line[l] \in [tag : Tags \cup {None}, next : Lines \cup {None}, num_using : Nat]
    BY DEF Inv, TypeOK
  <2>5. line[l] = [tag |-> None, next |-> None, num_using |-> 0]
    BY <2>3, <2>4 DEF EmptyLine
  <2>6. header[l] \in [Offsets -> Header]  BY DEF Inv, TypeOK
  <2>7. header[l] = [o \in Offsets |-> EmptyHeader]
    <3>1. \A o \in Offsets : header[l][o] = EmptyHeader  BY <2>3 DEF EmptyLine
    <3>. QED  BY <2>6, <3>1
  <2>. QED  BY <2>1, <2>5, <2>7
<1>6. ASSUME NEW v \in Pages PROVE Cardinality(LinesOf(Tag(v))) <= 1
  <2>1. LinesOf(Tag(v)) = {l \in Lines : line[l].tag = Tag(v) /\ ~ Moving(l)}
    BY LinesOfIs
  <2>2. CASE LinesOf(Tag(v)) = {}  BY <2>2, FS_EmptySet
  <2>3. CASE LinesOf(Tag(v)) # {}
    <3>1. PICK l \in Lines : line[l].tag = Tag(v) /\ ~ Moving(l)  BY <2>1, <2>3
    <3>2. LinesOf(Tag(v)) = {l}  BY <3>1, LineOfIs
    <3>3. Cardinality({l}) = 1  BY FS_Singleton
    <3>. QED  BY <3>2, <3>3
  <2>. QED  BY <2>2, <2>3
<1>. QED  BY <1>4, <1>5, <1>6 DEF LinesConserved, chains

\* Every line is in one chain, once in the pool, or in the server's hands: the pool of
\* NumFrames lines does not run out, and no line is in two chains.
THEOREM LinesConservedHolds == Spec => []LinesConserved
  BY TableInvariant, LinesConservedStep, PTL

-----------------------------------------------------------------------------
(* Positions in a chain *)

\* Client c holds page v, which is in the n-th line of its chain.
HolderAt(c, v, b, l, n) ==
    /\ page[c] = v /\ b = get_bucket(Tag(v))
    /\ line[l].tag = Tag(v) /\ Solid(l, Offset(v))
    /\ n \in 1 .. Len(Chain(b)) /\ Chain(b)[n] = l /\ Position(v) = n

\* Every holder's page is somewhere in its chain.
HoldersStand ==
    \A c \in Holders : \E v \in Pages : \E b \in Buckets : \E l \in Lines : \E n \in Nat :
        HolderAt(c, v, b, l, n)

\* The invariant implies it.
LEMMA HoldersStandStep == Inv => HoldersStand
<1>. SUFFICES ASSUME Inv, NEW c \in Holders
              PROVE  \E v \in Pages : \E b \in Buckets : \E l \in Lines : \E n \in Nat :
                         HolderAt(c, v, b, l, n)
  BY DEF HoldersStand
<1>1. PICK v \in Pages : v = page[c]  BY HolderLine
<1>2. PICK l \in Lines :
            /\ line[l].tag = Tag(v) /\ line[l].tag # None
            /\ Solid(l, Offset(v)) /\ InUse(l, Offset(v))
  BY <1>1, HolderLine
<1>3. ~ Moving(l)  BY <1>2, TagType, UsedFacts
<1>4. PICK b \in Buckets : b = get_bucket(Tag(v))  BY TagType, BucketType
<1>5. OnChain(b, l)  BY <1>2, <1>3, <1>4 DEF Inv, Structure, TagsHome
<1>6. PICK n \in 1 .. Len(Chain(b)) : Chain(b)[n] = l  BY <1>5 DEF OnChain
<1>7. n \in Nat /\ DOMAIN Chain(b) = 1 .. Len(Chain(b))  BY ChainFacts
<1>8. \A i \in 1 .. Len(Chain(b)) : Chain(b)[i] = l => i = n
  BY <1>6 DEF Inv, Structure, ChainsOK, DisjointIn, Chains
<1>9. LineOf(Tag(v)) = l  BY <1>2, <1>3, LineOfIs
<1>10. Position(v) = n
  <2>1. Position(v) = CHOOSE i \in DOMAIN Chain(b) : Chain(b)[i] = l
    BY <1>4, <1>9 DEF Position
  <2>. QED  BY <2>1, <1>6, <1>7, <1>8
<1>. QED  BY <1>1, <1>2, <1>4, <1>6, <1>7, <1>10 DEF HolderAt

\* What a step may do to a chain: append a line, or take out one that is not the first.
ChainMoves(b) ==
    \/ Chain(b)' = Chain(b)
    \/ \E k \in Lines : ~ OnChain(b, k) /\ Chain(b)' = Append(Chain(b), k)
    \/ \E n \in 2 .. Len(Chain(b)) : Chain(b)' = Without(Chain(b), n)

\* Lines with a mapped, unlocked entry keep their tags.
TagsHeld ==
    \A l \in Lines : \A o \in Offsets : Solid(l, o) => line'[l].tag = line[l].tag

\* What a step may do to the table under the walks.
GoodStep == TagsHeld /\ \A b \in Buckets : ChainMoves(b)

\* A step that leaves next and those tags alone is such a step.
LEMMA SameGood ==
    ASSUME Inv, TagsHeld, \A l \in Lines : InChain(l) => line'[l].next = line[l].next
    PROVE  GoodStep
  BY SameChains DEF GoodStep, ChainMoves

\* So is each of the steps that change lines: the first line of the bucket gets a tag,
LEMMA CreateHeadGood ==
    ASSUME Inv, NEW c \in Clients, ServeCreateHead(c)
    PROVE  GoodStep
<1>1. PICK v \in Pages : v = page[c]  BY WaitsFacts DEF ServeCreateHead
<1>2. PICK t, b : t = Tag(v) /\ b = get_bucket(t)  OBVIOUS
<1>3. t \in Tags \cup {None} /\ b \in Lines  BY <1>1, <1>2, WaitsFacts, TagType DEF ServeCreateHead
<1>4. line' = [line EXCEPT ![b].tag = t] /\ line[b].tag = None
  BY <1>1, <1>2 DEF ServeCreateHead
<1>5. \A l \in Lines : /\ line'[l].next = line[l].next
                       /\ line'[l].tag = IF l = b THEN t ELSE line[l].tag
  <2>1. b \in Lines /\ t \in Tags \cup {None} /\ line' = [line EXCEPT ![b].tag = t]
    BY <1>3, <1>4
  <2>. QED  BY <2>1, TagSet
<1>6. TagsHeld  BY <1>4, <1>5, UsedFacts DEF TagsHeld, Solid, InUse
<1>. QED  BY <1>5, <1>6, SameGood

\* a line of the pool gets one,
LEMMA CreatePoolGood ==
    ASSUME Inv, NEW c \in Clients, ServeCreatePool(c)
    PROVE  GoodStep
<1>1. PICK v \in Pages : v = page[c]  BY WaitsFacts DEF ServeCreatePool
<1>2. PICK t, k : t = Tag(v) /\ k = Last(pool)  OBVIOUS
<1>3. line' = [line EXCEPT ![k].tag = t] /\ pool # <<>>
  BY <1>1, <1>2 DEF ServeCreatePool
<1>4. k \in Lines /\ InPool(k)
  <2>1. pool \in Seq(Lines) /\ Len(pool) \in Nat \ {0}  BY <1>3 DEF Inv, TypeOK
  <2>. QED  BY <2>1, <1>2 DEF InPool, Last
<1>5. t \in Tags \cup {None} /\ line[k].tag = None
  BY <1>2, <1>4, TagType DEF Inv, Structure, PoolEmpty
<1>6. \A l \in Lines : /\ line'[l].next = line[l].next
                       /\ line'[l].tag = IF l = k THEN t ELSE line[l].tag
  <2>1. k \in Lines /\ t \in Tags \cup {None} /\ line' = [line EXCEPT ![k].tag = t]
    BY <1>3, <1>4, <1>5
  <2>. QED  BY <2>1, TagSet
<1>7. TagsHeld  BY <1>5, <1>6, UsedFacts DEF TagsHeld, Solid, InUse
<1>. QED  BY <1>6, <1>7, SameGood

\* a line is linked,
LEMMA LinkGood ==
    ASSUME Inv, ServeLink
    PROVE  GoodStep
<1>1. PICK k, p : k = job.line /\ p = job.pre  OBVIOUS
<1>2. srv_pc = "link" /\ line' = [line EXCEPT ![p].next = k]
  BY <1>1 DEF ServeLink, Linked
<1>3. k \in Lines /\ line[k].tag # None /\ ~ InChain(k)  BY <1>1, <1>2, MovingFacts
<1>4. PICK b \in Buckets : b = get_bucket(line[k].tag)  BY <1>3, TagFacts
<1>5. line[k].next = None /\ p = Chain(b)[Len(Chain(b))] /\ p \in Lines
  <2>1. line[k].next = None /\ p = Chain(b)[Len(Chain(b))]
    BY <1>1, <1>2, <1>4 DEF Inv, Structure, MovingEmpty
  <2>. QED  BY <2>1, ChainFacts
<1>6. \A l \in Lines : /\ line'[l].tag = line[l].tag
                       /\ line'[l].next = IF l = p THEN k ELSE line[l].next
  <2>1. p \in Lines /\ k \in Lines \cup {None} /\ line' = [line EXCEPT ![p].next = k]
    BY <1>2, <1>3, <1>5
  <2>. QED  BY <2>1, NextSet
<1>7. Chain(b)' = Append(Chain(b), k) /\ \A a \in Buckets \ {b} : Chain(a)' = Chain(a)
  BY <1>3, <1>5, <1>6, LinkChains
<1>8. ~ OnChain(b, k)  BY <1>3 DEF InChain
<1>9. \A a \in Buckets : ChainMoves(a)  BY <1>3, <1>7, <1>8 DEF ChainMoves
<1>10. TagsHeld  BY <1>6 DEF TagsHeld
<1>. QED  BY <1>9, <1>10 DEF GoodStep

\* a page is mapped,
LEMMA MapGood ==
    ASSUME Inv, InitAlloc \/ \E u \in Pages : InitEvict(u)
    PROVE  GoodStep
<1>1. srv_pc = "init" /\ line' = [line EXCEPT ![job.line].num_using = @ + 1]
  BY DEF InitAlloc, InitEvict
<1>2. PICK l0 \in Lines : l0 = job.line  BY <1>1, JobFacts
<1>3. line' = [line EXCEPT ![l0] = [line[l0] EXCEPT !.num_using = line[l0].num_using + 1]]
  BY <1>1, <1>2
<1>4. \A l \in Lines : line'[l].tag = line[l].tag /\ line'[l].next = line[l].next
  BY <1>3, OneMoreUsed
<1>. QED  BY <1>4, SameGood DEF TagsHeld

\* the next of a cut line is cleared,
LEMMA DeleteCutGood ==
    ASSUME Inv, DeleteCut
    PROVE  GoodStep
<1>1. PICK k : k = job.line  OBVIOUS
<1>2. srv_pc = "cut" /\ line' = [line EXCEPT ![k].next = None]  BY <1>1 DEF DeleteCut
<1>3. k \in Lines /\ ~ InChain(k)  BY <1>1, <1>2, MovingFacts
<1>4. \A l \in Lines : /\ line'[l].tag = line[l].tag
                       /\ line'[l].next = IF l = k THEN None ELSE line[l].next
  BY <1>2, <1>3, NextSet
<1>. QED  BY <1>3, <1>4, SameGood DEF TagsHeld

\* it returns to the pool,
LEMMA DeletePushGood ==
    ASSUME Inv, DeletePush
    PROVE  GoodStep
<1>1. PICK k : k = job.line  OBVIOUS
<1>2. srv_pc = "push" /\ line' = [line EXCEPT ![k].tag = None]  BY <1>1 DEF DeletePush
<1>3. k \in Lines /\ \A o \in Offsets : ~ InUse(k, o)  BY <1>1, <1>2, MovingFacts
<1>4. \A l \in Lines : /\ line'[l].next = line[l].next
                       /\ line'[l].tag = IF l = k THEN None ELSE line[l].tag
  BY <1>2, <1>3, TagSet
<1>5. TagsHeld  BY <1>3, <1>4 DEF TagsHeld, Solid, InUse
<1>. QED  BY <1>4, <1>5, SameGood

\* and a line is taken out of its chain.
LEMMA ReleaseVictimGood ==
    ASSUME Inv, NEW c \in Clients, ReleaseVictim(c)
    PROVE  GoodStep
<1>1. PICK m, q : m = ctx[c].pre_hint /\ VictimFacts(c, m, q)  BY VictimIs
<1>2. m \in Lines /\ q \in Offsets /\ line[m].tag # None /\ ~ Moving(m) /\ InUse(m, q) /\ ~ header[m][q].exist
  BY <1>1 DEF VictimFacts
<1>3. /\ srv_pc = "loop" /\ pool' = pool
      /\ IF ~ LastOfLine(m)
         THEN line' = Used(m) /\ UNCHANGED <<srv_pc, job>>
         ELSE IF PreOf(m) = None
         THEN line' = HeadDeleted(m) /\ UNCHANGED <<srv_pc, job>>
         ELSE /\ line' = [Used(m) EXCEPT ![PreOf(m)].next = line[m].next]
              /\ srv_pc' = "cut"
              /\ job' = [NoJob EXCEPT !.line = m]
  BY <1>1 DEF ReleaseVictim
<1>4. line[m].num_using \in Nat \ {0}  BY <1>2, UsedAlone
<1>5. CASE ~ LastOfLine(m)
  <2>1. line' = Used(m)  BY <1>3, <1>5
  <2>2. \A l \in Lines : line'[l].next = line[l].next /\ line'[l].tag = line[l].tag
    BY <1>2, <1>4, <2>1, UsedSet
  <2>. QED  BY <2>2, SameGood DEF TagsHeld
<1>6. CASE LastOfLine(m)
  <2>1. line[m].num_using = 1  BY <1>6 DEF LastOfLine
  <2>2. PICK b \in Buckets : \E i \in 1 .. Len(Chain(b)) :
              /\ b = get_bucket(line[m].tag) /\ Chain(b)[i] = m
              /\ PreOf(m) = IF i = 1 THEN None ELSE Chain(b)[i - 1]
              /\ i # 1 => Chain(b)[i - 1] \in Lines /\ Chain(b)[i - 1] # m
    BY <1>2, PreOfIs
  <2>3. PICK n \in 1 .. Len(Chain(b)) :
              /\ Chain(b)[n] = m
              /\ PreOf(m) = IF n = 1 THEN None ELSE Chain(b)[n - 1]
              /\ n # 1 => Chain(b)[n - 1] \in Lines /\ Chain(b)[n - 1] # m
    BY <2>2
  <2>4. CASE n = 1
    <3>1. line' = HeadDeleted(m)  BY <1>3, <1>6, <2>3, <2>4
    <3>2. \A l \in Lines : line'[l].next = line[l].next /\ (l # m => line'[l].tag = line[l].tag)
      <4>1. line \in [Lines -> [tag : Tags \cup {None}, next : Lines \cup {None}, num_using : Nat]]
        BY DEF Inv, TypeOK
      <4>. QED  BY <1>2, <3>1, <4>1 DEF HeadDeleted
    <3>3. \A o \in Offsets : ~ Solid(m, o)
      BY <1>1, <1>2, <2>1, VictimEmpties DEF Solid, InUse
    <3>4. TagsHeld  BY <3>2, <3>3 DEF TagsHeld
    <3>. QED  BY <3>2, <3>4, SameGood
  <2>5. CASE n # 1
    <3>1. /\ PreOf(m) = Chain(b)[n - 1] /\ PreOf(m) # None
          /\ Chain(b)[n - 1] \in Lines /\ Chain(b)[n - 1] # m
      BY <2>3, <2>5, LinesType
    <3>2. /\ line' = [Used(m) EXCEPT ![Chain(b)[n - 1]].next = line[m].next]
          /\ srv_pc' = "cut" /\ job' = [NoJob EXCEPT !.line = m]
      BY <1>3, <1>6, <3>1
    <3>3. job'.line = m  BY <3>2 DEF NoJob
    <3>4. n \in 2 .. Len(Chain(b))  BY <2>5, ChainFacts
    <3>5. /\ \A l \in Lines : line'[l].tag = line[l].tag
          /\ Chain(b)' = Without(Chain(b), n)
          /\ \A a \in Buckets \ {b} : Chain(a)' = Chain(a)
      BY <1>1, <1>3, <2>1, <2>3, <3>1, <3>2, <3>3, <3>4, VictimCut
    <3>6. \A a \in Buckets : ChainMoves(a)  BY <3>4, <3>5 DEF ChainMoves
    <3>7. TagsHeld  BY <3>5 DEF TagsHeld
    <3>. QED  BY <3>6, <3>7 DEF GoodStep
  <2>. QED  BY <2>4, <2>5
<1>. QED  BY <1>5, <1>6

\* These are all the steps that change lines.
LEMMA LinesStep ==
    ASSUME Inv, [Next]_vars, line' # line
    PROVE  GoodStep
<1>1. ASSUME NEW c \in Clients PROVE ~ InCall(c) /\ ~ UnpinCall(c) /\ \A v \in Pages : ~ PinCall(c, v)
  BY DEF InCall, ReadTag, ReadNext, Inc, Check, CheckFails, Dec, UnpinCall, PinCall, StartWalk,
     table
<1>2. ASSUME NEW c \in Clients PROVE ~ ServeFind(c) /\ ~ ReleaseLoaded(c)
  BY DEF ServeFind, ReleaseLoaded, table
<1>3. /\ ~ InitHit /\ ~ InitRefused /\ \A u \in Pages : ~ InitEvictFails(u)
  BY DEF InitHit, InitRefused, InitEvictFails, table
<1>4. Next  BY DEF vars, table
<1>5. Serve  BY <1>1, <1>4 DEF Next
<1>6. \/ \E c \in Clients : ServeCreateHead(c) \/ ServeCreatePool(c) \/ ReleaseVictim(c)
      \/ ServeLink \/ InitAlloc \/ (\E u \in Pages : InitEvict(u)) \/ DeleteCut \/ DeletePush
  BY <1>2, <1>3, <1>5 DEF Serve
<1>. QED
  BY <1>6, CreateHeadGood, CreatePoolGood, ReleaseVictimGood, LinkGood, MapGood, DeleteCutGood,
     DeletePushGood

\* A line in the chain before and after such a step does not move away from the front.
LEMMA EarlierPosition ==
    ASSUME Inv, NEW b \in Buckets, ChainMoves(b),
           NEW n \in 1 .. Len(Chain(b)), NEW i \in Nat, i \in 1 .. Len(Chain(b)'),
           Chain(b)'[i] = Chain(b)[n]
    PROVE  i <= n
<1>1. PICK w \in Seq(Lines) : w = Chain(b) /\ Len(w) \in Nat  BY ChainFacts
<1>2. PICK z : z = Chain(b)'  OBVIOUS
<1>3. \A x, y \in 1 .. Len(w) : w[x] = w[y] => x = y
  BY <1>1 DEF Inv, Structure, ChainsOK, DisjointIn, Chains
<1>4. n \in 1 .. Len(w) /\ i \in 1 .. Len(z) /\ z[i] = w[n]  BY <1>1, <1>2
<1>5. CASE z = w  BY <1>3, <1>4, <1>5
<1>6. ASSUME NEW k \in Lines, ~ OnChain(b, k), z = Append(w, k) PROVE i <= n
  <2>1. Len(z) = Len(w) + 1 /\ z[Len(w) + 1] = k /\ \A j \in 1 .. Len(w) : z[j] = w[j]
    BY <1>1, <1>6
  <2>2. w[n] # k  BY <1>1, <1>4, <1>6 DEF OnChain
  <2>3. i \in 1 .. Len(w)  BY <1>1, <1>4, <2>1, <2>2
  <2>. QED  BY <1>3, <1>4, <2>1, <2>3
<1>7. ASSUME NEW k \in 2 .. Len(w), z = Without(w, k) PROVE i <= n
  <2>1. /\ Len(z) = Len(w) - 1
        /\ \A j \in 1 .. Len(w) - 1 : z[j] = IF j < k THEN w[j] ELSE w[j + 1]
    BY <1>7, WithoutProps
  <2>2. i \in 1 .. Len(w) /\ i + 1 \in 1 .. Len(w)  BY <1>1, <1>4, <2>1
  <2>3. w[n] = w[i] \/ w[n] = w[i + 1]  BY <1>4, <2>1
  <2>4. n = i \/ n = i + 1  BY <1>3, <1>4, <2>2, <2>3
  <2>. QED  BY <1>1, <1>4, <2>2, <2>4
<1>. QED  BY <1>1, <1>2, <1>5, <1>6, <1>7 DEF ChainMoves

\* A holder's line does not, so a walk to it does not get longer.
LEMMA WalksGetShorterStep ==
    ASSUME Inv, Inv', HoldersStand, HoldersStand', GoodStep,
           NEW c \in Holders, c \in Holders', page'[c] = page[c]
    PROVE  Position(page[c])' <= Position(page[c])
<1>1. PICK v \in Pages, b \in Buckets, l \in Lines, n \in Nat : HolderAt(c, v, b, l, n)
  BY DEF HoldersStand
<1>2. PICK u \in Pages, a \in Buckets, k \in Lines, i \in Nat : HolderAt(c, u, a, k, i)'
  BY DEF HoldersStand
<1>3. /\ page[c] = v /\ b = get_bucket(Tag(v)) /\ line[l].tag = Tag(v) /\ Solid(l, Offset(v))
      /\ n \in 1 .. Len(Chain(b)) /\ Chain(b)[n] = l /\ Position(v) = n
  BY <1>1 DEF HolderAt
<1>4. /\ page'[c] = u /\ a = get_bucket(Tag(u)) /\ line'[k].tag = Tag(u)
      /\ i \in 1 .. Len(Chain(a)') /\ Chain(a)'[i] = k /\ Position(u)' = i
  BY <1>2 DEF HolderAt
<1>5. u = v /\ a = b  BY <1>3, <1>4
<1>6. Position(v)' = i  BY <1>4, <1>5
<1>7. line'[l].tag = Tag(v) /\ Tag(v) # None  BY <1>3, TagType DEF GoodStep, TagsHeld
<1>8. k = l
  <2>1. TagsUnique'  BY DEF Inv, Structure
  <2>. QED  BY <1>4, <1>5, <1>7, <2>1 DEF TagsUnique
<1>9. i \in 1 .. Len(Chain(b)') /\ Chain(b)'[i] = Chain(b)[n]  BY <1>3, <1>4, <1>5, <1>8
<1>10. i <= n  BY <1>3, <1>9, EarlierPosition DEF GoodStep
<1>11. Position(page[c])' = i
  <2>1. Position(page[c])' = Position(u)'  BY <1>4 DEF Position
  <2>. QED  BY <2>1, <1>4
<1>. QED  BY <1>3, <1>10, <1>11

\* Under a holder, the way to its page's line only gets shorter.  This is why the
\* lock-free walk of its unpin, which restarts at the end of a chain, finds the line.
THEOREM WalksGetShorterHolds == Spec => WalksGetShorter
<1>. DEFINE Shorter == \A c \in Holders \cap Holders' :
                           page'[c] = page[c] => Position(page[c])' <= Position(page[c])
<1>1. Inv' => HoldersStand'  BY HoldersStandStep, PTL
<1>2. Inv /\ [Next]_vars /\ Inv' => [Shorter]_line
  <2>. SUFFICES ASSUME Inv, [Next]_vars, Inv', line' # line PROVE Shorter  OBVIOUS
  <2>1. HoldersStand /\ HoldersStand'  BY <1>1, HoldersStandStep
  <2>2. GoodStep  BY LinesStep
  <2>. QED  BY <2>1, <2>2, WalksGetShorterStep
<1>3. Spec => []Inv  BY TableInvariant
<1>. QED  BY <1>2, <1>3, PTL DEF Spec, WalksGetShorter, Shorter

=============================================================================
