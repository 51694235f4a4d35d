--------------------------- MODULE IoBackendProofs ---------------------------
(***************************************************************************)
(* Proofs about the I/O backends and the Partitioner under them.  Every    *)
(* page has a place of its own among the blocks of the partitions.  The    *)
(* inductive invariant of the backends says where the finish flag of a     *)
(* command lives: a request has at most one command, and a command's flag  *)
(* is the one in the context of a request that waits for it, on the        *)
(* fiber's stack whenever the request left the caller's.  With the         *)
(* invertible address, every backend is shown to implement BlockDevice.    *)
(***************************************************************************)
EXTENDS IoBackend, TLAPS

-----------------------------------------------------------------------------
(* The Partitioner *)

\* Euclidean division, the only facts about \div and % that the proofs use.
LEMMA Division ==
    ASSUME NEW id \in Nat
    PROVE  /\ id \div num_partitions \in Nat /\ id % num_partitions \in Nat
           /\ id % num_partitions < num_partitions
           /\ id = (id \div num_partitions) * num_partitions + (id % num_partitions)
BY PartitionsAssumption

\* operator()(partition_id, block_id) undoes operator()(vpage_id): no two pages share a
\* block of a partition.
THEOREM AddressInvertible ==
    \A id \in Nat : Page(Address(id)[1], Address(id)[2]) = id
<1> SUFFICES ASSUME NEW id \in Nat
             PROVE  Page(Address(id)[1], Address(id)[2]) = id
  OBVIOUS
<1>1. Page(Address(id)[1], Address(id)[2])
        = (id \div num_partitions) * num_partitions + (id % num_partitions)
  BY DEF Page, Address
<1>2. QED
  BY <1>1, Division

\* A page below num_vpages lies below num_blocks of its partition: the file that the
\* constructor has extended, or the namespace range SPDK has checked, contains it.
THEOREM AddressInRange ==
    \A id \in 0 .. num_vpages - 1 : Address(id) \in Addresses
<1> SUFFICES ASSUME NEW id \in Nat, id < num_vpages
             PROVE  Address(id) \in Addresses
  BY PartitionsAssumption
<1> DEFINE n == num_partitions
           p == id % n
           q == id \div n
           P == num_vpages % n
           Q == num_vpages \div n
<1>1. /\ n \in Nat \ {0} /\ p \in 0 .. n - 1 /\ P \in 0 .. n - 1 /\ q \in Nat /\ Q \in Nat
      /\ id = q * n + p /\ num_vpages = Q * n + P
  BY Division, PartitionsAssumption
<1> HIDE DEF n, p, q, P, Q
<1>2. q <= Q
  <2> SUFFICES ASSUME q >= Q + 1 PROVE FALSE
    BY <1>1
  <2>1. PICK d \in Nat : q = Q + 1 + d
    <3>1. q - Q - 1 \in Nat /\ q = Q + 1 + (q - Q - 1)
      BY <1>1
    <3>2. QED
      BY <3>1
  <2>2. q * n = Q * n + n + d * n /\ d * n \in Nat /\ Q * n \in Nat
    BY <1>1, <2>1
  <2>3. QED
    BY <1>1, <2>2
<1>3. q = Q => p < P
  <2> SUFFICES ASSUME q = Q PROVE p < P
    OBVIOUS
  <2>1. q * n = Q * n /\ Q * n \in Nat
    BY <1>1
  <2>2. QED
    BY <1>1, <2>1
<1>4. q \in 0 .. num_blocks(p) - 1
  BY <1>1, <1>2, <1>3 DEF num_blocks, n, p, q, P, Q
<1>5. QED
  BY <1>1, <1>4 DEF Address, Addresses, Partitions, n, p, q

-----------------------------------------------------------------------------
(* The backends *)

\* Types of the contexts, of the commands and of the variables.
IoType == [first : BOOLEAN, processing : BOOLEAN, finish : BOOLEAN]
ContextType ==
    [phase : {"End", "Evicting", "Loading"}, home : {"none", "stack", "fiber"},
     victim : Nat, block : Nat, io : IoType]
CmdType ==
    [req : Reqs, op : {"write", "read"}, addr : Addresses,
     finish : {"none", "stack", "fiber"}, st : {"preparing", "running", "done", "failed"}]

TBackend == backend \in Classes /\ faulty \in BOOLEAN
TData == device \in [Addresses -> Values] /\ mem \in [Reqs -> Values]
TCtx == ctx \in [Reqs -> ContextType]
TCmds == cmds \subseteq CmdType

\* A file that may fail is not the memory or the simulated device.
Faults == faulty => backend \in {"AIO", "IOURing", "SPDK"}

\* MemCopy's commands are carried out by the progress() that starts them.
MemCopyStarts == backend = "MemCopy" => \A c \in cmds : c.st = "preparing"

\* The context of a request under way.
Shaped(r) ==
    /\ ctx[r].phase # "End" => ctx[r].victim \in Blocks /\ ctx[r].block \in Blocks
    /\ ctx[r].phase # "End" /\ ~ctx[r].io.first => ctx[r].home = "fiber"
    /\ ctx[r].io.first => ~ctx[r].io.processing
    /\ ctx[r].io.finish => ctx[r].io.processing

\* A request has at most one command: handle_read and handle_write are not called again
\* before the last command has finished.
OneCommand == \A c, d \in cmds : c.req = d.req => c = d

\* Two requests under way never use the same page.
PagesDistinct == \A q, r \in Reqs : q # r => InUse(q) \cap InUse(r) = {}

\* The inductive invariant.
IndInv ==
    /\ TBackend /\ TData /\ TCtx /\ TCmds /\ Faults /\ MemCopyStarts
    /\ \A r \in Reqs : Shaped(r)
    /\ FinishPointersValid /\ OneCommand /\ PagesDistinct

-----------------------------------------------------------------------------
\* Init establishes the invariant.
LEMMA InitHolds == Init => IndInv
<1> SUFFICES ASSUME Init PROVE IndInv
  OBVIOUS
<1>1. TBackend /\ Faults /\ TCmds /\ MemCopyStarts
  BY BackendAssumption DEF Init, TBackend, Faults, TCmds, MemCopyStarts
<1>2. TData
  BY BackendAssumption DEF Init, TData, Cleared
<1>3. TCtx
  BY DEF Init, TCtx, Context, ContextType, IOContext, IoType
<1>4. \A r \in Reqs : Shaped(r)
  BY DEF Init, Shaped, Context, IOContext
<1>5. FinishPointersValid /\ OneCommand
  BY DEF Init, FinishPointersValid, OneCommand
<1>6. PagesDistinct
  BY DEF Init, PagesDistinct, InUse, Context
<1> QED
  BY <1>1, <1>2, <1>3, <1>4, <1>5, <1>6 DEF IndInv

-----------------------------------------------------------------------------
\* Reaping commands changes the finish flags they point to, and nothing else.
LEMMA FinishedCtx ==
    ASSUME TCtx, NEW D
    PROVE  /\ Finished(D) \in [Reqs -> ContextType]
           /\ \A r \in Reqs : /\ Finished(D)[r].phase = ctx[r].phase
                              /\ Finished(D)[r].home = ctx[r].home
                              /\ Finished(D)[r].victim = ctx[r].victim
                              /\ Finished(D)[r].block = ctx[r].block
                              /\ Finished(D)[r].io.first = ctx[r].io.first
                              /\ Finished(D)[r].io.processing = ctx[r].io.processing
                              /\ Finished(D)[r].io.finish <=>
                                     (ctx[r].io.finish \/ r \in Reported(D))
<1> DEFINE f == Finished(D)
           R == Reported(D)
<1>1. ASSUME NEW r \in Reqs
      PROVE  /\ f[r] \in ContextType
             /\ f[r].phase = ctx[r].phase /\ f[r].home = ctx[r].home
             /\ f[r].victim = ctx[r].victim /\ f[r].block = ctx[r].block
             /\ f[r].io.first = ctx[r].io.first
             /\ f[r].io.processing = ctx[r].io.processing
             /\ f[r].io.finish <=> (ctx[r].io.finish \/ r \in R)
  <2>1. ctx[r] \in ContextType
    BY DEF TCtx
  <2>2. CASE r \in R
    <3>1. f[r] = [ctx[r] EXCEPT !.io.finish = TRUE]
      BY <2>2 DEF Finished
    <3> HIDE DEF f, R
    <3> QED
      BY <2>1, <2>2, <3>1 DEF ContextType, IoType
  <2>3. CASE r \notin R
    <3>1. f[r] = ctx[r]
      BY <2>3 DEF Finished
    <3> HIDE DEF f, R
    <3> QED
      BY <2>1, <2>3, <3>1
  <2> QED
    BY <2>2, <2>3
<1>2. f = [r \in Reqs |-> f[r]]
  BY DEF Finished
<1> HIDE DEF f
<1>3. f \in [Reqs -> ContextType]
  BY <1>1, <1>2
<1> QED
  BY <1>1, <1>3 DEF f

\* a step that changes nothing of the contexts but finish flags
SameCtx(r) ==
    /\ ctx'[r].phase = ctx[r].phase /\ ctx'[r].home = ctx[r].home
    /\ ctx'[r].victim = ctx[r].victim /\ ctx'[r].block = ctx[r].block
    /\ ctx'[r].io.first = ctx[r].io.first
    /\ ctx'[r].io.processing = ctx[r].io.processing

\* Such a step leaves what a request is doing as it was.
LEMMA SameCtxFacts ==
    ASSUME NEW r \in Reqs, SameCtx(r)
    PROVE  Op(r)' = Op(r) /\ Target(r)' = Target(r) /\ InUse(r)' = InUse(r)
BY DEF SameCtx, Op, Target, InUse

\* progress() of the asynchronous backends starts some commands and reaps the others.
LEMMA ReapKeeps ==
    ASSUME IndInv, UNCHANGED <<backend, faulty>>, backend # "MemCopy",
           NEW S \in SUBSET cmds, StartAndReap(S)
    PROVE  IndInv'
<1> USE DEF IndInv
<1> DEFINE reaped == {c \in cmds : Over(c)}
           Image(c) == IF c \in S THEN [c EXCEPT !.st = "running"] ELSE c
<1>1. ctx' = Finished(reaped) /\ device' = device /\ mem' = mem
  BY DEF StartAndReap
<1>2. \A r \in Reqs : SameCtx(r)
  BY <1>1, FinishedCtx DEF SameCtx
<1>3. \A r \in Reqs : ctx'[r].io.finish <=> (ctx[r].io.finish \/ r \in Reported(reaped))
  BY <1>1, FinishedCtx
<1>4. cmds' = {Image(c) : c \in cmds \ reaped}
  BY DEF StartAndReap
<1>5. \A c \in cmds : /\ Image(c) \in CmdType /\ Image(c).req = c.req /\ Image(c).op = c.op
                      /\ Image(c).addr = c.addr /\ Image(c).finish = c.finish
  <2> SUFFICES ASSUME NEW c \in cmds
               PROVE  /\ Image(c) \in CmdType /\ Image(c).req = c.req /\ Image(c).op = c.op
                      /\ Image(c).addr = c.addr /\ Image(c).finish = c.finish
    OBVIOUS
  <2>1. c \in CmdType
    BY DEF TCmds
  <2> QED
    BY <2>1 DEF CmdType
<1>6. \A r \in Reqs : r \in Reported(reaped) =>
          /\ ctx[r].io.processing
          /\ \A c \in cmds : c.req = r => c \in reaped
  <2> SUFFICES ASSUME NEW r \in Reqs, r \in Reported(reaped)
               PROVE  ctx[r].io.processing /\ \A c \in cmds : c.req = r => c \in reaped
    OBVIOUS
  <2>1. PICK d \in reaped : d.req = r
    BY DEF Reported
  <2> QED
    BY <2>1 DEF FinishPointersValid, OneCommand
<1> HIDE DEF reaped, Image
<1>7. \A e \in cmds' : \E c \in cmds : c \notin reaped /\ e = Image(c)
  BY <1>4
<1>8. TBackend' /\ TData' /\ Faults' /\ MemCopyStarts'
  BY <1>1 DEF TBackend, TData, Faults, MemCopyStarts
<1>9. TCtx'
  BY <1>1, FinishedCtx DEF TCtx
<1>10. TCmds'
  BY <1>5, <1>7 DEF TCmds
<1>11. \A r \in Reqs : Shaped(r)'
  BY <1>2, <1>3, <1>6 DEF Shaped, SameCtx
<1>12. FinishPointersValid'
  <2> SUFFICES ASSUME NEW e \in cmds'
               PROVE  /\ ctx'[e.req].phase # "End" /\ ctx'[e.req].home = e.finish
                      /\ ctx'[e.req].io.processing /\ ~ctx'[e.req].io.finish
                      /\ e.op = Op(e.req)' /\ e.addr = Address(Target(e.req)')
    BY DEF FinishPointersValid, Address
  <2>1. PICK c \in cmds : c \notin reaped /\ e = Image(c)
    BY <1>7
  <2>2. /\ c.req \in Reqs /\ e.req = c.req /\ e.op = c.op /\ e.addr = c.addr
        /\ e.finish = c.finish
    BY <2>1, <1>5 DEF TCmds, CmdType
  <2>3. c.req \notin Reported(reaped)
    BY <2>1, <2>2, <1>6
  <2>4. Op(c.req)' = Op(c.req) /\ Target(c.req)' = Target(c.req)
    BY <2>2, <1>2, SameCtxFacts
  <2> QED
    BY <2>2, <2>3, <2>4, <1>2, <1>3 DEF FinishPointersValid, SameCtx
<1>13. OneCommand'
  <2> SUFFICES ASSUME NEW e \in cmds', NEW f \in cmds', e.req = f.req PROVE e = f
    BY DEF OneCommand
  <2>1. PICK c \in cmds : e = Image(c)
    BY <1>7
  <2>2. PICK d \in cmds : f = Image(d)
    BY <1>7
  <2>3. c.req = d.req
    BY <2>1, <2>2, <1>5
  <2> QED
    BY <2>1, <2>2, <2>3 DEF OneCommand
<1>14. PagesDistinct'
  BY <1>2, SameCtxFacts DEF PagesDistinct
<1> QED
  BY <1>8, <1>9, <1>10, <1>11, <1>12, <1>13, <1>14

\* Transfers keep the device and the memory typed.
LEMMA DataTyped ==
    ASSUME TData, TCmds, NEW D \in SUBSET cmds
    PROVE  Written(D) \in [Addresses -> Values] /\ Loaded(D) \in [Reqs -> Values]
<1>1. ASSUME NEW a \in Addresses PROVE Written(D)[a] \in Values
  <2>1. CASE \E c \in D : c.op = "write" /\ c.addr = a
    <3>1. PICK c \in D : /\ c.op = "write" /\ c.addr = a
                         /\ c = CHOOSE d \in D : d.op = "write" /\ d.addr = a
      BY <2>1
    <3>2. Written(D)[a] = mem[c.req]
      BY <2>1, <3>1 DEF Written
    <3> QED
      BY <3>1, <3>2 DEF TData, TCmds, CmdType
  <2>2. CASE ~ \E c \in D : c.op = "write" /\ c.addr = a
    BY <2>2 DEF Written, TData
  <2> QED
    BY <2>1, <2>2
<1>2. ASSUME NEW r \in Reqs PROVE Loaded(D)[r] \in Values
  <2>1. CASE \E c \in D : c.op = "read" /\ c.req = r
    <3>1. PICK c \in D : /\ c.op = "read" /\ c.req = r
                         /\ c = CHOOSE d \in D : d.op = "read" /\ d.req = r
      BY <2>1
    <3>2. Loaded(D)[r] = device[c.addr]
      BY <2>1, <3>1 DEF Loaded
    <3> QED
      BY <3>1, <3>2 DEF TData, TCmds, CmdType
  <2>2. CASE ~ \E c \in D : c.op = "read" /\ c.req = r
    BY <2>2 DEF Loaded, TData
  <2> QED
    BY <2>1, <2>2
<1>3. Written(D) = [a \in Addresses |-> Written(D)[a]] /\ Loaded(D) = [r \in Reqs |-> Loaded(D)[r]]
  BY DEF Written, Loaded
<1> QED
  BY <1>1, <1>2, <1>3

\* progress() of MemCopy carries out every command.
LEMMA MemCopyKeeps ==
    ASSUME IndInv, UNCHANGED <<backend, faulty>>, ProgressMemCopy
    PROVE  IndInv'
<1> USE DEF IndInv
<1>1. /\ ctx' = Finished(cmds) /\ device' = Written(cmds) /\ mem' = Loaded(cmds)
      /\ cmds' = {}
  BY DEF ProgressMemCopy
<1>2. \A r \in Reqs : SameCtx(r)
  BY <1>1, FinishedCtx DEF SameCtx
<1>3. \A r \in Reqs : ctx'[r].io.finish => ctx[r].io.processing
  <2>1. \A r \in Reqs : r \in Reported(cmds) => \E d \in cmds : d.req = r
    BY DEF Reported
  <2> QED
    BY <2>1, <1>1, FinishedCtx DEF FinishPointersValid, Shaped
<1>4. TBackend' /\ TData' /\ Faults' /\ MemCopyStarts'
  BY <1>1, DataTyped DEF TBackend, TData, Faults, MemCopyStarts
<1>5. TCtx' /\ TCmds'
  BY <1>1, FinishedCtx DEF TCtx, TCmds
<1>6. \A r \in Reqs : Shaped(r)'
  BY <1>2, <1>3 DEF Shaped, SameCtx
<1>7. FinishPointersValid' /\ OneCommand'
  BY <1>1 DEF FinishPointersValid, OneCommand
<1>8. PagesDistinct'
  BY <1>2, SameCtxFacts DEF PagesDistinct
<1> QED
  BY <1>4, <1>5, <1>6, <1>7, <1>8

\* progress() of each backend.
LEMMA ProgressKeeps ==
    ASSUME IndInv, UNCHANGED <<backend, faulty>>, Progress
    PROVE  IndInv'
<1> USE DEF IndInv
<1>1. CASE ProgressThrows
  <2>1. UNCHANGED <<device, mem, ctx, cmds>>
    BY <1>1 DEF ProgressThrows
  <2>2. TBackend' /\ TData' /\ Faults' /\ MemCopyStarts' /\ TCtx' /\ TCmds'
    BY <2>1 DEF TBackend, TData, Faults, MemCopyStarts, TCtx, TCmds
  <2>3. /\ \A r \in Reqs : Shaped(r)'
        /\ FinishPointersValid' /\ OneCommand' /\ PagesDistinct'
    BY <2>1 DEF Shaped, FinishPointersValid, OneCommand, PagesDistinct, InUse, Op, Target
  <2> QED
    BY <2>2, <2>3
<1>2. CASE ProgressMemCopy
  BY <1>2, MemCopyKeeps
<1>3. CASE ProgressDummyIO \/ ProgressAIO
  BY <1>3, ReapKeeps DEF ProgressDummyIO, ProgressAIO, With
<1>4. CASE ProgressIOURing
  BY <1>4, ReapKeeps DEF ProgressIOURing, With
<1>5. CASE ProgressSPDK
  BY <1>5, ReapKeeps DEF ProgressSPDK
<1> QED
  BY <1>1, <1>2, <1>3, <1>4, <1>5 DEF Progress

\* The device carries out commands, or fails.
LEMMA DeviceKeeps ==
    ASSUME IndInv, NEW c \in cmds, DeviceEnds(c)
    PROVE  IndInv'
<1> USE DEF IndInv
<1>1. UNCHANGED <<backend, faulty, ctx>> /\ c.st = "running"
  BY DEF DeviceEnds
<1>2. PICK st \in {"done", "failed"} :
        /\ cmds' = (cmds \ {c}) \cup {[c EXCEPT !.st = st]}
        /\ LET D == IF st = "done" /\ backend # "DummyIO" THEN {c} ELSE {} IN
             device' = Written(D) /\ mem' = Loaded(D)
  BY DEF DeviceEnds
<1>3. PICK e : e = [c EXCEPT !.st = st]
  OBVIOUS
<1>4. /\ e \in CmdType /\ e.req = c.req /\ e.op = c.op /\ e.addr = c.addr
      /\ e.finish = c.finish
  <2>1. c \in CmdType
    BY DEF TCmds
  <2> QED
    BY <2>1, <1>3 DEF CmdType
<1>5. cmds' = (cmds \ {c}) \cup {e}
  BY <1>2, <1>3
<1>6. TData'
  BY <1>2, DataTyped DEF TData
<1>7. backend # "MemCopy"
  BY <1>1 DEF MemCopyStarts
<1>8. TBackend' /\ Faults' /\ MemCopyStarts' /\ TCtx' /\ TCmds'
  BY <1>1, <1>4, <1>5, <1>7 DEF TBackend, Faults, MemCopyStarts, TCtx, TCmds
<1>9. \A r \in Reqs : Shaped(r)'
  BY <1>1 DEF Shaped
<1>10. FinishPointersValid'
  BY <1>1, <1>4, <1>5 DEF FinishPointersValid, Op, Target
<1>11. OneCommand'
  BY <1>4, <1>5 DEF OneCommand
<1>12. PagesDistinct'
  BY <1>1 DEF PagesDistinct, InUse
<1> QED
  BY <1>6, <1>8, <1>9, <1>10, <1>11, <1>12

\* the context of a request without a command changes
LEMMA ContextKeeps ==
    ASSUME IndInv, NEW r \in Reqs, \A c \in cmds : c.req # r,
           UNCHANGED <<backend, faulty, device, cmds>>, mem' \in [Reqs -> Values],
           NEW n \in ContextType, ctx' = [ctx EXCEPT ![r] = n], Shaped(r)',
           \A q \in Reqs \ {r} : InUse(q) \cap InUse(r)' = {}
    PROVE  IndInv'
<1> USE DEF IndInv
<1>1. ctx'[r] = n /\ \A q \in Reqs \ {r} : ctx'[q] = ctx[q]
  BY DEF TCtx
<1>2. TBackend' /\ TData' /\ Faults' /\ MemCopyStarts' /\ TCtx' /\ TCmds'
  BY DEF TBackend, TData, Faults, MemCopyStarts, TCtx, TCmds
<1>3. \A q \in Reqs : Shaped(q)'
  BY <1>1 DEF Shaped
<1>4. FinishPointersValid'
  <2> SUFFICES ASSUME NEW c \in cmds
               PROVE  /\ ctx'[c.req].phase # "End" /\ ctx'[c.req].home = c.finish
                      /\ ctx'[c.req].io.processing /\ ~ctx'[c.req].io.finish
                      /\ c.op = Op(c.req)' /\ c.addr = Address(Target(c.req)')
    BY DEF FinishPointersValid, Address
  <2>1. ctx'[c.req] = ctx[c.req]
    BY <1>1 DEF TCmds, CmdType
  <2> QED
    BY <2>1 DEF FinishPointersValid, Op, Target
<1>5. OneCommand'
  BY DEF OneCommand
<1>6. PagesDistinct'
  <2>1. \A q \in Reqs \ {r} : InUse(q)' = InUse(q)
    BY <1>1 DEF InUse
  <2> QED
    BY <2>1 DEF PagesDistinct
<1> QED
  BY <1>2, <1>3, <1>4, <1>5, <1>6

\* The first call returns false, and the context moves to the fiber.
LEMMA FirstReturnsKeeps ==
    ASSUME IndInv, NEW r \in Reqs, FirstReturns(r)
    PROVE  IndInv'
<1> USE DEF IndInv
<1>1. UNCHANGED <<backend, faulty, device, mem, cmds>> /\ ctx[r].phase # "End"
  BY DEF FirstReturns, Calls
<1>2. PICK n : n = [ctx[r] EXCEPT !.io.first = FALSE, !.home = "fiber"]
  OBVIOUS
<1>3. ctx[r] \in ContextType /\ ctx[r].io.first
  BY DEF TCtx, FirstReturns, FirstCall
<1>4. /\ n \in ContextType /\ n.phase = ctx[r].phase /\ n.home = "fiber"
      /\ n.victim = ctx[r].victim /\ n.block = ctx[r].block
      /\ ~n.io.first /\ n.io.processing = ctx[r].io.processing
      /\ n.io.finish = ctx[r].io.finish
  BY <1>2, <1>3 DEF ContextType, IoType
<1>5. ctx' = [ctx EXCEPT ![r] = n]
  BY <1>2, <1>3 DEF FirstReturns, Returned, ContextType
<1>6. ctx'[r] = n
  BY <1>5 DEF TCtx
<1>7. \A c \in cmds : c.req # r
  BY <1>3 DEF FinishPointersValid, Shaped
<1>8. Shaped(r)'
  BY <1>4, <1>6 DEF Shaped
<1>9. InUse(r)' = InUse(r)
  BY <1>4, <1>6 DEF InUse
<1> QED
  BY <1>1, <1>4, <1>5, <1>7, <1>8, <1>9, ContextKeeps DEF TData, PagesDistinct

\* The write has finished: the request goes on to its read.
LEMMA EvictedKeeps ==
    ASSUME IndInv, NEW r \in Reqs, Evicted(r)
    PROVE  IndInv'
<1> USE DEF IndInv
<1>1. /\ UNCHANGED <<backend, faulty, device, mem, cmds>>
      /\ ctx[r].phase = "Evicting" /\ ctx[r].io.finish
  BY DEF Evicted
<1>2. PICK n : n = [ctx[r] EXCEPT !.phase = "Loading", !.io = IOContext]
  OBVIOUS
<1>3. ctx[r] \in ContextType
  BY DEF TCtx
<1>4. /\ n \in ContextType /\ n.phase = "Loading" /\ n.home = ctx[r].home
      /\ n.victim = ctx[r].victim /\ n.block = ctx[r].block
      /\ n.io.first /\ ~n.io.processing /\ ~n.io.finish
  BY <1>2, <1>3 DEF ContextType, IoType, IOContext
<1>5. ctx' = [ctx EXCEPT ![r] = n]
  BY <1>2 DEF Evicted
<1>6. ctx'[r] = n
  BY <1>5 DEF TCtx
<1>7. \A c \in cmds : c.req # r
  BY <1>1 DEF FinishPointersValid
<1>8. Shaped(r)'
  BY <1>1, <1>4, <1>6 DEF Shaped
<1>9. InUse(r)' \subseteq InUse(r)
  BY <1>1, <1>4, <1>6 DEF InUse
<1> QED
  BY <1>1, <1>4, <1>5, <1>7, <1>8, <1>9, ContextKeeps DEF TData, PagesDistinct

\* The read has finished: the request ends.
LEMMA PageLoadedKeeps ==
    ASSUME IndInv, NEW r \in Reqs, PageLoaded(r)
    PROVE  IndInv'
<1> USE DEF IndInv
<1>1. UNCHANGED <<backend, faulty, device, cmds>> /\ ctx[r].io.finish
  BY DEF PageLoaded
<1>2. PICK n : n = Context("End", "none", 0, 0, IOContext)
  OBVIOUS
<1>3. n \in ContextType /\ n.phase = "End" /\ n.io.first /\ ~n.io.processing /\ ~n.io.finish
  BY <1>2 DEF Context, ContextType, IoType, IOContext
<1>4. ctx' = [ctx EXCEPT ![r] = n]
  BY <1>2 DEF PageLoaded
<1>5. ctx'[r] = n
  BY <1>4 DEF TCtx
<1>6. \A c \in cmds : c.req # r
  BY <1>1 DEF FinishPointersValid
<1>7. mem' \in [Reqs -> Values]
  BY BackendAssumption DEF PageLoaded, TData
<1>8. Shaped(r)' /\ InUse(r)' = {}
  BY <1>3, <1>5 DEF Shaped, InUse
<1> QED
  BY <1>1, <1>3, <1>4, <1>6, <1>7, <1>8, ContextKeeps

\* A miss begins, on pages that no other request uses.
LEMMA PinMissKeeps ==
    ASSUME IndInv, NEW r \in Reqs, NEW v \in Blocks, NEW b \in Blocks,
           NEW phase \in {"Evicting", "Loading"}, phase = "Loading" => v = b,
           PinMiss(r, Context(phase, "stack", v, b, IOContext), {v, b}),
           mem' \in [Reqs -> Values]
    PROVE  IndInv'
<1> USE DEF IndInv
<1>1. UNCHANGED <<backend, faulty, device, cmds>> /\ ctx[r].phase = "End"
  BY DEF PinMiss
<1>2. PICK n : n = Context(phase, "stack", v, b, IOContext)
  OBVIOUS
<1>3. /\ n \in ContextType /\ n.phase = phase /\ n.victim = v /\ n.block = b
      /\ n.io.first /\ ~n.io.processing /\ ~n.io.finish
  <2>1. v \in Nat /\ b \in Nat
    BY PartitionsAssumption DEF Blocks
  <2> QED
    BY <1>2, <2>1 DEF Context, ContextType, IoType, IOContext
<1>4. ctx' = [ctx EXCEPT ![r] = n]
  BY <1>2 DEF PinMiss
<1>5. ctx'[r] = n
  BY <1>4 DEF TCtx
<1>6. \A c \in cmds : c.req # r
  BY <1>1 DEF FinishPointersValid
<1>7. Shaped(r)' /\ InUse(r)' \subseteq {v, b}
  BY <1>3, <1>5 DEF Shaped, InUse
<1>8. \A q \in Reqs \ {r} : InUse(q) \cap InUse(r)' = {}
  BY <1>7 DEF PinMiss
<1> QED
  BY <1>1, <1>3, <1>4, <1>6, <1>7, <1>8, ContextKeeps

\* A command is created, with the finish flag of the context as it is now.
LEMMA IssueKeeps ==
    ASSUME IndInv, NEW r \in Reqs, Issue(r)
    PROVE  IndInv'
<1> USE DEF IndInv
<1>1. /\ UNCHANGED <<backend, faulty, device, mem>> /\ ctx[r].phase # "End"
      /\ ~ctx[r].io.first /\ ~ctx[r].io.processing
  BY DEF Issue, MustIssue, Calls, FirstCall
<1>2. PICK n : n = [ctx[r] EXCEPT !.io.processing = TRUE, !.home = "fiber"]
  OBVIOUS
<1>3. ctx[r] \in ContextType /\ ctx[r].home = "fiber" /\ ~ctx[r].io.finish
  BY <1>1 DEF TCtx, Shaped
<1>4. /\ n \in ContextType /\ n.phase = ctx[r].phase /\ n.home = "fiber"
      /\ n.victim = ctx[r].victim /\ n.block = ctx[r].block
      /\ ~n.io.first /\ n.io.processing /\ ~n.io.finish
  BY <1>1, <1>2, <1>3 DEF ContextType, IoType
<1>5. ctx' = [ctx EXCEPT ![r] = n]
  BY <1>2, <1>3 DEF Issue, Returned, ContextType
<1>6. ctx'[r] = n /\ \A q \in Reqs \ {r} : ctx'[q] = ctx[q]
  BY <1>5 DEF TCtx
<1>7. PICK e : e = NewCommand(r, Op(r), Address(Target(r)))
  OBVIOUS
<1>8. cmds' = cmds \cup {e}
  BY <1>7 DEF Issue
<1>9. /\ e.req = r /\ e.op = Op(r) /\ e.addr = Address(Target(r)) /\ e.finish = "fiber"
      /\ e.st \in {"preparing", "running"} /\ (backend = "MemCopy" => e.st = "preparing")
  BY <1>3, <1>7 DEF NewCommand
<1>10. e \in CmdType
  <2>1. Target(r) \in Blocks
    BY <1>1 DEF Shaped, Target
  <2>2. Address(Target(r)) \in Addresses
    BY <2>1, AddressInRange DEF Blocks
  <2>3. Op(r) \in {"write", "read"}
    BY DEF Op
  <2> QED
    BY <2>2, <2>3, <1>3, <1>7 DEF NewCommand, CmdType
<1>11. \A c \in cmds : c.req # r
  BY <1>1 DEF FinishPointersValid
<1>12. Op(r)' = Op(r) /\ Target(r)' = Target(r) /\ InUse(r)' = InUse(r)
  BY <1>4, <1>6 DEF Op, Target, InUse
<1>13. TBackend' /\ TData' /\ Faults' /\ MemCopyStarts'
  BY <1>1, <1>8, <1>9 DEF TBackend, TData, Faults, MemCopyStarts
<1>14. TCtx'
  BY <1>4, <1>5 DEF TCtx
<1>15. TCmds'
  BY <1>8, <1>10 DEF TCmds
<1>16. \A q \in Reqs : Shaped(q)'
  BY <1>1, <1>3, <1>4, <1>6 DEF Shaped
<1>17. FinishPointersValid'
  <2> SUFFICES ASSUME NEW c \in cmds'
               PROVE  /\ ctx'[c.req].phase # "End" /\ ctx'[c.req].home = c.finish
                      /\ ctx'[c.req].io.processing /\ ~ctx'[c.req].io.finish
                      /\ c.op = Op(c.req)' /\ c.addr = Address(Target(c.req)')
    BY DEF FinishPointersValid, Address
  <2>1. CASE c = e
    BY <2>1, <1>1, <1>4, <1>6, <1>9, <1>12
  <2>2. CASE c # e
    <3>1. c \in cmds /\ ctx'[c.req] = ctx[c.req]
      BY <2>2, <1>6, <1>8, <1>11 DEF TCmds, CmdType
    <3> QED
      BY <3>1 DEF FinishPointersValid, Op, Target
  <2> QED
    BY <2>1, <2>2
<1>18. OneCommand'
  BY <1>8, <1>9, <1>11 DEF OneCommand
<1>19. PagesDistinct'
  <2>1. \A q \in Reqs : InUse(q)' = InUse(q)
    BY <1>6, <1>12 DEF InUse
  <2> QED
    BY <2>1 DEF PagesDistinct
<1> QED
  BY <1>13, <1>14, <1>15, <1>16, <1>17, <1>18, <1>19

\* Every step keeps the invariant.
LEMMA NextKeeps == IndInv /\ [Next]_vars => IndInv'
<1> SUFFICES ASSUME IndInv, [Next]_vars PROVE IndInv'
  OBVIOUS
<1>1. CASE UNCHANGED vars
  <2>1. UNCHANGED <<backend, faulty, device, mem, ctx, cmds>>
    BY <1>1 DEF vars
  <2>2. TBackend' /\ TData' /\ Faults' /\ MemCopyStarts' /\ TCtx' /\ TCmds'
    BY <2>1 DEF IndInv, TBackend, TData, Faults, MemCopyStarts, TCtx, TCmds
  <2>3. /\ \A r \in Reqs : Shaped(r)'
        /\ FinishPointersValid' /\ OneCommand' /\ PagesDistinct'
    BY <2>1 DEF IndInv, Shaped, FinishPointersValid, OneCommand, PagesDistinct, InUse, Op,
                Target
  <2> QED
    BY <2>2, <2>3 DEF IndInv
<1>2. ASSUME NEW r \in Reqs, Refused(r) \/ Poll(r) PROVE IndInv'
  BY <1>2, ProgressKeeps DEF Refused, RefusedProgress, Poll
<1>3. ASSUME NEW r \in Reqs, NEW v \in Blocks, NEW b \in Blocks, NEW x \in Values,
             PinMissDirty(r, v, b, x)
      PROVE  IndInv'
  <2>1. mem' \in [Reqs -> Values]
    BY <1>3 DEF PinMissDirty, IndInv, TData
  <2>2. PinMiss(r, Context("Evicting", "stack", v, b, IOContext), {v, b})
    BY <1>3 DEF PinMissDirty
  <2> QED
    BY <2>1, <2>2, PinMissKeeps
<1>4. ASSUME NEW r \in Reqs, NEW b \in Blocks, PinMissClean(r, b) PROVE IndInv'
  <2>1. mem' \in [Reqs -> Values]
    BY <1>4 DEF PinMissClean, IndInv, TData
  <2>2. PinMiss(r, Context("Loading", "stack", b, b, IOContext), {b, b})
    <3>1. {b, b} = {b}
      OBVIOUS
    <3> QED
      BY <3>1, <1>4 DEF PinMissClean
  <2> QED
    BY <2>1, <2>2, PinMissKeeps
<1>5. ASSUME NEW r \in Reqs, Turn(r) PROVE IndInv'
  BY <1>2, <1>5, FirstReturnsKeeps, IssueKeeps, EvictedKeeps, PageLoadedKeeps DEF Turn
<1> QED
  BY <1>1, <1>3, <1>4, <1>5, DeviceKeeps DEF Next

\* The invariant of the backends.
THEOREM BackendInvHolds == Spec => []IndInv
  BY InitHolds, NextKeeps, PTL DEF Spec

\* No completion ever writes through a finish pointer to a context that is gone: the
\* flag of every command under way is the one in the context of the request that waits
\* for it, in every backend and with any number of requests.
THEOREM FinishPointersStayValid == Spec => []FinishPointersValid
<1>1. IndInv => FinishPointersValid
  BY DEF IndInv
<1> QED
  BY <1>1, BackendInvHolds, PTL

-----------------------------------------------------------------------------
\* What the refinement maps the variables of BlockDevice to.
Store == [b \in Blocks |-> device[Address(b)]]
Stages == [r \in Reqs |-> Stage(r)]
Work == [r \in Reqs |-> [victim |-> ctx[r].victim, block |-> ctx[r].block]]

Mapped == <<Store, mem, Stages, Work, Reliable>>

\* The transfer of request r has taken place.
Done(r) ==
    \/ ctx[r].io.finish
    \/ \E c \in cmds : c.req = r /\ Over(c) /\ ~(backend = "SPDK" /\ c.st = "failed")

\* The stage of a request, in this state and in the next.
LEMMA StageIs ==
    ASSUME NEW r \in Reqs
    PROVE  /\ ctx[r].phase = "End" => Stages[r] = "idle"
           /\ ctx[r].phase = "Evicting" => Stages[r] = IF Done(r) THEN "written" ELSE "write"
           /\ ctx[r].phase = "Loading" => Stages[r] = IF Done(r) THEN "loaded" ELSE "read"
BY DEF Stages, Stage, Done

LEMMA StageIsNext ==
    ASSUME NEW r \in Reqs
    PROVE  /\ ctx'[r].phase = "End" => Stages'[r] = "idle"
           /\ ctx'[r].phase = "Evicting" =>
                  Stages'[r] = IF Done(r)' THEN "written" ELSE "write"
           /\ ctx'[r].phase = "Loading" =>
                  Stages'[r] = IF Done(r)' THEN "loaded" ELSE "read"
BY DEF Stages, Stage, Done

\* The stage changes with the phase or with the transfer only.
LEMMA StageSame ==
    ASSUME TCtx, NEW r \in Reqs, ctx'[r].phase = ctx[r].phase, Done(r)' <=> Done(r)
    PROVE  Stages'[r] = Stages[r]
<1>1. ctx[r].phase \in {"End", "Evicting", "Loading"}
  BY DEF TCtx, ContextType
<1> QED
  BY <1>1, StageIs, StageIsNext

\* Two blocks never share an address on their device.
LEMMA AddressInjective ==
    ASSUME NEW a \in Blocks, NEW b \in Blocks, Address(a) = Address(b)
    PROVE  a = b
<1>1. a \in Nat /\ b \in Nat
  BY PartitionsAssumption DEF Blocks
<1> QED
  BY <1>1, AddressInvertible

\* Commands that are carried out together are a Transfer: the writes put into the store
\* and the reads take from it what they should, because no two of them share a block.
LEMMA TransferRefines ==
    ASSUME IndInv, NEW F \in SUBSET cmds, NEW D \in SUBSET F,
           device' = Written(D), mem' = Loaded(D), UNCHANGED <<backend, faulty>>,
           Reliable => D = F,
           \A r \in Reqs : SameCtx(r),
           \A c \in F : ~Done(c.req) /\ Done(c.req)',
           \A r \in Reqs : (\A c \in F : c.req # r) => (Done(r)' <=> Done(r))
    PROVE  BD!Next
<1> USE DEF IndInv
<1> DEFINE W == {r \in Reqs : Stages[r] = "write" /\ Stages'[r] = "written"}
           R == {r \in Reqs : Stages[r] = "read" /\ Stages'[r] = "loaded"}
           E == {c.req : c \in D}
<1>1. W = {r \in Reqs : Stages[r] = "write" /\ Stages'[r] = "written"}
  OBVIOUS
<1>2. R = {r \in Reqs : Stages[r] = "read" /\ Stages'[r] = "loaded"}
  OBVIOUS
<1>3. E = {c.req : c \in D}
  OBVIOUS
<1> HIDE DEF W, R, E
<1>4. \A c \in cmds : c.req \in Reqs /\ ctx[c.req].phase # "End" /\ c.op = Op(c.req)
                      /\ c.addr = Address(Target(c.req))
  BY DEF TCmds, CmdType, FinishPointersValid
<1>5. \A r \in Reqs : ctx[r].phase \in {"End", "Evicting", "Loading"}
  BY DEF TCtx, ContextType
<1>6. \A c \in F : c.req \in W \cup R
  <2> SUFFICES ASSUME NEW c \in F PROVE c.req \in W \cup R
    OBVIOUS
  <2>1. c.req \in Reqs /\ ctx[c.req].phase \in {"Evicting", "Loading"}
    BY <1>4, <1>5
  <2>2. ctx'[c.req].phase = ctx[c.req].phase
    BY <2>1 DEF SameCtx
  <2> QED
    BY <2>1, <2>2, <1>1, <1>2, StageIs, StageIsNext
<1>7. \A r \in Reqs : (\A c \in F : c.req # r) => Stages'[r] = Stages[r]
  BY StageSame DEF SameCtx
<1>8. \A r \in W \cup R : \E c \in F : c.req = r
  BY <1>1, <1>2, <1>7
<1>9. \A r \in W : ctx[r].phase = "Evicting" /\ r \in Reqs
  BY <1>1, <1>5, StageIs
<1>10. \A r \in R : ctx[r].phase = "Loading" /\ r \in Reqs
  BY <1>2, <1>5, StageIs
<1>11. E \subseteq W \cup R /\ (Reliable => E = W \cup R)
  BY <1>3, <1>6, <1>8
<1>12. \A r \in Reqs \ (W \cup R) : Stages'[r] = Stages[r]
  BY <1>6, <1>7
<1>13. \A r \in Reqs : Work[r].victim = ctx[r].victim /\ Work[r].block = ctx[r].block
  BY DEF Work
<1>14. \A r \in E : \E c \in D : c.req = r
  BY <1>3
<1>15. \A b \in Blocks : Store[b] = device[Address(b)] /\ Address(b) \in Addresses
  BY AddressInRange DEF Store, Blocks
<1>16. ASSUME NEW b \in Blocks
       PROVE  Store'[b] = IF \E r \in W \cap E : Work[r].victim = b
                          THEN mem[CHOOSE r \in W \cap E : Work[r].victim = b]
                          ELSE Store[b]
  <2>1. Store'[b] = Written(D)[Address(b)]
    BY DEF Store, Address
  <2>2. CASE \E r \in W \cap E : Work[r].victim = b
    <3>1. PICK r \in W \cap E : /\ Work[r].victim = b
                                /\ r = CHOOSE q \in W \cap E : Work[q].victim = b
      BY <2>2
    <3>2. PICK c \in D : c.req = r
      BY <3>1, <1>14
    <3>3. c.op = "write" /\ c.addr = Address(b)
      BY <3>1, <3>2, <1>4, <1>9, <1>13 DEF Op, Target
    <3>4. PICK d \in D : /\ d.op = "write" /\ d.addr = Address(b)
                         /\ d = CHOOSE e \in D : e.op = "write" /\ e.addr = Address(b)
      BY <3>2, <3>3
    <3>5. Written(D)[Address(b)] = mem[d.req]
      BY <3>4, <1>15 DEF Written
    <3>6. d.req \in Reqs /\ ctx[d.req].phase = "Evicting" /\ ctx[d.req].victim \in Blocks
          /\ Address(ctx[d.req].victim) = Address(b)
      BY <3>4, <1>4, <1>5 DEF Op, Target, Shaped
    <3>7. ctx[d.req].victim = b
      BY <3>6, AddressInjective
    <3>8. b \in InUse(d.req) /\ b \in InUse(r)
      BY <3>1, <3>6, <3>7, <1>9, <1>13 DEF InUse
    <3>9. d.req = r
      BY <3>1, <3>6, <3>8, <1>9 DEF PagesDistinct
    <3> QED
      BY <2>1, <2>2, <3>1, <3>5, <3>9
  <2>3. CASE ~ \E r \in W \cap E : Work[r].victim = b
    <3>1. ~ \E c \in D : c.op = "write" /\ c.addr = Address(b)
      <4> SUFFICES ASSUME NEW c \in D, c.op = "write", c.addr = Address(b) PROVE FALSE
        OBVIOUS
      <4>1. /\ c.req \in Reqs /\ ctx[c.req].phase = "Evicting" /\ ctx[c.req].victim \in Blocks
            /\ Address(ctx[c.req].victim) = Address(b)
        BY <1>4, <1>5 DEF Op, Target, Shaped
      <4>2. ctx[c.req].victim = b
        BY <4>1, AddressInjective
      <4>3. c.req \in W \cap E
        BY <4>1, <1>3, <1>6, <1>10
      <4> QED
        BY <4>1, <4>2, <4>3, <2>3, <1>13
    <3>2. Written(D)[Address(b)] = device[Address(b)]
      BY <3>1, <1>15 DEF Written
    <3> QED
      BY <2>1, <2>3, <3>2, <1>15
  <2> QED
    BY <2>2, <2>3
<1>17. ASSUME NEW r \in Reqs
       PROVE  mem'[r] = IF r \in R \cap E THEN Store[Work[r].block] ELSE mem[r]
  <2>1. CASE r \in R \cap E
    <3>1. PICK c \in D : c.req = r
      BY <2>1, <1>14
    <3>2. c.op = "read" /\ c.addr = Address(ctx[r].block) /\ ctx[r].block \in Blocks
      BY <2>1, <3>1, <1>4, <1>10 DEF Op, Target, Shaped
    <3>3. PICK d \in D : /\ d.op = "read" /\ d.req = r
                         /\ d = CHOOSE e \in D : e.op = "read" /\ e.req = r
      BY <3>1, <3>2
    <3>4. d = c
      BY <3>1, <3>3 DEF OneCommand
    <3>5. Loaded(D)[r] = device[d.addr]
      BY <3>3 DEF Loaded
    <3> QED
      BY <2>1, <3>2, <3>4, <3>5, <1>13, <1>15
  <2>2. CASE r \notin R \cap E
    <3>1. ~ \E c \in D : c.op = "read" /\ c.req = r
      <4> SUFFICES ASSUME NEW c \in D, c.op = "read", c.req = r PROVE FALSE
        OBVIOUS
      <4>1. ctx[r].phase # "Evicting"
        BY <1>4 DEF Op
      <4> QED
        BY <4>1, <2>2, <1>3, <1>6, <1>9
    <3>2. Loaded(D)[r] = mem[r]
      BY <3>1 DEF Loaded
    <3> QED
      BY <2>2, <3>2
  <2> QED
    BY <2>1, <2>2
<1>18. Store' = [b \in Blocks |-> IF \E r \in W \cap E : Work[r].victim = b
                                  THEN mem[CHOOSE r \in W \cap E : Work[r].victim = b]
                                  ELSE Store[b]]
  <2>1. Store' = [b \in Blocks |-> Store'[b]]
    BY DEF Store
  <2> QED
    BY <2>1, <1>16
<1>19. mem' = [r \in Reqs |-> IF r \in R \cap E THEN Store[Work[r].block] ELSE mem[r]]
  <2>1. mem' = [r \in Reqs |-> mem'[r]]
    BY DEF Loaded
  <2> QED
    BY <2>1, <1>17
<1>20. Work' = Work /\ Reliable' = Reliable
  BY DEF Work, Reliable, SameCtx
<1>21. BD!Transfer(E)
  BY <1>11, <1>12, <1>18, <1>19, <1>20, Zenon DEF BD!Transfer, Store, Stages, Work, W, R
<1>22. E \in SUBSET Reqs
  BY <1>3, <1>4
<1> QED
  BY <1>21, <1>22 DEF BD!Next

\* A step that changes neither contexts, transfers nor data is invisible.
LEMMA MappedSame ==
    ASSUME IndInv, UNCHANGED <<backend, faulty, device, mem>>,
           \A r \in Reqs : /\ ctx'[r].phase = ctx[r].phase /\ (Done(r)' <=> Done(r))
                           /\ ctx'[r].victim = ctx[r].victim
                           /\ ctx'[r].block = ctx[r].block
    PROVE  UNCHANGED Mapped
<1>1. \A r \in Reqs : Stages'[r] = Stages[r]
  BY StageSame DEF IndInv
<1>2. Stages = [r \in Reqs |-> Stages[r]] /\ Stages' = [r \in Reqs |-> Stages'[r]]
  BY DEF Stages
<1>3. Stages' = Stages
  BY <1>1, <1>2
<1>4. Store' = Store /\ Work' = Work /\ Reliable' = Reliable
  BY DEF Store, Work, Reliable, Address
<1> QED
  BY <1>3, <1>4 DEF Mapped

\* Starting and reaping is invisible.
LEMMA ReapStutters ==
    ASSUME IndInv, UNCHANGED <<backend, faulty>>, NEW S \in SUBSET With("preparing"),
           StartAndReap(S)
    PROVE  UNCHANGED Mapped
<1> USE DEF IndInv
<1> DEFINE reaped == {c \in cmds : Over(c)}
           Image(c) == IF c \in S THEN [c EXCEPT !.st = "running"] ELSE c
<1>1. ctx' = Finished(reaped) /\ device' = device /\ mem' = mem
  BY DEF StartAndReap
<1>2. \A r \in Reqs : SameCtx(r)
  BY <1>1, FinishedCtx DEF SameCtx
<1>3. \A r \in Reqs : ctx'[r].io.finish <=> (ctx[r].io.finish \/ r \in Reported(reaped))
  BY <1>1, FinishedCtx
<1>4. cmds' = {Image(c) : c \in cmds \ reaped}
  BY DEF StartAndReap
<1>5. \A e \in cmds' : ~Over(e)
  <2> SUFFICES ASSUME NEW c \in cmds \ reaped PROVE ~Over(Image(c))
    BY <1>4
  <2>1. c \in CmdType
    BY DEF TCmds
  <2> QED
    BY <2>1 DEF Over, CmdType
<1>6. \A r \in Reqs : r \in Reported(reaped) <=>
          \E c \in cmds : c.req = r /\ Over(c) /\ ~(backend = "SPDK" /\ c.st = "failed")
  <2>1. \A c \in cmds : c.finish = ctx[c.req].home
    BY DEF FinishPointersValid
  <2> QED
    BY <2>1 DEF Reported
<1>7. \A r \in Reqs : Done(r)' <=> Done(r)
  BY <1>3, <1>5, <1>6 DEF Done, Over
<1> QED
  BY <1>1, <1>2, <1>7, MappedSame DEF SameCtx

\* MemCopy's progress() is a Transfer.
LEMMA MemCopyRefines ==
    ASSUME IndInv, UNCHANGED <<backend, faulty>>, ProgressMemCopy
    PROVE  BD!Next
<1> USE DEF IndInv
<1>1. /\ ctx' = Finished(cmds) /\ device' = Written(cmds) /\ mem' = Loaded(cmds)
      /\ cmds' = {} /\ backend = "MemCopy"
  BY DEF ProgressMemCopy
<1>2. \A r \in Reqs : SameCtx(r)
  BY <1>1, FinishedCtx DEF SameCtx
<1>3. \A r \in Reqs : ctx'[r].io.finish <=> (ctx[r].io.finish \/ r \in Reported(cmds))
  BY <1>1, FinishedCtx
<1>4. \A c \in cmds : c.req \in Reqs /\ c.req \in Reported(cmds)
  BY <1>1 DEF Reported, FinishPointersValid, TCmds, CmdType
<1>5. \A c \in cmds : ~Over(c) /\ ~ctx[c.req].io.finish
  BY <1>1 DEF FinishPointersValid, MemCopyStarts, Over
<1>6. \A c \in cmds : ~Done(c.req) /\ Done(c.req)'
  BY <1>3, <1>4, <1>5 DEF Done
<1>7. ASSUME NEW r \in Reqs, \A c \in cmds : c.req # r PROVE Done(r)' <=> Done(r)
  <2>1. r \notin Reported(cmds)
    BY <1>7 DEF Reported
  <2> QED
    BY <2>1, <1>1, <1>3, <1>7 DEF Done
<1> QED
  BY <1>1, <1>2, <1>6, <1>7, TransferRefines

\* progress() of each backend.
LEMMA ProgressRefines ==
    ASSUME IndInv, UNCHANGED <<backend, faulty>>, Progress
    PROVE  BD!Next \/ UNCHANGED Mapped
<1>1. CASE ProgressThrows
  <2>1. UNCHANGED <<device, mem, ctx, cmds>>
    BY <1>1 DEF ProgressThrows
  <2>2. \A r \in Reqs : Done(r)' <=> Done(r)
    BY <2>1 DEF Done
  <2> QED
    BY <2>1, <2>2, MappedSame
<1>2. CASE ProgressMemCopy
  BY <1>2, MemCopyRefines
<1>3. CASE ProgressDummyIO \/ ProgressAIO
  BY <1>3, ReapStutters DEF ProgressDummyIO, ProgressAIO
<1>4. CASE ProgressIOURing
  BY <1>4, ReapStutters DEF ProgressIOURing
<1>5. CASE ProgressSPDK
  BY <1>5, ReapStutters DEF ProgressSPDK
<1> QED
  BY <1>1, <1>2, <1>3, <1>4, <1>5 DEF Progress

\* The device carrying out commands is a Transfer.
LEMMA DeviceRefines ==
    ASSUME IndInv, NEW c \in cmds, DeviceEnds(c)
    PROVE  BD!Next
<1> USE DEF IndInv
<1>1. UNCHANGED <<backend, faulty, ctx>> /\ c.st = "running" /\ c \in CmdType
  BY DEF DeviceEnds, TCmds
<1>2. PICK st \in {"done", "failed"} :
        /\ st = "failed" => faulty \/ c.addr \notin Addresses
        /\ cmds' = (cmds \ {c}) \cup {[c EXCEPT !.st = st]}
        /\ LET D == IF st = "done" /\ backend # "DummyIO" THEN {c} ELSE {} IN
             device' = Written(D) /\ mem' = Loaded(D)
  BY DEF DeviceEnds
<1>3. PICK D : /\ D = IF st = "done" /\ backend # "DummyIO" THEN {c} ELSE {}
               /\ device' = Written(D) /\ mem' = Loaded(D)
  BY <1>2
<1>4. PICK F : F = IF st = "failed" /\ backend = "SPDK" THEN {} ELSE {c}
  OBVIOUS
<1>5. PICK e : e = [c EXCEPT !.st = st]
  OBVIOUS
<1>6. e.req = c.req /\ e.st = st /\ c.req \in Reqs /\ c.addr \in Addresses
  BY <1>1, <1>5 DEF CmdType
<1>7. cmds' = (cmds \ {c}) \cup {e}
  BY <1>2, <1>5
<1>8. F \in SUBSET cmds /\ D \in SUBSET F
  BY <1>3, <1>4
<1>9. Reliable => D = F
  <2>1. st = "failed" => faulty
    BY <1>2, <1>6
  <2> QED
    BY <2>1, <1>3, <1>4 DEF Reliable, Faults
<1>10. \A r \in Reqs : SameCtx(r)
  BY <1>1 DEF SameCtx
<1>11. ~ctx[c.req].io.finish /\ \A d \in cmds : d.req = c.req => d = c
  BY DEF FinishPointersValid, OneCommand
<1>12. ~Done(c.req)
  BY <1>1, <1>11 DEF Done, Over
<1>13. F # {} => Done(c.req)'
  BY <1>4, <1>6, <1>7, <1>1 DEF Done, Over
<1>14. F = {} => ~Done(c.req)'
  BY <1>1, <1>4, <1>6, <1>7, <1>11 DEF Done
<1>15. ASSUME NEW r \in Reqs, r # c.req PROVE Done(r)' <=> Done(r)
  BY <1>1, <1>6, <1>7, <1>15 DEF Done
<1>16. \A r \in Reqs : (\A d \in F : d.req # r) => (Done(r)' <=> Done(r))
  <2> SUFFICES ASSUME NEW r \in Reqs, \A d \in F : d.req # r PROVE Done(r)' <=> Done(r)
    OBVIOUS
  <2>1. CASE r = c.req
    BY <2>1, <1>4, <1>12, <1>14
  <2> QED
    BY <2>1, <1>15
<1>17. \A d \in F : ~Done(d.req) /\ Done(d.req)'
  BY <1>4, <1>12, <1>13
<1> QED
  BY <1>1, <1>3, <1>8, <1>9, <1>10, <1>16, <1>17, TransferRefines

\* A request without a command is done when its finish flag is set.
LEMMA IdleDone ==
    ASSUME NEW r \in Reqs, \A c \in cmds : c.req # r
    PROVE  Done(r) <=> ctx[r].io.finish
BY DEF Done

LEMMA IdleDoneNext ==
    ASSUME NEW r \in Reqs, \A c \in cmds' : c.req # r
    PROVE  Done(r)' <=> ctx'[r].io.finish
BY DEF Done

\* a step of request r that leaves the other contexts and the commands alone
LEMMA OthersStay ==
    ASSUME IndInv, NEW r \in Reqs, NEW n, ctx' = [ctx EXCEPT ![r] = n],
           UNCHANGED <<backend, faulty, device, cmds>>
    PROVE  /\ ctx'[r] = n
           /\ \A q \in Reqs \ {r} : Stages'[q] = Stages[q] /\ Work'[q] = Work[q]
           /\ \A s : Stages'[r] = s => Stages' = [Stages EXCEPT ![r] = s]
           /\ Store' = Store /\ Reliable' = Reliable
<1>1. ctx'[r] = n /\ \A q \in Reqs \ {r} : ctx'[q] = ctx[q]
  BY DEF IndInv, TCtx
<1>2. \A q \in Reqs \ {r} : Done(q)' <=> Done(q)
  BY <1>1 DEF Done
<1>3. \A q \in Reqs \ {r} : Stages'[q] = Stages[q]
  BY <1>1, <1>2, StageSame DEF IndInv
<1>4. \A q \in Reqs \ {r} : Work'[q] = Work[q]
  BY <1>1 DEF Work
<1>5. Stages = [q \in Reqs |-> Stages[q]] /\ Stages' = [q \in Reqs |-> Stages'[q]]
  BY DEF Stages
<1>6. ASSUME NEW s, Stages'[r] = s PROVE Stages' = [Stages EXCEPT ![r] = s]
  BY <1>3, <1>5, <1>6
<1>7. Store' = Store /\ Reliable' = Reliable
  BY DEF Store, Reliable, Address
<1> QED
  BY <1>1, <1>3, <1>4, <1>6, <1>7

\* Moving the context to the fiber is invisible.
LEMMA FirstReturnsRefines ==
    ASSUME IndInv, NEW r \in Reqs, FirstReturns(r)
    PROVE  UNCHANGED Mapped
<1> USE DEF IndInv
<1>1. UNCHANGED <<backend, faulty, device, mem, cmds>>
  BY DEF FirstReturns
<1>2. ctx[r] \in ContextType
  BY DEF TCtx
<1>3. /\ ctx'[r] = [ctx[r] EXCEPT !.io.first = FALSE, !.home = "fiber"]
      /\ \A q \in Reqs \ {r} : ctx'[q] = ctx[q]
  BY <1>2 DEF FirstReturns, Returned, TCtx, ContextType
<1>4. /\ ctx'[r].phase = ctx[r].phase /\ ctx'[r].victim = ctx[r].victim
      /\ ctx'[r].block = ctx[r].block /\ ctx'[r].io.finish = ctx[r].io.finish
  BY <1>2, <1>3 DEF ContextType, IoType
<1>5. \A q \in Reqs : Done(q)' <=> Done(q)
  BY <1>1, <1>3, <1>4 DEF Done
<1> QED
  BY <1>1, <1>3, <1>4, <1>5, MappedSame

\* So is creating a command.
LEMMA IssueRefines ==
    ASSUME IndInv, NEW r \in Reqs, Issue(r)
    PROVE  UNCHANGED Mapped
<1> USE DEF IndInv
<1>1. UNCHANGED <<backend, faulty, device, mem>>
  BY DEF Issue
<1>2. ctx[r] \in ContextType
  BY DEF TCtx
<1>3. /\ ctx'[r] = [ctx[r] EXCEPT !.io.processing = TRUE, !.home = "fiber"]
      /\ \A q \in Reqs \ {r} : ctx'[q] = ctx[q]
  BY <1>2 DEF Issue, Returned, TCtx, ContextType
<1>4. /\ ctx'[r].phase = ctx[r].phase /\ ctx'[r].victim = ctx[r].victim
      /\ ctx'[r].block = ctx[r].block /\ ctx'[r].io.finish = ctx[r].io.finish
  BY <1>2, <1>3 DEF ContextType, IoType
<1>5. PICK e : e = NewCommand(r, Op(r), Address(Target(r)))
  OBVIOUS
<1>6. cmds' = cmds \cup {e} /\ ~Over(e)
  BY <1>5 DEF Issue, NewCommand, Over
<1>7. \A q \in Reqs : Done(q)' <=> Done(q)
  BY <1>1, <1>3, <1>4, <1>6 DEF Done, Over
<1> QED
  BY <1>1, <1>3, <1>4, <1>7, MappedSame

\* A miss begins a request.
LEMMA BeginRefines ==
    ASSUME IndInv, NEW r \in Reqs, NEW v \in Blocks, NEW b \in Blocks,
           NEW phase \in {"Evicting", "Loading"}, NEW pages,
           PinMiss(r, Context(phase, "stack", v, b, IOContext), pages),
           mem'[r] \in Values, \A q \in Reqs \ {r} : mem'[q] = mem[q]
    PROVE  BD!Next
<1> USE DEF IndInv
<1>1. UNCHANGED <<backend, faulty, device, cmds>> /\ ctx[r].phase = "End"
  BY DEF PinMiss
<1>2. PICK n : n = Context(phase, "stack", v, b, IOContext)
  OBVIOUS
<1>3. n.phase = phase /\ n.victim = v /\ n.block = b /\ ~n.io.finish
  BY <1>2 DEF Context, IOContext
<1>4. ctx' = [ctx EXCEPT ![r] = n]
  BY <1>2 DEF PinMiss
<1>5. /\ ctx'[r] = n /\ Store' = Store /\ Reliable' = Reliable
      /\ \A q \in Reqs \ {r} : Work'[q] = Work[q]
      /\ \A s : Stages'[r] = s => Stages' = [Stages EXCEPT ![r] = s]
  BY <1>1, <1>4, OthersStay
<1>6. ~Done(r)'
  <2>1. \A c \in cmds : c.req # r
    BY <1>1 DEF FinishPointersValid
  <2> QED
    BY <2>1, <1>1, <1>3, <1>5, IdleDoneNext
<1>7. Stages[r] = "idle" /\ Stages'[r] \in {"write", "read"}
  BY <1>1, <1>3, <1>5, <1>6, StageIs, StageIsNext
<1>8. Stages' \in {[Stages EXCEPT ![r] = s] : s \in {"write", "read"}}
  BY <1>5, <1>7
<1>9. Work'[r].victim \in Blocks /\ Work'[r].block \in Blocks
  BY <1>3, <1>5 DEF Work
<1>10. BD!OthersKeep(r)
  BY <1>5, Zenon DEF BD!OthersKeep, Work
<1>11. BD!Begin(r)
  BY <1>5, <1>7, <1>8, <1>9, <1>10, Zenon DEF BD!Begin, Stages, Store, Work
<1> QED
  BY <1>11 DEF BD!Next

\* The request goes on to its read.
LEMMA EvictedRefines ==
    ASSUME IndInv, NEW r \in Reqs, Evicted(r)
    PROVE  BD!Next
<1> USE DEF IndInv
<1>1. /\ UNCHANGED <<backend, faulty, device, mem, cmds>>
      /\ ctx[r].phase = "Evicting" /\ ctx[r].io.finish
  BY DEF Evicted
<1>2. PICK n : n = [ctx[r] EXCEPT !.phase = "Loading", !.io = IOContext]
  OBVIOUS
<1>3. /\ n.phase = "Loading" /\ ~n.io.finish
      /\ n.victim = ctx[r].victim /\ n.block = ctx[r].block
  BY <1>2 DEF IOContext, TCtx, ContextType
<1>4. ctx' = [ctx EXCEPT ![r] = n]
  BY <1>2 DEF Evicted
<1>5. /\ ctx'[r] = n /\ Store' = Store /\ Reliable' = Reliable
      /\ \A q \in Reqs \ {r} : Work'[q] = Work[q]
      /\ \A s : Stages'[r] = s => Stages' = [Stages EXCEPT ![r] = s]
  BY <1>1, <1>4, OthersStay
<1>6. Done(r) /\ ~Done(r)'
  <2>1. \A c \in cmds : c.req # r
    BY <1>1 DEF FinishPointersValid
  <2> QED
    BY <2>1, <1>1, <1>3, <1>5, IdleDone, IdleDoneNext
<1>7. Stages[r] = "written" /\ Stages'[r] = "read"
  BY <1>1, <1>3, <1>5, <1>6, StageIs, StageIsNext
<1>8. Stages' = [Stages EXCEPT ![r] = "read"]
  BY <1>5, <1>7
<1>9. Work' = Work
  <2>1. Work'[r] = Work[r]
    BY <1>3, <1>5 DEF Work
  <2>2. Work = [q \in Reqs |-> Work[q]] /\ Work' = [q \in Reqs |-> Work'[q]]
    BY DEF Work
  <2> QED
    BY <2>1, <2>2, <1>5
<1>10. BD!Continue(r)
  BY <1>1, <1>5, <1>7, <1>8, <1>9, Zenon DEF BD!Continue, Stages, Store, Work
<1> QED
  BY <1>10 DEF BD!Next

\* The request ends.
LEMMA LoadedRefines ==
    ASSUME IndInv, NEW r \in Reqs, PageLoaded(r)
    PROVE  BD!Next
<1> USE DEF IndInv
<1>1. /\ UNCHANGED <<backend, faulty, device, cmds>>
      /\ ctx[r].phase = "Loading" /\ ctx[r].io.finish
  BY DEF PageLoaded
<1>2. PICK n : n = Context("End", "none", 0, 0, IOContext)
  OBVIOUS
<1>3. n.phase = "End"
  BY <1>2 DEF Context
<1>4. ctx' = [ctx EXCEPT ![r] = n]
  BY <1>2 DEF PageLoaded
<1>5. /\ ctx'[r] = n /\ Store' = Store /\ Reliable' = Reliable
      /\ \A q \in Reqs \ {r} : Work'[q] = Work[q]
      /\ \A s : Stages'[r] = s => Stages' = [Stages EXCEPT ![r] = s]
  BY <1>1, <1>4, OthersStay
<1>6. \A q \in Reqs \ {r} : mem'[q] = mem[q]
  BY DEF PageLoaded, TData
<1>7. Stages[r] = "loaded" /\ Stages'[r] = "idle"
  BY <1>1, <1>3, <1>5, StageIs, StageIsNext DEF Done
<1>8. Stages' = [Stages EXCEPT ![r] = "idle"]
  BY <1>5, <1>7
<1>9. BD!OthersKeep(r)
  BY <1>5, <1>6, Zenon DEF BD!OthersKeep, Work
<1>10. BD!End(r)
  BY <1>5, <1>7, <1>8, <1>9, Zenon DEF BD!End, Stages, Store
<1> QED
  BY <1>10 DEF BD!Next

\* Every step is a step of the block device or leaves it alone.
LEMMA NextRefines == IndInv /\ [Next]_vars => BD!Next \/ UNCHANGED Mapped
<1> SUFFICES ASSUME IndInv, [Next]_vars PROVE BD!Next \/ UNCHANGED Mapped
  OBVIOUS
<1>1. CASE UNCHANGED vars
  <2>1. UNCHANGED <<backend, faulty, device, mem, ctx, cmds>>
    BY <1>1 DEF vars
  <2>2. \A r \in Reqs : Done(r)' <=> Done(r)
    BY <2>1 DEF Done
  <2> QED
    BY <2>1, <2>2, MappedSame
<1>2. ASSUME NEW r \in Reqs, Refused(r) \/ Poll(r) PROVE BD!Next \/ UNCHANGED Mapped
  BY <1>2, ProgressRefines DEF Refused, RefusedProgress, Poll
<1>3. ASSUME NEW r \in Reqs, NEW v \in Blocks, NEW b \in Blocks, NEW x \in Values,
             PinMissDirty(r, v, b, x)
      PROVE  BD!Next
  <2>1. mem'[r] \in Values /\ \A q \in Reqs \ {r} : mem'[q] = mem[q]
    BY <1>3 DEF PinMissDirty, IndInv, TData
  <2>2. PinMiss(r, Context("Evicting", "stack", v, b, IOContext), {v, b})
    BY <1>3 DEF PinMissDirty
  <2> QED
    BY <2>1, <2>2, BeginRefines
<1>4. ASSUME NEW r \in Reqs, NEW b \in Blocks, PinMissClean(r, b) PROVE BD!Next
  <2>1. mem'[r] \in Values /\ \A q \in Reqs \ {r} : mem'[q] = mem[q]
    BY <1>4 DEF PinMissClean, IndInv, TData
  <2>2. PinMiss(r, Context("Loading", "stack", b, b, IOContext), {b})
    BY <1>4 DEF PinMissClean
  <2> QED
    BY <2>1, <2>2, BeginRefines
<1>5. ASSUME NEW r \in Reqs, Turn(r) PROVE BD!Next \/ UNCHANGED Mapped
  BY <1>2, <1>5, FirstReturnsRefines, IssueRefines, EvictedRefines, LoadedRefines DEF Turn
<1> QED
  BY <1>1, <1>3, <1>4, <1>5, DeviceRefines DEF Next

\* Every backend implements the block device, for any number of requests, blocks, values
\* and devices, unless the virtual address space is empty: a request writes its victim
\* and then reads its page, and on a reliable backend (not DummyIO, and not AIO or IOURing
\* on a device that fails) a finished read delivered what the last finished write of that
\* block had put there, in whatever order the commands were started, carried out and
\* reaped.
THEOREM BlockDeviceImplemented ==
    ASSUME num_vpages # 0
    PROVE  Spec => ImplementsBlockDevice
<1>1. Init => BD!Init
  <2> SUFFICES ASSUME Init PROVE BD!Init
    OBVIOUS
  <2>1. 0 \in Blocks
    BY PartitionsAssumption DEF Blocks
  <2>2. \A b \in Blocks : device[Address(b)] = Zero
    BY AddressInRange DEF Init, Cleared, Blocks
  <2>3. Store = [b \in Blocks |-> Zero]
    BY <2>2 DEF Store
  <2>4. \A r \in Reqs : ctx[r].phase = "End" /\ ctx[r].victim = 0 /\ ctx[r].block = 0
    BY DEF Init, Context
  <2>5. Stages = [r \in Reqs |-> "idle"]
    <3>1. \A r \in Reqs : Stages[r] = "idle"
      BY <2>4, StageIs
    <3>2. Stages = [r \in Reqs |-> Stages[r]]
      BY DEF Stages
    <3> QED
      BY <3>1, <3>2
  <2>6. Work \in [Reqs -> [victim : Blocks, block : Blocks]]
    BY <2>1, <2>4 DEF Work
  <2>7. mem = [r \in Reqs |-> Zero] /\ Reliable \in BOOLEAN
    BY DEF Init, Reliable
  <2> QED
    BY <2>3, <2>5, <2>6, <2>7, Zenon DEF BD!Init, Store, Stages, Work
<1>2. ASSUME IndInv, [Next]_vars PROVE [BD!Next]_(BD!vars)
  <2>1. UNCHANGED Mapped => UNCHANGED BD!vars
    BY Zenon DEF Mapped, BD!vars, Store, Stages, Work
  <2> QED
    BY <2>1, <1>2, NextRefines
<1> QED
  BY <1>1, <1>2, BackendInvHolds, PTL DEF Spec, ImplementsBlockDevice, BD!Spec
=============================================================================
