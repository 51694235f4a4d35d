----------------------------- MODULE IoBackend -----------------------------
(***************************************************************************)
(* The I/O backends of io_backend.hpp (DummyIO, MemCopy, AIO, IOURing,     *)
(* SPDK) under the callbacks of shared_cache.hpp that drive them.  A       *)
(* server thread has one pending Pin per request context: evict_func       *)
(* writes the victim back, then load_func reads the page.  The thread's    *)
(* fibers call these again and again; each call returns FALSE until the    *)
(* command's finish flag, a bool inside the context, has been set.         *)
(*                                                                         *)
(* The thread runs one call at a time and yields between calls, except     *)
(* that a refused command is tried again in place (while (!ret)), with     *)
(* every other fiber standing still: running names the context whose call  *)
(* is not over.  A step is one call of the backend.                        *)
(*                                                                         *)
(* The pages of requests under way are distinct: SharedCache shows that    *)
(* (FrameExclusive, NoReadDuringWriteBack).  A command's transfer is one   *)
(* step of the device; nobody touches its frame meanwhile.                 *)
(***************************************************************************)
EXTENDS Partitioner, FiniteSets

CONSTANTS
    Reqs,      \* contexts of asynchronous Pins of one server thread
    Values,    \* contents of a block
    Zero,      \* contents of a block nobody has written
    Backends,  \* the backend classes to choose from
    Depth,     \* MAX_DEPTH, MAX_READ_DEPTH, MAX_WRITE_DEPTH, the size of a qpair
    None

Classes == {"DummyIO", "MemCopy", "AIO", "IOURing", "SPDK"}

ASSUME DepthAssumption == Depth \in Nat \ {0}
ASSUME BackendAssumption == Backends \subseteq Classes /\ Zero \in Values /\ None \notin Reqs

VARIABLES
    backend,  \* the class in use
    faulty,   \* the device may fail commands
    device,   \* Addresses -> Values
    mem,      \* Reqs -> contents of the context's page frame
    ctx,      \* Reqs -> the Pin's context with its IOContext
    cmds,     \* the commands whose slot is in use
    running,  \* context whose call of evict_func/load_func is not over, None at a yield
    lost,     \* contexts whose command SPDK reported as failed
    aborted   \* progress() threw

vars == <<backend, faulty, device, mem, ctx, cmds, running, lost, aborted>>

Blocks == 0 .. num_vpages - 1

IOContext == [first |-> TRUE, processing |-> FALSE, finish |-> FALSE]
Context(phase, home, v, b, io) ==
    [phase |-> phase, home |-> home, victim |-> v, block |-> b, io |-> io]

\* A file or device reaches to its last block (AIO, IOURing and SPDK check or extend
\* it), and nobody has written to it: clear() has deallocated the range.
Cleared == [a \in Addresses |-> Zero]

\* After the constructor: all slots are idle.
Init ==
    /\ backend \in Backends
    /\ faulty \in BOOLEAN
    /\ faulty => backend \in {"AIO", "IOURing", "SPDK"}
    /\ device = Cleared
    /\ mem = [r \in Reqs |-> Zero]
    /\ ctx = [r \in Reqs |-> Context("End", "none", 0, 0, IOContext)]
    /\ cmds = {} /\ running = None /\ lost = {} /\ aborted = FALSE

-----------------------------------------------------------------------------
(* The backend.                                                            *)

With(st) == {c \in cmds : c.st = st}
Over(c) == c.st \in {"done", "failed"}

\* Whether write() and read() take a command: there is an idle callback of the direction,
\* an idle iocb, a free entry of the submission queue, a free slot of the device's qpair.
HasRoom(C) == Cardinality(C) < Depth
DummyIOTakes(op) == HasRoom({c \in cmds : c.op = op})
MemCopyTakes(op) == HasRoom({c \in cmds : c.op = op})
AIOTakes == HasRoom(cmds)
IOURingTakes == HasRoom(With("preparing"))
SPDKTakes(a) == HasRoom({c \in cmds : c.addr[1] = a[1]})

Accepts(op, a) ==
    CASE backend = "DummyIO" -> DummyIOTakes(op)
      [] backend = "MemCopy" -> MemCopyTakes(op)
      [] backend = "AIO" -> AIOTakes
      [] backend = "IOURing" -> IOURingTakes
      [] backend = "SPDK" -> SPDKTakes(a)

\* write() and read() when they return TRUE
NewCommand(r, op, a) ==
    [req |-> r, op |-> op, addr |-> a, finish |-> ctx[r].home,
     st |-> IF backend = "SPDK" THEN "running" ELSE "preparing"]

\* The device (memory for MemCopy) after the commands C, and the frames.
Written(C) ==
    [a \in Addresses |->
        IF \E c \in C : c.op = "write" /\ c.addr = a
        THEN mem[(CHOOSE c \in C : c.op = "write" /\ c.addr = a).req] ELSE device[a]]
Loaded(C) ==
    [r \in Reqs |->
        IF \E c \in C : c.op = "read" /\ c.req = r
        THEN device[(CHOOSE c \in C : c.op = "read" /\ c.req = r).addr] ELSE mem[r]]

\* *finish = true, through the pointer given to write() or read().  SPDK's
\* cmd_callback returns without it when the command failed.
Reported(C) ==
    {c.req : c \in {d \in C : /\ d.finish = ctx[d.req].home
                             /\ ~(backend = "SPDK" /\ d.st = "failed")}}
Finished(C) ==
    [r \in Reqs |-> IF r \in Reported(C) THEN [ctx[r] EXCEPT !.io.finish = TRUE] ELSE ctx[r]]

\* progress() starts the commands S and reaps what is over.
StartAndReap(S) ==
    LET reaped == {c \in cmds : Over(c)} IN
    /\ ctx' = Finished(reaped)
    /\ lost' = lost \cup {c.req : c \in {d \in reaped : backend = "SPDK" /\ d.st = "failed"}}
    /\ cmds' = {IF c \in S THEN [c EXCEPT !.st = "running"] ELSE c : c \in cmds \ reaped}
    /\ UNCHANGED <<device, mem, aborted>>

\* A callback is over when its latency has passed.
ProgressDummyIO == backend = "DummyIO" /\ StartAndReap(With("preparing"))
ProgressAIO == backend = "AIO" /\ StartAndReap(With("preparing"))

\* io_uring_submit may take only part of the queue; the rest stays in preparation.
ProgressIOURing ==
    /\ backend = "IOURing"
    /\ \E S \in SUBSET With("preparing") :
        (faulty \/ S = With("preparing")) /\ StartAndReap(S)

ProgressSPDK == backend = "SPDK" /\ StartAndReap({})

\* MemCopy::progress: copies for everything that was prepared
ProgressMemCopy ==
    /\ backend = "MemCopy"
    /\ device' = Written(cmds) /\ mem' = Loaded(cmds)
    /\ ctx' = Finished(cmds) /\ cmds' = {}
    /\ UNCHANGED <<lost, aborted>>

\* AIO::progress throws when io_submit does not take everything.
ProgressThrows ==
    /\ backend = "AIO" /\ faulty /\ With("preparing") # {}
    /\ aborted' = TRUE
    /\ UNCHANGED <<device, mem, ctx, cmds, lost>>

Progress ==
    \/ ProgressDummyIO \/ ProgressMemCopy \/ ProgressAIO \/ ProgressThrows
    \/ ProgressIOURing \/ ProgressSPDK

\* The hardware (DummyIO: the latency) ends a command.
DeviceEnds(c) ==
    /\ ~aborted /\ c.st = "running"
    /\ \E st \in {"done", "failed"} :
        /\ st = "failed" => faulty \/ c.addr \notin Addresses
        /\ c.addr \notin Addresses => st = "failed"
        /\ cmds' = (cmds \ {c}) \cup {[c EXCEPT !.st = st]}
        /\ LET C == IF st = "done" /\ backend # "DummyIO" THEN {c} ELSE {} IN
            device' = Written(C) /\ mem' = Loaded(C)
    /\ UNCHANGED <<backend, faulty, ctx, running, lost, aborted>>

-----------------------------------------------------------------------------
(* evict_func and load_func, and the Pin that calls them.                  *)

InUse(r) == CASE ctx[r].phase = "End" -> {}
              [] ctx[r].phase = "Evicting" -> {ctx[r].victim, ctx[r].block}
              [] ctx[r].phase = "Loading" -> {ctx[r].block}

\* pin() has locked its victim and is in the middle of its first call, with the
\* context still a local variable.  The frame of a dirty victim v holds its new
\* contents x.
PinMiss(r, c, pages) ==
    /\ ~aborted /\ running = None
    /\ ctx[r].phase = "End"
    /\ \A q \in Reqs : pages \cap InUse(q) = {}
    /\ running' = r
    /\ ctx' = [ctx EXCEPT ![r] = c]
    /\ UNCHANGED <<backend, faulty, device, cmds, lost, aborted>>

PinMissDirty(r, v, b, x) ==
    /\ v # b /\ x # device[Address(v)]
    /\ PinMiss(r, Context("Evicting", "stack", v, b, IOContext), {v, b})
    /\ mem' = [mem EXCEPT ![r] = x]

\* evict_func returns TRUE at once for a clean victim
PinMissClean(r, b) ==
    /\ PinMiss(r, Context("Loading", "stack", b, b, IOContext), {b})
    /\ UNCHANGED mem

\* A call of evict_func or load_func for r: from pin(), or from the fiber's loop.
Calls(r) ==
    /\ ~aborted /\ running \in {None, r}
    /\ ctx[r].phase # "End"
    /\ ctx[r].home = "stack" => running = r

\* The call returns FALSE; the context that pin() returns is copied into the fiber.
Returned(c) == [c EXCEPT !.home = "fiber"]

Op(r) == IF ctx[r].phase = "Evicting" THEN "write" ELSE "read"
Target(r) == IF ctx[r].phase = "Evicting" THEN ctx[r].victim ELSE ctx[r].block

\* Mutant: no special first call.
FirstCallSkipped(io) == FALSE

\* the first call only clears first
FirstCall(io) == io.first

FirstReturns(r) ==
    /\ Calls(r) /\ FirstCall(ctx[r].io)
    /\ ctx' = [ctx EXCEPT ![r] = Returned([@ EXCEPT !.io.first = FALSE])]
    /\ running' = None
    /\ UNCHANGED <<backend, faulty, device, mem, cmds, lost, aborted>>

MustIssue(r) == Calls(r) /\ ~FirstCall(ctx[r].io) /\ ~ctx[r].io.processing

\* write() or read() takes the command: processing = true
Issue(r) ==
    LET a == Address(Target(r)) IN
    /\ MustIssue(r) /\ Accepts(Op(r), a)
    /\ cmds' = cmds \cup {NewCommand(r, Op(r), a)}
    /\ ctx' = [ctx EXCEPT ![r] = Returned([@ EXCEPT !.io.processing = TRUE])]
    /\ running' = None
    /\ UNCHANGED <<backend, faulty, device, mem, lost, aborted>>

\* Mutant: refused without driving the backend.
RefusedIdles == UNCHANGED <<device, mem, ctx, cmds, lost, aborted>>

\* write() or read() is refused: it calls progress(), and is called again
RefusedProgress == Progress

Refused(r) ==
    /\ MustIssue(r) /\ ~Accepts(Op(r), Address(Target(r)))
    /\ RefusedProgress
    /\ running' = r
    /\ UNCHANGED <<backend, faulty>>

\* the command is under way: if (!finish) progress()
Poll(r) ==
    /\ Calls(r) /\ ctx[r].io.processing /\ ~ctx[r].io.finish
    /\ Progress
    /\ running' = None
    /\ UNCHANGED <<backend, faulty>>

\* evict_func returns TRUE: the victim's lock is released, the IOContext reset
\* and load_func called in the same turn
Evicted(r) ==
    /\ Calls(r) /\ ctx[r].phase = "Evicting" /\ ctx[r].io.finish
    /\ ctx' = [ctx EXCEPT ![r] = [@ EXCEPT !.phase = "Loading", !.io = IOContext]]
    /\ running' = r
    /\ UNCHANGED <<backend, faulty, device, mem, cmds, lost, aborted>>

\* load_func returns TRUE: the Pin ends and the frame is the client's
PageLoaded(r) ==
    /\ Calls(r) /\ ctx[r].phase = "Loading" /\ ctx[r].io.finish
    /\ ctx' = [ctx EXCEPT ![r] = Context("End", "none", 0, 0, IOContext)]
    /\ mem' = [mem EXCEPT ![r] = Zero]
    /\ running' = None
    /\ UNCHANGED <<backend, faulty, device, cmds, lost, aborted>>

Turn(r) == FirstReturns(r) \/ Issue(r) \/ Refused(r) \/ Poll(r) \/ Evicted(r) \/ PageLoaded(r)

Next ==
    \/ \E r \in Reqs : Turn(r)
    \/ \E r \in Reqs, v, b \in Blocks, x \in Values : PinMissDirty(r, v, b, x)
    \/ \E r \in Reqs, b \in Blocks : PinMissClean(r, b)
    \/ \E c \in cmds : DeviceEnds(c)

\* The fiber's loop visits every context in turn, whatever else the server thread does
\* between two visits (strong fairness), and the device ends every command it was given.
Fairness ==
    /\ \A r \in Reqs : SF_vars(Turn(r))
    /\ \A r \in Reqs : WF_vars(\E c \in cmds : c.req = r /\ DeviceEnds(c))

Spec == Init /\ [][Next]_vars /\ Fairness

-----------------------------------------------------------------------------
(* Properties.                                                             *)

\* The finish pointer of every command under way points into the context that waits
\* for it, where that context now is.  A command given away from pin() would name a
\* local variable that is copied into the fiber afterwards: its completion would be
\* written over a dead stack frame and the request would never see it.
FinishPointersValid ==
    \A c \in cmds : /\ ctx[c.req].phase # "End"
                    /\ ctx[c.req].home = c.finish
                    /\ ctx[c.req].io.processing /\ ~ctx[c.req].io.finish
                    /\ c.op = Op(c.req) /\ c.addr = Address(Target(c.req))

\* Whatever the backend, an asynchronous request is a write of the victim's bytes
\* followed by a read of the block's bytes: nothing is reported finished before its
\* transfer, requests do not disturb each other's blocks, and blocks of different ids
\* never share an address.  A failed command is reported as finished by AIO and
\* IOURing, whose progress() ignores the result code, and DummyIO moves no data.
Reliable == backend # "DummyIO" /\ ~(faulty /\ backend \in {"AIO", "IOURing"})
Stage(r) ==
    LET over == ctx[r].io.finish \/ \E c \in cmds :
                    c.req = r /\ Over(c) /\ ~(backend = "SPDK" /\ c.st = "failed") IN
    CASE ctx[r].phase = "End" -> "idle"
      [] ctx[r].phase = "Evicting" -> IF over THEN "written" ELSE "write"
      [] ctx[r].phase = "Loading" -> IF over THEN "loaded" ELSE "read"
BD == INSTANCE BlockDevice WITH
        Initially <- Zero,
        store <- [b \in Blocks |-> device[Address(b)]],
        frame <- mem,
        stage <- [r \in Reqs |-> Stage(r)],
        work <- [r \in Reqs |-> [victim |-> ctx[r].victim, block |-> ctx[r].block]],
        reliable <- Reliable
ImplementsBlockDevice == BD!Spec

\* Every request ends, however few the command slots are: the thread that spins on a
\* refused command drives the backend itself.  Two failures stop a request: SPDK drops
\* the finish flag of a failed command, which stops the request of that command and no
\* other, and AIO's progress() throws, which stops the server thread.
RequestsEnd ==
    \A r \in Reqs : ctx[r].phase # "End" ~> ctx[r].phase = "End" \/ r \in lost \/ aborted
=============================================================================
