---------------------------- MODULE Instructions ---------------------------
(***************************************************************************)
(* How the instructions of a program reach the thread's caches.            *)
(* Code compiled with the TriCacheInstrument pass asks the DirectCache for *)
(* a raw pointer before each access.  Other code faults on a cached        *)
(* address: the SIGSEGV handler puts a raw address into the base register  *)
(* of the instruction's memory operand, lets a copy of the instruction run *)
(* in a buffer that ends in int3, and the SIGTRAP handler puts the         *)
(* register back.                                                          *)
(*                                                                         *)
(* An instruction loads or stores a register with operand [rb + ri], or    *)
(* with [ri], an operand that has no base.  Addresses are in whole pages:  *)
(* the index stands for index * scale + displacement.  A store of the base *)
(* register itself is left out: the handler makes it store the raw address *)
(* (README).                                                               *)
(***************************************************************************)
EXTENDS ThreadCache

VARIABLES
    trap,      \* the trap under way: the instruction and how far it got
    regs,      \* the registers of the interrupted context
    saved,     \* trap_context.ucontext
    modified,  \* trap_context.modified
    native     \* history: the registers if memory could be accessed directly

tvars == <<trap, regs, saved, modified, native>>
ivars == <<vars, tvars>>

Regs == {"rb", "ri", "rv"}

\* What a register holds: an address in cache space, an address off pages from a
\* frame, a number of pages, or data.
Cached(v) == [kind |-> "cached", page |-> v]
Raw(f, off) == [kind |-> "raw", frame |-> f, off |-> off]
Number(k) == [kind |-> "number", number |-> k]
Data(x) == [kind |-> "data", data |-> x]

NoTrap == [at |-> "none", op |-> "none", page |-> None, reg |-> "rv", has_base |-> FALSE]
NoRegs == [r \in Regs |-> Number(0)]

IInit ==
    /\ Init
    /\ trap = NoTrap /\ regs = NoRegs /\ saved = NoRegs
    /\ modified = {} /\ native = NoRegs

\* Instrumented code: the address of a load is replaced by cache_get_raw_ptr_load(),
\* that of a store, atomicrmw or cmpxchg by cache_get_raw_ptr_store().
ReplaceAddrOp(op, v) ==
    /\ trap.at = "none"
    /\ LET is_write == op # "load" IN AccessHit(v, is_write) \/ AccessMiss(v, is_write)
    /\ UNCHANGED tvars

\* An instruction on page v faults.  segfault_sigaction sets under_trap, saves the
\* context and clears modified.  Without a base it translates nothing.
Segfault(op, v, k, has_base, reg, x) ==
    /\ pc = "idle" /\ trap.at = "none"
    /\ reg = "rb" => op = "load"
    /\ v >= k
    /\ regs' = [rb |-> IF has_base THEN Cached(v - k) ELSE Number(0),
                ri |-> IF has_base THEN Number(k) ELSE Cached(v),
                rv |-> Data(x)]
    /\ saved' = regs' /\ modified' = {}
    /\ native' = IF op = "load" THEN [regs' EXCEPT ![reg] = Data(expected[v])] ELSE regs'
    /\ trap' = [at |-> IF has_base THEN "operand" ELSE "exec",
                op |-> op, page |-> v, reg |-> reg, has_base |-> has_base]
    /\ UNCHANGED vars

\* ptr = base + offset goes to cache_get_raw_ptr_store, which calls access() for
\* writing, whatever the instruction does with its operand.
TrapAccess ==
    LET ptr == regs["rb"].page + regs["ri"].number IN
    /\ trap.at = "operand"
    /\ AccessHit(ptr, TRUE) \/ AccessMiss(ptr, TRUE)
    /\ trap' = [trap EXCEPT !.at = "pin"]
    /\ UNCHANGED <<regs, saved, modified, native>>

TrapPin == trap.at = "pin" /\ PrivatePin /\ UNCHANGED tvars

\* Mutant: the base points at the page itself, and the offset is added again when
\* the instruction runs.
RawBaseForgets(f, off) == Raw(f, 0)

\* raw_ptr - offset
RawBase(f, off) == Raw(f, 0 - off)

TrapRewrite ==
    /\ trap.at = "pin" /\ pc = "idle"
    /\ regs' = [regs EXCEPT !["rb"] = RawBase(last.pointer, regs["ri"].number)]
    /\ modified' = modified \cup {"rb"}
    /\ trap' = [trap EXCEPT !.at = "exec"]
    /\ UNCHANGED <<vars, saved, native>>

\* The address the operand has when the copy of the instruction runs.
Target ==
    CASE ~trap.has_base -> regs["ri"]
      [] regs["rb"].kind = "raw" -> Raw(regs["rb"].frame, regs["rb"].off + regs["ri"].number)
      [] OTHER -> regs["rb"]

\* The copy in exec_buffer accesses the frame the page is in.
Exec ==
    LET f == where[trap.page] IN
    /\ trap.at = "exec" /\ Target = Raw(f, 0)
    /\ trap' = [trap EXCEPT !.at = "int3"]
    /\ IF trap.op = "load"
       THEN regs' = [regs EXCEPT ![trap.reg] = Data(mem[f])] /\ UNCHANGED <<mem, expected>>
       ELSE /\ mem' = [mem EXCEPT ![f] = regs["rv"].data]
            /\ expected' = [expected EXCEPT ![trap.page] = regs["rv"].data]
            /\ UNCHANGED regs
    /\ UNCHANGED <<direct, private, pc, want, user, last, where, disk, saved, modified, native>>

\* The copy accesses a cached address and faults under a trap: abort().  Were it a raw
\* address that is not where the page is, what follows would be undefined.
ExecFails ==
    /\ trap.at = "exec" /\ Target # Raw(where[trap.page], 0)
    /\ trap' = [trap EXCEPT !.at = IF Target.kind = "cached" THEN "aborted" ELSE "undefined"]
    /\ UNCHANGED <<vars, regs, saved, modified, native>>

\* Mutant: the base register keeps the raw address.
RestoredNever(r) == regs[r]

Restored(r) == IF r \in modified THEN saved[r] ELSE regs[r]

\* trap_sigaction, on int3
Sigtrap ==
    /\ trap.at = "int3"
    /\ regs' = [r \in Regs |-> Restored(r)]
    /\ trap' = [trap EXCEPT !.at = "done"]
    /\ UNCHANGED <<vars, saved, modified, native>>

\* The program goes on behind the instruction.
Resume ==
    /\ trap.at = "done"
    /\ trap' = NoTrap /\ regs' = NoRegs /\ saved' = NoRegs
    /\ modified' = {} /\ native' = NoRegs
    /\ UNCHANGED vars

Aborted == trap.at \in {"aborted", "undefined"} /\ UNCHANGED ivars

INext ==
    \/ \E op \in {"load", "store", "atomicrmw", "cmpxchg"}, v \in Pages : ReplaceAddrOp(op, v)
    \/ trap.at = "none" /\ (PrivatePin \/ ProgramStep) /\ UNCHANGED tvars
    \/ \E op \in {"load", "store"}, v \in Pages, k \in {0, 1}, has_base \in BOOLEAN,
          reg \in {"rb", "rv"}, x \in Values : Segfault(op, v, k, has_base, reg, x)
    \/ TrapAccess \/ TrapPin \/ TrapRewrite
    \/ Exec \/ ExecFails \/ Aborted
    \/ Sigtrap \/ Resume

ISpec == IInit /\ [][INext]_ivars

-----------------------------------------------------------------------------
\* A trapped instruction leaves the registers as if memory had been accessed directly,
\* unless it loads into its own base register (mov rax, [rax]): trap_sigaction then
\* overwrites the value just loaded.
TrapTransparent == trap.at = "done" => regs = native \/ (trap.has_base /\ trap.reg = "rb")

\* The operand of a trapped instruction is where its raw address says when the copy
\* runs, however the page got there, and the process aborts only for an operand
\* without a base.
OperandsSafe ==
    /\ trap.at # "undefined"
    /\ trap.at = "aborted" => ~trap.has_base
=============================================================================
