---------------------------- MODULE AddressSpace ---------------------------
(***************************************************************************)
(* What a cache promises to the threads that use it: a virtual address     *)
(* space of pages.  A thread pins a page, reads and writes it while it is  *)
(* pinned, and unpins it.  The content of a page changes by a write of a   *)
(* thread that has it pinned, and in no other way: eviction, write-back    *)
(* and reload are invisible.  A page nobody has written has no content.    *)
(***************************************************************************)
CONSTANTS Clients, VPages, Values, None

VARIABLES
    content,  \* VPages -> Values, or None before the first write
    pinned    \* Clients -> set of pages

Init ==
    /\ content = [v \in VPages |-> None]
    /\ pinned = [c \in Clients |-> {}]

Pin(c, v) ==
    /\ v \notin pinned[c]
    /\ pinned' = [pinned EXCEPT ![c] = @ \cup {v}]
    /\ UNCHANGED content

Write(c, v, x) ==
    /\ v \in pinned[c]
    /\ content' = [content EXCEPT ![v] = x]
    /\ UNCHANGED pinned

Unpin(c, v) ==
    /\ v \in pinned[c]
    /\ pinned' = [pinned EXCEPT ![c] = @ \ {v}]
    /\ UNCHANGED content

Next ==
    \E c \in Clients, v \in VPages :
        Pin(c, v) \/ Unpin(c, v) \/ \E x \in Values : Write(c, v, x)

Spec == Init /\ [][Next]_<<content, pinned>>
=============================================================================
