---------------------------- MODULE Replacement ----------------------------
(***************************************************************************)
(* What a cache needs of its replacement policy: a set of evictable frames *)
(* from which pop takes some member.  SharedCache is written against this  *)
(* module; Clock implements it.                                            *)
(***************************************************************************)
CONSTANTS PPages, None

VARIABLES
    pages,   \* the evictable frames
    popped   \* the frame the last pop returned, None before the first

Init == pages = {} /\ popped = None

Push(p) == pages' = pages \cup {p} /\ UNCHANGED popped

Erase(p) == pages' = pages \ {p} /\ UNCHANGED popped

Pop(p) == p \in pages /\ pages' = pages \ {p} /\ popped' = p

Next == \E p \in PPages : Push(p) \/ Erase(p) \/ Pop(p)

Spec == Init /\ [][Next]_<<pages, popped>>
=============================================================================
