---------------------------- MODULE BlockDevice ----------------------------
(***************************************************************************)
(* What a partition's server needs of its I/O backend: a store of blocks   *)
(* and requests that first write a victim page back and then read a page.  *)
(* Several transfers may take effect in one step.  A request ends only     *)
(* after its transfers, so the bytes it delivers are the block's bytes.    *)
(* On a store that is not reliable a transfer may also have no effect.     *)
(***************************************************************************)
CONSTANTS Reqs, Blocks, Values, Initially

VARIABLES
    store,     \* Blocks -> Values
    frame,     \* Reqs -> contents of the request's page frame
    stage,     \* Reqs -> "idle", "write", "written", "read", "loaded"
    work,      \* Reqs -> [victim, block] of the request
    reliable

vars == <<store, frame, stage, work, reliable>>

Init ==
    /\ store = [b \in Blocks |-> Initially]
    /\ frame = [r \in Reqs |-> Initially]
    /\ stage = [r \in Reqs |-> "idle"]
    /\ work \in [Reqs -> [victim : Blocks, block : Blocks]]
    /\ reliable \in BOOLEAN

\* The frames and the work of the requests other than r stay what they are.
OthersKeep(r) ==
    \A q \in Reqs \ {r} : frame'[q] = frame[q] /\ work'[q] = work[q]

\* A request begins: its frame holds the new contents of a dirty victim, or those
\* of a clean one.
Begin(r) ==
    /\ stage[r] = "idle"
    /\ stage' \in {[stage EXCEPT ![r] = st] : st \in {"write", "read"}}
    /\ frame'[r] \in Values /\ work'[r].victim \in Blocks /\ work'[r].block \in Blocks
    /\ OthersKeep(r) /\ UNCHANGED <<store, reliable>>

\* The transfers of some requests are over; those of E had an effect.
Transfer(E) ==
    LET W == {r \in Reqs : stage[r] = "write" /\ stage'[r] = "written"}
        R == {r \in Reqs : stage[r] = "read" /\ stage'[r] = "loaded"}
    IN  /\ E \subseteq W \cup R
        /\ reliable => E = W \cup R
        /\ \A r \in Reqs \ (W \cup R) : stage'[r] = stage[r]
        /\ store' = [b \in Blocks |->
                        IF \E r \in W \cap E : work[r].victim = b
                        THEN frame[CHOOSE r \in W \cap E : work[r].victim = b]
                        ELSE store[b]]
        /\ frame' = [r \in Reqs |-> IF r \in R \cap E THEN store[work[r].block]
                                    ELSE frame[r]]
        /\ UNCHANGED <<work, reliable>>

Continue(r) ==
    /\ stage[r] = "written"
    /\ stage' = [stage EXCEPT ![r] = "read"]
    /\ UNCHANGED <<store, frame, work, reliable>>

\* The bytes read are delivered; the frame is no longer the request's.
End(r) ==
    /\ stage[r] = "loaded"
    /\ stage' = [stage EXCEPT ![r] = "idle"]
    /\ OthersKeep(r) /\ UNCHANGED <<store, reliable>>

Next ==
    \/ \E r \in Reqs : Begin(r) \/ Continue(r) \/ End(r)
    \/ \E E \in SUBSET Reqs : Transfer(E)

Spec == Init /\ [][Next]_vars
=============================================================================
