------------------------------ MODULE Channel ------------------------------
(***************************************************************************)
(* What the message exchange between clients and a server thread promises: *)
(* a client submits a batch of requests once the server is through with    *)
(* the one before, and the server processes every request once, in order.  *)
(* SharedCache is written against this module (its posted[c] is the part   *)
(* of sent[c] behind served[c]); PartitionChannel implements it.           *)
(***************************************************************************)
EXTENDS Integers, Sequences, SequencesExt

CONSTANT Cids  \* client ids of the server

VARIABLES
    sent,   \* Cids -> all requests submitted under this id
    served  \* Cids -> all requests processed

Init ==
    /\ sent = [c \in Cids |-> <<>>]
    /\ served = [c \in Cids |-> <<>>]

\* A batch is whatever sent grows by.
Submit(c) ==
    /\ served[c] = sent[c]
    /\ IsStrictPrefix(sent[c], sent'[c])
    /\ sent' = [sent EXCEPT ![c] = sent'[c]]
    /\ UNCHANGED served

Serve(c) ==
    /\ Len(served[c]) < Len(sent[c])
    /\ served' = [served EXCEPT ![c] = Append(@, sent[c][Len(@) + 1])]
    /\ UNCHANGED sent

Next == \E c \in Cids : Submit(c) \/ Serve(c)

Spec == Init /\ [][Next]_<<sent, served>>
=============================================================================
