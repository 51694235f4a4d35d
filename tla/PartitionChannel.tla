-------------------------- MODULE PartitionChannel --------------------------
(***************************************************************************)
(* The mailboxes between the PartitionClients and one server thread of the *)
(* PartitionServer.  Each client id has a request and a response mailbox   *)
(* of one message each, without a lock: a message is announced by a toggle *)
(* bit in its header word, which is stored after all other words.  A Pin   *)
(* may be answered in the response message, or later by the asynchronous   *)
(* fiber, which writes through the pointer in the request to the response  *)
(* object on the waiting client's stack.                                   *)
(*                                                                         *)
(* Clients come and go: a destroyed PartitionClient leaves its id and the  *)
(* state of its toggle to the next one.                                    *)
(***************************************************************************)
EXTENDS Integers, Sequences, FiniteSets

CONSTANTS
    Threads,      \* threads that construct a PartitionClient
    Cids,         \* client ids of the server
    MaxComms,     \* message_type::MAX_COMMS
    MaxRequests,  \* bound on the requests the threads make
    None

ASSUME ChannelAssumption ==
    MaxComms \in Nat \ {0} /\ MaxRequests \in Nat /\ None \notin Threads \cup Cids

VARIABLES
    id_pool,      \* server.client_id_pool: free ids
    client_toggles, \* Cids -> toggle left by the last client with this id
    requests,     \* Cids -> message: toggle and requests
    responses,    \* Cids -> message: toggle and responses
    toggles,      \* Cids -> the server's toggle
    srv_pc,       \* "scan", "process", "respond"
    srv_cid,      \* client whose message the server processes
    resp_message, \* responses collected for it
    async,        \* requests handed to the asynchronous fiber
    pc,           \* Threads -> control point, "none" without a PartitionClient
    ret,          \* Threads -> control point submit_message returns to
    cid,          \* Threads -> client id
    toggle,       \* Threads -> the client's toggle
    message,      \* Threads -> local_message_pool: requests of the current batch
    processing,   \* Threads -> local_message_processing
    req,          \* Threads -> the request being made
    resp,         \* Threads -> the response object on the thread's stack
    count,        \* requests made so far
    sent, served  \* history: Cids -> requests submitted and processed

mailbox == <<requests, responses>>
server  == <<toggles, srv_pc, srv_cid, resp_message, async>>
ids     == <<id_pool, client_toggles>>
vars    == <<ids, mailbox, server, pc, ret, cid, toggle, message, processing, req,
             resp, count, sent, served>>

-----------------------------------------------------------------------------
(* A response is the request it answers, or None where the response message *)
(* has a null pointer.  A notification carries no response object.          *)

Request == [from : Threads, num : 1..MaxRequests, type : {"Pin", "Notify"}]

Controls == {"none", "idle", "request", "submit", "header", "await", "poll", "close"}

TypeOK ==
    /\ id_pool \in SUBSET Cids
    /\ client_toggles \in [Cids -> BOOLEAN]
    /\ requests \in [Cids -> [toggle : BOOLEAN, reqs : Seq(Request)]]
    /\ responses \in [Cids -> [toggle : BOOLEAN, resps : Seq(Request \cup {None})]]
    /\ toggles \in [Cids -> BOOLEAN]
    /\ srv_pc \in {"scan", "process", "respond"}
    /\ srv_cid \in Cids \cup {None}
    /\ resp_message \in Seq(Request \cup {None})
    /\ async \in SUBSET Request
    /\ pc \in [Threads -> Controls]
    /\ ret \in [Threads -> Controls]
    /\ cid \in [Threads -> Cids \cup {None}]
    /\ toggle \in [Threads -> BOOLEAN]
    /\ message \in [Threads -> Seq(Request)]
    /\ \A t \in Threads : Len(message[t]) <= MaxComms
    /\ processing \in [Threads -> BOOLEAN]
    /\ req \in [Threads -> Request \cup {None}]
    /\ resp \in [Threads -> Request \cup {None}]
    /\ count \in 0..MaxRequests
    /\ sent \in [Cids -> Seq(Request)]
    /\ served \in [Cids -> Seq(Request)]

Init ==
    /\ id_pool = Cids
    /\ client_toggles = [c \in Cids |-> FALSE]
    /\ requests = [c \in Cids |-> [toggle |-> FALSE, reqs |-> <<>>]]
    /\ responses = [c \in Cids |-> [toggle |-> FALSE, resps |-> <<>>]]
    /\ toggles = [c \in Cids |-> FALSE]
    /\ srv_pc = "scan" /\ srv_cid = None /\ resp_message = <<>> /\ async = {}
    /\ pc = [t \in Threads |-> "none"]
    /\ ret = [t \in Threads |-> "none"]
    /\ cid = [t \in Threads |-> None]
    /\ toggle = [t \in Threads |-> FALSE]
    /\ message = [t \in Threads |-> <<>>]
    /\ processing = [t \in Threads |-> FALSE]
    /\ req = [t \in Threads |-> None]
    /\ resp = [t \in Threads |-> None]
    /\ count = 0
    /\ sent = [c \in Cids |-> <<>>]
    /\ served = [c \in Cids |-> <<>>]

Goto(t, l) == pc' = [pc EXCEPT ![t] = l]

-----------------------------------------------------------------------------
(* Life of a PartitionClient *)

\* The constructor takes an id from the queue of the nearest CPU that has one,
\* and the toggle the last client with this id has left.
Construct(t, c) ==
    /\ pc[t] = "none"
    /\ c \in id_pool
    /\ id_pool' = id_pool \ {c}
    /\ cid' = [cid EXCEPT ![t] = c]
    /\ toggle' = [toggle EXCEPT ![t] = client_toggles[c]]
    /\ Goto(t, "idle")
    /\ UNCHANGED <<client_toggles, mailbox, server, ret, message, processing, req,
                   resp, count, sent, served>>

\* The destructor calls wait(): submit what is left and wait for the answer.
Close(t) ==
    /\ pc[t] = "idle"
    /\ Goto(t, "close")
    /\ UNCHANGED <<ids, mailbox, server, ret, cid, toggle, message, processing, req,
                   resp, count, sent, served>>

CloseSubmits(t) ==
    /\ pc[t] = "close"
    /\ ~processing[t] /\ message[t] # <<>>
    /\ Goto(t, "submit")
    /\ ret' = [ret EXCEPT ![t] = "close"]
    /\ UNCHANGED <<ids, mailbox, server, cid, toggle, message, processing, req, resp,
                   count, sent, served>>

SaveToggle(t) == client_toggles' = [client_toggles EXCEPT ![cid[t]] = toggle[t]]

\* Nothing is left: the toggle is saved and the id returned.
Destroy(t) ==
    /\ pc[t] = "close"
    /\ ~processing[t] /\ message[t] = <<>>
    /\ SaveToggle(t)
    /\ id_pool' = id_pool \cup {cid[t]}
    /\ cid' = [cid EXCEPT ![t] = None]
    /\ Goto(t, "none")
    /\ UNCHANGED <<mailbox, server, ret, toggle, message, processing, req, resp,
                   count, sent, served>>

-----------------------------------------------------------------------------
(* Requests of a client *)

NewRequest(t, type) ==
    /\ count < MaxRequests
    /\ count' = count + 1
    /\ req' = [req EXCEPT ![t] = [from |-> t, num |-> count + 1, type |-> type]]

\* request() is called.
Call(t, type) ==
    /\ pc[t] = "idle"
    /\ NewRequest(t, type)
    /\ Goto(t, "request")
    /\ UNCHANGED <<ids, mailbox, server, ret, cid, toggle, message, processing, resp,
                   sent, served>>

BatchFull(m) == Len(m) = MaxComms

\* request(): after poll_message the request joins the batch, and a full batch is
\* submitted.  SharedCache::pin waits for its answer, a notification does not.
Join(t) ==
    LET m == Append(message[t], req[t])
        back == IF req[t].type = "Pin" THEN "await" ELSE "idle"
    IN
    /\ pc[t] = "request"
    /\ ~processing[t]
    /\ message' = [message EXCEPT ![t] = m]
    /\ IF BatchFull(m)
       THEN Goto(t, "submit") /\ ret' = [ret EXCEPT ![t] = back]
       ELSE Goto(t, back) /\ UNCHANGED ret
    /\ req' = IF req[t].type = "Pin" THEN req ELSE [req EXCEPT ![t] = None]
    /\ UNCHANGED <<ids, mailbox, server, cid, toggle, processing, resp, count, sent,
                   served>>

\* submit_message: flip the toggle and copy the message, the header word last.
SubmitBody(t) ==
    /\ pc[t] = "submit"
    /\ toggle' = [toggle EXCEPT ![t] = ~@]
    /\ requests' = [requests EXCEPT ![cid[t]].reqs = message[t]]
    /\ Goto(t, "header")
    /\ UNCHANGED <<ids, responses, server, ret, cid, message, processing, req, resp,
                   count, sent, served>>

SubmitHeader(t) ==
    /\ pc[t] = "header"
    /\ requests' = [requests EXCEPT ![cid[t]].toggle = toggle[t]]
    /\ processing' = [processing EXCEPT ![t] = TRUE]
    /\ sent' = [sent EXCEPT ![cid[t]] = @ \o message[t]]
    /\ Goto(t, ret[t])
    /\ UNCHANGED <<ids, responses, server, ret, cid, toggle, message, req, resp,
                   count, served>>

\* Mutant: a null response is copied like any other.
HasPointerAlways(r) == TRUE

HasPointer(r) == r # None

\* process_message, called from poll_message: the response has arrived.  Responses
\* with a null pointer are left to the fiber.
ProcessMessage(t) ==
    LET m == responses[cid[t]]
        mine == {i \in DOMAIN m.resps : message[t][i].type = "Pin" /\ HasPointer(m.resps[i])}
    IN
    /\ pc[t] \in {"request", "poll", "close"}
    /\ processing[t]
    /\ m.toggle = toggle[t]
    /\ resp' = IF mine = {} THEN resp
               ELSE [resp EXCEPT ![t] = m.resps[CHOOSE i \in mine : TRUE]]
    /\ message' = [message EXCEPT ![t] = <<>>]
    /\ processing' = [processing EXCEPT ![t] = FALSE]
    /\ UNCHANGED <<ids, mailbox, server, pc, ret, cid, toggle, req, count, sent, served>>

\* SharedCache::pin looks at the response object: nothing yet, so it polls, which
\* submits the batch if that has not been done.
PollMessage(t) ==
    /\ pc[t] = "await"
    /\ resp[t] = None
    /\ IF ~processing[t] /\ message[t] # <<>>
       THEN Goto(t, "submit") /\ ret' = [ret EXCEPT ![t] = "poll"]
       ELSE Goto(t, "poll") /\ UNCHANGED ret
    /\ UNCHANGED <<ids, mailbox, server, cid, toggle, message, processing, req, resp,
                   count, sent, served>>

PollReturns(t) ==
    /\ pc[t] = "poll"
    /\ ~processing[t]
    /\ Goto(t, "await")
    /\ UNCHANGED <<ids, mailbox, server, ret, cid, toggle, message, processing, req,
                   resp, count, sent, served>>

\* A pointer: pin returns, and with it the life of the response object ends.
PinReturns(t) ==
    /\ pc[t] = "await"
    /\ resp[t] # None
    /\ resp' = [resp EXCEPT ![t] = None]
    /\ req' = [req EXCEPT ![t] = None]
    /\ Goto(t, "idle")
    /\ UNCHANGED <<ids, mailbox, server, ret, cid, toggle, message, processing, count,
                   sent, served>>

\* EMPTY_POINTER: pin resets the response object and asks again.
PinAgain(t) ==
    /\ pc[t] = "await"
    /\ resp[t] # None
    /\ resp' = [resp EXCEPT ![t] = None]
    /\ NewRequest(t, "Pin")
    /\ Goto(t, "request")
    /\ UNCHANGED <<ids, mailbox, server, ret, cid, toggle, message, processing, sent,
                   served>>

-----------------------------------------------------------------------------
(* Server thread *)

\* Mutant: has_message is not reset once the message has been processed.
AnnouncedAlways(c) == requests[c].reqs # <<>>

Announced(c) == requests[c].toggle # toggles[c]

\* The scan over the clients finds a new message.
FindMessage(c) ==
    /\ srv_pc = "scan"
    /\ Announced(c)
    /\ srv_pc' = "process"
    /\ srv_cid' = c
    /\ resp_message' = <<>>
    /\ UNCHANGED <<ids, mailbox, toggles, async, pc, ret, cid, toggle, message,
                   processing, req, resp, count, sent, served>>

\* Mutant: resp.pointer is not reset for a request that goes to the fiber.
NoPointerStale(r) == r

NoPointer(r) == None

\* first_process_func of the next request: a response at once, or for a Pin none
\* yet and a context for the fiber.
Process ==
    LET m == requests[srv_cid].reqs
        i == Len(resp_message) + 1
    IN
    /\ srv_pc = "process"
    /\ i <= Len(m)
    /\ served' = [served EXCEPT ![srv_cid] = Append(@, m[i])]
    /\ \/ /\ resp_message' = Append(resp_message, m[i])
          /\ UNCHANGED async
       \/ /\ m[i].type = "Pin"
          /\ resp_message' = Append(resp_message, NoPointer(m[i]))
          /\ async' = async \cup {m[i]}
    /\ UNCHANGED <<ids, mailbox, toggles, srv_pc, srv_cid, pc, ret, cid, toggle,
                   message, processing, req, resp, count, sent>>

\* send_response: flip the toggle and copy the message, the header word last.
RespondBody ==
    /\ srv_pc = "process"
    /\ Len(resp_message) = Len(requests[srv_cid].reqs)
    /\ toggles' = [toggles EXCEPT ![srv_cid] = ~@]
    /\ responses' = [responses EXCEPT ![srv_cid].resps = resp_message]
    /\ srv_pc' = "respond"
    /\ UNCHANGED <<ids, requests, srv_cid, resp_message, async, pc, ret, cid, toggle,
                   message, processing, req, resp, count, sent, served>>

RespondHeader ==
    /\ srv_pc = "respond"
    /\ responses' = [responses EXCEPT ![srv_cid].toggle = toggles[srv_cid]]
    /\ srv_pc' = "scan"
    /\ srv_cid' = None
    /\ resp_message' = <<>>
    /\ UNCHANGED <<ids, requests, toggles, async, pc, ret, cid, toggle, message,
                   processing, req, resp, count, sent, served>>

\* The fiber, which runs between messages, completes a request: processing_func
\* writes to the response object the request points to.
FiberAnswers(r) ==
    /\ srv_pc = "scan"
    /\ r \in async
    /\ async' = async \ {r}
    /\ resp' = [resp EXCEPT ![r.from] = r]
    /\ UNCHANGED <<ids, mailbox, toggles, srv_pc, srv_cid, resp_message, pc, ret, cid,
                   toggle, message, processing, req, count, sent, served>>

-----------------------------------------------------------------------------
\* What a thread does inside request(), pin() or the destructor.
CallStep(t) ==
    \/ Join(t) \/ SubmitBody(t) \/ SubmitHeader(t) \/ ProcessMessage(t)
    \/ PollMessage(t) \/ PollReturns(t) \/ PinReturns(t)
    \/ CloseSubmits(t) \/ Destroy(t)

ThreadStep(t) ==
    \/ \E c \in id_pool : Construct(t, c)
    \/ Close(t)
    \/ \E type \in {"Pin", "Notify"} : Call(t, type)
    \/ PinAgain(t)
    \/ CallStep(t)

ServerStep == Process \/ RespondBody \/ RespondHeader

Next ==
    \/ \E t \in Threads : ThreadStep(t)
    \/ \E c \in Cids : FindMessage(c)
    \/ ServerStep
    \/ \E r \in async : FiberAnswers(r)

Spec == Init /\ [][Next]_vars

\* The server loop scans every client id and runs the fiber in each round, and a
\* thread inside a call runs on.
FairSpec ==
    /\ Spec
    /\ \A t \in Threads : WF_vars(CallStep(t))
    /\ \A c \in Cids : SF_vars(FindMessage(c))
    /\ WF_vars(ServerStep)
    /\ \A t \in Threads : SF_vars(\E r \in async : r.from = t /\ FiberAnswers(r))

-----------------------------------------------------------------------------
\* Every request is processed once and in the order of submission, whoever uses
\* the client id: no message is overlooked, seen twice, or seen half written.
C == INSTANCE Channel

ImplementsChannel == C!Spec

\* A response object only ever holds the answer to the request its owner waits
\* for: no answer is written to it after pin() has returned or asked again, be it
\* by the fiber or from a response message processed late.
AnswerIsMine == \A t \in Threads : resp[t] # None => resp[t] = req[t]

\* SharedCache::pin is answered, in the response message or by the fiber, and
\* every time it asks.
PinAnswered ==
    \A t \in Threads :
        req[t] # None /\ req[t].type = "Pin" /\ resp[t] = None ~> resp[t] # None
=============================================================================
