----------------------- MODULE PartitionChannelProofs -----------------------
(***************************************************************************)
(* Proofs about the channel between the client threads of a partition and  *)
(* its server.  The inductive invariant ties a thread's batch to the slot  *)
(* of its client id: who owns the slot, on which side the toggle bits put  *)
(* the batch, how far the server has come with it, and which Pin of it is  *)
(* still unanswered.  The proof that a step preserves it has one lemma per *)
(* action.                                                                 *)
(***************************************************************************)
EXTENDS PartitionChannel, TLAPS

-----------------------------------------------------------------------------
\* The parts of the type invariant, apart, so that a proof step can use one of them.
TIds == id_pool \in SUBSET Cids /\ client_toggles \in [Cids -> BOOLEAN]
TBox ==
    /\ requests \in [Cids -> [toggle : BOOLEAN, reqs : Seq(Request)]]
    /\ responses \in [Cids -> [toggle : BOOLEAN, resps : Seq(Request \cup {None})]]
TServer ==
    /\ toggles \in [Cids -> BOOLEAN]
    /\ srv_pc \in {"scan", "process", "respond"}
    /\ srv_cid \in Cids \cup {None}
    /\ resp_message \in Seq(Request \cup {None})
    /\ async \in SUBSET Request
TControl == pc \in [Threads -> Controls] /\ ret \in [Threads -> Controls]
TClient == cid \in [Threads -> Cids \cup {None}] /\ toggle \in [Threads -> BOOLEAN]
TMessage == message \in [Threads -> Seq(Request)] /\ processing \in [Threads -> BOOLEAN]
TRequest ==
    /\ req \in [Threads -> Request \cup {None}]
    /\ resp \in [Threads -> Request \cup {None}]
    /\ count \in 0..MaxRequests
THistory == sent \in [Cids -> Seq(Request)] /\ served \in [Cids -> Seq(Request)]

Types == TIds /\ TBox /\ TServer /\ TControl /\ TClient /\ TMessage /\ TRequest /\ THistory

-----------------------------------------------------------------------------
\* The newest request of the batch.
Last(t) == message[t][Len(message[t])]

\* Thread t waits for the answer to its Pin, or submits a batch and waits then.
Waiting(t) ==
    \/ pc[t] \in {"await", "poll"}
    \/ pc[t] \in {"submit", "header"} /\ ret[t] \in {"await", "poll"}

\* The batch of t ends in a Pin, and if it was submitted the server has not deferred it
\* to the fiber: neither the answers being collected nor the ones returned leave it out.
Unanswered(t) ==
    /\ message[t] # <<>> /\ Last(t).type = "Pin"
    /\ processing[t] =>
        /\ srv_cid = cid[t] /\ Len(resp_message) >= Len(message[t])
              => resp_message[Len(message[t])] # None
        /\ responses[cid[t]].toggle = toggle[t]
              => responses[cid[t]].resps[Len(message[t])] # None

\* Where t is, against the slot it owns and the batch it has: a batch that can still
\* grow has room for one more request.
Control(t) ==
    /\ (pc[t] = "none") <=> (cid[t] = None)
    /\ pc[t] = "none" => ~processing[t] /\ message[t] = <<>>
    /\ pc[t] \in {"submit", "header"} =>
          /\ ~processing[t] /\ message[t] # <<>>
          /\ ret[t] \in {"idle", "await", "poll", "close"}
    /\ ~processing[t] /\ pc[t] \notin {"submit", "header"} => Len(message[t]) < MaxComms
    /\ Len(message[t]) <= MaxComms

\* A thread's batch holds its own requests, and a Pin only at the end.
Batch(t) ==
    /\ \A i \in 1..Len(message[t]) :
          message[t][i].from = t /\ (message[t][i].type = "Pin" => i = Len(message[t]))
    /\ pc[t] = "request" => req[t] \in Request /\ req[t].from = t

\* The answer a thread holds is the one to the request it made, and while its Pin is
\* unanswered it waits with no answer and the fiber does not have the Pin.
Answer(t) ==
    /\ resp[t] # None => resp[t] = req[t] /\ pc[t] \in {"await", "poll"}
    /\ Unanswered(t) =>
          Waiting(t) /\ resp[t] = None /\ req[t] = Last(t) /\ req[t] \notin async

\* A Pin the fiber has is the request its thread waits with, and is no longer in a
\* batch under construction.
Fiber ==
    \A r \in async : /\ r.from \in Threads /\ r.type = "Pin"
                     /\ req[r.from] = r /\ resp[r.from] = None
                     /\ pc[r.from] \in {"await", "poll"}
                     /\ ~processing[r.from] => message[r.from] = <<>>

\* Every client id is in the pool or owned by exactly one thread.
Owners ==
    /\ \A t, u \in Threads : cid[t] = cid[u] /\ cid[t] # None => t = u
    /\ \A t \in Threads : cid[t] \notin id_pool
    /\ \A c \in Cids : c \in id_pool \/ \E t \in Threads : cid[t] = c

\* The server has nothing to do for client id c: both toggles agree.
Quiet(c) ==
    requests[c].toggle = toggles[c] /\ responses[c].toggle = toggles[c] /\ srv_cid # c

\* An id in the pool is quiet, and the toggle bit kept with it is the one the server has,
\* so the next owner takes up where the last one left.
Pool == \A c \in id_pool : Quiet(c) /\ client_toggles[c] = toggles[c]

\* Answers s, where given, are the answers to the requests of m, one by one.
Matches(s, m) == \A i \in 1..Len(s) : s[i] \in {None, m[i]}

\* The slot of thread t between its submit and the answer: filled but not yet visible,
\* visible, being served, answered but not yet visible, and answered.
Link(t, c) ==
    /\ ~processing[t] => Quiet(c)
    /\ ~processing[t] /\ pc[t] # "header" => toggle[t] = toggles[c]
    /\ ~processing[t] /\ pc[t] = "header" =>
          toggle[t] # toggles[c] /\ requests[c].reqs = message[t]
    /\ processing[t] => requests[c].toggle = toggle[t] /\ requests[c].reqs = message[t]
    /\ processing[t] /\ toggles[c] # toggle[t] =>
          responses[c].toggle # toggle[t] /\ (srv_cid = c => srv_pc = "process")
    /\ processing[t] /\ toggles[c] = toggle[t] /\ srv_cid = c =>
          /\ srv_pc = "respond" /\ responses[c].toggle # toggle[t]
          /\ responses[c].resps = resp_message
    /\ processing[t] /\ toggles[c] = toggle[t] /\ srv_cid # c =>
          /\ responses[c].toggle = toggle[t]
          /\ Len(responses[c].resps) = Len(message[t])
          /\ Matches(responses[c].resps, message[t])

\* The same for all threads that own a slot.
Links == \A t \in Threads : cid[t] # None => Link(t, cid[t])

\* The answers collected so far answer the first requests of the batch being served.
Server ==
    /\ (srv_pc = "scan") <=> (srv_cid = None)
    /\ srv_cid # None =>
          /\ Len(resp_message) <= Len(requests[srv_cid].reqs)
          /\ Matches(resp_message, requests[srv_cid].reqs)
    /\ srv_pc = "respond" => Len(resp_message) = Len(requests[srv_cid].reqs)

\* What was served on slot c is a prefix of what was sent, and the rest is the part of
\* the batch in the slot that the server has not reached.
Queue(c) ==
    /\ \A i \in 1..Len(served[c]) : served[c][i] = sent[c][i]
    /\ requests[c].toggle = toggles[c] => Len(served[c]) = Len(sent[c])
    /\ requests[c].toggle # toggles[c] /\ srv_cid # c =>
          Len(sent[c]) = Len(served[c]) + Len(requests[c].reqs)
    /\ requests[c].toggle # toggles[c] /\ srv_cid = c =>
          Len(sent[c]) + Len(resp_message) = Len(served[c]) + Len(requests[c].reqs)
    /\ requests[c].toggle # toggles[c] =>
          \A i \in 1..Len(requests[c].reqs) :
              sent[c][Len(sent[c]) - Len(requests[c].reqs) + i] = requests[c].reqs[i]

\* The inductive invariant.
IndInv ==
    /\ Types
    /\ \A t \in Threads : Control(t) /\ Batch(t) /\ Answer(t)
    /\ Fiber /\ Owners /\ Pool /\ Links /\ Server
    /\ \A c \in Cids : Queue(c)

-----------------------------------------------------------------------------
\* The constructors establish the invariant.
LEMMA InitHolds == Init => IndInv
<1> SUFFICES ASSUME Init PROVE IndInv
  OBVIOUS
<1>1. TIds /\ TBox /\ TServer
  BY DEF Init, TIds, TBox, TServer
<1>2. TControl /\ TClient /\ TMessage /\ TRequest /\ THistory
  BY ChannelAssumption DEF Init, TControl, TClient, TMessage, TRequest, THistory, Controls
<1>3. \A t \in Threads : Control(t) /\ Batch(t)
  BY ChannelAssumption DEF Init, Control, Batch
<1>4. \A t \in Threads : Answer(t)
  BY DEF Init, Answer, Unanswered
<1>5. Fiber /\ Owners /\ Links
  BY ChannelAssumption DEF Init, Fiber, Owners, Links
<1>6. Pool /\ Server
  BY ChannelAssumption DEF Init, Pool, Server, Quiet
<1>7. \A c \in Cids : Queue(c)
  <2> SUFFICES ASSUME NEW c \in Cids PROVE Queue(c)
    OBVIOUS
  <2>1. requests[c].toggle = toggles[c]
    BY DEF Init
  <2>2. served[c] = <<>> /\ sent[c] = <<>>
    BY DEF Init
  <2> QED
    BY <2>1, <2>2 DEF Queue
<1> QED
  BY <1>1, <1>2, <1>3, <1>4, <1>5, <1>6, <1>7 DEF IndInv, Types

-----------------------------------------------------------------------------
\* A PartitionClient takes a quiet id out of the pool with its toggle bit.
LEMMA ConstructKeeps ==
    ASSUME IndInv, NEW t \in Threads, NEW c \in id_pool, Construct(t, c)
    PROVE  IndInv'
<1> USE DEF IndInv, Types
<1>1. UNCHANGED <<client_toggles, requests, responses, toggles, srv_pc, srv_cid,
                  resp_message, async, ret, message, processing, req, resp, count,
                  sent, served>>
  BY DEF Construct, ids, mailbox, server
<1>2. pc[t] = "none" /\ c \in Cids /\ c # None
  BY ChannelAssumption DEF Construct, TIds
<1>3. cid'[t] = c /\ (\A u \in Threads \ {t} : cid'[u] = cid[u])
  BY DEF Construct, TClient
<1>4. toggle'[t] = client_toggles[c] /\ (\A u \in Threads \ {t} : toggle'[u] = toggle[u])
  BY DEF Construct, TClient
<1>5. pc'[t] = "idle" /\ (\A u \in Threads \ {t} : pc'[u] = pc[u])
  BY DEF Construct, Goto, TControl
<1>6. id_pool' = id_pool \ {c}
  BY DEF Construct
<1>7. message[t] = <<>> /\ ~processing[t]
  BY <1>2 DEF Control
<1>8. TBox' /\ TServer' /\ TMessage' /\ TRequest' /\ THistory'
  BY <1>1 DEF TBox, TServer, TMessage, TRequest, THistory
<1>9. /\ Server'
      /\ \A k \in Cids : Queue(k)'
  BY <1>1 DEF Server, Matches, Queue
<1>10. TIds'
  BY <1>6, <1>1 DEF TIds
<1>11. TControl'
  BY <1>1 DEF Construct, Goto, TControl, Controls
<1>12. TClient'
  BY <1>2 DEF Construct, TClient, TIds
<1>13. \A u \in Threads : Control(u)'
  BY <1>1, <1>2, <1>3, <1>5, <1>7, ChannelAssumption DEF Control
<1>14. \A u \in Threads : Batch(u)'
  BY <1>1, <1>2, <1>3, <1>4, <1>5, <1>6, <1>7 DEF Batch
<1>15. \A u \in Threads : Answer(u)'
  <2> SUFFICES ASSUME NEW u \in Threads PROVE Answer(u)'
    OBVIOUS
  <2>1. CASE u = t
    <3>1. resp[t] = None
      BY <1>2 DEF Answer
    <3> QED
      BY <2>1, <3>1, <1>1, <1>7 DEF Answer, Unanswered
  <2>2. CASE u # t
    BY <2>2, <1>1, <1>3, <1>4, <1>5 DEF Answer, Unanswered, Last, Waiting
  <2> QED
    BY <2>1, <2>2
<1>16. Fiber'
  BY <1>1, <1>2, <1>3, <1>4, <1>5, <1>6, <1>7 DEF Fiber
<1>17. Owners'
  <2>1. ASSUME NEW u \in Threads, NEW w \in Threads, cid'[u] = cid'[w], cid'[u] # None
        PROVE  u = w
    BY <2>1, <1>2, <1>3 DEF Owners
  <2>2. \A u \in Threads : cid'[u] \notin id_pool'
    BY <1>3, <1>6 DEF Owners
  <2>3. ASSUME NEW k \in Cids, k \notin id_pool' PROVE \E u \in Threads : cid'[u] = k
    <3>1. CASE k = c
      BY <3>1, <1>3
    <3>2. CASE k # c
      <4>1. PICK u \in Threads : cid[u] = k
        BY <3>2, <2>3, <1>6 DEF Owners
      <4>2. u # t
        BY <4>1, <1>2, ChannelAssumption DEF Control
      <4> QED
        BY <4>1, <4>2, <1>3
    <3> QED
      BY <3>1, <3>2
  <2> QED
    BY <2>1, <2>2, <2>3 DEF Owners
<1>18. Pool'
  BY <1>1, <1>2, <1>3, <1>4, <1>5, <1>6, <1>7 DEF Pool, Quiet
<1>19. Links'
  <2> SUFFICES ASSUME NEW u \in Threads, cid'[u] # None PROVE Link(u, cid[u])'
    BY DEF Links
  <2>1. CASE u = t
    BY <2>1, <1>1, <1>3, <1>4, <1>5, <1>7 DEF Pool, Link, Quiet
  <2>2. CASE u # t
    BY <2>2, <1>1, <1>3, <1>4, <1>5 DEF Links, Link, Quiet, Matches
  <2> QED
    BY <2>1, <2>2
<1> QED
  BY <1>8, <1>9, <1>10, <1>11, <1>12, <1>13, <1>14, <1>15,
     <1>16, <1>17, <1>18, <1>19

\* The destructor starts.
LEMMA CloseKeeps ==
    ASSUME IndInv, NEW t \in Threads, Close(t)
    PROVE  IndInv'
<1> USE DEF IndInv, Types
<1>1. UNCHANGED <<id_pool, client_toggles, requests, responses, toggles, srv_pc,
                  srv_cid, resp_message, async, ret, cid, toggle, message,
                  processing, req, resp, count, sent, served>>
  BY DEF Close, ids, mailbox, server
<1>2. pc[t] = "idle"
  BY DEF Close
<1>3. pc'[t] = "close" /\ (\A u \in Threads \ {t} : pc'[u] = pc[u])
  BY DEF Close, Goto, TControl
<1>4. TIds' /\ TBox' /\ TServer' /\ TClient' /\ TMessage' /\ TRequest' /\ THistory'
  BY <1>1 DEF TIds, TBox, TServer, TClient, TMessage, TRequest, THistory
<1>5. /\ Owners'
      /\ Pool'
      /\ Server'
      /\ \A k \in Cids : Queue(k)'
  BY <1>1 DEF Owners, Pool, Quiet, Server, Matches, Queue
<1>6. TControl'
  BY <1>1 DEF Close, Goto, TControl, Controls
<1>7. \A u \in Threads : Control(u)'
  <2> SUFFICES ASSUME NEW u \in Threads PROVE Control(u)'
    OBVIOUS
  <2>1. CASE u = t
    BY <2>1, <1>1, <1>2, <1>3 DEF Control
  <2>2. CASE u # t
    BY <2>2, <1>1, <1>2, <1>3 DEF Control
  <2> QED
    BY <2>1, <2>2
<1>8. \A u \in Threads : Batch(u)'
  <2> SUFFICES ASSUME NEW u \in Threads PROVE Batch(u)'
    OBVIOUS
  <2>1. CASE u = t
    BY <2>1, <1>1, <1>2, <1>3 DEF Batch
  <2>2. CASE u # t
    BY <2>2, <1>1, <1>2, <1>3 DEF Batch
  <2> QED
    BY <2>1, <2>2
<1>9. \A u \in Threads : Answer(u)'
  <2> SUFFICES ASSUME NEW u \in Threads PROVE Answer(u)'
    OBVIOUS
  <2>1. CASE u = t
    BY <2>1, <1>1, <1>2, <1>3 DEF Answer, Unanswered, Last, Waiting
  <2>2. CASE u # t
    BY <2>2, <1>1, <1>2, <1>3 DEF Answer, Unanswered, Last, Waiting
  <2> QED
    BY <2>1, <2>2
<1>10. Fiber'
  BY <1>1, <1>2, <1>3 DEF Fiber
<1>11. Links'
  <2> SUFFICES ASSUME NEW u \in Threads, cid'[u] # None PROVE Link(u, cid[u])'
    BY DEF Links
  <2>1. CASE u = t
    BY <2>1, <1>1, <1>2, <1>3 DEF Links, Link, Quiet, Matches
  <2>2. CASE u # t
    BY <2>2, <1>1, <1>2, <1>3 DEF Links, Link, Quiet, Matches
  <2> QED
    BY <2>1, <2>2
<1> QED
  BY <1>4, <1>5, <1>6, <1>7, <1>8, <1>9, <1>10, <1>11

\* It submits what is left of the batch.
LEMMA CloseSubmitsKeeps ==
    ASSUME IndInv, NEW t \in Threads, CloseSubmits(t)
    PROVE  IndInv'
<1> USE DEF IndInv, Types
<1>1. UNCHANGED <<id_pool, client_toggles, requests, responses, toggles, srv_pc,
                  srv_cid, resp_message, async, cid, toggle, message, processing,
                  req, resp, count, sent, served>>
  BY DEF CloseSubmits, ids, mailbox, server
<1>2. pc[t] = "close" /\ ~processing[t] /\ message[t] # <<>>
  BY DEF CloseSubmits
<1>3. pc'[t] = "submit" /\ (\A u \in Threads \ {t} : pc'[u] = pc[u])
  BY DEF CloseSubmits, Goto, TControl
<1>4. ret'[t] = "close" /\ (\A u \in Threads \ {t} : ret'[u] = ret[u])
  BY DEF CloseSubmits, TControl
<1>5. TIds' /\ TBox' /\ TServer' /\ TClient' /\ TMessage' /\ TRequest' /\ THistory'
  BY <1>1 DEF TIds, TBox, TServer, TClient, TMessage, TRequest, THistory
<1>6. /\ Owners'
      /\ Pool'
      /\ Server'
      /\ \A k \in Cids : Queue(k)'
  BY <1>1 DEF Owners, Pool, Quiet, Server, Matches, Queue
<1>7. TControl'
  BY <1>1 DEF CloseSubmits, Goto, TControl, Controls
<1>8. \A u \in Threads : Control(u)'
  <2> SUFFICES ASSUME NEW u \in Threads PROVE Control(u)'
    OBVIOUS
  <2>1. CASE u = t
    BY <2>1, <1>1, <1>2, <1>3, <1>4 DEF Control
  <2>2. CASE u # t
    BY <2>2, <1>1, <1>2, <1>3, <1>4 DEF Control
  <2> QED
    BY <2>1, <2>2
<1>9. \A u \in Threads : Batch(u)'
  <2> SUFFICES ASSUME NEW u \in Threads PROVE Batch(u)'
    OBVIOUS
  <2>1. CASE u = t
    BY <2>1, <1>1, <1>2, <1>3, <1>4 DEF Batch
  <2>2. CASE u # t
    BY <2>2, <1>1, <1>2, <1>3, <1>4 DEF Batch
  <2> QED
    BY <2>1, <2>2
<1>10. \A u \in Threads : Answer(u)'
  <2> SUFFICES ASSUME NEW u \in Threads PROVE Answer(u)'
    OBVIOUS
  <2>1. CASE u = t
    BY <2>1, <1>1, <1>2, <1>3, <1>4 DEF Answer, Unanswered, Last, Waiting
  <2>2. CASE u # t
    BY <2>2, <1>1, <1>2, <1>3, <1>4 DEF Answer, Unanswered, Last, Waiting
  <2> QED
    BY <2>1, <2>2
<1>11. Fiber'
  BY <1>1, <1>2, <1>3, <1>4 DEF Fiber
<1>12. Links'
  <2> SUFFICES ASSUME NEW u \in Threads, cid'[u] # None PROVE Link(u, cid[u])'
    BY DEF Links
  <2>1. CASE u = t
    BY <2>1, <1>1, <1>2, <1>3, <1>4 DEF Links, Link, Quiet, Matches
  <2>2. CASE u # t
    BY <2>2, <1>1, <1>2, <1>3, <1>4 DEF Links, Link, Quiet, Matches
  <2> QED
    BY <2>1, <2>2
<1> QED
  BY <1>5, <1>6, <1>7, <1>8, <1>9, <1>10, <1>11, <1>12

\* It polls for the answers of the last batch.
LEMMA PollMessageKeeps ==
    ASSUME IndInv, NEW t \in Threads, PollMessage(t)
    PROVE  IndInv'
<1> USE DEF IndInv, Types
<1>1. UNCHANGED <<id_pool, client_toggles, requests, responses, toggles, srv_pc,
                  srv_cid, resp_message, async, cid, toggle, message, processing,
                  req, resp, count, sent, served>>
  BY DEF PollMessage, ids, mailbox, server
<1>2. pc[t] = "await" /\ resp[t] = None
  BY DEF PollMessage
<1>3. pc'[t] \in {"submit", "poll"} /\ (\A u \in Threads \ {t} : pc'[u] = pc[u])
  BY DEF PollMessage, Goto, TControl
<1>4. /\ pc'[t] = "submit" => ret'[t] = "poll" /\ ~processing[t] /\ message[t] # <<>>
      /\ (\A u \in Threads \ {t} : ret'[u] = ret[u])
  BY DEF PollMessage, Goto, TControl
<1>5. TIds' /\ TBox' /\ TServer' /\ TClient' /\ TMessage' /\ TRequest' /\ THistory'
  BY <1>1 DEF TIds, TBox, TServer, TClient, TMessage, TRequest, THistory
<1>6. /\ Owners'
      /\ Pool'
      /\ Server'
      /\ \A k \in Cids : Queue(k)'
  BY <1>1 DEF Owners, Pool, Quiet, Server, Matches, Queue
<1>7. TControl'
  BY <1>1 DEF PollMessage, Goto, TControl, Controls
<1>8. \A u \in Threads : Control(u)'
  <2> SUFFICES ASSUME NEW u \in Threads PROVE Control(u)'
    OBVIOUS
  <2>1. CASE u = t
    BY <2>1, <1>1, <1>2, <1>3, <1>4 DEF Control
  <2>2. CASE u # t
    BY <2>2, <1>1, <1>2, <1>3, <1>4 DEF Control
  <2> QED
    BY <2>1, <2>2
<1>9. \A u \in Threads : Batch(u)'
  <2> SUFFICES ASSUME NEW u \in Threads PROVE Batch(u)'
    OBVIOUS
  <2>1. CASE u = t
    BY <2>1, <1>1, <1>2, <1>3, <1>4 DEF Batch
  <2>2. CASE u # t
    BY <2>2, <1>1, <1>2, <1>3, <1>4 DEF Batch
  <2> QED
    BY <2>1, <2>2
<1>10. \A u \in Threads : Answer(u)'
  <2> SUFFICES ASSUME NEW u \in Threads PROVE Answer(u)'
    OBVIOUS
  <2>1. CASE u = t
    BY <2>1, <1>1, <1>2, <1>3, <1>4 DEF Answer, Unanswered, Last, Waiting
  <2>2. CASE u # t
    BY <2>2, <1>1, <1>2, <1>3, <1>4 DEF Answer, Unanswered, Last, Waiting
  <2> QED
    BY <2>1, <2>2
<1>11. Fiber'
  BY <1>1, <1>2, <1>3, <1>4 DEF Fiber
<1>12. Links'
  <2> SUFFICES ASSUME NEW u \in Threads, cid'[u] # None PROVE Link(u, cid[u])'
    BY DEF Links
  <2>1. CASE u = t
    BY <2>1, <1>1, <1>2, <1>3, <1>4 DEF Links, Link, Quiet, Matches
  <2>2. CASE u # t
    BY <2>2, <1>1, <1>2, <1>3, <1>4 DEF Links, Link, Quiet, Matches
  <2> QED
    BY <2>1, <2>2
<1> QED
  BY <1>5, <1>6, <1>7, <1>8, <1>9, <1>10, <1>11, <1>12

\* A poll returns to where it was called from.
LEMMA PollReturnsKeeps ==
    ASSUME IndInv, NEW t \in Threads, PollReturns(t)
    PROVE  IndInv'
<1> USE DEF IndInv, Types
<1>1. UNCHANGED <<id_pool, client_toggles, requests, responses, toggles, srv_pc,
                  srv_cid, resp_message, async, ret, cid, toggle, message,
                  processing, req, resp, count, sent, served>>
  BY DEF PollReturns, ids, mailbox, server
<1>2. pc[t] = "poll" /\ ~processing[t]
  BY DEF PollReturns
<1>3. pc'[t] = "await" /\ (\A u \in Threads \ {t} : pc'[u] = pc[u])
  BY DEF PollReturns, Goto, TControl
<1>4. TIds' /\ TBox' /\ TServer' /\ TClient' /\ TMessage' /\ TRequest' /\ THistory'
  BY <1>1 DEF TIds, TBox, TServer, TClient, TMessage, TRequest, THistory
<1>5. /\ Owners'
      /\ Pool'
      /\ Server'
      /\ \A k \in Cids : Queue(k)'
  BY <1>1 DEF Owners, Pool, Quiet, Server, Matches, Queue
<1>6. TControl'
  BY <1>1 DEF PollReturns, Goto, TControl, Controls
<1>7. \A u \in Threads : Control(u)'
  <2> SUFFICES ASSUME NEW u \in Threads PROVE Control(u)'
    OBVIOUS
  <2>1. CASE u = t
    BY <2>1, <1>1, <1>2, <1>3 DEF Control
  <2>2. CASE u # t
    BY <2>2, <1>1, <1>2, <1>3 DEF Control
  <2> QED
    BY <2>1, <2>2
<1>8. \A u \in Threads : Batch(u)'
  <2> SUFFICES ASSUME NEW u \in Threads PROVE Batch(u)'
    OBVIOUS
  <2>1. CASE u = t
    BY <2>1, <1>1, <1>2, <1>3 DEF Batch
  <2>2. CASE u # t
    BY <2>2, <1>1, <1>2, <1>3 DEF Batch
  <2> QED
    BY <2>1, <2>2
<1>9. \A u \in Threads : Answer(u)'
  <2> SUFFICES ASSUME NEW u \in Threads PROVE Answer(u)'
    OBVIOUS
  <2>1. CASE u = t
    BY <2>1, <1>1, <1>2, <1>3 DEF Answer, Unanswered, Last, Waiting
  <2>2. CASE u # t
    BY <2>2, <1>1, <1>2, <1>3 DEF Answer, Unanswered, Last, Waiting
  <2> QED
    BY <2>1, <2>2
<1>10. Fiber'
  BY <1>1, <1>2, <1>3 DEF Fiber
<1>11. Links'
  <2> SUFFICES ASSUME NEW u \in Threads, cid'[u] # None PROVE Link(u, cid[u])'
    BY DEF Links
  <2>1. CASE u = t
    BY <2>1, <1>1, <1>2, <1>3 DEF Links, Link, Quiet, Matches
  <2>2. CASE u # t
    BY <2>2, <1>1, <1>2, <1>3 DEF Links, Link, Quiet, Matches
  <2> QED
    BY <2>1, <2>2
<1> QED
  BY <1>4, <1>5, <1>6, <1>7, <1>8, <1>9, <1>10, <1>11

\* The id goes back to the pool, quiet, with its toggle bit.
LEMMA DestroyKeeps ==
    ASSUME IndInv, NEW t \in Threads, Destroy(t)
    PROVE  IndInv'
<1> USE DEF IndInv, Types
<1>1. UNCHANGED <<requests, responses, toggles, srv_pc, srv_cid, resp_message, async,
                  ret, toggle, message, processing, req, resp, count, sent, served>>
  BY DEF Destroy, ids, mailbox, server
<1>2. pc[t] = "close" /\ ~processing[t] /\ message[t] = <<>>
  BY DEF Destroy
<1>3. pc'[t] = "none" /\ (\A u \in Threads \ {t} : pc'[u] = pc[u])
  BY DEF Destroy, Goto, TControl
<1>4. cid'[t] = None /\ (\A u \in Threads \ {t} : cid'[u] = cid[u])
  BY DEF Destroy, TClient
<1>5. cid[t] \in Cids
  BY <1>2 DEF Control, TClient
<1>6. id_pool' = id_pool \cup {cid[t]}
  BY DEF Destroy
<1>7. /\ client_toggles'[cid[t]] = toggle[t]
      /\ \A k \in Cids \ {cid[t]} : client_toggles'[k] = client_toggles[k]
  BY <1>5 DEF Destroy, SaveToggle, TIds
<1>8. TBox' /\ TServer' /\ TMessage' /\ TRequest' /\ THistory'
  BY <1>1 DEF TBox, TServer, TMessage, TRequest, THistory
<1>9. /\ Server'
      /\ \A k \in Cids : Queue(k)'
  BY <1>1 DEF Server, Matches, Queue
<1>10. TIds'
  BY <1>5, <1>6 DEF Destroy, SaveToggle, TIds, TClient
<1>11. TControl'
  BY <1>1 DEF Destroy, Goto, TControl, Controls
<1>12. TClient'
  BY <1>1 DEF Destroy, TClient
<1>13. \A u \in Threads : Control(u)'
  <2> SUFFICES ASSUME NEW u \in Threads PROVE Control(u)'
    OBVIOUS
  <2>1. CASE u = t
    BY <2>1, <1>1, <1>2, <1>3, <1>4, <1>5 DEF Control
  <2>2. CASE u # t
    BY <2>2, <1>1, <1>2, <1>3, <1>4, <1>5 DEF Control
  <2> QED
    BY <2>1, <2>2
<1>14. \A u \in Threads : Batch(u)'
  <2> SUFFICES ASSUME NEW u \in Threads PROVE Batch(u)'
    OBVIOUS
  <2>1. CASE u = t
    BY <2>1, <1>1, <1>2, <1>3, <1>4, <1>5 DEF Batch
  <2>2. CASE u # t
    BY <2>2, <1>1, <1>2, <1>3, <1>4, <1>5 DEF Batch
  <2> QED
    BY <2>1, <2>2
<1>15. \A u \in Threads : Answer(u)'
  <2> SUFFICES ASSUME NEW u \in Threads PROVE Answer(u)'
    OBVIOUS
  <2>1. CASE u = t
    BY <2>1, <1>1, <1>2, <1>3, <1>4, <1>5 DEF Answer, Unanswered, Last, Waiting
  <2>2. CASE u # t
    BY <2>2, <1>1, <1>2, <1>3, <1>4, <1>5 DEF Answer, Unanswered, Last, Waiting
  <2> QED
    BY <2>1, <2>2
<1>16. Fiber'
  BY <1>1, <1>2, <1>3 DEF Fiber
<1>17. Owners'
  <2>1. ASSUME NEW u \in Threads, NEW w \in Threads, cid'[u] = cid'[w], cid'[u] # None
        PROVE  u = w
    BY <2>1, <1>4 DEF Owners
  <2>2. \A u \in Threads : cid'[u] \notin id_pool'
    BY <1>4, <1>5, <1>6, ChannelAssumption DEF Owners, TIds
  <2>3. ASSUME NEW k \in Cids, k \notin id_pool' PROVE \E u \in Threads : cid'[u] = k
    <3>1. PICK u \in Threads : cid[u] = k
      BY <2>3, <1>6 DEF Owners
    <3> QED
      BY <3>1, <2>3, <1>4, <1>6
  <2> QED
    BY <2>1, <2>2, <2>3 DEF Owners
<1>18. Pool'
  <2> SUFFICES ASSUME NEW k \in id_pool' PROVE Quiet(k)' /\ client_toggles'[k] = toggles'[k]
    BY DEF Pool
  <2>1. CASE k = cid[t]
    <3>1. Quiet(k) /\ toggle[t] = toggles[k]
      BY <2>1, <1>2, <1>5, ChannelAssumption DEF Links, Link
    <3> QED
      BY <3>1, <2>1, <1>1, <1>7 DEF Quiet
  <2>2. CASE k # cid[t]
    <3>1. k \in id_pool /\ k \in Cids
      BY <2>2, <1>6 DEF TIds
    <3> QED
      BY <3>1, <2>2, <1>1, <1>7 DEF Pool, Quiet
  <2> QED
    BY <2>1, <2>2
<1>19. Links'
  <2> SUFFICES ASSUME NEW u \in Threads, cid'[u] # None PROVE Link(u, cid[u])'
    BY DEF Links
  <2>1. CASE u = t
    BY <2>1, <1>1, <1>2, <1>3, <1>4, <1>5 DEF Links, Link, Quiet, Matches
  <2>2. CASE u # t
    BY <2>2, <1>1, <1>2, <1>3, <1>4, <1>5 DEF Links, Link, Quiet, Matches
  <2> QED
    BY <2>1, <2>2
<1> QED
  BY <1>8, <1>9, <1>10, <1>11, <1>12, <1>13, <1>14, <1>15,
     <1>16, <1>17, <1>18, <1>19

\* request() begins: the thread has no answer and its batch no Pin.
LEMMA CallKeeps ==
    ASSUME IndInv, NEW t \in Threads, NEW type \in {"Pin", "Notify"}, Call(t, type)
    PROVE  IndInv'
<1> USE DEF IndInv, Types
<1>1. UNCHANGED <<id_pool, client_toggles, requests, responses, toggles, srv_pc,
                  srv_cid, resp_message, async, ret, cid, toggle, message,
                  processing, resp, sent, served>>
  BY DEF Call, NewRequest, ids, mailbox, server
<1>2. pc[t] = "idle"
  BY DEF Call
<1>3. pc'[t] = "request" /\ (\A u \in Threads \ {t} : pc'[u] = pc[u])
  BY DEF Call, Goto, TControl
<1>4. /\ req'[t] = [from |-> t, num |-> count + 1, type |-> type]
      /\ (\A u \in Threads \ {t} : req'[u] = req[u])
  BY DEF Call, NewRequest, TRequest
<1>5. count' \in 0..MaxRequests /\ count + 1 \in 1..MaxRequests
  BY ChannelAssumption DEF Call, NewRequest, TRequest
<1>6. req'[t] \in Request /\ req'[t].from = t
  BY <1>4, <1>5 DEF Request
<1>7. TIds' /\ TBox' /\ TServer' /\ TClient' /\ TMessage' /\ THistory'
  BY <1>1 DEF TIds, TBox, TServer, TClient, TMessage, THistory
<1>8. /\ Owners'
      /\ Pool'
      /\ Server'
      /\ \A k \in Cids : Queue(k)'
  BY <1>1 DEF Owners, Pool, Quiet, Server, Matches, Queue
<1>9. TControl'
  BY <1>1 DEF Call, Goto, TControl, Controls
<1>10. TRequest'
  BY <1>5, <1>1, <1>4, <1>6 DEF Call, NewRequest, TRequest
<1>11. \A u \in Threads : Control(u)'
  <2> SUFFICES ASSUME NEW u \in Threads PROVE Control(u)'
    OBVIOUS
  <2>1. CASE u = t
    BY <2>1, <1>1, <1>2, <1>3 DEF Control
  <2>2. CASE u # t
    BY <2>2, <1>1, <1>3 DEF Control
  <2> QED
    BY <2>1, <2>2
<1>12. \A u \in Threads : Batch(u)'
  <2> SUFFICES ASSUME NEW u \in Threads PROVE Batch(u)'
    OBVIOUS
  <2>1. CASE u = t
    BY <2>1, <1>1, <1>3, <1>6 DEF Batch
  <2>2. CASE u # t
    BY <2>2, <1>1, <1>3, <1>4 DEF Batch
  <2> QED
    BY <2>1, <2>2
<1>13. \A u \in Threads : Answer(u)'
  <2> SUFFICES ASSUME NEW u \in Threads PROVE Answer(u)'
    OBVIOUS
  <2>1. CASE u = t
    BY <2>1, <1>1, <1>2, <1>3 DEF Answer, Unanswered, Last, Waiting
  <2>2. CASE u # t
    BY <2>2, <1>1, <1>3, <1>4 DEF Answer, Unanswered, Last, Waiting
  <2> QED
    BY <2>1, <2>2
<1>14. Fiber'
  BY <1>1, <1>2, <1>3, <1>4 DEF Fiber
<1>15. Links'
  <2> SUFFICES ASSUME NEW u \in Threads, cid'[u] # None PROVE Link(u, cid[u])'
    BY DEF Links
  <2>1. CASE u = t
    BY <2>1, <1>1, <1>2, <1>3 DEF Links, Link, Quiet, Matches
  <2>2. CASE u # t
    BY <2>2, <1>1, <1>3 DEF Links, Link, Quiet, Matches
  <2> QED
    BY <2>1, <2>2
<1> QED
  BY <1>7, <1>8, <1>9, <1>10, <1>11, <1>12, <1>13, <1>14,
     <1>15

\* A Pin returns with its answer, and the thread forgets it.
LEMMA PinReturnsKeeps ==
    ASSUME IndInv, NEW t \in Threads, PinReturns(t)
    PROVE  IndInv'
<1> USE DEF IndInv, Types
<1>1. UNCHANGED <<id_pool, client_toggles, requests, responses, toggles, srv_pc,
                  srv_cid, resp_message, async, ret, cid, toggle, message,
                  processing, count, sent, served>>
  BY DEF PinReturns, ids, mailbox, server
<1>2. pc[t] = "await" /\ resp[t] # None
  BY DEF PinReturns
<1>3. pc'[t] = "idle" /\ (\A u \in Threads \ {t} : pc'[u] = pc[u])
  BY DEF PinReturns, Goto, TControl
<1>4. (\A u \in Threads \ {t} : req'[u] = req[u])
  BY DEF PinReturns, TRequest
<1>5. resp'[t] = None /\ (\A u \in Threads \ {t} : resp'[u] = resp[u])
  BY DEF PinReturns, TRequest
<1>6. TIds' /\ TBox' /\ TServer' /\ TClient' /\ TMessage' /\ THistory'
  BY <1>1 DEF TIds, TBox, TServer, TClient, TMessage, THistory
<1>7. /\ Owners'
      /\ Pool'
      /\ Server'
      /\ \A k \in Cids : Queue(k)'
  BY <1>1 DEF Owners, Pool, Quiet, Server, Matches, Queue
<1>8. TControl'
  BY <1>1 DEF PinReturns, Goto, TControl, Controls
<1>9. TRequest'
  BY <1>1 DEF PinReturns, TRequest
<1>10. \A u \in Threads : Control(u)'
  <2> SUFFICES ASSUME NEW u \in Threads PROVE Control(u)'
    OBVIOUS
  <2>1. CASE u = t
    BY <2>1, <1>1, <1>2, <1>3 DEF Control
  <2>2. CASE u # t
    BY <2>2, <1>1, <1>3 DEF Control
  <2> QED
    BY <2>1, <2>2
<1>11. \A u \in Threads : Batch(u)'
  <2> SUFFICES ASSUME NEW u \in Threads PROVE Batch(u)'
    OBVIOUS
  <2>1. CASE u = t
    BY <2>1, <1>1, <1>3 DEF Batch
  <2>2. CASE u # t
    BY <2>2, <1>1, <1>3, <1>4 DEF Batch
  <2> QED
    BY <2>1, <2>2
<1>12. \A u \in Threads : Answer(u)'
  <2> SUFFICES ASSUME NEW u \in Threads PROVE Answer(u)'
    OBVIOUS
  <2>1. CASE u = t
    BY <2>1, <1>1, <1>2, <1>3, <1>5 DEF Answer, Unanswered, Last, Waiting
  <2>2. CASE u # t
    BY <2>2, <1>1, <1>3, <1>4, <1>5 DEF Answer, Unanswered, Last, Waiting
  <2> QED
    BY <2>1, <2>2
<1>13. Fiber'
  BY <1>1, <1>2, <1>3, <1>4, <1>5 DEF Fiber
<1>14. Links'
  <2> SUFFICES ASSUME NEW u \in Threads, cid'[u] # None PROVE Link(u, cid[u])'
    BY DEF Links
  <2>1. CASE u = t
    BY <2>1, <1>1, <1>2, <1>3 DEF Links, Link, Quiet, Matches
  <2>2. CASE u # t
    BY <2>2, <1>1, <1>3 DEF Links, Link, Quiet, Matches
  <2> QED
    BY <2>1, <2>2
<1> QED
  BY <1>6, <1>7, <1>8, <1>9, <1>10, <1>11, <1>12, <1>13,
     <1>14

\* A Pin that was answered with null is asked again.
LEMMA PinAgainKeeps ==
    ASSUME IndInv, NEW t \in Threads, PinAgain(t)
    PROVE  IndInv'
<1> USE DEF IndInv, Types
<1>1. UNCHANGED <<id_pool, client_toggles, requests, responses, toggles, srv_pc,
                  srv_cid, resp_message, async, ret, cid, toggle, message,
                  processing, sent, served>>
  BY DEF PinAgain, NewRequest, ids, mailbox, server
<1>2. pc[t] = "await" /\ resp[t] # None
  BY DEF PinAgain
<1>3. pc'[t] = "request" /\ (\A u \in Threads \ {t} : pc'[u] = pc[u])
  BY DEF PinAgain, Goto, TControl
<1>4. /\ req'[t] = [from |-> t, num |-> count + 1, type |-> "Pin"]
      /\ (\A u \in Threads \ {t} : req'[u] = req[u])
  BY DEF PinAgain, NewRequest, TRequest
<1>5. resp'[t] = None /\ (\A u \in Threads \ {t} : resp'[u] = resp[u])
  BY DEF PinAgain, TRequest
<1>6. count' \in 0..MaxRequests /\ count + 1 \in 1..MaxRequests
  BY ChannelAssumption DEF PinAgain, NewRequest, TRequest
<1>7. req'[t] \in Request /\ req'[t].from = t
  BY <1>4, <1>6 DEF Request
<1>8. TIds' /\ TBox' /\ TServer' /\ TClient' /\ TMessage' /\ THistory'
  BY <1>1 DEF TIds, TBox, TServer, TClient, TMessage, THistory
<1>9. /\ Owners'
      /\ Pool'
      /\ Server'
      /\ \A k \in Cids : Queue(k)'
  BY <1>1 DEF Owners, Pool, Quiet, Server, Matches, Queue
<1>10. TControl'
  BY <1>1 DEF PinAgain, Goto, TControl, Controls
<1>11. TRequest'
  BY <1>6, <1>1, <1>4, <1>7 DEF PinAgain, NewRequest, TRequest
<1>12. \A u \in Threads : Control(u)'
  <2> SUFFICES ASSUME NEW u \in Threads PROVE Control(u)'
    OBVIOUS
  <2>1. CASE u = t
    BY <2>1, <1>1, <1>2, <1>3 DEF Control
  <2>2. CASE u # t
    BY <2>2, <1>1, <1>3 DEF Control
  <2> QED
    BY <2>1, <2>2
<1>13. \A u \in Threads : Batch(u)'
  <2> SUFFICES ASSUME NEW u \in Threads PROVE Batch(u)'
    OBVIOUS
  <2>1. CASE u = t
    BY <2>1, <1>1, <1>3, <1>7 DEF Batch
  <2>2. CASE u # t
    BY <2>2, <1>1, <1>3, <1>4 DEF Batch
  <2> QED
    BY <2>1, <2>2
<1>14. \A u \in Threads : Answer(u)'
  <2> SUFFICES ASSUME NEW u \in Threads PROVE Answer(u)'
    OBVIOUS
  <2>1. CASE u = t
    BY <2>1, <1>1, <1>2, <1>3, <1>5 DEF Answer, Unanswered, Last, Waiting
  <2>2. CASE u # t
    BY <2>2, <1>1, <1>3, <1>4, <1>5 DEF Answer, Unanswered, Last, Waiting
  <2> QED
    BY <2>1, <2>2
<1>15. Fiber'
  BY <1>1, <1>2, <1>3, <1>4, <1>5 DEF Fiber
<1>16. Links'
  <2> SUFFICES ASSUME NEW u \in Threads, cid'[u] # None PROVE Link(u, cid[u])'
    BY DEF Links
  <2>1. CASE u = t
    BY <2>1, <1>1, <1>2, <1>3 DEF Links, Link, Quiet, Matches
  <2>2. CASE u # t
    BY <2>2, <1>1, <1>3 DEF Links, Link, Quiet, Matches
  <2> QED
    BY <2>1, <2>2
<1> QED
  BY <1>8, <1>9, <1>10, <1>11, <1>12, <1>13, <1>14, <1>15,
     <1>16

\* The request joins the batch; a Pin or a full batch leads to the submit.
LEMMA JoinKeeps ==
    ASSUME IndInv, NEW t \in Threads, Join(t)
    PROVE  IndInv'
<1> USE DEF IndInv, Types
<1>1. UNCHANGED <<id_pool, client_toggles, requests, responses, toggles, srv_pc,
                  srv_cid, resp_message, async, cid, toggle, processing, resp, count,
                  sent, served>>
  BY DEF Join, Goto, ids, mailbox, server
<1>2. pc[t] = "request" /\ ~processing[t]
  BY DEF Join
<1>3. req[t] \in Request /\ req[t].from = t /\ resp[t] = None
  BY <1>2 DEF Batch, Answer
<1>4. /\ message'[t] = Append(message[t], req[t])
      /\ (\A u \in Threads \ {t} : message'[u] = message[u])
  BY DEF Join, TMessage
<1>5. /\ Len(message'[t]) = Len(message[t]) + 1 /\ message'[t] # <<>>
      /\ message'[t][Len(message'[t])] = req[t]
      /\ \A i \in 1..Len(message[t]) : message'[t][i] = message[t][i]
      /\ Len(message[t]) \in Nat
  <2>1. PICK m \in Seq(Request) : m = message[t]
    BY DEF TMessage
  <2>2. message'[t] = Append(m, req[t])
    BY <2>1, <1>4
  <2>3. /\ Len(m) \in Nat /\ Len(Append(m, req[t])) = Len(m) + 1
        /\ Append(m, req[t])[Len(m) + 1] = req[t]
        /\ \A i \in 1..Len(m) : Append(m, req[t])[i] = m[i]
    BY <1>3
  <2>4. Append(m, req[t]) # <<>>
    BY <2>3
  <2> QED
    BY <2>1, <2>2, <2>3, <2>4
<1>6. /\ pc'[t] \in {"submit", "await", "idle"}
      /\ pc'[t] = "submit" => ret'[t] \in {"await", "idle"}
      /\ pc'[t] # "submit" => Len(message'[t]) # MaxComms
      /\ req[t].type = "Pin" =>
            /\ pc'[t] = "await" \/ (pc'[t] = "submit" /\ ret'[t] = "await")
            /\ req'[t] = req[t]
  BY <1>4 DEF Join, BatchFull, Goto, TControl, TRequest
<1>7. \A u \in Threads \ {t} : pc'[u] = pc[u] /\ ret'[u] = ret[u] /\ req'[u] = req[u]
  BY DEF Join, Goto, TControl, TRequest
<1>8. \A i \in 1..Len(message[t]) : message[t][i].from = t /\ message[t][i].type # "Pin"
  <2> SUFFICES ASSUME NEW i \in 1..Len(message[t]), message[t][i].type = "Pin" PROVE FALSE
    BY DEF Batch
  <2>1. i = Len(message[t]) /\ message[t] # <<>>
    BY DEF Batch, TMessage
  <2>2. Unanswered(t)
    BY <2>1, <1>2 DEF Unanswered, Last
  <2> QED
    BY <2>2, <1>2 DEF Answer, Waiting
<1>9. req[t] \notin async
  BY <1>2, <1>3 DEF Fiber
<1>10. TIds' /\ TBox' /\ TServer' /\ TClient' /\ THistory'
  BY <1>1 DEF TIds, TBox, TServer, TClient, THistory
<1>11. /\ Owners'
       /\ Pool'
       /\ Server'
       /\ \A k \in Cids : Queue(k)'
  BY <1>1 DEF Owners, Pool, Quiet, Server, Matches, Queue
<1>12. TControl'
  BY <1>1 DEF Join, Goto, TControl, Controls
<1>13. TMessage'
  <2>1. Append(message[t], req[t]) \in Seq(Request)
    BY <1>3 DEF TMessage
  <2> QED
    BY <2>1, <1>1 DEF Join, TMessage
<1>14. TRequest'
  BY <1>1 DEF Join, TRequest
<1>15. \A u \in Threads : Control(u)'
  <2> SUFFICES ASSUME NEW u \in Threads PROVE Control(u)'
    OBVIOUS
  <2>1. CASE u = t
    BY <2>1, <1>1, <1>2, <1>5, <1>6, ChannelAssumption DEF Control
  <2>2. CASE u # t
    BY <2>2, <1>1, <1>4, <1>7 DEF Control
  <2> QED
    BY <2>1, <2>2
<1>16. \A u \in Threads : Batch(u)'
  <2> SUFFICES ASSUME NEW u \in Threads PROVE Batch(u)'
    OBVIOUS
  <2>1. CASE u = t
    BY <2>1, <1>3, <1>5, <1>6, <1>8 DEF Batch
  <2>2. CASE u # t
    BY <2>2, <1>1, <1>4, <1>7 DEF Batch
  <2> QED
    BY <2>1, <2>2
<1>17. \A u \in Threads : Answer(u)'
  <2> SUFFICES ASSUME NEW u \in Threads PROVE Answer(u)'
    OBVIOUS
  <2>1. CASE u = t
    BY <2>1, <1>1, <1>3, <1>5, <1>6, <1>9 DEF Answer, Unanswered, Last, Waiting
  <2>2. CASE u # t
    BY <2>2, <1>1, <1>4, <1>7 DEF Answer, Unanswered, Last, Waiting
  <2> QED
    BY <2>1, <2>2
<1>18. Fiber'
  BY <1>1, <1>2, <1>4, <1>7 DEF Fiber
<1>19. Links'
  <2> SUFFICES ASSUME NEW u \in Threads, cid'[u] # None PROVE Link(u, cid[u])'
    BY DEF Links
  <2>1. CASE u = t
    BY <2>1, <1>1, <1>2, <1>6 DEF Links, Link, Quiet, Matches
  <2>2. CASE u # t
    BY <2>2, <1>1, <1>4, <1>7 DEF Links, Link, Quiet, Matches
  <2> QED
    BY <2>1, <2>2
<1> QED
  BY <1>10, <1>11, <1>12, <1>13, <1>14, <1>15, <1>16,
     <1>17, <1>18, <1>19

\* The body is copied while the header still says that there is nothing new.
LEMMA SubmitBodyKeeps ==
    ASSUME IndInv, NEW t \in Threads, SubmitBody(t)
    PROVE  IndInv'
<1> USE DEF IndInv, Types
<1>1. UNCHANGED <<id_pool, client_toggles, responses, toggles, srv_pc, srv_cid,
                  resp_message, async, ret, cid, message, processing, req, resp,
                  count, sent, served>>
  BY DEF SubmitBody, Goto, ids, mailbox, server
<1>2. pc[t] = "submit" /\ ~processing[t] /\ message[t] \in Seq(Request)
  BY DEF SubmitBody, Control, TMessage
<1>3. cid[t] \in Cids /\ cid[t] # None
  BY <1>2, ChannelAssumption DEF Control, TClient
<1>4. \A u \in Threads \ {t} : cid[u] # cid[t]
  BY <1>3 DEF Owners
<1>5. pc'[t] = "header" /\ (\A u \in Threads \ {t} : pc'[u] = pc[u])
  BY DEF SubmitBody, Goto, TControl
<1>6. (\A u \in Threads \ {t} : toggle'[u] = toggle[u])
  BY DEF SubmitBody, TClient
<1>7. /\ requests'[cid[t]].reqs = message[t]
      /\ requests'[cid[t]].toggle = requests[cid[t]].toggle
      /\ \A k \in Cids \ {cid[t]} : requests'[k] = requests[k]
  BY <1>3 DEF SubmitBody, TBox
<1>8. Quiet(cid[t]) /\ toggle[t] = toggles[cid[t]]
  BY <1>2, <1>3 DEF Links, Link
<1>9. toggle'[t] # toggles[cid[t]]
  BY <1>8 DEF SubmitBody, TClient
<1>10. TIds' /\ TServer' /\ TMessage' /\ TRequest' /\ THistory'
  BY <1>1 DEF TIds, TServer, TMessage, TRequest, THistory
<1>11. /\ Owners'
  BY <1>1 DEF Owners
<1>12. TBox'
  BY <1>1, <1>2, <1>3 DEF SubmitBody, TBox
<1>13. TControl'
  BY <1>1 DEF SubmitBody, Goto, TControl, Controls
<1>14. TClient'
  BY <1>1 DEF SubmitBody, TClient
<1>15. \A u \in Threads : Control(u)'
  <2> SUFFICES ASSUME NEW u \in Threads PROVE Control(u)'
    OBVIOUS
  <2>1. CASE u = t
    BY <2>1, <1>1, <1>2, <1>5 DEF Control
  <2>2. CASE u # t
    BY <2>2, <1>1, <1>5 DEF Control
  <2> QED
    BY <2>1, <2>2
<1>16. \A u \in Threads : Batch(u)'
  <2> SUFFICES ASSUME NEW u \in Threads PROVE Batch(u)'
    OBVIOUS
  <2>1. CASE u = t
    BY <2>1, <1>1, <1>5 DEF Batch
  <2>2. CASE u # t
    BY <2>2, <1>1, <1>5 DEF Batch
  <2> QED
    BY <2>1, <2>2
<1>17. \A u \in Threads : Answer(u)'
  <2> SUFFICES ASSUME NEW u \in Threads PROVE Answer(u)'
    OBVIOUS
  <2>1. CASE u = t
    BY <2>1, <1>1, <1>2, <1>5 DEF Answer, Unanswered, Last, Waiting
  <2>2. CASE u # t
    BY <2>2, <1>1, <1>5, <1>6 DEF Answer, Unanswered, Last, Waiting
  <2> QED
    BY <2>1, <2>2
<1>18. Fiber'
  BY <1>1, <1>2, <1>5 DEF Fiber
<1>19. Pool'
  BY <1>1, <1>3, <1>7 DEF Pool, Quiet, Owners, TIds
<1>20. Links'
  <2> SUFFICES ASSUME NEW u \in Threads, cid'[u] # None PROVE Link(u, cid[u])'
    BY DEF Links
  <2>1. CASE u = t
    BY <2>1, <1>1, <1>2, <1>5, <1>7, <1>8, <1>9 DEF Link, Quiet
  <2>2. CASE u # t
    <3>1. requests'[cid[u]] = requests[cid[u]]
      BY <2>2, <1>1, <1>4, <1>7 DEF TClient
    <3> QED
      BY <3>1, <2>2, <1>1, <1>5, <1>6 DEF Links, Link, Quiet, Matches
  <2> QED
    BY <2>1, <2>2
<1>21. Server'
  <2>1. srv_cid # None => requests'[srv_cid] = requests[srv_cid]
    BY <1>7, <1>8 DEF Quiet, TServer
  <2>2. srv_pc = "respond" => srv_cid # None
    BY DEF Server
  <2> QED
    BY <2>1, <2>2, <1>1 DEF Server, Matches
<1>22. \A k \in Cids : Queue(k)'
  <2> SUFFICES ASSUME NEW k \in Cids PROVE Queue(k)'
    OBVIOUS
  <2>1. CASE k = cid[t]
    BY <2>1, <1>1, <1>7, <1>8 DEF Queue, Quiet
  <2>2. CASE k # cid[t]
    BY <2>2, <1>1, <1>7 DEF Queue
  <2> QED
    BY <2>1, <2>2
<1> QED
  BY <1>10, <1>11, <1>12, <1>13, <1>14, <1>15, <1>16, <1>17,
     <1>18, <1>19, <1>20, <1>21, <1>22

\* The header makes the batch visible: everything in it becomes owed by the server.
LEMMA SubmitHeaderKeeps ==
    ASSUME IndInv, NEW t \in Threads, SubmitHeader(t)
    PROVE  IndInv'
<1> USE DEF IndInv, Types
<1>1. UNCHANGED <<id_pool, client_toggles, responses, toggles, srv_pc, srv_cid,
                  resp_message, async, ret, cid, toggle, message, req, resp, count,
                  served>>
  BY DEF SubmitHeader, Goto, ids, mailbox, server
<1>2. pc[t] = "header" /\ ~processing[t] /\ message[t] # <<>>
  BY DEF SubmitHeader, Control
<1>3. cid[t] \in Cids /\ cid[t] # None
  BY <1>2, ChannelAssumption DEF Control, TClient
<1>4. \A u \in Threads \ {t} : cid[u] # cid[t]
  BY <1>3 DEF Owners
<1>5. /\ pc'[t] = ret[t] /\ ret[t] \in {"idle", "await", "poll", "close"}
      /\ (\A u \in Threads \ {t} : pc'[u] = pc[u])
  BY <1>2 DEF SubmitHeader, Goto, TControl, Control
<1>6. processing'[t] /\ (\A u \in Threads \ {t} : processing'[u] = processing[u])
  BY DEF SubmitHeader, TMessage
<1>7. /\ requests'[cid[t]].reqs = requests[cid[t]].reqs
      /\ requests'[cid[t]].toggle = toggle[t]
      /\ \A k \in Cids \ {cid[t]} : requests'[k] = requests[k]
  BY <1>3 DEF SubmitHeader, TBox
<1>8. /\ Quiet(cid[t]) /\ toggle[t] # toggles[cid[t]]
      /\ requests[cid[t]].reqs = message[t]
  BY <1>2, <1>3 DEF Links, Link
<1>9. /\ sent'[cid[t]] = sent[cid[t]] \o message[t]
      /\ \A k \in Cids \ {cid[t]} : sent'[k] = sent[k]
  BY <1>3 DEF SubmitHeader, THistory
<1>10. TIds' /\ TServer' /\ TClient' /\ TRequest'
  BY <1>1 DEF TIds, TServer, TClient, TRequest
<1>11. /\ Owners'
  BY <1>1 DEF Owners
<1>12. TBox'
  BY <1>1, <1>3 DEF SubmitHeader, TBox, TClient
<1>13. TControl'
  BY <1>1 DEF SubmitHeader, Goto, TControl, Controls
<1>14. TMessage'
  BY <1>1 DEF SubmitHeader, TMessage
<1>15. THistory'
  <2>1. sent[cid[t]] \o message[t] \in Seq(Request)
    BY <1>3 DEF THistory, TMessage
  <2> QED
    BY <2>1, <1>1, <1>3 DEF SubmitHeader, THistory
<1>16. \A u \in Threads : Control(u)'
  <2> SUFFICES ASSUME NEW u \in Threads PROVE Control(u)'
    OBVIOUS
  <2>1. CASE u = t
    BY <2>1, <1>1, <1>2, <1>3, <1>5, <1>6 DEF Control
  <2>2. CASE u # t
    BY <2>2, <1>1, <1>5, <1>6 DEF Control
  <2> QED
    BY <2>1, <2>2
<1>17. \A u \in Threads : Batch(u)'
  <2> SUFFICES ASSUME NEW u \in Threads PROVE Batch(u)'
    OBVIOUS
  <2>1. CASE u = t
    BY <2>1, <1>1, <1>5 DEF Batch
  <2>2. CASE u # t
    BY <2>2, <1>1, <1>5 DEF Batch
  <2> QED
    BY <2>1, <2>2
<1>18. \A u \in Threads : Answer(u)'
  <2> SUFFICES ASSUME NEW u \in Threads PROVE Answer(u)'
    OBVIOUS
  <2>1. CASE u = t
    BY <2>1, <1>1, <1>2, <1>5 DEF Answer, Unanswered, Last, Waiting
  <2>2. CASE u # t
    BY <2>2, <1>1, <1>5, <1>6 DEF Answer, Unanswered, Last, Waiting
  <2> QED
    BY <2>1, <2>2
<1>19. Fiber'
  BY <1>1, <1>2, <1>5, <1>6 DEF Fiber
<1>20. Pool'
  BY <1>1, <1>3, <1>7 DEF Pool, Quiet, Owners, TIds
<1>21. Links'
  <2> SUFFICES ASSUME NEW u \in Threads, cid'[u] # None PROVE Link(u, cid[u])'
    BY DEF Links
  <2>1. CASE u = t
    BY <2>1, <1>1, <1>5, <1>6, <1>7, <1>8 DEF Link, Quiet
  <2>2. CASE u # t
    <3>1. requests'[cid[u]] = requests[cid[u]]
      BY <2>2, <1>1, <1>4, <1>7 DEF TClient
    <3> QED
      BY <3>1, <2>2, <1>1, <1>5, <1>6 DEF Links, Link, Quiet, Matches
  <2> QED
    BY <2>1, <2>2
<1>22. Server'
  <2>1. srv_cid # None => requests'[srv_cid] = requests[srv_cid]
    BY <1>7, <1>8 DEF Quiet, TServer
  <2>2. srv_pc = "respond" => srv_cid # None
    BY DEF Server
  <2> QED
    BY <2>1, <2>2, <1>1 DEF Server, Matches
<1>23. \A k \in Cids : Queue(k)'
  <2> SUFFICES ASSUME NEW k \in Cids PROVE Queue(k)'
    OBVIOUS
  <2>1. CASE k = cid[t]
    <3>1. PICK s \in Seq(Request) : s = sent[k]
      BY DEF THistory
    <3>2. PICK m \in Seq(Request) : m = message[t]
      BY DEF TMessage
    <3>3. sent'[k] = s \o m /\ requests'[k].reqs = m /\ srv_cid' # k
      BY <3>1, <3>2, <2>1, <1>1, <1>7, <1>8, <1>9 DEF Quiet
    <3>4. /\ Len(served[k]) = Len(s) /\ (\A i \in 1..Len(served[k]) : served[k][i] = s[i])
          /\ served'[k] = served[k]
      BY <3>1, <2>1, <1>1, <1>8 DEF Queue, Quiet
    <3>5. /\ Len(s \o m) = Len(s) + Len(m) /\ Len(s) \in Nat /\ Len(m) \in Nat
          /\ \A i \in 1..Len(s) : (s \o m)[i] = s[i]
          /\ \A i \in 1..Len(m) : (s \o m)[Len(s) + i] = m[i]
      OBVIOUS
    <3>6. Len(s \o m) - Len(m) = Len(s)
      BY <3>5
    <3>7. requests'[k].toggle # toggles'[k]
      BY <2>1, <1>1, <1>7, <1>8
    <3>8. \A i \in 1..Len(served'[k]) : served'[k][i] = sent'[k][i]
      BY <3>3, <3>4, <3>5
    <3>9. Len(sent'[k]) = Len(served'[k]) + Len(requests'[k].reqs)
      BY <3>3, <3>4, <3>5
    <3>10. \A i \in 1..Len(requests'[k].reqs) :
             sent'[k][Len(sent'[k]) - Len(requests'[k].reqs) + i] = requests'[k].reqs[i]
      BY <3>3, <3>5, <3>6
    <3> QED
      BY <3>3, <3>7, <3>8, <3>9, <3>10 DEF Queue
  <2>2. CASE k # cid[t]
    BY <2>2, <1>1, <1>7, <1>9 DEF Queue
  <2> QED
    BY <2>1, <2>2
<1> QED
  BY <1>10, <1>11, <1>12, <1>13, <1>14, <1>15, <1>16,
     <1>17, <1>18, <1>19, <1>20, <1>21, <1>22, <1>23

\* The thread finds the header flipped and takes the answers: the one to its Pin, if it
\* is there, is the answer to the request it made.
LEMMA ProcessMessageKeeps ==
    ASSUME IndInv, NEW t \in Threads, ProcessMessage(t)
    PROVE  IndInv'
<1> USE DEF IndInv, Types
<1>1. UNCHANGED <<id_pool, client_toggles, requests, responses, toggles, srv_pc,
                  srv_cid, resp_message, async, pc, ret, cid, toggle, req, count,
                  sent, served>>
  BY DEF ProcessMessage, ids, mailbox, server
<1>2. /\ pc[t] \in {"request", "poll", "close"} /\ processing[t]
      /\ responses[cid[t]].toggle = toggle[t]
  BY DEF ProcessMessage
<1>3. cid[t] \in Cids /\ cid[t] # None
  BY <1>2, ChannelAssumption DEF Control, TClient
<1>4. /\ toggles[cid[t]] = toggle[t] /\ srv_cid # cid[t]
      /\ requests[cid[t]].toggle = toggle[t]
      /\ Len(responses[cid[t]].resps) = Len(message[t])
      /\ Matches(responses[cid[t]].resps, message[t])
  BY <1>2, <1>3 DEF Links, Link
<1>5. processing'[t] = FALSE /\ (\A u \in Threads \ {t} : processing'[u] = processing[u])
  BY DEF ProcessMessage, TMessage
<1>6. message'[t] = <<>> /\ (\A u \in Threads \ {t} : message'[u] = message[u])
  BY DEF ProcessMessage, TMessage
<1>7. (\A u \in Threads \ {t} : resp'[u] = resp[u])
  BY DEF ProcessMessage, TRequest
<1>8. \/ resp'[t] = resp[t]
      \/ resp'[t] = req[t] /\ pc[t] = "poll" /\ req[t] \notin async
  <2> DEFINE m == responses[cid[t]]
             mine == {i \in DOMAIN m.resps : /\ message[t][i].type = "Pin"
                                            /\ HasPointer(m.resps[i])}
  <2>1. CASE mine = {}
    BY <2>1 DEF ProcessMessage
  <2>2. CASE mine # {}
    <3>1. PICK i \in mine : i = CHOOSE j \in mine : TRUE
      BY <2>2
    <3>2. resp'[t] = m.resps[i]
      BY <3>1, <2>2 DEF ProcessMessage, TRequest
    <3>3. m.resps \in Seq(Request \cup {None}) /\ message[t] \in Seq(Request)
      BY <1>3 DEF TBox, TMessage
    <3>4. /\ i \in 1..Len(message[t]) /\ message[t] # <<>>
          /\ message[t][i].type = "Pin" /\ m.resps[i] # None
      BY <3>3, <1>4 DEF HasPointer
    <3>5. i = Len(message[t])
      BY <3>4 DEF Batch
    <3>6. Unanswered(t)
      BY <3>4, <3>5, <1>4 DEF Unanswered, Last
    <3>7. Waiting(t) /\ req[t] = message[t][i] /\ req[t] \notin async
      BY <3>5, <3>6 DEF Answer, Last
    <3>8. m.resps[i] = message[t][i]
      BY <3>4, <1>4 DEF Matches
    <3> QED
      BY <3>2, <3>7, <3>8, <1>2 DEF Waiting
  <2> QED
    BY <2>1, <2>2
<1>9. TIds' /\ TBox' /\ TServer' /\ TControl' /\ TClient' /\ THistory'
  BY <1>1 DEF TIds, TBox, TServer, TControl, TClient, THistory
<1>10. /\ Owners'
       /\ Pool'
       /\ Server'
       /\ \A k \in Cids : Queue(k)'
  BY <1>1 DEF Owners, Pool, Quiet, Server, Matches, Queue
<1>11. TMessage'
  BY <1>1 DEF ProcessMessage, TMessage
<1>12. TRequest'
  <2>1. resp'[t] \in Request \cup {None}
    BY <1>8 DEF TRequest
  <2>2. resp' \in [Threads -> Request \cup {None}]
    BY <2>1 DEF ProcessMessage, TRequest
  <2> QED
    BY <2>2, <1>1 DEF TRequest
<1>13. \A u \in Threads : Control(u)'
  <2> SUFFICES ASSUME NEW u \in Threads PROVE Control(u)'
    OBVIOUS
  <2>1. CASE u = t
    BY <2>1, <1>1, <1>2, <1>5, <1>6, ChannelAssumption DEF Control
  <2>2. CASE u # t
    BY <2>2, <1>1, <1>5, <1>6 DEF Control
  <2> QED
    BY <2>1, <2>2
<1>14. \A u \in Threads : Batch(u)'
  <2> SUFFICES ASSUME NEW u \in Threads PROVE Batch(u)'
    OBVIOUS
  <2>1. CASE u = t
    BY <2>1, <1>1, <1>6 DEF Batch
  <2>2. CASE u # t
    BY <2>2, <1>1, <1>6 DEF Batch
  <2> QED
    BY <2>1, <2>2
<1>15. \A u \in Threads : Answer(u)'
  <2> SUFFICES ASSUME NEW u \in Threads PROVE Answer(u)'
    OBVIOUS
  <2>1. CASE u = t
    BY <2>1, <1>1, <1>6, <1>8 DEF Answer, Unanswered, Last, Waiting
  <2>2. CASE u # t
    BY <2>2, <1>1, <1>5, <1>6, <1>7 DEF Answer, Unanswered, Last, Waiting
  <2> QED
    BY <2>1, <2>2
<1>16. Fiber'
  BY <1>1, <1>5, <1>6, <1>7, <1>8 DEF Fiber
<1>17. Links'
  <2> SUFFICES ASSUME NEW u \in Threads, cid'[u] # None PROVE Link(u, cid[u])'
    BY DEF Links
  <2>1. CASE u = t
    BY <2>1, <1>1, <1>2, <1>4, <1>5 DEF Link, Quiet
  <2>2. CASE u # t
    BY <2>2, <1>1, <1>5, <1>6 DEF Links, Link, Quiet, Matches
  <2> QED
    BY <2>1, <2>2
<1> QED
  BY <1>9, <1>10, <1>11, <1>12, <1>13, <1>14, <1>15, <1>16,
     <1>17

\* The slot being served belongs to a thread that waits for its batch.
LEMMA ServedOwner ==
    ASSUME IndInv, srv_cid # None
    PROVE  /\ srv_cid \in Cids
           /\ \E t \in Threads : cid[t] = srv_cid /\ processing[t] /\ message[t] \in Seq(Request)
<1> USE DEF IndInv, Types
<1>1. srv_cid \in Cids
  BY DEF TServer
<1>2. srv_cid \notin id_pool
  BY DEF Pool, Quiet
<1>3. PICK t \in Threads : cid[t] = srv_cid
  BY <1>1, <1>2 DEF Owners
<1>4. processing[t]
  BY <1>3 DEF Links, Link, Quiet
<1> QED
  BY <1>1, <1>3, <1>4 DEF TMessage

\* The server finds a header that differs from its toggle bit.
LEMMA FindMessageKeeps ==
    ASSUME IndInv, NEW c \in Cids, FindMessage(c)
    PROVE  IndInv'
<1> USE DEF IndInv, Types
<1>1. UNCHANGED <<id_pool, client_toggles, requests, responses, toggles, async, pc,
                  ret, cid, toggle, message, processing, req, resp, count, sent,
                  served>>
  BY DEF FindMessage, ids, mailbox, server
<1>2. srv_pc = "scan" /\ srv_cid = None /\ requests[c].toggle # toggles[c]
  BY DEF FindMessage, Announced, Server
<1>3. srv_pc' = "process" /\ srv_cid' = c /\ resp_message' = <<>>
  BY DEF FindMessage
<1>4. c # None
  BY ChannelAssumption
<1>5. TIds' /\ TBox' /\ TControl' /\ TClient' /\ TMessage' /\ TRequest' /\ THistory'
  BY <1>1 DEF TIds, TBox, TControl, TClient, TMessage, TRequest, THistory
<1>6. /\ \A u \in Threads : Control(u)'
      /\ \A u \in Threads : Batch(u)'
      /\ Fiber'
      /\ Owners'
  BY <1>1 DEF Control, Batch, Fiber, Owners
<1>7. TServer'
  BY <1>1, <1>3 DEF TServer
<1>8. \A u \in Threads : Answer(u)'
  <2> SUFFICES ASSUME NEW u \in Threads PROVE Answer(u)'
    OBVIOUS
  <2>1. ASSUME Unanswered(u)' PROVE Unanswered(u)
    <3>1. processing[u] => cid[u] # None
      BY DEF Control
    <3> QED
      BY <2>1, <3>1, <1>1, <1>2 DEF Unanswered, Last
  <2> QED
    BY <2>1, <1>1 DEF Answer, Waiting, Last
<1>9. Pool'
  BY <1>1, <1>2, <1>3 DEF Pool, Quiet
<1>10. Links'
  <2> SUFFICES ASSUME NEW u \in Threads, cid'[u] # None PROVE Link(u, cid[u])'
    BY DEF Links
  <2>1. CASE cid[u] = c
    BY <2>1, <1>1, <1>2, <1>3, <1>4 DEF Links, Link, Quiet
  <2>2. CASE cid[u] # c
    BY <2>2, <1>1, <1>2, <1>3 DEF Links, Link, Quiet, Matches
  <2> QED
    BY <2>1, <2>2
<1>11. Server'
  <2>1. requests[c].reqs \in Seq(Request)
    BY DEF TBox
  <2> QED
    BY <2>1, <1>1, <1>3, <1>4 DEF Server, Matches
<1>12. \A k \in Cids : Queue(k)'
  <2> SUFFICES ASSUME NEW k \in Cids PROVE Queue(k)'
    OBVIOUS
  <2>1. srv_cid # k
    BY <1>2, ChannelAssumption
  <2>2. CASE k = c
    <3>1. Len(sent[k]) \in Nat
      BY DEF THistory
    <3>2. Len(resp_message') = 0
      BY <1>3
    <3>3. Len(sent[k]) = Len(served[k]) + Len(requests[k].reqs)
      BY <2>1, <2>2, <1>2 DEF Queue
    <3>4. Len(sent[k]) + Len(resp_message') = Len(served[k]) + Len(requests[k].reqs)
      BY <3>1, <3>2, <3>3
    <3> QED
      BY <3>4, <2>2, <1>1, <1>2, <1>3 DEF Queue
  <2>3. CASE k # c
    BY <2>1, <2>3, <1>1, <1>3 DEF Queue
  <2> QED
    BY <2>2, <2>3
<1> QED
  BY <1>5, <1>6, <1>7, <1>8, <1>9, <1>10, <1>11, <1>12

\* The fiber answers a deferred Pin.
LEMMA FiberAnswersKeeps ==
    ASSUME IndInv, NEW r \in async, FiberAnswers(r)
    PROVE  IndInv'
<1> USE DEF IndInv, Types
<1>1. UNCHANGED <<id_pool, client_toggles, requests, responses, toggles, srv_pc,
                  srv_cid, resp_message, pc, ret, cid, toggle, message, processing,
                  req, count, sent, served>>
  BY DEF FiberAnswers, ids, mailbox, server
<1>2. /\ r.from \in Threads /\ req[r.from] = r /\ r \in Request
      /\ pc[r.from] \in {"await", "poll"}
  BY DEF Fiber, TServer
<1>3. async' = async \ {r}
  BY DEF FiberAnswers
<1>4. resp'[r.from] = r /\ \A u \in Threads \ {r.from} : resp'[u] = resp[u]
  BY <1>2 DEF FiberAnswers, TRequest
<1>5. TIds' /\ TBox' /\ TControl' /\ TClient' /\ TMessage' /\ THistory'
  BY <1>1 DEF TIds, TBox, TControl, TClient, TMessage, THistory
<1>6. /\ \A u \in Threads : Control(u)'
      /\ \A u \in Threads : Batch(u)'
      /\ Owners'
      /\ Pool'
      /\ Server'
  BY <1>1 DEF Control, Batch, Owners, Pool, Quiet, Server, Matches
<1>7. /\ Links'
  BY <1>1 DEF Links, Link, Quiet, Matches
<1>8. /\ \A k \in Cids : Queue(k)'
  BY <1>1 DEF Queue
<1>9. TServer'
  BY <1>1, <1>3 DEF TServer
<1>10. TRequest'
  BY <1>1, <1>2 DEF FiberAnswers, TRequest
<1>11. \A u \in Threads : Answer(u)'
  <2> SUFFICES ASSUME NEW u \in Threads PROVE Answer(u)'
    OBVIOUS
  <2>1. Unanswered(u)' => Unanswered(u)
    BY <1>1 DEF Unanswered, Last
  <2>2. CASE u = r.from
    BY <2>1, <2>2, <1>1, <1>2, <1>4 DEF Answer
  <2>3. CASE u # r.from
    BY <2>1, <2>3, <1>1, <1>3, <1>4 DEF Answer, Waiting, Last
  <2> QED
    BY <2>2, <2>3
<1>12. Fiber'
  BY <1>1, <1>2, <1>3, <1>4 DEF Fiber
<1> QED
  BY <1>5, <1>6, <1>7, <1>8, <1>9, <1>10, <1>11, <1>12

\* The server serves the next request of the batch, or defers it to the fiber.
LEMMA ProcessKeeps ==
    ASSUME IndInv, Process
    PROVE  IndInv'
<1> USE DEF IndInv, Types
<1>1. UNCHANGED <<id_pool, client_toggles, requests, responses, toggles, srv_pc,
                  srv_cid, pc, ret, cid, toggle, message, processing, req, resp,
                  count, sent>>
  BY DEF Process, ids, mailbox, server
<1>2. srv_pc = "process" /\ srv_cid # None /\ srv_cid \in Cids
  BY DEF Process, Server, TServer
<1>3. PICK t \in Threads : cid[t] = srv_cid /\ processing[t] /\ message[t] \in Seq(Request)
  BY <1>2, ServedOwner
<1>4. /\ requests[srv_cid].reqs = message[t] /\ requests[srv_cid].toggle # toggles[srv_cid]
      /\ responses[srv_cid].toggle # toggle[t]
  BY <1>2, <1>3 DEF Links, Link
<1>5. \A u \in Threads \ {t} : cid[u] # srv_cid
  BY <1>2, <1>3 DEF Owners
<1>6. PICK i : i = Len(resp_message) + 1
  OBVIOUS
<1>7. PICK x \in Request : x = message[t][i] /\ i \in 1..Len(message[t])
  <2>1. i <= Len(message[t]) /\ i \in Nat /\ i # 0
    BY <1>4, <1>6 DEF Process, TServer
  <2> QED
    BY <2>1, <1>3
<1>8. /\ served'[srv_cid] = Append(served[srv_cid], x)
      /\ \A k \in Cids \ {srv_cid} : served'[k] = served[k]
  BY <1>2, <1>4, <1>6, <1>7 DEF Process, THistory
<1>9. \/ resp_message' = Append(resp_message, x) /\ async' = async
      \/ /\ x.type = "Pin"
         /\ resp_message' = Append(resp_message, None) /\ async' = async \cup {x}
  BY <1>4, <1>6, <1>7 DEF Process, NoPointer
<1>10. /\ Len(resp_message') = i
       /\ \A j \in 1..Len(resp_message) : resp_message'[j] = resp_message[j]
       /\ resp_message'[i] \in {None, x}
       /\ async' # async => x.type = "Pin" /\ async' = async \cup {x} /\ resp_message'[i] = None
  <2>1. resp_message \in Seq(Request \cup {None})
    BY DEF TServer
  <2>2. PICK y \in {None, x} :
          /\ resp_message' = Append(resp_message, y)
          /\ async' # async => x.type = "Pin" /\ async' = async \cup {x} /\ y = None
    BY <1>9
  <2>3. /\ Len(Append(resp_message, y)) = i
        /\ \A j \in 1..Len(resp_message) : Append(resp_message, y)[j] = resp_message[j]
        /\ Append(resp_message, y)[i] = y
    BY <2>1, <1>6
  <2> QED
    BY <2>2, <2>3
<1>11. x.from = t /\ (x.type = "Pin" => i = Len(message[t]))
  BY <1>7 DEF Batch
<1>12. x.type = "Pin" => Unanswered(t)
  <2>1. ~(Len(resp_message) >= Len(message[t])) /\ message[t] # <<>>
    BY <1>3, <1>6, <1>7 DEF TServer
  <2> QED
    BY <2>1, <1>3, <1>4, <1>7, <1>11 DEF Unanswered, Last
<1>13. TIds' /\ TBox' /\ TControl' /\ TClient' /\ TMessage' /\ TRequest'
  BY <1>1 DEF TIds, TBox, TControl, TClient, TMessage, TRequest
<1>14. /\ \A u \in Threads : Control(u)'
       /\ \A u \in Threads : Batch(u)'
       /\ Owners'
       /\ Pool'
  BY <1>1 DEF Control, Batch, Owners, Pool, Quiet
<1>15. TServer'
  <2>1. resp_message' \in Seq(Request \cup {None})
    BY <1>9 DEF TServer
  <2>2. async' \in SUBSET Request
    BY <1>9 DEF TServer
  <2> QED
    BY <2>1, <2>2, <1>1 DEF TServer
<1>16. THistory'
  <2>1. Append(served[srv_cid], x) \in Seq(Request)
    BY <1>2 DEF THistory
  <2>2. served' = [served EXCEPT ![srv_cid] = Append(served[srv_cid], x)]
    BY <1>4, <1>6, <1>7 DEF Process, THistory
  <2> QED
    BY <2>1, <2>2, <1>1, <1>2 DEF THistory
<1>17. \A u \in Threads : Answer(u)'
  <2> SUFFICES ASSUME NEW u \in Threads PROVE Answer(u)'
    OBVIOUS
  <2>1. CASE u = t
    <3>1. Len(message[t]) \in Nat
      BY <1>3
    <3>2. CASE async' = async
      <4>1. Unanswered(t)' => Last(t).type = "Pin" /\ message[t] # <<>>
        BY <1>1 DEF Unanswered, Last
      <4>2. ~(Len(resp_message) >= Len(message[t]))
        BY <1>6, <1>7, <3>1 DEF TServer
      <4>3. Unanswered(t)' => Unanswered(t)
        BY <4>1, <4>2, <1>3, <1>4 DEF Unanswered, Last
      <4> QED
        BY <4>3, <3>2, <2>1, <1>1 DEF Answer, Waiting, Last
    <3>3. CASE async' # async
      <4>1. i = Len(message[t]) /\ resp_message'[i] = None /\ Len(resp_message') = i
        BY <3>3, <1>10, <1>11
      <4>2. ~Unanswered(t)'
        BY <4>1, <3>1, <1>1, <1>3 DEF Unanswered
      <4> QED
        BY <4>2, <2>1, <1>1 DEF Answer
    <3> QED
      BY <3>2, <3>3
  <2>2. CASE u # t
    <3>1. Unanswered(u)' => Unanswered(u)
      BY <2>2, <1>1, <1>5 DEF Unanswered, Last
    <3>2. Unanswered(u) => req[u].from = u
      <4>1. message[u] # <<>> => Len(message[u]) \in 1..Len(message[u])
        BY DEF TMessage
      <4> QED
        BY <4>1 DEF Answer, Batch, Unanswered, Last
    <3>3. Unanswered(u) => req[u] \notin async'
      BY <3>2, <2>2, <1>10, <1>11 DEF Answer
    <3> QED
      BY <3>1, <3>3, <1>1 DEF Answer, Waiting, Last
  <2> QED
    BY <2>1, <2>2
<1>18. Fiber'
  <2> SUFFICES ASSUME async' # async
             PROVE  /\ x.from \in Threads /\ x.type = "Pin"
                    /\ req[x.from] = x /\ resp[x.from] = None
                    /\ pc[x.from] \in {"await", "poll"}
                    /\ processing[x.from]
    BY <1>1, <1>10 DEF Fiber
  <2>1. x.type = "Pin" /\ Unanswered(t)
    BY <1>10, <1>12
  <2>2. req[t] = x /\ resp[t] = None /\ Waiting(t)
    BY <2>1, <1>7, <1>11 DEF Answer, Last
  <2>3. pc[t] \in {"await", "poll"}
    BY <2>2, <1>3 DEF Control, Waiting
  <2> QED
    BY <2>1, <2>2, <2>3, <1>3, <1>11
<1>19. Links'
  <2> SUFFICES ASSUME NEW u \in Threads, cid'[u] # None PROVE Link(u, cid[u])'
    BY DEF Links
  <2>1. CASE u = t
    BY <2>1, <1>1, <1>2, <1>3, <1>4 DEF Links, Link, Quiet, Matches
  <2>2. CASE u # t
    BY <2>2, <1>1, <1>5 DEF Links, Link, Quiet, Matches
  <2> QED
    BY <2>1, <2>2
<1>20. Server'
  <2>1. Len(resp_message') <= Len(requests[srv_cid].reqs)
    BY <1>3, <1>4, <1>7, <1>10
  <2>2. ASSUME NEW j \in 1..Len(resp_message')
        PROVE  resp_message'[j] \in {None, requests[srv_cid].reqs[j]}
    <3>1. CASE j = i
      BY <3>1, <1>4, <1>7, <1>10
    <3>2. CASE j # i
      <4>1. j \in 1..Len(resp_message)
        BY <3>2, <2>2, <1>6, <1>10 DEF TServer
      <4> QED
        BY <4>1, <1>2, <1>10 DEF Server, Matches
    <3> QED
      BY <3>1, <3>2
  <2> QED
    BY <2>1, <2>2, <1>1, <1>2 DEF Server, Matches
<1>21. \A k \in Cids : Queue(k)'
  <2> SUFFICES ASSUME NEW k \in Cids PROVE Queue(k)'
    OBVIOUS
  <2>1. CASE k = srv_cid
    <3>1. PICK s \in Seq(Request) : s = served[k]
      BY DEF THistory
    <3>2. PICK n \in Nat : n = Len(sent[k])
      BY DEF THistory
    <3>3. PICK l \in Nat : l = Len(message[t])
      BY <1>3
    <3>4. Len(resp_message) \in Nat
      BY DEF TServer
    <3>5. n + Len(resp_message) = Len(s) + l
      BY <3>1, <3>2, <3>3, <2>1, <1>4 DEF Queue
    <3>6. n - l + i = Len(s) + 1
      BY <3>4, <3>5, <1>6
    <3>7. sent[k][n - l + i] = x
      BY <3>2, <3>3, <2>1, <1>4, <1>7 DEF Queue
    <3>8. served'[k] = Append(s, x)
      BY <3>1, <2>1, <1>8
    <3>9. \A j \in 1..Len(s) : s[j] = sent[k][j]
      BY <3>1 DEF Queue
    <3>10. /\ Len(Append(s, x)) = Len(s) + 1
           /\ \A j \in 1..Len(Append(s, x)) : Append(s, x)[j] = sent[k][j]
      BY <3>6, <3>7, <3>9
    <3>11. n + Len(resp_message') = Len(served'[k]) + l
      <4>1. PICK q \in Nat, p \in Nat : q = Len(s) /\ p = Len(resp_message)
        BY <3>4
      <4>2. Len(served'[k]) = q + 1 /\ Len(resp_message') = p + 1
        BY <4>1, <3>8, <3>10, <1>6, <1>10
      <4> QED
        BY <4>1, <4>2, <3>5
    <3> QED
      BY <3>2, <3>3, <3>8, <3>10, <3>11, <2>1, <1>1, <1>4 DEF Queue
  <2>2. CASE k # srv_cid
    BY <2>2, <1>1, <1>8 DEF Queue
  <2> QED
    BY <2>1, <2>2
<1> QED
  BY <1>13, <1>14, <1>15, <1>16, <1>17, <1>18, <1>19, <1>20,
     <1>21

\* The server copies the answers and flips its own bit.
LEMMA RespondBodyKeeps ==
    ASSUME IndInv, RespondBody
    PROVE  IndInv'
<1> USE DEF IndInv, Types
<1>1. UNCHANGED <<id_pool, client_toggles, requests, srv_cid, resp_message, async,
                  pc, ret, cid, toggle, message, processing, req, resp, count, sent,
                  served>>
  BY DEF RespondBody, ids, mailbox, server
<1>2. srv_pc = "process" /\ srv_cid # None /\ srv_cid \in Cids
  BY DEF RespondBody, Server, TServer
<1>3. PICK t \in Threads : cid[t] = srv_cid /\ processing[t] /\ message[t] \in Seq(Request)
  BY <1>2, ServedOwner
<1>4. /\ requests[srv_cid].reqs = message[t] /\ requests[srv_cid].toggle = toggle[t]
      /\ toggles[srv_cid] # toggle[t] /\ responses[srv_cid].toggle # toggle[t]
  BY <1>2, <1>3 DEF Links, Link
<1>5. \A u \in Threads \ {t} : cid[u] # srv_cid
  BY <1>2, <1>3 DEF Owners
<1>6. srv_pc' = "respond" /\ Len(resp_message) = Len(message[t])
  BY <1>4 DEF RespondBody
<1>7. /\ responses'[srv_cid].resps = resp_message
      /\ responses'[srv_cid].toggle = responses[srv_cid].toggle
      /\ \A k \in Cids \ {srv_cid} : responses'[k] = responses[k]
  BY <1>2 DEF RespondBody, TBox
<1>8. /\ toggles'[srv_cid] = toggle[t]
      /\ \A k \in Cids \ {srv_cid} : toggles'[k] = toggles[k]
  BY <1>2, <1>4 DEF RespondBody, TServer, TClient
<1>9. TIds' /\ TControl' /\ TClient' /\ TMessage' /\ TRequest' /\ THistory'
  BY <1>1 DEF TIds, TControl, TClient, TMessage, TRequest, THistory
<1>10. /\ \A u \in Threads : Control(u)'
       /\ \A u \in Threads : Batch(u)'
       /\ Fiber'
       /\ Owners'
  BY <1>1 DEF Control, Batch, Fiber, Owners
<1>11. TBox'
  BY <1>1, <1>2 DEF RespondBody, TBox, TServer
<1>12. TServer'
  BY <1>1, <1>2 DEF RespondBody, TServer
<1>13. \A u \in Threads : Answer(u)'
  <2> SUFFICES ASSUME NEW u \in Threads PROVE Answer(u)'
    OBVIOUS
  <2>1. Unanswered(u)' => Unanswered(u)
    <3>1. CASE u = t
      BY <3>1, <1>1, <1>3, <1>4 DEF Unanswered, Last
    <3>2. CASE u # t
      <4>1. processing[u] => cid[u] \in Cids
        BY DEF Control, TClient
      <4> QED
        BY <4>1, <3>2, <1>1, <1>5, <1>7 DEF Unanswered, Last
    <3> QED
      BY <3>1, <3>2
  <2> QED
    BY <2>1, <1>1 DEF Answer, Waiting, Last
<1>14. Pool'
  BY <1>1, <1>7, <1>8 DEF Pool, Quiet, TIds
<1>15. Links'
  <2> SUFFICES ASSUME NEW u \in Threads, cid'[u] # None PROVE Link(u, cid[u])'
    BY DEF Links
  <2>1. CASE u = t
    BY <2>1, <1>1, <1>3, <1>4, <1>6, <1>7, <1>8 DEF Link
  <2>2. CASE u # t
    <3>1. responses'[cid[u]] = responses[cid[u]] /\ toggles'[cid[u]] = toggles[cid[u]]
      BY <2>2, <1>1, <1>5, <1>7, <1>8 DEF TClient
    <3> QED
      BY <3>1, <2>2, <1>1, <1>5 DEF Links, Link, Quiet, Matches
  <2> QED
    BY <2>1, <2>2
<1>16. Server'
  BY <1>1, <1>2, <1>4, <1>6 DEF Server, Matches
<1>17. \A k \in Cids : Queue(k)'
  <2> SUFFICES ASSUME NEW k \in Cids PROVE Queue(k)'
    OBVIOUS
  <2>1. CASE k = srv_cid
    <3>1. PICK n \in Nat, s \in Nat, l \in Nat :
            n = Len(sent[k]) /\ s = Len(served[k]) /\ l = Len(message[t])
      BY <1>3 DEF THistory
    <3>2. n + l = s + l
      BY <3>1, <2>1, <1>4, <1>6 DEF Queue
    <3>3. n = s
      BY <3>2
    <3>4. Len(sent[k]) = Len(served[k])
      BY <3>1, <3>3
    <3> QED
      BY <3>4, <2>1, <1>1, <1>4, <1>8 DEF Queue
  <2>2. CASE k # srv_cid
    BY <2>2, <1>1, <1>8 DEF Queue
  <2> QED
    BY <2>1, <2>2
<1> QED
  BY <1>9, <1>10, <1>11, <1>12, <1>13, <1>14, <1>15, <1>16,
     <1>17

\* The header makes the answers visible.
LEMMA RespondHeaderKeeps ==
    ASSUME IndInv, RespondHeader
    PROVE  IndInv'
<1> USE DEF IndInv, Types
<1>1. UNCHANGED <<id_pool, client_toggles, requests, toggles, async, pc, ret, cid,
                  toggle, message, processing, req, resp, count, sent, served>>
  BY DEF RespondHeader, ids, mailbox, server
<1>2. srv_pc = "respond" /\ srv_cid # None /\ srv_cid \in Cids
  BY DEF RespondHeader, Server, TServer
<1>3. PICK t \in Threads : cid[t] = srv_cid /\ processing[t] /\ message[t] \in Seq(Request)
  BY <1>2, ServedOwner
<1>4. /\ requests[srv_cid].reqs = message[t] /\ requests[srv_cid].toggle = toggle[t]
      /\ toggles[srv_cid] = toggle[t] /\ responses[srv_cid].toggle # toggle[t]
      /\ responses[srv_cid].resps = resp_message
  BY <1>2, <1>3 DEF Links, Link
<1>5. \A u \in Threads \ {t} : cid[u] # srv_cid
  BY <1>2, <1>3 DEF Owners
<1>6. srv_pc' = "scan" /\ srv_cid' = None /\ resp_message' = <<>>
  BY DEF RespondHeader
<1>7. /\ responses'[srv_cid].resps = resp_message
      /\ responses'[srv_cid].toggle = toggle[t]
      /\ \A k \in Cids \ {srv_cid} : responses'[k] = responses[k]
  BY <1>2, <1>4 DEF RespondHeader, TBox
<1>8. Len(resp_message) = Len(message[t]) /\ Matches(resp_message, message[t])
  BY <1>2, <1>4 DEF Server
<1>9. TIds' /\ TControl' /\ TClient' /\ TMessage' /\ TRequest' /\ THistory'
  BY <1>1 DEF TIds, TControl, TClient, TMessage, TRequest, THistory
<1>10. /\ \A u \in Threads : Control(u)'
       /\ \A u \in Threads : Batch(u)'
       /\ Fiber'
       /\ Owners'
  BY <1>1 DEF Control, Batch, Fiber, Owners
<1>11. TBox'
  BY <1>1, <1>2 DEF RespondHeader, TBox, TServer
<1>12. TServer'
  BY <1>1, <1>6 DEF TServer
<1>13. \A u \in Threads : Answer(u)'
  <2> SUFFICES ASSUME NEW u \in Threads PROVE Answer(u)'
    OBVIOUS
  <2>1. Unanswered(u)' => Unanswered(u)
    <3>1. CASE u = t
      BY <3>1, <1>1, <1>3, <1>4, <1>7 DEF Unanswered, Last
    <3>2. CASE u # t
      <4>1. processing[u] => cid[u] \in Cids
        BY DEF Control, TClient
      <4> QED
        BY <4>1, <3>2, <1>1, <1>5, <1>7 DEF Unanswered, Last
    <3> QED
      BY <3>1, <3>2
  <2> QED
    BY <2>1, <1>1 DEF Answer, Waiting, Last
<1>14. Pool'
  BY <1>1, <1>6, <1>7, ChannelAssumption DEF Pool, Quiet, TIds
<1>15. Links'
  <2> SUFFICES ASSUME NEW u \in Threads, cid'[u] # None PROVE Link(u, cid[u])'
    BY DEF Links
  <2>1. CASE u = t
    BY <2>1, <1>1, <1>2, <1>3, <1>4, <1>6, <1>7, <1>8 DEF Link, Matches
  <2>2. CASE u # t
    <3>1. responses'[cid[u]] = responses[cid[u]] /\ cid[u] # None
      BY <2>2, <1>1, <1>5, <1>7 DEF TClient
    <3> QED
      BY <3>1, <2>2, <1>1, <1>5, <1>6 DEF Links, Link, Quiet, Matches
  <2> QED
    BY <2>1, <2>2
<1>16. Server'
  BY <1>1, <1>6 DEF Server
<1>17. \A k \in Cids : Queue(k)'
  <2> SUFFICES ASSUME NEW k \in Cids PROVE Queue(k)'
    OBVIOUS
  <2>1. srv_cid' # k
    BY <1>6, ChannelAssumption
  <2>2. CASE k = srv_cid
    BY <2>2, <1>1, <1>4 DEF Queue
  <2>3. CASE k # srv_cid
    BY <2>1, <2>3, <1>1 DEF Queue
  <2> QED
    BY <2>2, <2>3
<1> QED
  BY <1>9, <1>10, <1>11, <1>12, <1>13, <1>14, <1>15, <1>16,
     <1>17

\* Nothing changes.
LEMMA StutterKeeps == IndInv /\ UNCHANGED vars => IndInv'
<1> SUFFICES ASSUME IndInv, UNCHANGED vars PROVE IndInv'
  OBVIOUS
<1> USE DEF IndInv, Types
<1>1. UNCHANGED <<id_pool, client_toggles, requests, responses, toggles, srv_pc, srv_cid,
                  resp_message, async, pc, ret, cid, toggle, message, processing, req,
                  resp, count, sent, served>>
  BY DEF vars, ids, mailbox, server
<1>2. TIds' /\ TBox' /\ TServer' /\ TControl' /\ TClient' /\ TMessage' /\ TRequest' /\ THistory'
  BY <1>1 DEF TIds, TBox, TServer, TControl, TClient, TMessage, TRequest, THistory
<1>3. \A t \in Threads : Control(t)' /\ Batch(t)'
  BY <1>1 DEF Control, Batch
<1>4. \A t \in Threads : Answer(t)'
  BY <1>1 DEF Answer, Unanswered, Waiting, Last
<1>5. Fiber' /\ Owners' /\ Pool' /\ Server'
  BY <1>1 DEF Fiber, Owners, Pool, Quiet, Server, Matches
<1>6. Links'
  BY <1>1 DEF Links, Link, Quiet, Matches
<1>7. \A c \in Cids : Queue(c)'
  BY <1>1 DEF Queue
<1> QED
  BY <1>2, <1>3, <1>4, <1>5, <1>6, <1>7

\* Every step keeps the invariant.
LEMMA NextKeeps == IndInv /\ [Next]_vars => IndInv'
<1> SUFFICES ASSUME IndInv, [Next]_vars PROVE IndInv'
  OBVIOUS
<1>1. CASE UNCHANGED vars
  BY <1>1, StutterKeeps
<1>2. ASSUME NEW t \in Threads, ThreadStep(t) PROVE IndInv'
  <2>1. ASSUME CallStep(t) PROVE IndInv'
    BY <2>1, JoinKeeps, SubmitBodyKeeps, SubmitHeaderKeeps, ProcessMessageKeeps,
       PollMessageKeeps, PollReturnsKeeps, PinReturnsKeeps, CloseSubmitsKeeps,
       DestroyKeeps DEF CallStep
  <2> QED
    BY <2>1, <1>2, ConstructKeeps, CloseKeeps, CallKeeps, PinAgainKeeps DEF ThreadStep
<1>3. CASE \E c \in Cids : FindMessage(c)
  BY <1>3, FindMessageKeeps
<1>4. CASE ServerStep
  BY <1>4, ProcessKeeps, RespondBodyKeeps, RespondHeaderKeeps DEF ServerStep
<1>5. CASE \E r \in async : FiberAnswers(r)
  BY <1>5, FiberAnswersKeeps
<1> QED
  BY <1>1, <1>2, <1>3, <1>4, <1>5 DEF Next

\* The invariant of the channel: whatever the threads, the server and the fiber do, a
\* slot, its two toggle bits and the batch in it agree with the thread that owns it.
THEOREM ChannelInvHolds == Spec => []IndInv
  BY InitHolds, NextKeeps, PTL DEF Spec

\* Every variable keeps its type; in particular a batch never exceeds the message it is
\* copied into (PartitionClient::request).
THEOREM ChannelTypeCorrect == Spec => []TypeOK
<1>1. IndInv => TypeOK
  <2> SUFFICES ASSUME IndInv PROVE TypeOK
    OBVIOUS
  <2>1. \A t \in Threads : Len(message[t]) <= MaxComms
    BY DEF IndInv, Control
  <2> QED
    BY <2>1 DEF IndInv, Types, TypeOK, TIds, TBox, TServer, TControl, TClient, TMessage,
                TRequest, THistory
<1> QED
  BY <1>1, ChannelInvHolds, PTL

\* The answer a thread takes out of its slot, or gets from the fiber, is the answer to
\* the request it is waiting with, for any number of threads, client ids and requests,
\* also when an id was used by another thread before and its toggle bits are reused.
THEOREM AnswersReachTheirCaller == Spec => []AnswerIsMine
<1>1. IndInv => AnswerIsMine
  BY DEF IndInv, Answer, AnswerIsMine
<1> QED
  BY <1>1, ChannelInvHolds, PTL

\* The header of a submit is the Submit of the whole batch.
LEMMA SubmitRefines ==
    ASSUME IndInv, NEW t \in Threads, SubmitHeader(t)
    PROVE  C!Submit(cid[t]) /\ cid[t] \in Cids
<1> USE DEF IndInv, Types
<1>1. pc[t] = "header" /\ ~processing[t] /\ message[t] # <<>>
  BY DEF SubmitHeader, Control
<1>2. cid[t] \in Cids /\ cid[t] # None
  BY <1>1, ChannelAssumption DEF Control, TClient
<1>3. PICK s \in Seq(Request) : s = sent[cid[t]]
  BY <1>2 DEF THistory
<1>4. PICK m \in Seq(Request) : m = message[t] /\ m # <<>>
  BY <1>1 DEF TMessage
<1>5. PICK h \in Seq(Request) : h = served[cid[t]]
  BY <1>2 DEF THistory
<1>6. Quiet(cid[t])
  BY <1>1, <1>2 DEF Links, Link
<1>7. Len(h) = Len(s) /\ \A i \in 1..Len(h) : h[i] = s[i]
  BY <1>2, <1>3, <1>5, <1>6 DEF Quiet, Queue
<1>8. h = s
  BY <1>7
<1>9. C!IsStrictPrefix(s, s \o m)
  <2>1. /\ Len(s \o m) = Len(s) + Len(m) /\ Len(m) > 0 /\ Len(m) \in Nat /\ Len(s) \in Nat
        /\ s \o m \in Seq(Request)
    BY <1>4
  <2>2. SubSeq(s, 1, Len(s)) = SubSeq(s \o m, 1, Len(s))
    BY <2>1
  <2> QED
    BY <2>1, <2>2 DEF C!IsStrictPrefix, C!IsPrefix
<1>10. sent' = [sent EXCEPT ![cid[t]] = s \o m] /\ sent'[cid[t]] = s \o m
  BY <1>2, <1>3, <1>4 DEF SubmitHeader, THistory
<1>11. served' = served
  BY DEF SubmitHeader
<1> QED
  BY <1>2, <1>3, <1>5, <1>8, <1>9, <1>10, <1>11 DEF C!Submit

\* Serving one request is a Serve.
LEMMA ServeRefines ==
    ASSUME IndInv, Process
    PROVE  C!Serve(srv_cid) /\ srv_cid \in Cids
<1> USE DEF IndInv, Types
<1>1. srv_pc = "process" /\ srv_cid # None /\ srv_cid \in Cids
  BY DEF Process, Server, TServer
<1>2. PICK t \in Threads : cid[t] = srv_cid /\ processing[t] /\ message[t] \in Seq(Request)
  BY <1>1, ServedOwner
<1>3. requests[srv_cid].reqs = message[t] /\ requests[srv_cid].toggle # toggles[srv_cid]
  BY <1>1, <1>2 DEF Links, Link
<1>4. PICK p \in Nat, l \in Nat, n \in Nat, s \in Nat :
        /\ p = Len(resp_message) /\ l = Len(message[t])
        /\ n = Len(sent[srv_cid]) /\ s = Len(served[srv_cid])
  <2>1. Len(resp_message) \in Nat /\ Len(message[t]) \in Nat
    BY <1>2 DEF TServer
  <2>2. Len(sent[srv_cid]) \in Nat /\ Len(served[srv_cid]) \in Nat
    BY <1>1 DEF THistory
  <2> QED
    BY <2>1, <2>2
<1>5. n + p = s + l /\ p + 1 <= l
  BY <1>1, <1>3, <1>4 DEF Queue, Process
<1>6. s < n /\ n - l + (p + 1) = s + 1 /\ p + 1 \in 1..l
  BY <1>5
<1>7. sent[srv_cid][s + 1] = message[t][p + 1]
  <2>1. PICK i \in 1..l : i = p + 1 /\ n - l + i = s + 1
    BY <1>6
  <2>2. sent[srv_cid][n - l + i] = message[t][i]
    <3>1. \A j \in 1..Len(message[t]) :
            sent[srv_cid][Len(sent[srv_cid]) - Len(message[t]) + j] = message[t][j]
      BY <1>1, <1>3 DEF Queue
    <3>2. \A j \in 1..l : sent[srv_cid][n - l + j] = message[t][j]
      BY <3>1, <1>4
    <3> QED
      BY <3>2
  <2>3. sent[srv_cid][s + 1] = message[t][i]
    BY <2>1, <2>2
  <2> QED
    BY <2>1, <2>3
<1>8. served' = [served EXCEPT ![srv_cid] = Append(@, message[t][p + 1])] /\ sent' = sent
  BY <1>3, <1>4 DEF Process
<1> QED
  BY <1>1, <1>4, <1>6, <1>7, <1>8 DEF C!Serve

\* The toggle protocol implements a FIFO channel per client id: the server serves the
\* requests of a client in the order they were made, none of them twice and none that
\* was not sent, although body and header of a message are copied separately and client
\* ids are recycled.
THEOREM ChannelImplemented == Spec => ImplementsChannel
<1>1. Init => C!Init
  BY DEF Init, C!Init
<1>2. ASSUME IndInv, [Next]_vars PROVE [C!Next]_<<sent, served>>
  <2>1. ASSUME NEW t \in Threads, SubmitHeader(t) PROVE C!Next
    BY <2>1, <1>2, SubmitRefines DEF C!Next
  <2>2. ASSUME Process PROVE C!Next
    BY <2>2, <1>2, ServeRefines DEF C!Next
  <2>3. ASSUME NEW t \in Threads, ThreadStep(t), ~SubmitHeader(t)
        PROVE  UNCHANGED <<sent, served>>
    BY <2>3 DEF ThreadStep, CallStep, Construct, Close, Call, PinAgain, Join, SubmitBody,
           ProcessMessage, PollMessage, PollReturns, PinReturns, CloseSubmits, Destroy
  <2>4. CASE UNCHANGED vars
    BY <2>4 DEF vars
  <2>5. CASE \E c \in Cids : FindMessage(c)
    BY <2>5 DEF FindMessage
  <2>6. CASE RespondBody \/ RespondHeader
    BY <2>6 DEF RespondBody, RespondHeader
  <2>7. CASE \E r \in async : FiberAnswers(r)
    BY <2>7 DEF FiberAnswers
  <2> QED
    BY <2>1, <2>2, <2>3, <2>4, <2>5, <2>6, <2>7, <1>2 DEF Next, ServerStep
<1> QED
  BY <1>1, <1>2, ChannelInvHolds, PTL DEF Spec, ImplementsChannel, C!Spec
=============================================================================
