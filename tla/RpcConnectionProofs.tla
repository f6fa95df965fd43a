------------------------- MODULE RpcConnectionProofs -------------------------
(* What RpcConnection's run checks of the calls on a shared connection,    *)
(* proved for every number of threads and connections.                     *)
(*                                                                         *)
(* The argument is that call_mu makes a connection carry one call at a     *)
(* time: while a thread holds it there is exactly one frame under way, the *)
(* thread's request, or the request with the server's handler, or the      *)
(* reply to it; while nobody holds it a working connection is empty.  It   *)
(* needs that nothing arrives on a connection once a call on it has passed *)
(* its time limit (~LateReplies), since a reply that arrives afterwards    *)
(* would be the next caller's.                                             *)
EXTENDS RpcConnection, TLAPS

ThreadType ==
    /\ pc \in [Thread -> {"idle", "dial", "invoke", "wait", "done", "failed", "ended"}]
    /\ handle \in [Thread -> Connection \cup {None}]
    /\ call = [t \in Thread |-> call[t]]
    /\ answer = [t \in Thread |-> answer[t]]

ClientType ==
    /\ client \in {"peer", "storage", "program"}
    /\ old \in BOOLEAN
    /\ conn \in Connection \cup {None}
    /\ backoff \in BOOLEAN

\* A record of a connection with its six fields.
IsLink(l) ==
    /\ l = [up |-> l.up, call_mu |-> l.call_mu, requests |-> l.requests,
            replies |-> l.replies, server |-> l.server, serving |-> l.serving]
    /\ l.up \in BOOLEAN
    /\ l.call_mu \in Thread \cup {None}
    /\ l.server \in {"none", "read", "run"}

LinkType ==
    /\ link = [c \in Connection |-> link[c]]
    /\ \A c \in Connection : IsLink(link[c])

\* A call in progress is one of the methods with a request of that method.
GoodCall(k) == k.method \in DOMAIN Method /\ k.request \in Requests[k.method]

\* An answer is the reply to the call the thread made.
GoodAnswer(t) ==
    /\ answer[t].to = t
    /\ answer[t].method = call[t].method
    /\ answer[t].meant \in Replies[call[t].method]
    /\ answer[t].reply = ReplyArrives[old][call[t].method][answer[t].meant]

ThreadInv(t) ==
    /\ pc[t] \in {"invoke", "wait", "failed"} => handle[t] \in Connection
    /\ pc[t] \notin {"invoke", "wait", "failed"} => handle[t] = None
    /\ pc[t] \notin {"idle", "ended"} => GoodCall(call[t])
    /\ pc[t] = "wait" => link[handle[t]].call_mu = t
    /\ pc[t] # "done" => answer[t] = None
    /\ pc[t] = "done" => GoodAnswer(t)

\* The handler's request is what arrives of one that was meant.
GoodServing(s) ==
    /\ s.method \in DOMAIN Method
    /\ s.meant \in Requests[s.method]
    /\ s.request = RequestArrives[s.method][s.meant]

\* A connection nobody uses.
Quiet(l) == l.requests = <<>> /\ l.replies = <<>> /\ l.server # "run"

\* The places the one frame of t's call can be, the last nowhere: the thread
\* that served it has ended.
AsRequest(l, t) ==
    l.requests = <<RequestFrame(t)>> /\ l.replies = <<>> /\ l.server # "run"

AsServed(l, t) ==
    /\ l.requests = <<>> /\ l.replies = <<>> /\ l.server = "run"
    /\ l.serving.from = t
    /\ l.serving.method = call[t].method

AsReply(l, t) ==
    /\ l.requests = <<>> /\ l.server # "run"
    /\ \E r : /\ l.replies = <<r>>
              /\ r.to = t
              /\ r.method = call[t].method
              /\ r.error \in BOOLEAN
              /\ ~r.error => r.meant \in Replies[call[t].method]

AsLost(l) == l.requests = <<>> /\ l.replies = <<>> /\ l.server = "none"

\* What holds of a connection whatever its callers do.
ServerInv(l) ==
    /\ l.server = "run" => GoodServing(l.serving)
    /\ l.server # "run" => l.serving = None
    /\ ~l.up => l.requests = <<>> /\ l.replies = <<>>

CallInv(c, l) ==
    /\ l.call_mu # None => handle[l.call_mu] = c /\ pc[l.call_mu] = "wait"
    /\ l.up /\ l.call_mu = None => Quiet(l)
    /\ l.up /\ l.call_mu # None =>
          \/ AsRequest(l, l.call_mu)
          \/ AsServed(l, l.call_mu)
          \/ AsReply(l, l.call_mu)
          \/ AsLost(l)

RpcInv ==
    /\ ClientType
    /\ ThreadType
    /\ LinkType
    /\ \A t \in Thread : ThreadInv(t)
    /\ \A c \in Connection : ServerInv(link[c]) /\ CallInv(c, link[c])

\* A connection's lock is held by a thread, and a thread is not None.
LEMMA NoneApart == None \notin Thread /\ None \notin Connection
  BY RpcAssumption DEF RpcAssumption

\* What a call starts with (Starts) is a method and a request of that method.
LEMMA CallsGood ==
    ASSUME client \in {"peer", "storage", "program"},
           NEW t \in Thread, NEW m \in Methods(t), NEW request \in RequestsOf(t, m)
    PROVE  m \in DOMAIN Method /\ request \in Requests[m]
<1>1. {"AppendEntries", "RequestVote", "WritePBABatch"} \subseteq DOMAIN Method
  BY DEF Method
<1>2. m \in DOMAIN Method
  BY <1>1 DEF Methods
<1>3. RequestsOf(t, m) \subseteq Requests[m]
  BY <1>2 DEF RequestsOf, Requests
<1> QED
  BY <1>2, <1>3

\* The sequences of at most one frame the connections hold.
LEMMA OneFrame ==
    ASSUME NEW x
    PROVE  /\ Append(<<>>, x) = <<x>>
           /\ Head(<<x>>) = x
           /\ Tail(<<x>>) = <<>>
           /\ <<x>> # <<>>
  OBVIOUS

\* The invariant holds when nothing has been dialed.
LEMMA RpcInit == Init => RpcInv
<1> SUFFICES ASSUME Init PROVE RpcInv
  OBVIOUS
<1> USE DEF Init
<1>1. ClientType
  BY DEF ClientType
<1>2. ThreadType
  BY DEF ThreadType
<1>3. LinkType
  BY DEF LinkType, IsLink, Free
<1>4. ASSUME NEW t \in Thread PROVE ThreadInv(t)
  BY <1>4 DEF ThreadInv
<1>5. ASSUME NEW c \in Connection PROVE ServerInv(link[c]) /\ CallInv(c, link[c])
  BY <1>5 DEF ServerInv, CallInv, Free
<1> QED
  BY <1>1, <1>2, <1>3, <1>4, <1>5 DEF RpcInv

\* A connection that is not touched, and whose caller is not either.
LEMMA CallKept ==
    ASSUME NEW c \in Connection, CallInv(c, link[c]), link'[c] = link[c],
           link[c].call_mu # None =>
              /\ call'[link[c].call_mu] = call[link[c].call_mu]
              /\ pc'[link[c].call_mu] = pc[link[c].call_mu]
              /\ handle'[link[c].call_mu] = handle[link[c].call_mu]
    PROVE  CallInv(c, link[c])'
  BY DEF CallInv, Quiet, AsRequest, AsServed, AsReply, AsLost, RequestFrame

\* A thread that does nothing, while the lock of what it waits on is its own.
LEMMA ThreadKept ==
    ASSUME NEW u \in Thread, ThreadInv(u), old' = old, answer'[u] = answer[u],
           call'[u] = call[u], pc'[u] = pc[u], handle'[u] = handle[u],
           pc[u] = "wait" => link'[handle[u]].call_mu = link[handle[u]].call_mu
    PROVE  ThreadInv(u)'
  BY DEF ThreadInv, GoodCall, GoodAnswer

\* The server's side of a connection depends on nothing else.
LEMMA ServerKept ==
    ASSUME NEW c \in Connection, ServerInv(link[c]), link'[c] = link[c]
    PROVE  ServerInv(link[c])'
  BY DEF ServerInv, GoodServing

\* A thread at rest, dialing, before or after a call holds no lock.
LEMMA HoldsNoLock ==
    ASSUME RpcInv, NEW t \in Thread, pc[t] # "wait", NEW c \in Connection
    PROVE  link[c].call_mu # t
  BY NoneApart DEF RpcInv, CallInv

\* Only t changes, t holds no lock, and the connections stay.
LEMMA OnlyThread ==
    ASSUME RpcInv, NEW t \in Thread, pc[t] # "wait", link' = link, old' = old,
           \A u \in Thread : u # t =>
              /\ call'[u] = call[u]
              /\ pc'[u] = pc[u]
              /\ handle'[u] = handle[u]
              /\ answer'[u] = answer[u],
           ClientType', ThreadType', ThreadInv(t)'
    PROVE  RpcInv'
<1>1. LinkType'
  BY DEF RpcInv, LinkType, IsLink
<1>2. ASSUME NEW u \in Thread, u # t PROVE ThreadInv(u)'
  <2>1. ThreadInv(u)
    BY DEF RpcInv
  <2> QED
    BY <1>2, <2>1, ThreadKept
<1>3. ASSUME NEW c \in Connection PROVE ServerInv(link[c])' /\ CallInv(c, link[c])'
  <2>1. ServerInv(link[c]) /\ CallInv(c, link[c])
    BY DEF RpcInv
  <2>2. link[c].call_mu \in Thread \cup {None} /\ link[c].call_mu # t
    BY HoldsNoLock DEF RpcInv, LinkType, IsLink
  <2>3. CallInv(c, link[c])'
    BY <2>1, <2>2, CallKept
  <2> QED
    BY <2>1, <2>3, ServerKept
<1> QED
  BY <1>1, <1>2, <1>3 DEF RpcInv

\* The call starts.
LEMMA StartsInv ==
    ASSUME RpcInv, NEW t \in Thread, Starts(t)
    PROVE  RpcInv'
<1>1. PICK m \in Methods(t) : \E request \in RequestsOf(t, m) : Begin(t, m, request)
  BY DEF Starts
<1>2. PICK request \in RequestsOf(t, m) : Begin(t, m, request)
  BY <1>1
<1> USE <1>2 DEF Begin
<1>3. ClientType'
  BY DEF ClientType, RpcInv
<1>4. ThreadType'
  BY DEF ThreadType, ClientType, RpcInv
<1>5. m \in DOMAIN Method /\ request \in Requests[m]
  BY CallsGood DEF ClientType, RpcInv
<1>6. ThreadInv(t)'
  <2>1. call'[t] = [method |-> m, request |-> request]
    BY DEF ThreadType, RpcInv
  <2>2. GoodCall(call[t])'
    BY <2>1, <1>5 DEF GoodCall
  <2>3. answer'[t] = None
    BY DEF ThreadInv, RpcInv
  <2>4. handle'[t] = conn /\ pc'[t] = IF conn = None THEN "dial" ELSE "invoke"
    BY DEF ThreadType, RpcInv
  <2> QED
    BY <2>2, <2>3, <2>4 DEF ThreadInv, ClientType, RpcInv
<1>7. \A u \in Thread : u # t =>
         call'[u] = call[u] /\ pc'[u] = pc[u] /\ handle'[u] = handle[u] /\ answer'[u] = answer[u]
  BY DEF ThreadType, RpcInv
<1> QED
  BY <1>3, <1>4, <1>6, <1>7, OnlyThread

\* The dial succeeds: the connection that is dialed was nobody's.
LEMMA DialOkInv ==
    ASSUME RpcInv, NEW t \in Thread, NEW c \in Connection, DialOk(t, c)
    PROVE  RpcInv'
<1> USE DEF DialOk
<1>1. ClientType'
  BY DEF ClientType, RpcInv
<1>2. conn' \in Connection
  BY DEF ClientType, RpcInv
<1>3. ThreadType'
  BY <1>2 DEF ThreadType, RpcInv
<1>4. link'[c] = Dialed /\ \A d \in Connection : d # c => link'[d] = link[d]
  BY DEF LinkType, RpcInv
<1>5. Dialed = [up |-> TRUE, call_mu |-> None, requests |-> <<>>, replies |-> <<>>,
                server |-> "read", serving |-> None]
  <2>1. PICK f : f = Free
    OBVIOUS
  <2>2. f = [up |-> FALSE, call_mu |-> None, requests |-> <<>>, replies |-> <<>>,
             server |-> "none", serving |-> None]
    BY <2>1 DEF Free
  <2>3. Dialed = [f EXCEPT !.up = TRUE, !.server = "read"]
    BY <2>1 DEF Dialed
  <2> QED
    BY <2>2, <2>3
<1>6. LinkType'
  <2>1. IsLink(Dialed)
    BY <1>5 DEF IsLink
  <2>2. IsLink(link[c])'
    BY <2>1, <1>4 DEF IsLink
  <2>3. ASSUME NEW d \in Connection, d # c PROVE IsLink(link[d])'
    BY <2>3, <1>4 DEF RpcInv, LinkType, IsLink
  <2>4. link' = [d \in Connection |-> link'[d]]
    BY DEF RpcInv, LinkType
  <2> QED
    BY <2>2, <2>3, <2>4 DEF LinkType
<1>7. \A u \in Thread : handle[u] # c
  BY DEF Closed
<1>8. \A u \in Thread : u # t =>
         call'[u] = call[u] /\ pc'[u] = pc[u] /\ handle'[u] = handle[u] /\ answer'[u] = answer[u]
  BY DEF ThreadType, RpcInv
<1>9. ASSUME NEW u \in Thread PROVE ThreadInv(u)'
  <2>1. CASE u = t
    <3>1. pc'[u] = "invoke" /\ handle'[u] = conn' /\ call'[u] = call[u] /\ answer'[u] = answer[u]
      BY <2>1 DEF ThreadType, RpcInv
    <3>2. ThreadInv(u)
      BY DEF RpcInv
    <3> QED
      BY <2>1, <3>1, <3>2, <1>2 DEF ThreadInv, GoodCall
  <2>2. CASE u # t
    <3>1. ThreadInv(u)
      BY DEF RpcInv
    <3>2. pc[u] = "wait" => link'[handle[u]] = link[handle[u]]
      BY <1>4, <1>7, <3>1 DEF ThreadInv
    <3> QED
      BY <2>2, <1>8, <3>1, <3>2, ThreadKept
  <2> QED
    BY <2>1, <2>2
<1>10. ASSUME NEW d \in Connection PROVE ServerInv(link[d])' /\ CallInv(d, link[d])'
  <2>1. CASE d = c
    BY <2>1, <1>4, <1>5 DEF ServerInv, CallInv, Quiet
  <2>2. CASE d # c
    <3>1. ServerInv(link[d]) /\ CallInv(d, link[d])
      BY DEF RpcInv
    <3>2. link[d].call_mu \in Thread \cup {None} /\ link[d].call_mu # t
      BY HoldsNoLock DEF RpcInv, LinkType, IsLink
    <3>3. CallInv(d, link[d])'
      BY <2>2, <1>4, <1>8, <3>1, <3>2, CallKept
    <3> QED
      BY <2>2, <1>4, <3>1, <3>3, ServerKept
  <2> QED
    BY <2>1, <2>2
<1> QED
  BY <1>1, <1>3, <1>6, <1>9, <1>10 DEF RpcInv

\* The dial fails.
LEMMA DialFailsInv ==
    ASSUME RpcInv, NEW t \in Thread, DialFails(t)
    PROVE  RpcInv'
<1> USE DEF DialFails
<1>1. ClientType'
  BY DEF ClientType, RpcInv
<1>2. ThreadType'
  BY DEF ThreadType, RpcInv
<1>3. pc'[t] = "idle"
  BY DEF ThreadType, RpcInv
<1>4. ThreadInv(t)'
  BY <1>3 DEF ThreadInv, RpcInv
<1>5. \A u \in Thread : u # t =>
         call'[u] = call[u] /\ pc'[u] = pc[u] /\ handle'[u] = handle[u] /\ answer'[u] = answer[u]
  BY DEF ThreadType, RpcInv
<1> QED
  BY <1>1, <1>2, <1>4, <1>5, OnlyThread

\* The call returns.
LEMMA ReturnsInv ==
    ASSUME RpcInv, NEW t \in Thread, Returns(t)
    PROVE  RpcInv'
<1> USE DEF Returns
<1>1. ClientType'
  BY DEF ClientType, RpcInv
<1>2. ThreadType'
  BY DEF ThreadType, RpcInv
<1>3. pc'[t] = "idle" /\ answer'[t] = None
  BY DEF ThreadType, RpcInv
<1>4. ThreadInv(t)'
  BY <1>3 DEF ThreadInv, RpcInv
<1>5. \A u \in Thread : u # t =>
         call'[u] = call[u] /\ pc'[u] = pc[u] /\ handle'[u] = handle[u] /\ answer'[u] = answer[u]
  BY DEF ThreadType, RpcInv
<1> QED
  BY <1>1, <1>2, <1>4, <1>5, OnlyThread

\* The exception's handler.
LEMMA GiveUpInv ==
    ASSUME RpcInv, NEW t \in Thread, GiveUp(t)
    PROVE  RpcInv'
<1> USE DEF GiveUp
<1>1. ClientType'
  BY DEF ClientType, RpcInv, Kept
<1>2. ThreadType'
  BY DEF ThreadType, RpcInv, AfterFailure
<1>3. pc'[t] \in {"idle", "ended"} /\ handle'[t] = None
  BY DEF ThreadType, RpcInv, AfterFailure
<1>4. ThreadInv(t)'
  BY <1>3 DEF ThreadInv, RpcInv
<1>5. \A u \in Thread : u # t =>
         call'[u] = call[u] /\ pc'[u] = pc[u] /\ handle'[u] = handle[u] /\ answer'[u] = answer[u]
  BY DEF ThreadType, RpcInv
<1> QED
  BY <1>1, <1>2, <1>4, <1>5, OnlyThread

\* The program is run again.
LEMMA RunAgainInv ==
    ASSUME RpcInv, NEW t \in Thread, RunAgain(t)
    PROVE  RpcInv'
<1> USE DEF RunAgain
<1>1. ClientType'
  BY DEF ClientType, RpcInv
<1>2. ThreadType'
  BY DEF ThreadType, RpcInv
<1>3. pc'[t] = "idle"
  BY DEF ThreadType, RpcInv
<1>4. ThreadInv(t)'
  BY <1>3 DEF ThreadInv, RpcInv
<1>5. \A u \in Thread : u # t =>
         call'[u] = call[u] /\ pc'[u] = pc[u] /\ handle'[u] = handle[u] /\ answer'[u] = answer[u]
  BY DEF ThreadType, RpcInv
<1> QED
  BY <1>1, <1>2, <1>4, <1>5, OnlyThread

\* The backoff ends.
LEMMA BackoffInv ==
    ASSUME RpcInv, BackoffExpires
    PROVE  RpcInv'
<1> USE DEF BackoffExpires
<1>1. ClientType' /\ ThreadType' /\ LinkType'
  BY DEF ClientType, ThreadType, LinkType, IsLink, RpcInv
<1>2. ASSUME NEW u \in Thread PROVE ThreadInv(u)'
  BY ThreadKept DEF RpcInv
<1>3. ASSUME NEW d \in Connection PROVE ServerInv(link[d])' /\ CallInv(d, link[d])'
  BY CallKept, ServerKept DEF RpcInv
<1> QED
  BY <1>1, <1>2, <1>3 DEF RpcInv

\* A record with the six fields is one of a connection.
LEMMA LinkShape ==
    ASSUME NEW up \in BOOLEAN, NEW call_mu \in Thread \cup {None}, NEW requests,
           NEW replies, NEW server \in {"none", "read", "run"}, NEW serving
    PROVE  IsLink([up |-> up, call_mu |-> call_mu, requests |-> requests,
                   replies |-> replies, server |-> server, serving |-> serving])
  BY DEF IsLink

\* Only connection c changes, the thread that holds its lock stays.
LEMMA OnlyLink ==
    ASSUME RpcInv, NEW c \in Connection,
           UNCHANGED <<client, old, conn, backoff, pc, handle, call, answer>>,
           link' = [link EXCEPT ![c] = link'[c]],
           link'[c].call_mu = link[c].call_mu,
           IsLink(link'[c]), ServerInv(link'[c]),
           link'[c].up /\ link[c].call_mu = None => Quiet(link'[c]),
           link'[c].up /\ link[c].call_mu # None =>
              \/ AsRequest(link'[c], link[c].call_mu)
              \/ AsServed(link'[c], link[c].call_mu)
              \/ AsReply(link'[c], link[c].call_mu)
              \/ AsLost(link'[c])
    PROVE  RpcInv'
<1>1. ClientType' /\ ThreadType'
  BY DEF ClientType, ThreadType, RpcInv
<1>2. \A d \in Connection : d # c => link'[d] = link[d]
  BY DEF LinkType, RpcInv
<1>3. LinkType'
  <2>1. link' = [d \in Connection |-> link'[d]]
    BY DEF LinkType, RpcInv
  <2>2. ASSUME NEW d \in Connection PROVE IsLink(link[d])'
    BY <1>2 DEF LinkType, RpcInv, IsLink
  <2> QED
    BY <2>1, <2>2 DEF LinkType
<1>4. ASSUME NEW u \in Thread PROVE ThreadInv(u)'
  <2>1. ThreadInv(u)
    BY DEF RpcInv
  <2>2. pc[u] = "wait" => link'[handle[u]].call_mu = link[handle[u]].call_mu
    BY <2>1, <1>2 DEF ThreadInv
  <2> QED
    BY <2>1, <2>2, ThreadKept
<1>5. ASSUME NEW d \in Connection PROVE ServerInv(link[d])' /\ CallInv(d, link[d])'
  <2>1. CASE d = c
    <3>1. ServerInv(link[d])'
      BY <2>1 DEF ServerInv, GoodServing
    <3>2. CallInv(c, link[c])
      BY DEF RpcInv
    <3>3. CallInv(d, link[d])'
      BY <2>1, <3>2 DEF CallInv, Quiet, AsRequest, AsServed, AsReply, AsLost, RequestFrame
    <3> QED
      BY <3>1, <3>3
  <2>2. CASE d # c
    BY <2>2, <1>2, CallKept, ServerKept DEF RpcInv
  <2> QED
    BY <2>1, <2>2
<1> QED
  BY <1>1, <1>3, <1>4, <1>5 DEF RpcInv

\* The server reads a request: on a working connection it is the caller's.
LEMMA ReadsInv ==
    ASSUME RpcInv, NEW c \in Connection, Reads(c)
    PROVE  RpcInv'
<1> DEFINE l == link[c]
           s == Served(Head(link[c].requests))
<1>0. UNCHANGED <<client, old, conn, backoff, pc, handle, call, answer>>
  BY DEF Reads
<1>1. IsLink(l) /\ ServerInv(l) /\ CallInv(c, l)
  BY DEF RpcInv, LinkType
<1>2. link'[c] = [up |-> l.up, call_mu |-> l.call_mu, requests |-> Tail(l.requests),
                  replies |-> l.replies, server |-> "run", serving |-> s]
  BY <1>1 DEF Reads, RpcInv, LinkType, IsLink
<1>3. l.up /\ l.requests # <<>>
  BY <1>1 DEF Reads, ServerInv
<1>4. PICK t \in Thread : l.call_mu = t
  BY <1>1, <1>3 DEF CallInv, Quiet, IsLink
<1>5. l.call_mu # None /\ pc[t] = "wait"
  BY <1>1, <1>4, NoneApart DEF CallInv
<1>6. AsRequest(l, t)
  BY <1>1, <1>3, <1>4, <1>5 DEF CallInv, AsServed, AsReply, AsLost
<1>7. GoodCall(call[t])
  BY <1>5 DEF RpcInv, ThreadInv
<1>8. Head(l.requests) = RequestFrame(t) /\ Tail(l.requests) = <<>>
  BY <1>6, OneFrame DEF AsRequest
<1>9. s = [from |-> t, method |-> call[t].method, meant |-> call[t].request,
           request |-> RequestArrives[call[t].method][call[t].request]]
  BY <1>8 DEF Served, RequestFrame
<1>10. GoodServing(s) /\ s.from = t /\ s.method = call[t].method
  BY <1>9, <1>7 DEF GoodServing, GoodCall
<1> HIDE DEF s, l
<1>15. l.up \in BOOLEAN /\ l.call_mu \in Thread \cup {None}
  BY <1>1 DEF IsLink
<1>11. IsLink(link'[c])
  BY <1>2, <1>15, LinkShape, ZenonT(30)
<1>12. ServerInv(link'[c])
  BY <1>1, <1>2, <1>3, <1>10 DEF ServerInv
<1>13. AsServed(link'[c], t)
  BY <1>2, <1>6, <1>8, <1>10 DEF AsServed, AsRequest
<1>14. link' = [link EXCEPT ![c] = link'[c]]
  BY <1>2 DEF Reads, RpcInv, LinkType
<1>16. link'[c].call_mu = t /\ link[c].call_mu = t
  BY <1>2, <1>4 DEF l
<1> QED
  BY <1>0, <1>16, NoneApart, <1>11, <1>12, <1>13, <1>14, OnlyLink

\* The handler ends: its reply is the one to the call that waits for it.
LEMMA AnswersInv ==
    ASSUME RpcInv, NEW c \in Connection, NEW error \in BOOLEAN, NEW reply,
           Answers(c, error, reply),
           ~error => reply \in Replies[link[c].serving.method]
    PROVE  RpcInv'
<1> DEFINE l == link[c]
           r == ReplyFrame(link[c].serving, error, reply)
           out == IF Closed(c) THEN l.replies ELSE Sent(l, l.replies, r)
<1>0. UNCHANGED <<client, old, conn, backoff, pc, handle, call, answer>>
  BY DEF Answers
<1>1. IsLink(l) /\ ServerInv(l) /\ CallInv(c, l)
  BY DEF RpcInv, LinkType
<1>2. link'[c] = [up |-> l.up, call_mu |-> l.call_mu, requests |-> l.requests,
                  replies |-> out,
                  server |-> IF l.up THEN "read" ELSE "none", serving |-> None]
  BY <1>1 DEF Answers, RpcInv, LinkType, IsLink
<1>3. IsLink(link'[c])
  <2>1. l.up \in BOOLEAN /\ l.call_mu \in Thread \cup {None}
    BY <1>1 DEF IsLink
  <2>2. (IF l.up THEN "read" ELSE "none") \in {"none", "read", "run"}
    OBVIOUS
  <2> HIDE DEF l, out
  <2> QED
    BY <1>2, <2>1, <2>2, LinkShape
<1>4. ~l.up => out = l.replies
  BY DEF Sent
<1>5. ServerInv(link'[c])
  BY <1>1, <1>2, <1>4 DEF ServerInv, IsLink
<1>6. link' = [link EXCEPT ![c] = link'[c]]
  BY <1>2 DEF Answers, RpcInv, LinkType
<1>7. l.up => l.call_mu # None
  BY <1>1 DEF Answers, CallInv, Quiet
<1>8. l.up => AsReply(link'[c], l.call_mu)
  <2> SUFFICES ASSUME l.up PROVE AsReply(link'[c], l.call_mu)
    OBVIOUS
  <2>1. PICK t \in Thread : l.call_mu = t
    BY <1>7, <1>1 DEF IsLink
  <2>2. AsServed(l, t) /\ handle[t] = c
    BY <1>1, <1>7, <2>1 DEF Answers, CallInv, AsRequest, AsReply, AsLost
  <2>3. ~Closed(c)
    BY <2>2 DEF Closed
  <2>4. out = Append(<<>>, r)
    BY <2>2, <2>3 DEF Sent, AsServed
  <2>5. out = <<r>>
    BY <2>4, OneFrame
  <2>6. r = [to |-> t, method |-> call[t].method, meant |-> reply, error |-> error]
    BY <2>2 DEF ReplyFrame, AsServed
  <2>7. r.to = t /\ r.method = call[t].method /\ r.error = error /\ r.meant = reply
    BY <2>6
  <2>8. ~error => reply \in Replies[call[t].method]
    BY <2>2 DEF AsServed
  <2> HIDE DEF r, out
  <2>10. l.requests = <<>>
    BY <2>2 DEF AsServed
  <2> HIDE DEF l
  <2>9. link'[c].requests = <<>> /\ link'[c].server = "read" /\ link'[c].replies = <<r>>
    BY <1>2, <2>10, <2>5
  <2> QED
    BY <2>1, <2>7, <2>8, <2>9 DEF AsReply
<1>9. link'[c].up = l.up /\ link'[c].call_mu = l.call_mu
  BY <1>2
<1> HIDE DEF out, r
<1> QED
  BY <1>0, <1>9, <1>3, <1>5, <1>6, <1>7, <1>8, OnlyLink

\* The handler's outcome, with a reply or with an error.
LEMMA HandledInv ==
    ASSUME RpcInv, NEW c \in Connection, Handled(c)
    PROVE  RpcInv'
<1>1. CASE \E reply \in Replies[link[c].serving.method] : Answers(c, FALSE, reply)
  BY <1>1, AnswersInv
<1>2. CASE Answers(c, TRUE, None)
  BY <1>2, AnswersInv
<1> QED
  BY <1>1, <1>2 DEF Handled

\* The server's thread ends with its connection.
LEMMA EndsInv ==
    ASSUME RpcInv, NEW c \in Connection, Ends(c)
    PROVE  RpcInv'
<1> DEFINE l == link[c]
<1>0. UNCHANGED <<client, old, conn, backoff, pc, handle, call, answer>>
  BY DEF Ends
<1>1. IsLink(l) /\ ServerInv(l) /\ CallInv(c, l)
  BY DEF RpcInv, LinkType
<1>2. link'[c] = [up |-> FALSE, call_mu |-> l.call_mu, requests |-> l.requests,
                  replies |-> l.replies, server |-> "none", serving |-> l.serving]
  BY <1>1 DEF Ends, RpcInv, LinkType, IsLink
<1>3. l.requests = <<>> /\ l.replies = <<>>
  <2>1. CASE ~l.up
    BY <2>1, <1>1 DEF ServerInv
  <2>2. CASE l.up
    <3>1. Closed(c)
      BY <2>2 DEF Ends
    <3>2. l.call_mu = None
      BY <1>1, <3>1 DEF CallInv, Closed, IsLink
    <3> QED
      BY <1>1, <2>2, <3>2 DEF CallInv, Quiet
  <2> QED
    BY <2>1, <2>2
<1>4. IsLink(link'[c])
  <2>1. l.call_mu \in Thread \cup {None}
    BY <1>1 DEF IsLink
  <2> QED
    BY <1>2, <2>1, LinkShape
<1>5. ServerInv(link'[c])
  BY <1>1, <1>2, <1>3 DEF Ends, ServerInv
<1>6. link' = [link EXCEPT ![c] = link'[c]]
  BY <1>2 DEF Ends, RpcInv, LinkType
<1>7. ~link'[c].up /\ link'[c].call_mu = l.call_mu
  BY <1>2
<1> QED
  BY <1>0, <1>4, <1>5, <1>6, <1>7, OnlyLink

\* The connection breaks.
LEMMA BreaksInv ==
    ASSUME RpcInv, NEW c \in Connection, Breaks(c)
    PROVE  RpcInv'
<1> DEFINE l == link[c]
<1>0. UNCHANGED <<client, old, conn, backoff, pc, handle, call, answer>>
  BY DEF Breaks
<1>1. IsLink(l) /\ ServerInv(l)
  BY DEF RpcInv, LinkType
<1>2. link'[c] = [up |-> FALSE, call_mu |-> l.call_mu, requests |-> <<>>,
                  replies |-> <<>>, server |-> l.server, serving |-> l.serving]
  <2>1. link'[c] = Dead(l)
    BY DEF Breaks, RpcInv, LinkType
  <2> QED
    BY <1>1, <2>1 DEF Dead
<1>4. IsLink(link'[c])
  <2>1. l.call_mu \in Thread \cup {None} /\ l.server \in {"none", "read", "run"}
    BY <1>1 DEF IsLink
  <2> QED
    BY <1>2, <2>1, LinkShape
<1>5. ServerInv(link'[c])
  BY <1>1, <1>2 DEF ServerInv
<1>6. link' = [link EXCEPT ![c] = link'[c]]
  BY <1>2 DEF Breaks, RpcInv, LinkType
<1>7. ~link'[c].up /\ link'[c].call_mu = l.call_mu
  BY <1>2
<1> QED
  BY <1>0, <1>4, <1>5, <1>6, <1>7, OnlyLink

\* The server's thread ends, the connection stays.
LEMMA ThreadEndsInv ==
    ASSUME RpcInv, NEW c \in Connection, ThreadEnds(c)
    PROVE  RpcInv'
<1> DEFINE l == link[c]
<1>0. UNCHANGED <<client, old, conn, backoff, pc, handle, call, answer>> /\ l.up
  BY DEF ThreadEnds
<1>1. IsLink(l) /\ ServerInv(l) /\ CallInv(c, l)
  BY DEF RpcInv, LinkType
<1>2. link'[c] = [up |-> l.up, call_mu |-> l.call_mu, requests |-> l.requests,
                  replies |-> l.replies, server |-> "none", serving |-> None]
  BY <1>1 DEF ThreadEnds, RpcInv, LinkType, IsLink
<1>3. IsLink(link'[c])
  <2>1. l.up \in BOOLEAN /\ l.call_mu \in Thread \cup {None}
    BY <1>1 DEF IsLink
  <2> HIDE DEF l
  <2> QED
    BY <1>2, <2>1, LinkShape
<1>4. /\ link'[c].up = l.up /\ link'[c].call_mu = l.call_mu
      /\ link'[c].requests = l.requests /\ link'[c].replies = l.replies
      /\ link'[c].server = "none" /\ link'[c].serving = None
  BY <1>2
<1>5. ServerInv(link'[c])
  BY <1>0, <1>4 DEF ServerInv
<1>6. link' = [link EXCEPT ![c] = link'[c]]
  BY <1>2 DEF ThreadEnds, RpcInv, LinkType
<1>7. l.call_mu = None => Quiet(link'[c])
  BY <1>0, <1>1, <1>4 DEF CallInv, Quiet
<1>8. l.call_mu # None =>
         AsRequest(link'[c], l.call_mu) \/ AsReply(link'[c], l.call_mu) \/ AsLost(link'[c])
  BY <1>0, <1>1, <1>4 DEF CallInv, AsRequest, AsServed, AsReply, AsLost
<1> QED
  BY <1>0, <1>3, <1>4, <1>5, <1>6, <1>7, <1>8, OnlyLink

\* The server's process dies.
LEMMA CrashesInv ==
    ASSUME RpcInv, Crashes
    PROVE  RpcInv'
<1> USE DEF Crashes
<1>1. ClientType' /\ ThreadType'
  BY DEF ClientType, ThreadType, RpcInv
<1>2. ASSUME NEW c \in Connection
      PROVE  link'[c] = [up |-> FALSE, call_mu |-> link[c].call_mu, requests |-> <<>>,
                         replies |-> <<>>, server |-> "none", serving |-> None]
  <2>1. IsLink(link[c])
    BY DEF RpcInv, LinkType
  <2>2. PICK m : m = Dead(link[c])
    OBVIOUS
  <2>3. m = [up |-> FALSE, call_mu |-> link[c].call_mu, requests |-> <<>>,
             replies |-> <<>>, server |-> link[c].server, serving |-> link[c].serving]
    BY <2>1, <2>2 DEF Dead
  <2>4. link'[c] = [m EXCEPT !.server = "none", !.serving = None]
    BY <2>2
  <2> QED
    BY <2>3, <2>4
<1>3. ASSUME NEW c \in Connection PROVE IsLink(link[c])'
  <2>1. link[c].call_mu \in Thread \cup {None}
    BY DEF RpcInv, LinkType, IsLink
  <2> QED
    BY <1>2, <2>1 DEF IsLink
<1>4. LinkType'
  <2>1. link' = [d \in Connection |-> link'[d]]
    BY DEF LinkType, RpcInv
  <2> QED
    BY <1>3, <2>1 DEF LinkType
<1>5. ASSUME NEW u \in Thread PROVE ThreadInv(u)'
  <2>1. ThreadInv(u)
    BY DEF RpcInv
  <2>3. pc[u] = "wait" => handle[u] \in Connection
    BY <2>1 DEF ThreadInv
  <2>4. ASSUME NEW c \in Connection
        PROVE  link'[c].call_mu = link[c].call_mu
    <3>1. link'[c] = [up |-> FALSE, call_mu |-> link[c].call_mu, requests |-> <<>>,
                      replies |-> <<>>, server |-> "none", serving |-> None]
      BY <1>2
    <3>2. PICK mu, l : mu = link[c].call_mu /\ l = link'[c]
      OBVIOUS
    <3>3. l = [up |-> FALSE, call_mu |-> mu, requests |-> <<>>,
               replies |-> <<>>, server |-> "none", serving |-> None]
      BY <3>1, <3>2
    <3>4. l.call_mu = mu
      BY <3>3
    <3>. QED  BY <3>2, <3>4
  <2>2. pc[u] = "wait" => link'[handle[u]].call_mu = link[handle[u]].call_mu
    BY <2>3, <2>4
  <2> QED
    BY <2>1, <2>2, ThreadKept
<1>6. ASSUME NEW d \in Connection PROVE ServerInv(link[d])' /\ CallInv(d, link[d])'
  <2>1. CallInv(d, link[d])
    BY DEF RpcInv
  <2>2. ServerInv(link[d])'
    BY <1>2 DEF ServerInv
  <2>3. CallInv(d, link[d])'
    BY <1>2, <2>1, ZenonT(60) DEF CallInv
  <2> QED
    BY <2>2, <2>3
<1> QED
  BY <1>1, <1>4, <1>5, <1>6 DEF RpcInv

\* A thread and the connection it holds change; nobody else waits on that.
LEMMA ThreadAndLink ==
    ASSUME RpcInv, NEW t \in Thread, NEW c \in Connection, handle[t] = c,
           link[c].call_mu \in {None, t},
           UNCHANGED <<client, old, conn, backoff, call>>,
           link' = [link EXCEPT ![c] = link'[c]],
           \A u \in Thread : u # t =>
              pc'[u] = pc[u] /\ handle'[u] = handle[u] /\ answer'[u] = answer[u],
           IsLink(link'[c]), ServerInv(link'[c]), CallInv(c, link[c])',
           ThreadType', ThreadInv(t)'
    PROVE  RpcInv'
<1>1. ClientType'
  BY DEF ClientType, RpcInv
<1>2. \A d \in Connection : d # c => link'[d] = link[d]
  BY DEF LinkType, RpcInv
<1>3. LinkType'
  <2>1. link' = [d \in Connection |-> link'[d]]
    BY DEF LinkType, RpcInv
  <2>2. ASSUME NEW d \in Connection PROVE IsLink(link[d])'
    BY <1>2 DEF LinkType, RpcInv, IsLink
  <2> QED
    BY <2>1, <2>2 DEF LinkType
<1>4. ASSUME NEW u \in Thread, u # t PROVE ThreadInv(u)'
  <2>1. ThreadInv(u)
    BY DEF RpcInv
  <2>2. pc[u] = "wait" => handle[u] \in Connection /\ link[handle[u]].call_mu = u
    BY <2>1 DEF ThreadInv
  <2>3. pc[u] = "wait" => handle[u] # c
    BY <1>4, <2>2, NoneApart
  <2>4. pc[u] = "wait" => link'[handle[u]].call_mu = link[handle[u]].call_mu
    BY <2>2, <2>3, <1>2
  <2> QED
    BY <1>4, <2>1, <2>4, ThreadKept
<1>5. ASSUME NEW d \in Connection PROVE ServerInv(link[d])' /\ CallInv(d, link[d])'
  <2>1. CASE d = c
    BY <2>1 DEF ServerInv, GoodServing
  <2>2. CASE d # c
    <3>1. ServerInv(link[d]) /\ CallInv(d, link[d]) /\ link'[d] = link[d]
      BY <2>2, <1>2 DEF RpcInv
    <3>2. link[d].call_mu \in Thread \cup {None}
      BY DEF RpcInv, LinkType, IsLink
    <3>3. link[d].call_mu # t
      BY <3>1, <2>2, NoneApart DEF CallInv
    <3>4. CallInv(d, link[d])'
      BY <3>1, <3>2, <3>3, CallKept
    <3> QED
      BY <3>1, <3>4, ServerKept
  <2> QED
    BY <2>1, <2>2
<1> QED
  BY <1>1, <1>3, <1>4, <1>5 DEF RpcInv

\* The request is written, on a connection nobody uses.
LEMMA InvokeInv ==
    ASSUME RpcInv, NEW t \in Thread, Invoke(t)
    PROVE  RpcInv'
<1> DEFINE c == handle[t]
           l == link[c]
           out == Sent(l, l.requests, RequestFrame(t))
<1>0. /\ UNCHANGED <<client, old, conn, backoff, handle, call, answer>>
      /\ pc[t] = "invoke"
      /\ l.call_mu = None
  BY DEF Invoke, LockFree
<1>1. ThreadInv(t) /\ c \in Connection
  BY <1>0 DEF RpcInv, ThreadInv
<1>2. IsLink(l) /\ ServerInv(l) /\ CallInv(c, l)
  BY <1>1 DEF RpcInv, LinkType
<1>3. link'[c] = [up |-> l.up, call_mu |-> t, requests |-> out, replies |-> l.replies,
                  server |-> l.server, serving |-> l.serving]
  BY <1>1, <1>2 DEF Invoke, RpcInv, LinkType, IsLink
<1>4. link' = [link EXCEPT ![c] = link'[c]]
  BY <1>1, <1>3 DEF Invoke, RpcInv, LinkType
<1>5. pc'[t] = "wait" /\ ThreadType' /\ \A u \in Thread : u # t => pc'[u] = pc[u]
  BY <1>0 DEF Invoke, RpcInv, ThreadType
<1>6. IsLink(link'[c])
  <2>1. l.up \in BOOLEAN /\ t \in Thread \cup {None} /\ l.server \in {"none", "read", "run"}
    BY <1>2 DEF IsLink
  <2> HIDE DEF c, l, out
  <2> QED
    BY <1>3, <2>1, LinkShape
<1>7. ~l.up => out = l.requests
  BY DEF Sent
<1>8. l.up => out = <<RequestFrame(t)>> /\ l.replies = <<>> /\ l.server # "run"
  BY <1>0, <1>2, OneFrame DEF CallInv, Quiet, Sent
<1>9. ServerInv(link'[c])
  <2> HIDE DEF c, l, out
  <2> QED
    BY <1>2, <1>3, <1>7 DEF ServerInv
<1>10. CallInv(c, link[c])'
  <2>1. RequestFrame(t)' = RequestFrame(t)
    BY <1>0 DEF RequestFrame
  <2>2. link'[c].call_mu = t /\ link'[c].up = l.up
    BY <1>3
  <2>3. l.up => link'[c].requests = <<RequestFrame(t)>> /\ link'[c].replies = <<>>
                /\ link'[c].server # "run"
    BY <1>3, <1>8
  <2>4. c' = c
    BY <1>0
  <2> HIDE DEF l, out
  <2> QED
    BY <1>0, <1>5, <2>1, <2>2, <2>3, <2>4, NoneApart DEF CallInv, AsRequest
<1>11. ThreadInv(t)'
  <2>1. link'[c].call_mu = t
    BY <1>3
  <2> QED
    BY <1>0, <1>1, <1>5, <2>1 DEF ThreadInv, GoodCall
<1> QED
  BY <1>0, <1>1, <1>4, <1>5, <1>6, <1>9, <1>10, <1>11, ThreadAndLink

\* The reply is read: it is the one frame the connection carries.
LEMMA ReceiveInv ==
    ASSUME RpcInv, NEW t \in Thread, Receive(t)
    PROVE  RpcInv'
<1> DEFINE c == handle[t]
           l == link[c]
           r == Head(l.replies)
<1>0. /\ UNCHANGED <<client, old, conn, backoff, call>>
      /\ pc[t] = "wait"
      /\ l.replies # <<>>
  BY DEF Receive
<1>1. ThreadInv(t) /\ c \in Connection /\ l.call_mu = t
  BY <1>0 DEF RpcInv, ThreadInv
<1>2. IsLink(l) /\ ServerInv(l) /\ CallInv(c, l)
  BY <1>1 DEF RpcInv, LinkType
<1>3. link'[c] = [up |-> l.up, call_mu |-> None, requests |-> l.requests,
                  replies |-> Tail(l.replies), server |-> l.server, serving |-> l.serving]
  <2>1. PICK m : m = Unlocked(l)
    OBVIOUS
  <2>2. m = [up |-> l.up, call_mu |-> None, requests |-> l.requests,
             replies |-> l.replies, server |-> l.server, serving |-> l.serving]
    BY <1>2, <2>1 DEF Unlocked, IsLink
  <2>3. link'[c] = [m EXCEPT !.replies = Tail(l.replies)]
    <3>1. link' = [link EXCEPT ![c] = [m EXCEPT !.replies = Tail(l.replies)]]
      BY <2>1 DEF Receive
    <3> QED
      BY <1>1, <3>1 DEF RpcInv, LinkType
  <2> QED
    BY <2>2, <2>3
<1>4. link' = [link EXCEPT ![c] = link'[c]]
  BY <1>1, <1>3 DEF Receive, RpcInv, LinkType
<1>5. l.up /\ AsReply(l, t)
  BY <1>0, <1>1, <1>2, NoneApart DEF ServerInv, CallInv, AsRequest, AsServed, AsLost
<1>6. /\ l.requests = <<>> /\ l.server # "run" /\ Tail(l.replies) = <<>>
      /\ r.to = t /\ r.method = call[t].method /\ r.error \in BOOLEAN
      /\ ~r.error => r.meant \in Replies[call[t].method]
  <2>1. PICK x : /\ l.replies = <<x>>
                 /\ x.to = t
                 /\ x.method = call[t].method
                 /\ x.error \in BOOLEAN
                 /\ ~x.error => x.meant \in Replies[call[t].method]
    BY <1>5 DEF AsReply
  <2>2. r = x /\ Tail(l.replies) = <<>>
    BY <2>1, OneFrame
  <2> QED
    BY <2>1, <2>2, <1>5 DEF AsReply
<1>7. IsLink(link'[c])
  <2>1. l.up \in BOOLEAN /\ None \in Thread \cup {None} /\ l.server \in {"none", "read", "run"}
    BY <1>2 DEF IsLink
  <2> HIDE DEF c, l
  <2> QED
    BY <1>3, <2>1, LinkShape, ZenonT(60)
<1>8. ServerInv(link'[c])
  <2> HIDE DEF c, l, r
  <2> QED
    BY <1>2, <1>3, <1>5 DEF ServerInv
<1>9. link'[c].call_mu = None /\ Quiet(link'[c])
  <2> HIDE DEF c, l, r
  <2> QED
    BY <1>3, <1>6 DEF Quiet
<1>10. PICK d \in Connection : d = handle[t]
  BY <1>1
<1>11. CallInv(d, link[d])'
  BY <1>9, <1>10 DEF CallInv, Quiet
<1>12. /\ pc'[t] = IF r.error THEN "failed" ELSE "done"
       /\ \A u \in Thread : u # t => pc'[u] = pc[u]
  BY DEF Receive, RpcInv, ThreadType
<1>13. CASE r.error
  <2>1. handle' = handle /\ answer' = answer
    BY <1>13 DEF Receive
  <2>2. ThreadType'
    BY <1>0, <2>1 DEF Receive, RpcInv, ThreadType
  <2>3. ThreadInv(t)'
    BY <1>0, <1>1, <1>12, <1>13, <2>1 DEF ThreadInv, GoodCall
  <2> QED
    BY <1>0, <1>1, <1>4, <1>7, <1>8, <1>10, <1>11, <1>12, <2>1, <2>2, <2>3, ThreadAndLink
<1>14. CASE ~r.error
  <2>1. /\ handle' = [handle EXCEPT ![t] = None]
        /\ answer' = [answer EXCEPT ![t] =
              [to |-> r.to, method |-> r.method, meant |-> r.meant,
               reply |-> ReplyArrives[old][call[t].method][r.meant]]]
    BY <1>14 DEF Receive
  <2>2. ThreadType'
    BY <1>0, <2>1 DEF Receive, RpcInv, ThreadType
  <2>3. /\ handle'[t] = None
        /\ answer'[t] = [to |-> r.to, method |-> r.method, meant |-> r.meant,
                         reply |-> ReplyArrives[old][call[t].method][r.meant]]
        /\ \A u \in Thread : u # t => handle'[u] = handle[u] /\ answer'[u] = answer[u]
    BY <2>1 DEF RpcInv, ThreadType
  <2>4. GoodAnswer(t)'
    <3> HIDE DEF r
    <3> QED
      BY <1>0, <1>6, <1>14, <2>3 DEF GoodAnswer
  <2>5. ThreadInv(t)'
    BY <1>0, <1>1, <1>12, <1>14, <2>3, <2>4 DEF ThreadInv, GoodCall
  <2> QED
    BY <1>0, <1>1, <1>4, <1>7, <1>8, <1>10, <1>11, <1>12, <2>2, <2>3, <2>5, ThreadAndLink
<1> QED
  BY <1>13, <1>14

\* The caller gives up waiting, and the connection is dead.
LEMMA InvokeFailsInv ==
    ASSUME ~LateReplies, RpcInv, NEW t \in Thread, InvokeFails(t)
    PROVE  RpcInv'
<1> DEFINE c == handle[t]
           l == link[c]
<1>0. /\ UNCHANGED <<client, old, conn, backoff, handle, call, answer>>
      /\ pc[t] = "wait"
  BY DEF InvokeFails
<1>1. ThreadInv(t) /\ c \in Connection /\ l.call_mu = t
  BY <1>0 DEF RpcInv, ThreadInv
<1>2. IsLink(l) /\ ServerInv(l)
  BY <1>1 DEF RpcInv, LinkType
<1>3. link'[c] = [up |-> FALSE, call_mu |-> None, requests |-> <<>>,
                  replies |-> <<>>, server |-> l.server, serving |-> l.serving]
  <2>1. PICK m : m = Dead(l)
    OBVIOUS
  <2>2. m = [up |-> FALSE, call_mu |-> l.call_mu, requests |-> <<>>,
             replies |-> <<>>, server |-> l.server, serving |-> l.serving]
    BY <1>2, <2>1 DEF Dead
  <2>3. link'[c] = [m EXCEPT !.call_mu = None]
    BY <1>1, <2>1 DEF InvokeFails, Unlocked, RpcInv, LinkType
  <2> QED
    BY <2>2, <2>3
<1>4. link' = [link EXCEPT ![c] = link'[c]]
  BY <1>1, <1>3 DEF InvokeFails, RpcInv, LinkType
<1>5. pc'[t] = "failed" /\ ThreadType' /\ \A u \in Thread : u # t => pc'[u] = pc[u]
  BY <1>0 DEF InvokeFails, RpcInv, ThreadType
<1>6. IsLink(link'[c])
  <2>1. FALSE \in BOOLEAN /\ None \in Thread \cup {None} /\ l.server \in {"none", "read", "run"}
    BY <1>2 DEF IsLink
  <2> HIDE DEF c, l
  <2> QED
    BY <1>3, <2>1, LinkShape
<1>7. ServerInv(link'[c])
  <2> HIDE DEF c, l
  <2> QED
    BY <1>2, <1>3 DEF ServerInv
<1>8. PICK d \in Connection : d = handle[t]
  BY <1>1
<1>9. CallInv(d, link[d])'
  BY <1>0, <1>3, <1>8 DEF CallInv
<1>10. ThreadInv(t)'
  BY <1>0, <1>1, <1>5 DEF ThreadInv, GoodCall
<1> QED
  BY <1>0, <1>1, <1>4, <1>5, <1>6, <1>7, <1>8, <1>9, <1>10, ThreadAndLink

\* Every step keeps the invariant.
LEMMA RpcNext ==
    ASSUME ~LateReplies, RpcInv, [Next]_vars
    PROVE  RpcInv'
<1>1. ASSUME NEW t \in Thread, ThreadStep(t) PROVE RpcInv'
  BY <1>1, StartsInv, DialOkInv, DialFailsInv, InvokeInv, ReceiveInv, ReturnsInv,
     InvokeFailsInv, GiveUpInv DEF ThreadStep
<1>2. ASSUME NEW c \in Connection, ServerStep(c) \/ ThreadEnds(c) \/ Breaks(c) PROVE RpcInv'
  BY <1>2, ReadsInv, HandledInv, EndsInv, ThreadEndsInv, BreaksInv DEF ServerStep
<1>6. ASSUME NEW t \in Thread, RunAgain(t) PROVE RpcInv'
  BY <1>6, RunAgainInv
<1>3. CASE BackoffExpires
  BY <1>3, BackoffInv
<1>4. CASE Crashes
  BY <1>4, CrashesInv
<1>5. CASE UNCHANGED vars
  <2>1. ClientType' /\ ThreadType' /\ LinkType'
    BY <1>5 DEF ClientType, ThreadType, LinkType, IsLink, RpcInv, vars
  <2>2. ASSUME NEW u \in Thread PROVE ThreadInv(u)'
    BY <1>5, ThreadKept DEF RpcInv, vars
  <2>3. ASSUME NEW d \in Connection PROVE ServerInv(link[d])' /\ CallInv(d, link[d])'
    BY <1>5, CallKept, ServerKept DEF RpcInv, vars
  <2> QED
    BY <2>1, <2>2, <2>3 DEF RpcInv
<1> QED
  BY <1>1, <1>2, <1>3, <1>4, <1>5, <1>6 DEF Next

\* The invariant says what the run checks, the tables being right.
LEMMA RpcArrives ==
    ASSUME TablesRight, RpcInv
    PROVE  MessagesArrive
<1>1. ASSUME NEW c \in Connection, link[c].serving # None
      PROVE  link[c].serving.request = link[c].serving.meant
  <2>1. GoodServing(link[c].serving)
    BY <1>1 DEF RpcInv, ServerInv
  <2> QED
    BY <2>1 DEF GoodServing, TablesRight
<1>2. ASSUME NEW t \in Thread, answer[t] # None
      PROVE  /\ answer[t].to = t
             /\ answer[t].method = call[t].method
             /\ \A f \in DOMAIN answer[t].reply :
                  answer[t].reply[f] = IF old /\ f \in NewFields THEN 0 ELSE answer[t].meant[f]
  <2>1. ThreadInv(t)
    BY DEF RpcInv
  <2>2. GoodAnswer(t) /\ call[t].method \in DOMAIN Method
    BY <1>2, <2>1 DEF ThreadInv, GoodCall
  <2>3. old \in BOOLEAN
    BY DEF RpcInv, ClientType
  <2>4. PICK m, g, r : m = call[t].method /\ g = answer[t].meant /\ r = answer[t].reply
    OBVIOUS
  <2>5. /\ answer[t].to = t /\ answer[t].method = call[t].method
        /\ m \in DOMAIN Method /\ g \in Replies[m] /\ r = ReplyArrives[old][m][g]
    BY <2>2, <2>4 DEF GoodAnswer
  <2>6. \A f \in DOMAIN r : r[f] = IF old /\ f \in NewFields THEN 0 ELSE g[f]
    BY <2>3, <2>5 DEF TablesRight
  <2> QED
    BY <2>4, <2>5, <2>6
<1> QED
  BY <1>1, <1>2 DEF MessagesArrive

\* The shared connection carries one call at a time, for every set of threads
\* and connections: a thread that holds call_mu finds on it its own request or
\* the reply to that, and a working connection nobody uses is empty
\* (rpc_invoke, rdma_invoke, serve_rpc_connection, serve_rdma_connection).
THEOREM OneCallAtATime == ~LateReplies => (Spec => []RpcInv)
<1> SUFFICES ASSUME ~LateReplies PROVE Spec => []RpcInv
  OBVIOUS
<1>1. Init => RpcInv
  BY RpcInit
<1>2. RpcInv /\ [Next]_vars => RpcInv'
  BY RpcNext
<1> QED
  BY <1>1, <1>2, PTL DEF Spec

\* Given what the conversions compute (TablesRight, a closed formula), a
\* handler gets the request its caller made and a call returns the reply to
\* that call, whatever the interleaving of threads, breaking connections and
\* dying servers, unless something arrives on a connection after a call on it
\* has passed its time limit.
THEOREM MessagesArriveTheorem == TablesRight /\ ~LateReplies => (Spec => []MessagesArrive)
<1> SUFFICES ASSUME TablesRight, ~LateReplies PROVE Spec => []MessagesArrive
  OBVIOUS
<1>1. RpcInv => MessagesArrive
  BY RpcArrives
<1>2. Spec => []RpcInv
  BY OneCallAtATime
<1> QED
  BY <1>1, <1>2, PTL

\* The variables keep their types, and call_mu is held by the thread that waits
\* on the connection and by no other.
THEOREM RpcTypes == ~LateReplies => (Spec => []TypeOK)
<1> SUFFICES ASSUME ~LateReplies PROVE Spec => []TypeOK
  OBVIOUS
<1>1. RpcInv => TypeOK
  <2> SUFFICES ASSUME RpcInv PROVE TypeOK
    OBVIOUS
  <2>1. /\ conn \in Connection \cup {None}
        /\ backoff \in BOOLEAN
        /\ pc \in [Thread -> {"idle", "dial", "invoke", "wait", "done", "failed", "ended"}]
        /\ handle \in [Thread -> Connection \cup {None}]
    BY DEF RpcInv, ClientType, ThreadType
  <2>2. ASSUME NEW t \in Thread
        PROVE  handle[t] # None <=> pc[t] \in {"invoke", "wait", "failed"}
    BY NoneApart DEF RpcInv, ThreadInv
  <2>3. ASSUME NEW c \in Connection
        PROVE  /\ link[c].server \in {"none", "read", "run"}
               /\ link[c].serving # None => link[c].server = "run"
               /\ \A t \in Thread : link[c].call_mu = t => handle[t] = c /\ pc[t] = "wait"
    BY NoneApart DEF RpcInv, LinkType, IsLink, ServerInv, CallInv
  <2> QED
    BY <2>1, <2>2, <2>3 DEF TypeOK
<1>2. Spec => []RpcInv
  BY OneCallAtATime
<1> QED
  BY <1>1, <1>2, PTL
=============================================================================
