---------------------------- MODULE RpcConnection ----------------------------
(* One RPC client and the connections it holds to one server.              *)
(*                                                                         *)
(* The client is a Raft node's view of one peer (RpcRaftTransport), a      *)
(* node's view of the storage node (RpcBlockCopyClient), or the client     *)
(* program.  Its threads share one cached connection; a call locks the     *)
(* connection (call_mu), writes its request, waits for the reply for a     *)
(* limited time, and on any exception gives the connection up, so that a   *)
(* node's next call dials again; the program ends.  The server has one     *)
(* thread per connection, which reads a request, runs the handler and      *)
(* writes the reply; it may be silent for ever.  TCP and RDMA differ in    *)
(* framing only (raft_wire_codec.cpp, encode_frame and decode_frame): both *)
(* deliver whole frames in order until the connection breaks.              *)
(*                                                                         *)
(* A frame is named by the struct it was made from (meant); what its       *)
(* receiver gets out of it is Decode of Encode of that struct.  It also    *)
(* carries the thread it is for, which is not on the wire.                 *)
EXTENDS WireMessages, FiniteSets

CONSTANTS
    Thread,       \* the client's threads
    FirstThread,  \* the one that may call any method; the others repeat one
    Connection,   \* connections that may exist at a time
    None,         \* no connection, no thread, nothing at hand
    LateReplies   \* may anything arrive on a connection after a call on it has
                  \* passed its time limit?

ASSUME RpcAssumption ==
    /\ FirstThread \in Thread
    /\ None \notin Thread \cup Connection
    /\ LateReplies \in BOOLEAN

VARIABLES
    client,    \* "peer", "storage" or "program"
    old,       \* the server was built before the last fields were added
    conn,      \* peer.conn, conn_ or the program's handle
    backoff,   \* now < peer.next_dial_time
    link,      \* the connections
    pc,        \* where each thread is
    handle,    \* the thread's reference to a connection
    call,      \* the call it makes: the method and the request
    answer     \* what the call returned

vars == <<client, old, conn, backoff, link, pc, handle, call, answer>>

Free == [up |-> FALSE, call_mu |-> None, requests |-> <<>>, replies |-> <<>>,
         server |-> "none", serving |-> None]

Init ==
    /\ client \in {"peer", "storage", "program"}
    /\ old \in IF client = "program" THEN {FALSE} ELSE BOOLEAN
    /\ conn = None
    /\ backoff = FALSE
    /\ link = [c \in Connection |-> Free]
    /\ pc = [t \in Thread |-> "idle"]
    /\ handle = [t \in Thread |-> None]
    /\ call = [t \in Thread |-> None]
    /\ answer = [t \in Thread |-> None]
-----------------------------------------------------------------------------
(* What is sent.  A message has all its fields set, or only the first      *)
(* (a heartbeat without entries; a refusal; an error), or all but the      *)
(* error text.                                                             *)

Full(name, number) ==
    IF name = "entry_metas" THEN <<[term |-> 1, cmd_len |-> 2], [term |-> 1, cmd_len |-> 0]>>
    ELSE IF name \in Repeated THEN <<number, 0>> ELSE number

Unset(name) == IF name \in Repeated THEN <<>> ELSE 0

Sample(struct, set) ==
    [name \in Range(struct) |->
        IF name \in set THEN Full(name, CHOOSE i \in DOMAIN struct : struct[i] = name)
        ELSE Unset(name)]

First(struct) == {struct[i] : i \in DOMAIN struct \cap {1}}

Requests == [m \in DOMAIN Method |->
    LET struct == Method[m].request.struct
    IN  {Sample(struct, First(struct)), Sample(struct, Range(struct))}]

Replies == [m \in DOMAIN Method |->
    LET struct == Method[m].reply.struct
    IN  {Sample(struct, First(struct)), Sample(struct, Range(struct)),
         Sample(struct, Range(struct) \ {"error"})}]

\* Every thread but the first repeats a heartbeat, or a copy.
RequestsOf(t, m) ==
    IF t = FirstThread THEN Requests[m]
    ELSE LET struct == Method[m].request.struct IN {Sample(struct, First(struct))}

Methods(t) ==
    CASE client = "peer" -> IF t = FirstThread THEN {"AppendEntries", "RequestVote"}
                            ELSE {"AppendEntries"}
      [] client = "storage" -> {"WritePBABatch"}
      [] client = "program" -> IF t = FirstThread
                               THEN {m \in DOMAIN Method : m \notin
                                        {"AppendEntries", "RequestVote", "WritePBABatch"}}
                               ELSE {}

\* A server built before the timing fields were added does not write them.
Written(m, isOld) ==
    IF isOld /\ m = "AppendEntries" THEN 7
    ELSE IF isOld /\ m = "WritePBABatch" THEN 2
    ELSE Len(Method[m].reply.writes)

\* What the receiver's struct holds when the sender's was g.
RequestArrives == [m \in DOMAIN Method |->
    LET type == Method[m].request
    IN  [g \in Requests[m] |-> Decode(type, Encode(type, g))]]

ReplyArrives == [isOld \in BOOLEAN |-> [m \in DOMAIN Method |->
    LET type == Method[m].reply
        sent == [type EXCEPT !.writes = SubSeq(@, 1, Written(m, isOld))]
    IN  [g \in Replies[m] |-> Decode(type, Encode(sent, g))]]]
-----------------------------------------------------------------------------
(* The client's side.                                                      *)

\* mu_ guards conn and backoff.  RpcRaftTransport releases it to dial,
\* RpcBlockCopyClient dials with mu_ held.
MuFree == client = "storage" => \A t \in Thread : pc[t] # "dial"

\* The call starts: under mu_ it takes the cached connection, or finds it
\* has to dial.  During the backoff it returns false at once.
Begin(t, m, request) ==
    /\ pc[t] = "idle"
    /\ MuFree
    /\ conn = None => ~backoff
    /\ call' = [call EXCEPT ![t] = [method |-> m, request |-> request]]
    /\ handle' = [handle EXCEPT ![t] = conn]
    /\ pc' = [pc EXCEPT ![t] = IF conn = None THEN "dial" ELSE "invoke"]
    /\ UNCHANGED <<client, old, conn, backoff, link, answer>>

\* The last reference to a connection gone, its socket is closed.
Closed(c) == conn # c /\ \A t \in Thread : handle[t] # c

\* A connection after the dial and the handshake: the server has accepted it
\* and a thread of its own waits for the first request.
Dialed == [Free EXCEPT !.up = TRUE, !.server = "read"]

\* The dial succeeds.  If another thread has connected in the meantime its
\* connection is used and the fresh one closed.
DialOk(t, c) ==
    /\ pc[t] = "dial"
    /\ Closed(c) /\ link[c].server = "none"
    /\ link' = [link EXCEPT ![c] = Dialed]
    /\ conn' = IF conn = None THEN c ELSE conn
    /\ backoff' = IF conn = None THEN FALSE ELSE backoff
    /\ handle' = [handle EXCEPT ![t] = conn']
    /\ pc' = [pc EXCEPT ![t] = "invoke"]
    /\ UNCHANGED <<client, old, call, answer>>

DialFails(t) ==
    /\ pc[t] = "dial"
    /\ backoff' = (client = "peer")
    /\ pc' = [pc EXCEPT ![t] = "idle"]
    /\ call' = [call EXCEPT ![t] = None]
    /\ UNCHANGED <<client, old, conn, link, handle, answer>>

\* kDialBackoffSeconds have passed.
BackoffExpires ==
    /\ backoff
    /\ backoff' = FALSE
    /\ UNCHANGED <<client, old, conn, link, pc, handle, call, answer>>

\* Mutant: the connection is used whoever has it.
LockFreeAlways(c) == TRUE

\* The call_mu of the connection, held while a call is on it.
LockFree(c) == link[c].call_mu = None

\* What is written for a request: the method, and the body behind its length.
RequestFrame(t) == [from |-> t, method |-> call[t].method, meant |-> call[t].request]

\* A whole frame is sent, and lost on a broken connection.
Sent(l, frames, frame) == IF l.up THEN Append(frames, frame) ELSE frames

\* rpc_invoke, rdma_invoke: lock call_mu and write the request.
Invoke(t) ==
    LET c == handle[t]
    IN  /\ pc[t] = "invoke"
        /\ LockFree(c)
        /\ link' = [link EXCEPT ![c].call_mu = t,
                                ![c].requests = Sent(link[c], @, RequestFrame(t))]
        /\ pc' = [pc EXCEPT ![t] = "wait"]
        /\ UNCHANGED <<client, old, conn, backoff, handle, call, answer>>

\* lock_guard: call_mu is released on every way out, exceptions included.
Unlocked(l) == [l EXCEPT !.call_mu = None]

\* The reply is read.  An error in its header is thrown, with call_mu
\* released on the way; the body is read only without one.
Receive(t) ==
    LET c == handle[t]
        reply == Head(link[c].replies)
    IN  /\ pc[t] = "wait"
        /\ link[c].replies # <<>>
        /\ link' = [link EXCEPT ![c] = [Unlocked(link[c]) EXCEPT !.replies = Tail(link[c].replies)]]
        /\ pc' = [pc EXCEPT ![t] = IF reply.error THEN "failed" ELSE "done"]
        /\ IF reply.error
           THEN UNCHANGED <<handle, answer>>
           ELSE /\ handle' = [handle EXCEPT ![t] = None]
                /\ answer' = [answer EXCEPT ![t] =
                        [to |-> reply.to, method |-> reply.method, meant |-> reply.meant,
                         reply |-> ReplyArrives[old][call[t].method][reply.meant]]]
        /\ UNCHANGED <<client, old, conn, backoff, call>>

\* The caller uses the reply; an error a storage server reports in it leaves
\* the connection alone.
Returns(t) ==
    /\ pc[t] = "done"
    /\ pc' = [pc EXCEPT ![t] = "idle"]
    /\ call' = [call EXCEPT ![t] = None]
    /\ answer' = [answer EXCEPT ![t] = None]
    /\ UNCHANGED <<client, old, conn, backoff, link, handle>>

\* A connection on which nothing arrives any more.
Dead(l) == [up |-> FALSE, call_mu |-> l.call_mu, requests |-> <<>>, replies |-> <<>>,
            server |-> l.server, serving |-> l.serving]

\* Mutant: no time limit; the call fails only with its connection.
InvokeFailsBroken(t) ==
    LET c == handle[t]
    IN  /\ pc[t] = "wait"
        /\ ~link[c].up
        /\ link' = [link EXCEPT ![c] = Unlocked(@)]
        /\ pc' = [pc EXCEPT ![t] = "failed"]
        /\ UNCHANGED <<client, old, conn, backoff, handle, call, answer>>

\* Writing or reading fails, or the time limit passes (SO_RCVTIMEO,
\* kCallTimeoutMs), which may happen to a call at any time: an exception, with
\* call_mu released on the way.
InvokeFails(t) ==
    LET c == handle[t]
    IN  /\ pc[t] = "wait"
        /\ link' = [link EXCEPT ![c] = IF LateReplies THEN Unlocked(@) ELSE Unlocked(Dead(@))]
        /\ pc' = [pc EXCEPT ![t] = "failed"]
        /\ UNCHANGED <<client, old, conn, backoff, handle, call, answer>>

\* Mutant: a failed connection stays cached.
KeptFailed(c) == conn

\* The handler of the exception: under mu_ the cached connection is given
\* up, unless it is another one by now.
Kept(c) == IF conn = c THEN None ELSE conn

\* Where the exception leaves the caller.  A node goes on; find_leader goes on
\* to the next address; any other call of the program ends it.
AfterFailure(t) ==
    CASE client # "program" -> {"idle"}
      [] client = "program" /\ call[t].method = "ClientApply" -> {"idle", "ended"}
      [] OTHER -> {"ended"}

GiveUp(t) ==
    /\ pc[t] = "failed"
    /\ MuFree
    /\ conn' = Kept(handle[t])
    /\ handle' = [handle EXCEPT ![t] = None]
    /\ \E next \in AfterFailure(t) : pc' = [pc EXCEPT ![t] = next]
    /\ call' = [call EXCEPT ![t] = None]
    /\ UNCHANGED <<client, old, backoff, link, answer>>

\* The client program is run again.
RunAgain(t) ==
    /\ pc[t] = "ended"
    /\ pc' = [pc EXCEPT ![t] = "idle"]
    /\ UNCHANGED <<client, old, conn, backoff, link, handle, call, answer>>
-----------------------------------------------------------------------------
(* The server's side: serve_rpc_connection, serve_rdma_connection.         *)

\* The frame is taken apart again and its body becomes the handler's request.
Served(frame) ==
    [from |-> frame.from, method |-> frame.method, meant |-> frame.meant,
     request |-> RequestArrives[frame.method][frame.meant]]

Reads(c) ==
    /\ link[c].server = "read"
    /\ link[c].requests # <<>>
    /\ link' = [link EXCEPT ![c].requests = Tail(@), ![c].server = "run",
                            ![c].serving = Served(Head(link[c].requests))]
    /\ UNCHANGED <<client, old, conn, backoff, pc, handle, call, answer>>

\* What is written for a reply: an error text, and a body if there is none.
ReplyFrame(s, error, reply) ==
    [to |-> s.from, method |-> s.method, meant |-> reply, error |-> error]

\* The handler has run; write_response fails on a broken connection, which
\* ends the server's thread.
Answers(c, error, reply) ==
    /\ link[c].server = "run"
    /\ link' = [link EXCEPT ![c].serving = None,
            ![c].server = IF link[c].up THEN "read" ELSE "none",
            ![c].replies = IF Closed(c) THEN @
                           ELSE Sent(link[c], @, ReplyFrame(link[c].serving, error, reply))]
    /\ UNCHANGED <<client, old, conn, backoff, pc, handle, call, answer>>

Handled(c) ==
    /\ link[c].server = "run"
    /\ \/ \E reply \in Replies[link[c].serving.method] :
            Answers(c, FALSE, reply)
       \/ Answers(c, TRUE, None)  \* the handler threw

\* The connection has ended, or the client has closed it and what it had
\* written is read.
Ends(c) ==
    /\ link[c].server = "read"
    /\ ~link[c].up \/ (Closed(c) /\ link[c].requests = <<>>)
    /\ link' = [link EXCEPT ![c] = [@ EXCEPT !.server = "none", !.up = FALSE]]
    /\ UNCHANGED <<client, old, conn, backoff, pc, handle, call, answer>>

\* An exception ends the server's thread (a message over kRdmaMaxMessageBytes,
\* a failed post) and the connection stays up, with nobody to read it: on RDMA
\* it is torn down with the listener only.
ThreadEnds(c) ==
    /\ link[c].up
    /\ link[c].server # "none"
    /\ link' = [link EXCEPT ![c].server = "none", ![c].serving = None]
    /\ UNCHANGED <<client, old, conn, backoff, pc, handle, call, answer>>

\* The connection breaks: what is on its way is lost.
Breaks(c) ==
    /\ link[c].up
    /\ link' = [link EXCEPT ![c] = Dead(@)]
    /\ UNCHANGED <<client, old, conn, backoff, pc, handle, call, answer>>

\* The server's process dies: every connection breaks and what its handlers
\* were doing ends with it.
Crashes ==
    /\ \E c \in Connection : link[c].server # "none"
    /\ link' = [c \in Connection |->
            [Dead(link[c]) EXCEPT !.server = "none", !.serving = None]]
    /\ UNCHANGED <<client, old, conn, backoff, pc, handle, call, answer>>
-----------------------------------------------------------------------------
Starts(t) ==
    /\ pc[t] = "idle"
    /\ \E m \in Methods(t) : \E request \in RequestsOf(t, m) : Begin(t, m, request)

ThreadStep(t) ==
    \/ Starts(t)
    \/ \E c \in Connection : DialOk(t, c)
    \/ DialFails(t)
    \/ Invoke(t)
    \/ Receive(t)
    \/ Returns(t)
    \/ InvokeFails(t)
    \/ GiveUp(t)

ServerStep(c) == Reads(c) \/ Handled(c) \/ Ends(c)

Next ==
    \/ \E t \in Thread : ThreadStep(t)
    \/ BackoffExpires
    \/ \E t \in Thread : RunAgain(t)
    \/ \E c \in Connection : ServerStep(c) \/ ThreadEnds(c) \/ Breaks(c)
    \/ Crashes

\* Heartbeats, elections and copies call again and again, and a call goes on
\* by itself, to its reply or to its time limit; a dial that is tried again and
\* again succeeds some time.  Nothing is asked of the server a call waits for;
\* its thread ends some time on a connection that nobody uses any more.
Fairness ==
    /\ \A t \in Thread : WF_vars(ThreadStep(t))
    /\ SF_vars(\E t \in Thread, c \in Connection : DialOk(t, c))
    /\ WF_vars(BackoffExpires)
    /\ \A c \in Connection : WF_vars(Closed(c) /\ ServerStep(c))

Spec == Init /\ [][Next]_vars /\ Fairness
-----------------------------------------------------------------------------
\* Every variable has its type, a thread that is past the dial holds a
\* connection, and call_mu is held exactly by the thread that waits on it.
TypeOK ==
    /\ conn \in Connection \cup {None}
    /\ backoff \in BOOLEAN
    /\ pc \in [Thread -> {"idle", "dial", "invoke", "wait", "done", "failed", "ended"}]
    /\ handle \in [Thread -> Connection \cup {None}]
    /\ \A t \in Thread : handle[t] # None <=> pc[t] \in {"invoke", "wait", "failed"}
    /\ \A c \in Connection :
        /\ link[c].server \in {"none", "read", "run"}
        /\ link[c].serving # None => link[c].server = "run"
        /\ \A t \in Thread : link[c].call_mu = t => handle[t] = c /\ pc[t] = "wait"

\* The fields a server built before them does not send.
NewFields == {"handle_ae_lock_wait_ns", "handle_ae_pre_ns", "handle_ae_lock_wait2_ns",
              "handle_ae_post_ns", "handle_ae_persist_ns", "read_nanos", "write_nanos"}

\* What the tables come to: the receiver's struct is the sender's, but for the
\* fields an older server does not know.
TablesRight ==
    /\ \A m \in DOMAIN Method : \A g \in Requests[m] : RequestArrives[m][g] = g
    /\ \A isOld \in BOOLEAN : \A m \in DOMAIN Method : \A g \in Replies[m] :
          LET arrives == ReplyArrives[isOld][m][g]
          IN  \A f \in DOMAIN arrives : arrives[f] = IF isOld /\ f \in NewFields THEN 0 ELSE g[f]

\* A handler gets the request its caller made, and a call returns the reply to
\* that call and not to another thread's, each field by field: nothing is lost,
\* swapped or changed on its way through the conversions and the wire; only the
\* fields an older server does not know read as 0 (raft_proto_conv.h,
\* dispatch_raft_method, call_peer, rpc_invoke, rdma_invoke).
MessagesArrive ==
    /\ \A c \in Connection : link[c].serving # None =>
            link[c].serving.request = link[c].serving.meant
    /\ \A t \in Thread : answer[t] # None =>
            /\ answer[t].to = t
            /\ answer[t].method = call[t].method
            /\ \A f \in DOMAIN answer[t].reply :
                answer[t].reply[f] = IF old /\ f \in NewFields THEN 0 ELSE answer[t].meant[f]

\* A connection somebody serves.
Working(c) == c # None /\ link[c].up /\ link[c].server # "none"

\* A node that has no connection, or one that is broken or that nobody serves
\* any more, has a working one again some time: the dead one does not stay
\* cached (RpcBlockCopyClient::write_pba_batch, call_peer; net/README.md and
\* DECISIONS.md U6 still describe a storage client where it did), the call on
\* it ends although the peer is silent, and the backoff ends.  The client
\* program ends instead (raft_client_main.cpp:371).
Recovers == (client # "program" /\ ~Working(conn)) ~> Working(conn)

\* A call never keeps the connection for ever, even when the server is silent:
\* the time limits end it (tcp_connect's SO_RCVTIMEO, kCallTimeoutMs).
CallMuReleased ==
    \A c \in Connection, t \in Thread : link[c].call_mu = t ~> link[c].call_mu # t
=============================================================================
