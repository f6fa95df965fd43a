------------------------------ MODULE Election ------------------------------
(***************************************************************************)
(* Leader election of nvmeof_raft::Server (core/src/raft_election.cpp and  *)
(* the main loop of core/src/raft_lifecycle.cpp).                          *)
(*                                                                         *)
(* Every server runs one main-loop thread, one thread per RequestVote or   *)
(* AppendEntries call it has started, and handler threads for the calls it *)
(* receives.  They share the server's state under the mutex mu, so one     *)
(* critical section is one action here; what happens between two critical  *)
(* sections of one thread (an RPC, the gap after the main loop's read of   *)
(* the state) is where other threads interleave.                           *)
(*                                                                         *)
(* Two constants name what the surrounding system may or may not           *)
(* guarantee:                                                              *)
(*   LateCalls: how many RequestVote calls of a server may still be open   *)
(*     when its election timer expires again.  0 says that every call      *)
(*     returns in time (socket timeouts of 2 s against an election timeout *)
(*     of at least 20 heartbeats), which no code enforces;                 *)
(*   QuietLoop: TRUE says that no other thread of a server takes mu        *)
(*     between the main loop's read of the state and the end of that       *)
(*     iteration, which no code enforces either.                           *)
(***************************************************************************)
EXTENDS Integers, FiniteSets

CONSTANTS
    Server,              \* members of raft.cluster
    Contender,           \* the servers whose election timer may expire
    NoVote,              \* voted_for == 0
    MaxTerm,             \* bound on the terms election timeouts may start
    MaxRestart,          \* bound on the servers that restart, each once
    MaxAppend,           \* bound on the distinct AppendEntries requests
    LateCalls,           \* late replies, see above
    QuietLoop            \* TRUE: undisturbed main-loop iterations, see above

ASSUME ElectionAssumptions ==
    /\ IsFiniteSet(Server)
    /\ Contender \subseteq Server
    /\ NoVote \notin Server
    /\ MaxTerm \in Nat
    /\ MaxRestart \in Nat
    /\ MaxAppend \in Nat
    /\ LateCalls \in Nat
    /\ QuietLoop \in BOOLEAN

VARIABLES
    currentTerm,  \* raft.current_term
    state,        \* raft.state
    votedFor,     \* votedFor[s][p]: s's raft.cluster[p].voted_for; the slot
                  \*   of s itself is its own vote, the others its tally
    header,       \* term and vote in the ring file's header on the device
    lastLog,      \* term and index of the last log entry
    loop,         \* where the main loop stands
    rv,           \* RequestVote calls: one record per worker thread
    aeThread,     \* an append_entries_worker waits for its first lock
    aeSent,       \* AppendEntries requests put on the wire
    restarted,    \* the servers whose process has died and come back
    ballots,      \* history: every vote ever cast
    elected       \* history: every leadership ever begun

vars == <<currentTerm, state, votedFor, header, lastLog, loop, rv, aeThread,
          aeSent, restarted, ballots, elected>>

ServerState == {"Follower", "Candidate", "Leader"}
LogEnd == [term : Nat, index : Nat]

(* init_storage: the tail is 1 and the only entry is the sentinel. *)
EmptyLog == [term |-> 0, index |-> 0]

Vote == Server \cup {NoVote}
Ballot == [voter : Server, cand : Server, term : Nat]

RvThread ==
    [src : Server, dst : Server, epoch : Nat,
     pc : {"spawned", "sent", "orphan", "replied"},
     term : Nat, last : LogEnd, rterm : Nat, granted : BOOLEAN]

AeRequest == [term : Nat, leader : Server, last : LogEnd]

Init ==
    /\ currentTerm = [s \in Server |-> 0]
    /\ state = [s \in Server |-> "Follower"]
    /\ votedFor = [s \in Server |-> [p \in Server |-> NoVote]]
    /\ header = [s \in Server |-> [term |-> 0, vote |-> NoVote]]
    /\ lastLog = [s \in Server |-> EmptyLog]
    /\ loop = [s \in Server |-> "idle"]
    /\ rv = {}
    /\ aeThread = [s \in Server |-> FALSE]
    /\ aeSent = {}
    /\ restarted = {}
    /\ ballots = {}
    /\ elected = {}

-----------------------------------------------------------------------------
(* Helpers *)

(* Mutant: an equal term also resets the vote. *)
UpdateTermOnEqual(s, t) ==
    IF t >= currentTerm[s]
    THEN [term |-> t, state |-> "Follower", vote |-> NoVote]
    ELSE [term |-> currentTerm[s], state |-> state[s], vote |-> votedFor[s][s]]

(* Mutant: any other term is adopted. *)
UpdateTermOnOther(s, t) ==
    IF t # currentTerm[s]
    THEN [term |-> t, state |-> "Follower", vote |-> NoVote]
    ELSE [term |-> currentTerm[s], state |-> state[s], vote |-> votedFor[s][s]]

(* update_term: the term, state and own vote after a message of term t. *)
UpdateTerm(s, t) ==
    IF t > currentTerm[s]
    THEN [term |-> t, state |-> "Follower", vote |-> NoVote]
    ELSE [term |-> currentTerm[s], state |-> state[s], vote |-> votedFor[s][s]]

(* Mutant: the header is rewritten only when the term has changed. *)
PersistOnNewTerm(s, t, v) ==
    header' = [header EXCEPT ![s] = IF t = @.term THEN @ ELSE [term |-> t, vote |-> v]]

(* The header part of persist_circular: the ring file's header holds the   *)
(* term and vote that are current when the call returns.                   *)
Persist(s, t, v) == header' = [header EXCEPT ![s] = [term |-> t, vote |-> v]]

(* The candidate's log is at least as up to date as the voter's. *)
LogOk(cand, voter) ==
    \/ cand.term > voter.term
    \/ cand.term = voter.term /\ cand.index >= voter.index

(* Mutant: the reply's verdict is ignored. *)
VoteCountedAlways(w) == w.rterm = w.term

(* request_vote_worker counts a reply: granted, and of the request's term. *)
VoteCounted(w) == w.rterm = w.term /\ w.granted

(* become_leader counts quorum down from size / 2 + 1 over the slots. *)
Quorum == Cardinality(Server) \div 2 + 1
Tally(s) == {p \in Server : votedFor[s][p] = s}

(* The RequestVote calls a thread of s is still waiting for. *)
OpenCalls(s) == {w \in rv : w.src = s /\ w.pc # "orphan"}

(* A thread of s other than its main loop may take mu. *)
MayLock(s) == QuietLoop => loop[s] = "idle"

-----------------------------------------------------------------------------
(* Main loop *)

(* One critical section reads the state; the branch it selects runs later. *)
(* A Follower snapshot cannot go stale: only the main loop itself leaves   *)
(* that state, so that branch is not split from its read.                  *)
ReadState(s) ==
    /\ loop[s] = "idle"
    /\ state[s] \in {"Candidate", "Leader"}
    /\ loop' = [loop EXCEPT ![s] = state[s]]
    /\ UNCHANGED <<currentTerm, state, votedFor, header, lastLog, rv, aeThread,
                   aeSent, restarted, ballots, elected>>

(* timeout() with an expired timer, and the workers request_vote() starts. *)
Timeout(s) ==
    /\ \/ loop[s] = "idle" /\ state[s] = "Follower" /\ UNCHANGED loop
       \/ loop[s] = "Candidate" /\ loop' = [loop EXCEPT ![s] = "promote"]
    /\ s \in Contender
    /\ currentTerm[s] < MaxTerm
    /\ Cardinality(OpenCalls(s)) <= LateCalls
    /\ state' = [state EXCEPT ![s] = "Candidate"]
    /\ currentTerm' = [currentTerm EXCEPT ![s] = @ + 1]
    /\ votedFor' = [votedFor EXCEPT ![s] =
                       [p \in Server |-> IF p = s THEN s ELSE NoVote]]
    /\ Persist(s, currentTerm[s] + 1, s)
    /\ rv' = rv \cup {[src |-> s, dst |-> p, epoch |-> currentTerm[s] + 1,
                       pc |-> "spawned", term |-> 0, last |-> EmptyLog,
                       rterm |-> 0, granted |-> FALSE] : p \in Server \ {s}}
    /\ ballots' = ballots \cup {[voter |-> s, cand |-> s,
                                 term |-> currentTerm[s] + 1]}
    /\ UNCHANGED <<lastLog, aeThread, aeSent, restarted, elected>>

(* become_leader(), reached after timeout() in the Candidate branch.  It   *)
(* does not look at the state again.                                       *)
BecomeLeader(s) ==
    /\ loop[s] \in {"Candidate", "promote"}
    /\ loop' = [loop EXCEPT ![s] = "idle"]
    /\ IF Cardinality(Tally(s)) >= Quorum
       THEN /\ state' = [state EXCEPT ![s] = "Leader"]
            /\ lastLog' = [lastLog EXCEPT ![s] =
                              [term |-> currentTerm[s], index |-> @.index + 1]]
            /\ Persist(s, currentTerm[s], votedFor[s][s])
            /\ elected' = elected \cup {[server |-> s, term |-> currentTerm[s]]}
       ELSE UNCHANGED <<state, lastLog, header, elected>>
    /\ UNCHANGED <<currentTerm, votedFor, rv, aeThread, aeSent, restarted, ballots>>

(* heartbeat(), the Leader branch: starts the AppendEntries workers unless *)
(* the heartbeat timer still runs.  An apply() that found this server      *)
(* leading starts them the same way.                                       *)
Heartbeat(s) ==
    /\ loop[s] = "Leader"
    /\ loop' = [loop EXCEPT ![s] = "idle"]
    /\ \/ /\ Cardinality(aeSent) < MaxAppend
          /\ aeThread' = [aeThread EXCEPT ![s] = TRUE]
       \/ UNCHANGED aeThread
    /\ UNCHANGED <<currentTerm, state, votedFor, header, lastLog, rv, aeSent,
                   restarted, ballots, elected>>

-----------------------------------------------------------------------------
(* RequestVote *)

(* request_vote_worker, first critical section: builds the request from    *)
(* the state of this moment, not of the timeout that started the thread.   *)
SendRequestVote(w) ==
    /\ w.pc = "spawned"
    /\ MayLock(w.src)
    /\ rv' = (rv \ {w}) \cup {[w EXCEPT !.pc = "sent",
                                        !.term = currentTerm[w.src],
                                        !.last = lastLog[w.src]]}
    /\ UNCHANGED <<currentTerm, state, votedFor, header, lastLog, loop, aeThread,
                   aeSent, restarted, ballots, elected>>

(* handle_request_vote_request at w.dst. *)
HandleRequestVote(w) ==
    LET s == w.dst
        u == UpdateTerm(s, w.term)
        grant == /\ w.term = u.term
                 /\ LogOk(w.last, lastLog[s])
                 /\ u.vote \in {NoVote, w.src}
        vote == IF grant THEN w.src ELSE u.vote
    IN  /\ w.pc \in {"sent", "orphan"}
        /\ MayLock(s)
        /\ currentTerm' = [currentTerm EXCEPT ![s] = u.term]
        /\ state' = [state EXCEPT ![s] = u.state]
        /\ votedFor' = [votedFor EXCEPT ![s][s] = vote]
        /\ IF grant \/ w.term > currentTerm[s]
           THEN Persist(s, u.term, vote)
           ELSE UNCHANGED header
        /\ rv' = (rv \ {w}) \cup
                 (IF w.pc = "orphan" THEN {}
                  ELSE {[w EXCEPT !.pc = "replied", !.rterm = u.term,
                                  !.granted = grant]})
        /\ ballots' = IF grant
                      THEN ballots \cup {[voter |-> s, cand |-> w.src,
                                          term |-> u.term]}
                      ELSE ballots
        /\ UNCHANGED <<lastLog, loop, aeThread, aeSent, restarted, elected>>

(* request_vote_worker, second critical section. *)
HandleVoteReply(w) ==
    LET s == w.src
        u == UpdateTerm(s, w.rterm)
        raised == w.rterm > currentTerm[s]
        counted == ~raised /\ VoteCounted(w)
    IN  /\ w.pc = "replied"
        /\ MayLock(s)
        /\ currentTerm' = [currentTerm EXCEPT ![s] = u.term]
        /\ state' = [state EXCEPT ![s] = u.state]
        /\ votedFor' = [votedFor EXCEPT ![s][s] = u.vote,
                                        ![s][w.dst] = IF counted THEN s ELSE @]
        /\ IF raised THEN Persist(s, u.term, u.vote) ELSE UNCHANGED header
        /\ rv' = rv \ {w}
        /\ UNCHANGED <<lastLog, loop, aeThread, aeSent, restarted, ballots, elected>>

(* transport->request_vote returns false: the call is lost before or after *)
(* the peer handled it, and the thread ends.  A request that reaches its   *)
(* peer late is one that stays open that long.                             *)
RpcFails(w) ==
    /\ w.pc \in {"sent", "orphan", "replied"}
    /\ rv' = rv \ {w}
    /\ UNCHANGED <<currentTerm, state, votedFor, header, lastLog, loop, aeThread,
                   aeSent, restarted, ballots, elected>>

-----------------------------------------------------------------------------
(* AppendEntries, as far as it touches elections *)

(* append_entries_worker, first critical section: stamps the request with  *)
(* the current term and never asks whether the server still leads.         *)
SendAppendEntries(s) ==
    /\ aeThread[s]
    /\ MayLock(s)
    /\ Cardinality(aeSent) < MaxAppend
    /\ aeSent' = aeSent \cup {[term |-> currentTerm[s], leader |-> s,
                               last |-> lastLog[s]]}
    /\ aeThread' = [aeThread EXCEPT ![s] = FALSE]
    /\ UNCHANGED <<currentTerm, state, votedFor, header, lastLog, loop, rv,
                   restarted, ballots, elected>>

(* handle_append_entries_request at s.  Whether the request's entries pass *)
(* the consistency check and extend the log is left open here.             *)
HandleAppendEntries(s, m) ==
    LET u == UpdateTerm(s, m.term)
        st == IF m.term = u.term /\ u.state = "Candidate" THEN "Follower"
              ELSE u.state
        accepted == st = "Follower" /\ m.term = u.term
    IN  /\ s # m.leader
        /\ MayLock(s)
        /\ currentTerm' = [currentTerm EXCEPT ![s] = u.term]
        /\ state' = [state EXCEPT ![s] = st]
        /\ votedFor' = [votedFor EXCEPT ![s][s] = u.vote]
        /\ IF m.term > currentTerm[s] THEN Persist(s, u.term, u.vote)
           ELSE UNCHANGED header
        /\ \/ UNCHANGED lastLog
           \/ /\ accepted
              /\ m.last.index > lastLog[s].index
              /\ lastLog' = [lastLog EXCEPT ![s] = m.last]
        /\ UNCHANGED <<loop, rv, aeThread, aeSent, restarted, ballots, elected>>

-----------------------------------------------------------------------------
(* The process dies and init_storage runs: create_ring_file zeroes the     *)
(* whole ring file, header included, before the header is read back.       *)
(* Calls already on the wire may still reach their peer.                   *)
Restart(s) ==
    /\ s \notin restarted
    /\ Cardinality(restarted) < MaxRestart
    /\ restarted' = restarted \cup {s}
    /\ header' = [header EXCEPT ![s] = [term |-> 0, vote |-> NoVote]]
    /\ currentTerm' = [currentTerm EXCEPT ![s] = header'[s].term]
    /\ votedFor' = [votedFor EXCEPT ![s] =
                       [p \in Server |-> IF p = s THEN header'[s].vote ELSE NoVote]]
    /\ state' = [state EXCEPT ![s] = "Follower"]
    /\ lastLog' = [lastLog EXCEPT ![s] = EmptyLog]
    /\ loop' = [loop EXCEPT ![s] = "idle"]
    /\ aeThread' = [aeThread EXCEPT ![s] = FALSE]
    /\ rv' = {w \in rv : w.src # s \/ w.pc = "orphan"} \cup
             {[w EXCEPT !.pc = "orphan"] : w \in {x \in rv : x.src = s /\ x.pc = "sent"}}
    /\ UNCHANGED <<aeSent, ballots, elected>>

-----------------------------------------------------------------------------
Next ==
    \/ \E s \in Server :
          \/ ReadState(s)
          \/ Timeout(s)
          \/ BecomeLeader(s)
          \/ Heartbeat(s)
          \/ SendAppendEntries(s)
          \/ \E m \in aeSent : HandleAppendEntries(s, m)
          \/ Restart(s)
    \/ \E w \in rv :
          \/ SendRequestVote(w)
          \/ HandleRequestVote(w)
          \/ HandleVoteReply(w)
          \/ RpcFails(w)

Spec == Init /\ [][Next]_vars

-----------------------------------------------------------------------------
(* Properties *)

(* Every variable keeps the shape the code's types give it. *)
TypeOK ==
    /\ currentTerm \in [Server -> Nat]
    /\ state \in [Server -> ServerState]
    /\ votedFor \in [Server -> [Server -> Vote]]
    /\ header \in [Server -> [term : Nat, vote : Vote]]
    /\ lastLog \in [Server -> LogEnd]
    /\ loop \in [Server -> {"idle", "Candidate", "promote", "Leader"}]
    /\ rv \subseteq RvThread
    /\ aeThread \in [Server -> BOOLEAN]
    /\ aeSent \subseteq AeRequest
    /\ restarted \subseteq Server
    /\ ballots \subseteq Ballot
    /\ elected \subseteq [server : Server, term : Nat]

(* No server votes for two candidates in one term, whatever the order in   *)
(* which timeouts, requests and term updates reach it, as long as its      *)
(* process lives (handle_request_vote_request, timeout, update_term).      *)
VoteOnce ==
    \A b, c \in ballots :
        b.voter = c.voter /\ b.voter \notin restarted /\ b.term = c.term
            => b.cand = c.cand

(* A vote is on the device before anyone can learn of it: the header never *)
(* lags behind a vote already given (persist_circular in the handlers).    *)
VoteDurable ==
    \A b \in ballots :
        b.voter \notin restarted =>
            /\ header[b.voter].term >= b.term
            /\ header[b.voter].term = b.term => header[b.voter].vote = b.cand

(* A tally slot that counts for its server stands for a vote that peer     *)
(* really gave it, in this term or an earlier one (request_vote_worker).   *)
NoForgedVotes ==
    \A s, p \in Server :
        votedFor[s][p] = s =>
            \E b \in ballots : b.voter = p /\ b.cand = s /\ b.term <= currentTerm[s]

(* At most one server ever begins to lead a term. *)
ElectionSafety ==
    \A d, e \in elected : d.term = e.term => d.server = e.server

(* A living server's term never goes back, and inside a term a leader      *)
(* stays one: only a higher term ends a leadership (update_term).          *)
TermsAdvance ==
    [][\A s \in Server \ restarted' :
          /\ currentTerm'[s] >= currentTerm[s]
          /\ state[s] = "Leader" /\ currentTerm'[s] = currentTerm[s]
                => state'[s] = "Leader"]_vars

(* The ledger of votes this election keeps: its two history variables. *)
Ledger ==
    INSTANCE VoteLedger
    WITH Server <- Server, MaxTerm <- MaxTerm, ballots <- ballots, elected <- elected

(* Election implements VoteLedger: ballots are cast once per term and      *)
(* leaders are elected by majorities only.                                 *)
ImplementsLedger == Ledger!Spec
=============================================================================
