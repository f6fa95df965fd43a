--------------------------- MODULE ElectionProofs ----------------------------
(***************************************************************************)
(* Proofs about Election.  The first part needs none of its two            *)
(* assumptions: for every set of servers, every number of late calls, with *)
(* or without a quiet main loop, over any number of restarts of other      *)
(* servers.  The second part: Election implements VoteLedger and elects    *)
(* one leader per term, for every set of servers and every bound on terms  *)
(* and AppendEntries requests, if nothing of the code's three gaps         *)
(* happens: no vote call is open when the election timer expires, no       *)
(* thread takes mu inside an iteration of the main loop, and no server     *)
(* restarts.  The run election_late_vote shows that the first of them      *)
(* cannot be left out.                                                     *)
(***************************************************************************)
EXTENDS Election, FiniteSetTheorems, TLAPS

(* What update_term returns has the types of what it is assigned to. *)
LEMMA UpdateTermType ==
    ASSUME TypeOK, NEW s \in Server, NEW t \in Nat
    PROVE  /\ UpdateTerm(s, t).term \in Nat
           /\ UpdateTerm(s, t).state \in ServerState
           /\ UpdateTerm(s, t).vote \in Vote
BY DEF TypeOK, UpdateTerm, ServerState, Vote

(* The header keeps its type when persist_circular rewrites it. *)
LEMMA HeaderType ==
    ASSUME TypeOK, NEW s \in Server, NEW t \in Nat, NEW v \in Vote,
           header' = header \/ Persist(s, t, v)
    PROVE  header' \in [Server -> [term : Nat, vote : Vote]]
<1>1. [term |-> t, vote |-> v] \in [term : Nat, vote : Vote]
  OBVIOUS
<1>2. header \in [Server -> [term : Nat, vote : Vote]]
  BY DEF TypeOK
<1>3. CASE Persist(s, t, v)
  BY <1>1, <1>2, <1>3 DEF Persist
<1>. QED  BY <1>2, <1>3

(* A thread of a vote request that moves on keeps its type. *)
LEMMA ThreadType ==
    ASSUME NEW w \in RvThread, NEW t \in Nat, NEW g \in BOOLEAN
    PROVE  /\ [w EXCEPT !.pc = "orphan"] \in RvThread
           /\ [w EXCEPT !.pc = "replied", !.rterm = t, !.granted = g] \in RvThread
BY DEF RvThread

(* Every step keeps the types. *)
LEMMA TypeStep ==
    ASSUME TypeOK, [Next]_vars
    PROVE  TypeOK'
<1>. USE DEF TypeOK
<1>1. ASSUME NEW s \in Server, ReadState(s)
      PROVE  TypeOK'
  BY <1>1 DEF ReadState, ServerState
<1>2. ASSUME NEW s \in Server, Timeout(s)
      PROVE  TypeOK'
  <2>1. currentTerm[s] + 1 \in Nat /\ EmptyLog \in LogEnd
    BY DEF EmptyLog, LogEnd
  <2>2. currentTerm' \in [Server -> Nat] /\ state' \in [Server -> ServerState]
    BY <1>2, <2>1 DEF Timeout, ServerState
  <2>3. votedFor' \in [Server -> [Server -> Vote]]
    BY <1>2 DEF Timeout, Vote
  <2>4. header' \in [Server -> [term : Nat, vote : Vote]]
    BY <1>2, <2>1 DEF Timeout, Persist, Vote
  <2>5. loop' \in [Server -> {"idle", "Candidate", "promote", "Leader"}]
    BY <1>2 DEF Timeout
  <2>6. rv' \subseteq RvThread
    <3>1. \A p \in Server :
             [src |-> s, dst |-> p, epoch |-> currentTerm[s] + 1,
              pc |-> "spawned", term |-> 0, last |-> EmptyLog,
              rterm |-> 0, granted |-> FALSE] \in RvThread
      BY <2>1 DEF RvThread
    <3>. QED  BY <1>2, <3>1 DEF Timeout
  <2>7. ballots' \subseteq Ballot
    BY <1>2, <2>1 DEF Timeout, Ballot
  <2>. QED  BY <1>2, <2>2, <2>3, <2>4, <2>5, <2>6, <2>7 DEF Timeout
<1>3. ASSUME NEW s \in Server, BecomeLeader(s)
      PROVE  TypeOK'
  <2>1. lastLog[s].index + 1 \in Nat /\ currentTerm[s] \in Nat /\ votedFor[s][s] \in Vote
    BY DEF LogEnd
  <2>2. CASE Cardinality(Tally(s)) >= Quorum
    <3>1. [term |-> currentTerm[s], index |-> lastLog[s].index + 1] \in LogEnd
      BY <2>1 DEF LogEnd
    <3>2. lastLog' \in [Server -> LogEnd]
      BY <1>3, <2>2, <3>1 DEF BecomeLeader
    <3>3. header' \in [Server -> [term : Nat, vote : Vote]]
      BY <1>3, <2>1, <2>2, HeaderType DEF BecomeLeader
    <3>4. state' \in [Server -> ServerState] /\ elected' \subseteq [server : Server, term : Nat]
      <4>1. /\ state' = [state EXCEPT ![s] = "Leader"]
            /\ elected' = elected \cup {[server |-> s, term |-> currentTerm[s]]}
        BY <1>3, <2>2 DEF BecomeLeader
      <4>2. state' \in [Server -> ServerState]
        BY <4>1 DEF ServerState
      <4>. QED  BY <2>1, <4>1, <4>2
    <3>. QED  BY <1>3, <3>2, <3>3, <3>4 DEF BecomeLeader
  <2>3. CASE ~(Cardinality(Tally(s)) >= Quorum)
    BY <1>3, <2>3 DEF BecomeLeader
  <2>. QED  BY <2>2, <2>3
<1>4. ASSUME NEW s \in Server, Heartbeat(s)
      PROVE  TypeOK'
  BY <1>4 DEF Heartbeat
<1>5. ASSUME NEW s \in Server, SendAppendEntries(s)
      PROVE  TypeOK'
  <2>1. [term |-> currentTerm[s], leader |-> s, last |-> lastLog[s]] \in AeRequest
    BY DEF AeRequest
  <2>. QED  BY <1>5, <2>1 DEF SendAppendEntries
<1>6. ASSUME NEW s \in Server, NEW m \in aeSent, HandleAppendEntries(s, m)
      PROVE  TypeOK'
  <2>. DEFINE u == UpdateTerm(s, m.term)
  <2>1. m.term \in Nat /\ m.last \in LogEnd
    BY DEF AeRequest
  <2>2. u.term \in Nat /\ u.state \in ServerState /\ u.vote \in Vote
    BY <2>1, UpdateTermType
  <2>. HIDE DEF u
  <2>3. currentTerm' \in [Server -> Nat]
    BY <1>6, <2>2 DEF HandleAppendEntries, u
  <2>4. state' \in [Server -> ServerState]
    BY <1>6, <2>2 DEF HandleAppendEntries, ServerState, u
  <2>5. votedFor' \in [Server -> [Server -> Vote]]
    BY <1>6, <2>2 DEF HandleAppendEntries, u
  <2>6. header' \in [Server -> [term : Nat, vote : Vote]]
    <3>1. header' = header \/ Persist(s, u.term, u.vote)
      BY <1>6 DEF HandleAppendEntries, u
    <3>. QED  BY <2>2, <3>1, HeaderType
  <2>7. lastLog' \in [Server -> LogEnd]
    BY <1>6, <2>1 DEF HandleAppendEntries
  <2>. QED  BY <1>6, <2>3, <2>4, <2>5, <2>6, <2>7 DEF HandleAppendEntries
<1>7. ASSUME NEW s \in Server, Restart(s)
      PROVE  TypeOK'
  <2>1. EmptyLog \in LogEnd /\ NoVote \in Vote
    BY DEF EmptyLog, LogEnd, Vote
  <2>2. header' \in [Server -> [term : Nat, vote : Vote]]
    BY <1>7, <2>1 DEF Restart
  <2>3. header'[s].term \in Nat /\ header'[s].vote \in Vote
    BY <2>2
  <2>4. votedFor' \in [Server -> [Server -> Vote]] /\ currentTerm' \in [Server -> Nat]
    BY <1>7, <2>1, <2>3 DEF Restart
  <2>5. rv' \subseteq RvThread
    <3>1. \A w \in rv : [w EXCEPT !.pc = "orphan"] \in RvThread
      BY ThreadType
    <3>. QED  BY <1>7, <3>1 DEF Restart
  <2>6. /\ state' \in [Server -> ServerState]
        /\ lastLog' \in [Server -> LogEnd]
        /\ loop' \in [Server -> {"idle", "Candidate", "promote", "Leader"}]
        /\ aeThread' \in [Server -> BOOLEAN]
        /\ restarted' \subseteq Server
    BY <1>7, <2>1 DEF Restart, ServerState
  <2>. QED  BY <1>7, <2>2, <2>4, <2>5, <2>6 DEF Restart
<1>8. ASSUME NEW w \in rv, SendRequestVote(w)
      PROVE  TypeOK'
  <2>1. [w EXCEPT !.pc = "sent", !.term = currentTerm[w.src], !.last = lastLog[w.src]] \in RvThread
    BY DEF RvThread
  <2>. QED  BY <1>8, <2>1 DEF SendRequestVote
<1>9. ASSUME NEW w \in rv, HandleRequestVote(w)
      PROVE  TypeOK'
  <2>. DEFINE s == w.dst
              u == UpdateTerm(s, w.term)
              grant == /\ w.term = u.term
                       /\ LogOk(w.last, lastLog[s])
                       /\ u.vote \in {NoVote, w.src}
              vote == IF grant THEN w.src ELSE u.vote
  <2>1. s \in Server /\ w.src \in Server /\ w.term \in Nat
    BY DEF RvThread
  <2>2. u.term \in Nat /\ u.state \in ServerState /\ u.vote \in Vote
    BY <2>1, UpdateTermType
  <2>3. vote \in Vote /\ grant \in BOOLEAN
    BY <2>1, <2>2 DEF Vote
  <2>4. [w EXCEPT !.pc = "replied", !.rterm = u.term, !.granted = grant] \in RvThread
    <3>1. w \in RvThread
      OBVIOUS
    <3>. HIDE DEF s, u, grant
    <3>. QED  BY <2>2, <2>3, <3>1, ThreadType
  <2>5. [voter |-> s, cand |-> w.src, term |-> u.term] \in Ballot
    BY <2>1, <2>2 DEF Ballot
  <2>6. /\ currentTerm' = [currentTerm EXCEPT ![s] = u.term]
        /\ state' = [state EXCEPT ![s] = u.state]
        /\ votedFor' = [votedFor EXCEPT ![s][s] = vote]
        /\ header' = header \/ Persist(s, u.term, vote)
        /\ rv' \subseteq rv \cup {[w EXCEPT !.pc = "replied", !.rterm = u.term, !.granted = grant]}
        /\ ballots' \subseteq ballots \cup {[voter |-> s, cand |-> w.src, term |-> u.term]}
        /\ UNCHANGED <<lastLog, loop, aeThread, aeSent, restarted, elected>>
    BY <1>9 DEF HandleRequestVote
  <2>. HIDE DEF s, u, grant, vote
  <2>7. /\ currentTerm' \in [Server -> Nat]
        /\ state' \in [Server -> ServerState]
        /\ votedFor' \in [Server -> [Server -> Vote]]
    BY <2>1, <2>2, <2>3, <2>6
  <2>8. header' \in [Server -> [term : Nat, vote : Vote]]
    BY <2>1, <2>2, <2>3, <2>6, HeaderType
  <2>9. rv' \subseteq RvThread /\ ballots' \subseteq Ballot
    BY <2>4, <2>5, <2>6
  <2>. QED  BY <2>6, <2>7, <2>8, <2>9
<1>10. ASSUME NEW w \in rv, HandleVoteReply(w)
      PROVE  TypeOK'
  <2>. DEFINE s == w.src
              u == UpdateTerm(s, w.rterm)
  <2>1. s \in Server /\ w.dst \in Server /\ w.rterm \in Nat
    BY DEF RvThread
  <2>2. u.term \in Nat /\ u.state \in ServerState /\ u.vote \in Vote
    BY <2>1, UpdateTermType
  <2>3. /\ currentTerm' = [currentTerm EXCEPT ![s] = u.term]
        /\ state' = [state EXCEPT ![s] = u.state]
        /\ header' = header \/ Persist(s, u.term, u.vote)
        /\ rv' \subseteq rv
        /\ UNCHANGED <<lastLog, loop, aeThread, aeSent, restarted, ballots, elected>>
    BY <1>10 DEF HandleVoteReply
  <2>4. votedFor' \in [Server -> [Server -> Vote]]
    <3>1. s \in Vote
      BY <2>1 DEF Vote
    <3>2. PICK counted \in BOOLEAN :
             votedFor' = [votedFor EXCEPT ![s][s] = u.vote,
                                          ![s][w.dst] = IF counted THEN s ELSE @]
      BY <1>10 DEF HandleVoteReply
    <3>. HIDE DEF s, u
    <3>3. PICK d \in Server, y \in Vote : d = w.dst /\ y = u.vote
      BY <2>1, <2>2
    <3>4. votedFor' = [votedFor EXCEPT ![s][s] = y, ![s][d] = IF counted THEN s ELSE @]
      BY <3>2, <3>3
    <3>. QED  BY <2>1, <3>1, <3>4
  <2>. HIDE DEF s, u
  <2>5. currentTerm' \in [Server -> Nat] /\ state' \in [Server -> ServerState]
    BY <2>1, <2>2, <2>3
  <2>6. header' \in [Server -> [term : Nat, vote : Vote]]
    BY <2>1, <2>2, <2>3, HeaderType
  <2>. QED  BY <2>3, <2>4, <2>5, <2>6
<1>11. ASSUME NEW w \in rv, RpcFails(w)
      PROVE  TypeOK'
  BY <1>11 DEF RpcFails
<1>12. ASSUME UNCHANGED vars
       PROVE  TypeOK'
  BY <1>12 DEF vars
<1>. QED
  BY <1>1, <1>2, <1>3, <1>4, <1>5, <1>6, <1>7, <1>8, <1>9, <1>10, <1>11, <1>12 DEF Next

LEMMA TypeInit == Init => TypeOK
BY ElectionAssumptions DEF Init, TypeOK, ServerState, Vote, EmptyLog, LogEnd

(* Every variable of an election keeps its type: a server's slots hold     *)
(* votes, terms are natural numbers, whatever replies come and when.       *)
THEOREM TypeCorrect == Spec => []TypeOK
BY TypeInit, TypeStep, PTL DEF Spec
-----------------------------------------------------------------------------
(* One vote per term *)

(* No server calls itself. *)
CallsAcross == \A w \in rv : w.src # w.dst

(* The header on the device is what the server has in memory. *)
HeaderCurrent ==
    \A s \in Server : header[s] = [term |-> currentTerm[s], vote |-> votedFor[s][s]]

(* Of a living server, the votes it has cast are of its term or earlier,   *)
(* and the one of its term is the one it remembers.                        *)
BallotsCurrent ==
    \A b \in ballots :
        b.voter \notin restarted =>
            /\ b.term <= currentTerm[b.voter]
            /\ b.term = currentTerm[b.voter] => votedFor[b.voter][b.voter] = b.cand

(* VoteOnce speaks of past terms too and says nothing of what a server     *)
(* remembers: the last two conjuncts carry it over the next vote.          *)
VoteInv ==
    /\ TypeOK
    /\ CallsAcross
    /\ HeaderCurrent
    /\ BallotsCurrent
    /\ VoteOnce

(* Nothing of what an election remembers of votes changes. *)
VotesKept ==
    /\ currentTerm' = currentTerm
    /\ \A p \in Server : votedFor'[p][p] = votedFor[p][p]
    /\ UNCHANGED <<header, ballots, restarted>>

(* Server s comes to term t with vote v, on the device too: it goes        *)
(* forward, and inside a term only from no vote to a vote.                 *)
Moves(s, t, v) ==
    /\ currentTerm' = [currentTerm EXCEPT ![s] = t]
    /\ \A p \in Server : votedFor'[p][p] = IF p = s THEN v ELSE votedFor[p][p]
    /\ header' = [header EXCEPT ![s] = [term |-> t, vote |-> v]]
    /\ t >= currentTerm[s]
    /\ t = currentTerm[s] => votedFor[s][s] \in {NoVote, v}
    /\ \/ ballots' = ballots
       \/ /\ v \in Server
          /\ ballots' = ballots \cup {[voter |-> s, cand |-> v, term |-> t]}
    /\ UNCHANGED restarted

(* What update_term returns is a move forward. *)
LEMMA UpdateTermForward ==
    ASSUME TypeOK, NEW s \in Server, NEW t \in Nat
    PROVE  /\ UpdateTerm(s, t).term >= currentTerm[s]
           /\ UpdateTerm(s, t).term = currentTerm[s] =>
                 /\ UpdateTerm(s, t).vote = votedFor[s][s]
                 /\ UpdateTerm(s, t).state = state[s]
           /\ ~(t > currentTerm[s]) => UpdateTerm(s, t).term = currentTerm[s]
BY DEF TypeOK, UpdateTerm

(* A rewrite of the header, or none where term and vote stay. *)
LEMMA HeaderFollows ==
    ASSUME TypeOK, HeaderCurrent, NEW s \in Server, NEW t \in Nat, NEW v \in Vote,
           \/ Persist(s, t, v)
           \/ header' = header /\ t = currentTerm[s] /\ v = votedFor[s][s]
    PROVE  header' = [header EXCEPT ![s] = [term |-> t, vote |-> v]]
<1>1. CASE Persist(s, t, v)
  BY <1>1 DEF Persist
<1>2. CASE header' = header /\ t = currentTerm[s] /\ v = votedFor[s][s]
  <2>1. header[s] = [term |-> t, vote |-> v]
    BY <1>2 DEF HeaderCurrent
  <2>2. header = [header EXCEPT ![s] = header[s]]
    BY DEF TypeOK
  <2>. QED  BY <1>2, <2>1, <2>2
<1>. QED  BY <1>1, <1>2

(* A timeout moves the server to a new term with a vote for itself. *)
LEMMA TimeoutMoves ==
    ASSUME TypeOK, NEW s \in Server, Timeout(s)
    PROVE  Moves(s, currentTerm[s] + 1, s)
<1>1. currentTerm[s] \in Nat
  BY DEF TypeOK
<1>2. \A p \in Server : votedFor'[p][p] = IF p = s THEN s ELSE votedFor[p][p]
  BY DEF TypeOK, Timeout
<1>. QED  BY <1>1, <1>2 DEF Timeout, Persist, Moves

(* A vote request moves the server it reaches. *)
LEMMA HandleRequestVoteMoves ==
    ASSUME TypeOK, HeaderCurrent, NEW w \in rv, HandleRequestVote(w)
    PROVE  \E t \in Nat, v \in Vote : Moves(w.dst, t, v)
<1>. DEFINE s == w.dst
            u == UpdateTerm(s, w.term)
            grant == /\ w.term = u.term
                     /\ LogOk(w.last, lastLog[s])
                     /\ u.vote \in {NoVote, w.src}
            vote == IF grant THEN w.src ELSE u.vote
<1>1. s \in Server /\ w.src \in Server /\ w.term \in Nat
  BY DEF TypeOK, RvThread
<1>2. u.term \in Nat /\ u.vote \in Vote
  BY <1>1, UpdateTermType
<1>3. /\ u.term >= currentTerm[s]
      /\ u.term = currentTerm[s] => u.vote = votedFor[s][s]
      /\ ~(w.term > currentTerm[s]) => u.term = currentTerm[s]
  BY <1>1, UpdateTermForward
<1>4. vote \in Vote
  BY <1>1, <1>2 DEF Vote
<1>5. /\ currentTerm' = [currentTerm EXCEPT ![s] = u.term]
      /\ votedFor' = [votedFor EXCEPT ![s][s] = vote]
      /\ IF grant \/ w.term > currentTerm[s]
         THEN Persist(s, u.term, vote)
         ELSE UNCHANGED header
      /\ ballots' = IF grant
                    THEN ballots \cup {[voter |-> s, cand |-> w.src, term |-> u.term]}
                    ELSE ballots
      /\ restarted' = restarted
  BY DEF HandleRequestVote
<1>. HIDE DEF s, u
<1>6. header' = [header EXCEPT ![s] = [term |-> u.term, vote |-> vote]]
  <2>1. \/ Persist(s, u.term, vote)
        \/ header' = header /\ u.term = currentTerm[s] /\ vote = votedFor[s][s]
    BY <1>3, <1>5
  <2>. HIDE DEF vote
  <2>. QED  BY <1>1, <1>2, <1>4, <2>1, HeaderFollows
<1>7. \A p \in Server : votedFor'[p][p] = IF p = s THEN vote ELSE votedFor[p][p]
  <2>. HIDE DEF vote
  <2>. QED  BY <1>1, <1>5 DEF TypeOK
<1>8. u.term = currentTerm[s] => votedFor[s][s] \in {NoVote, vote}
  BY <1>3
<1>9. \/ ballots' = ballots
      \/ vote \in Server /\ ballots' = ballots \cup {[voter |-> s, cand |-> vote, term |-> u.term]}
  BY <1>1, <1>5
<1>. HIDE DEF vote
<1>10. Moves(s, u.term, vote)
  BY <1>3, <1>5, <1>6, <1>7, <1>8, <1>9 DEF Moves
<1>. QED  BY <1>2, <1>4, <1>10 DEF s

(* A reply to a vote request moves the server that asked, or changes the   *)
(* tally only.                                                             *)
LEMMA HandleVoteReplyMoves ==
    ASSUME TypeOK, CallsAcross, HeaderCurrent, NEW w \in rv, HandleVoteReply(w)
    PROVE  \E t \in Nat, v \in Vote : Moves(w.src, t, v)
<1>. DEFINE s == w.src
            u == UpdateTerm(s, w.rterm)
<1>1. s \in Server /\ w.dst \in Server /\ w.dst # s /\ w.rterm \in Nat
  BY DEF TypeOK, RvThread, CallsAcross
<1>2. u.term \in Nat /\ u.vote \in Vote
  BY <1>1, UpdateTermType
<1>3. /\ u.term >= currentTerm[s]
      /\ u.term = currentTerm[s] => u.vote = votedFor[s][s]
      /\ ~(w.rterm > currentTerm[s]) => u.term = currentTerm[s]
  BY <1>1, UpdateTermForward
<1>4. /\ currentTerm' = [currentTerm EXCEPT ![s] = u.term]
      /\ IF w.rterm > currentTerm[s] THEN Persist(s, u.term, u.vote) ELSE UNCHANGED header
      /\ ballots' = ballots
      /\ restarted' = restarted
  BY DEF HandleVoteReply
<1>5. \A p \in Server : votedFor'[p][p] = IF p = s THEN u.vote ELSE votedFor[p][p]
  <2>1. PICK q : votedFor' = [votedFor EXCEPT ![s][s] = u.vote, ![s][w.dst] = q]
    BY DEF HandleVoteReply
  <2>. HIDE DEF s, u
  <2>. QED  BY <1>1, <2>1 DEF TypeOK
<1>. HIDE DEF s, u
<1>6. header' = [header EXCEPT ![s] = [term |-> u.term, vote |-> u.vote]]
  BY <1>1, <1>2, <1>3, <1>4, HeaderFollows
<1>7. Moves(s, u.term, u.vote)
  BY <1>3, <1>4, <1>5, <1>6 DEF Moves
<1>. QED  BY <1>2, <1>7 DEF s

(* An AppendEntries request moves the server it reaches. *)
LEMMA HandleAppendEntriesMoves ==
    ASSUME TypeOK, HeaderCurrent, NEW s \in Server, NEW m \in aeSent,
           HandleAppendEntries(s, m)
    PROVE  \E t \in Nat, v \in Vote : Moves(s, t, v)
<1>. DEFINE u == UpdateTerm(s, m.term)
<1>1. m.term \in Nat
  BY DEF TypeOK, AeRequest
<1>2. u.term \in Nat /\ u.vote \in Vote
  BY <1>1, UpdateTermType
<1>3. /\ u.term >= currentTerm[s]
      /\ u.term = currentTerm[s] => u.vote = votedFor[s][s]
      /\ ~(m.term > currentTerm[s]) => u.term = currentTerm[s]
  BY <1>1, UpdateTermForward
<1>4. /\ currentTerm' = [currentTerm EXCEPT ![s] = u.term]
      /\ votedFor' = [votedFor EXCEPT ![s][s] = u.vote]
      /\ IF m.term > currentTerm[s] THEN Persist(s, u.term, u.vote) ELSE UNCHANGED header
      /\ ballots' = ballots
      /\ restarted' = restarted
  BY DEF HandleAppendEntries
<1>. HIDE DEF u
<1>5. \A p \in Server : votedFor'[p][p] = IF p = s THEN u.vote ELSE votedFor[p][p]
  BY <1>4 DEF TypeOK
<1>6. header' = [header EXCEPT ![s] = [term |-> u.term, vote |-> u.vote]]
  BY <1>2, <1>3, <1>4, HeaderFollows
<1>7. Moves(s, u.term, u.vote)
  BY <1>3, <1>4, <1>5, <1>6 DEF Moves
<1>. QED  BY <1>2, <1>7

(* A restarted server is where every server begins. *)
Reset(s) ==
    /\ restarted' = restarted \cup {s}
    /\ currentTerm' = [currentTerm EXCEPT ![s] = 0]
    /\ \A p \in Server : votedFor'[p][p] = IF p = s THEN NoVote ELSE votedFor[p][p]
    /\ header' = [header EXCEPT ![s] = [term |-> 0, vote |-> NoVote]]
    /\ ballots' = ballots

(* Every step is one of the three. *)
LEMMA StepKinds ==
    ASSUME TypeOK, CallsAcross, HeaderCurrent, [Next]_vars
    PROVE  \/ VotesKept
           \/ \E s \in Server, t \in Nat, v \in Vote : Moves(s, t, v)
           \/ \E s \in Server : Reset(s)
<1>1. ASSUME NEW s \in Server,
             ReadState(s) \/ Heartbeat(s) \/ SendAppendEntries(s)
      PROVE  VotesKept
  BY <1>1 DEF ReadState, Heartbeat, SendAppendEntries, VotesKept
<1>2. ASSUME NEW s \in Server, Timeout(s)
      PROVE  \E q \in Server, t \in Nat, v \in Vote : Moves(q, t, v)
  <2>1. currentTerm[s] + 1 \in Nat /\ s \in Vote
    BY DEF TypeOK, Vote
  <2>. QED  BY <1>2, <2>1, TimeoutMoves
<1>3. ASSUME NEW s \in Server, BecomeLeader(s)
      PROVE  VotesKept
  <2>1. /\ currentTerm' = currentTerm /\ votedFor' = votedFor
        /\ UNCHANGED <<ballots, restarted>>
        /\ Persist(s, currentTerm[s], votedFor[s][s]) \/ header' = header
    BY <1>3 DEF BecomeLeader
  <2>2. currentTerm[s] \in Nat /\ votedFor[s][s] \in Vote
    BY DEF TypeOK
  <2>3. header' = [header EXCEPT ![s] = [term |-> currentTerm[s], vote |-> votedFor[s][s]]]
    BY <2>1, <2>2, HeaderFollows
  <2>4. header' = [header EXCEPT ![s] = header[s]]
    BY <2>3 DEF HeaderCurrent
  <2>5. header' = header
    BY <2>4 DEF TypeOK
  <2>. QED  BY <2>1, <2>5 DEF VotesKept
<1>4. ASSUME NEW s \in Server, NEW m \in aeSent, HandleAppendEntries(s, m)
      PROVE  \E q \in Server, t \in Nat, v \in Vote : Moves(q, t, v)
  BY <1>4, HandleAppendEntriesMoves
<1>5. ASSUME NEW s \in Server, Restart(s)
      PROVE  Reset(s)
  <2>1. header'[s] = [term |-> 0, vote |-> NoVote]
    BY <1>5 DEF Restart, TypeOK
  <2>2. /\ currentTerm' = [currentTerm EXCEPT ![s] = header'[s].term]
        /\ votedFor' = [votedFor EXCEPT ![s] =
               [p \in Server |-> IF p = s THEN header'[s].vote ELSE NoVote]]
    BY <1>5 DEF Restart
  <2>3. header'[s].term = 0 /\ header'[s].vote = NoVote
    BY <2>1
  <2>4. \A p \in Server : votedFor'[p][p] = IF p = s THEN NoVote ELSE votedFor[p][p]
    BY <2>2, <2>3 DEF TypeOK
  <2>. QED  BY <1>5, <2>2, <2>3, <2>4 DEF Restart, Reset
<1>6. ASSUME NEW w \in rv, SendRequestVote(w) \/ RpcFails(w)
      PROVE  VotesKept
  BY <1>6 DEF SendRequestVote, RpcFails, VotesKept
<1>7. ASSUME NEW w \in rv, HandleRequestVote(w)
      PROVE  \E q \in Server, t \in Nat, v \in Vote : Moves(q, t, v)
  <2>1. w.dst \in Server
    BY DEF TypeOK, RvThread
  <2>. QED  BY <1>7, <2>1, HandleRequestVoteMoves
<1>8. ASSUME NEW w \in rv, HandleVoteReply(w)
      PROVE  \E q \in Server, t \in Nat, v \in Vote : Moves(q, t, v)
  <2>1. w.src \in Server
    BY DEF TypeOK, RvThread
  <2>. QED  BY <1>8, <2>1, HandleVoteReplyMoves
<1>9. ASSUME UNCHANGED vars
      PROVE  VotesKept
  BY <1>9 DEF vars, VotesKept
<1>. QED
  BY <1>1, <1>2, <1>3, <1>4, <1>5, <1>6, <1>7, <1>8, <1>9 DEF Next

(* No step makes a server call itself. *)
LEMMA CallsAcrossStep ==
    ASSUME TypeOK, CallsAcross, [Next]_vars
    PROVE  CallsAcross'
<1>. USE DEF CallsAcross
<1>1. ASSUME NEW s \in Server, Timeout(s)
      PROVE  CallsAcross'
  BY <1>1 DEF Timeout
<1>2. ASSUME NEW s \in Server, Restart(s)
      PROVE  CallsAcross'
  <2>1. \A w \in rv : LET x == [w EXCEPT !.pc = "orphan"] IN x.src = w.src /\ x.dst = w.dst
    BY DEF TypeOK, RvThread
  <2>2. \A y \in rv' : y \in rv \/ \E w \in rv : y = [w EXCEPT !.pc = "orphan"]
    BY <1>2 DEF Restart
  <2>3. \A y \in rv' : \E w \in rv : y.src = w.src /\ y.dst = w.dst
    BY <2>1, <2>2
  <2>. QED  BY <2>3
<1>3. ASSUME NEW w \in rv, SendRequestVote(w)
      PROVE  CallsAcross'
  <2>1. LET x == [w EXCEPT !.pc = "sent", !.term = currentTerm[w.src], !.last = lastLog[w.src]]
        IN  x.src = w.src /\ x.dst = w.dst
    BY DEF TypeOK, RvThread
  <2>. QED  BY <1>3, <2>1 DEF SendRequestVote
<1>4. ASSUME NEW w \in rv, HandleRequestVote(w)
      PROVE  CallsAcross'
  <2>1. PICK t, g : rv' \subseteq rv \cup {[w EXCEPT !.pc = "replied", !.rterm = t, !.granted = g]}
    BY <1>4 DEF HandleRequestVote
  <2>. DEFINE x == [w EXCEPT !.pc = "replied", !.rterm = t, !.granted = g]
  <2>2. x.src = w.src /\ x.dst = w.dst
    BY DEF TypeOK, RvThread
  <2>3. rv' \subseteq rv \cup {x}
    BY <2>1
  <2>. HIDE DEF x
  <2>. QED  BY <2>2, <2>3
<1>. QED
  BY <1>1, <1>2, <1>3, <1>4
  DEF Next, vars, ReadState, BecomeLeader, Heartbeat, SendAppendEntries,
      HandleAppendEntries, HandleVoteReply, RpcFails

(* Each kind of step keeps the header with the memory, and the votes with  *)
(* both.                                                                   *)
LEMMA KeptKeeps ==
    ASSUME VoteInv, VotesKept
    PROVE  HeaderCurrent' /\ BallotsCurrent' /\ VoteOnce'
BY DEF VoteInv, VotesKept, HeaderCurrent, BallotsCurrent, VoteOnce, TypeOK, Ballot

LEMMA MovesKeeps ==
    ASSUME VoteInv, NEW s \in Server, NEW t \in Nat, NEW v \in Vote, Moves(s, t, v)
    PROVE  HeaderCurrent' /\ BallotsCurrent' /\ VoteOnce'
<1>. USE DEF VoteInv
<1>1. /\ currentTerm \in [Server -> Nat] /\ DOMAIN header = Server
      /\ ballots \subseteq Ballot /\ NoVote \notin Server
  BY ElectionAssumptions DEF TypeOK
<1>2. HeaderCurrent'
  BY <1>1 DEF HeaderCurrent, Moves
<1>3. ASSUME NEW b \in ballots, b.voter \notin restarted
      PROVE  /\ b.term <= currentTerm'[b.voter]
             /\ b.term = currentTerm'[b.voter] => votedFor'[b.voter][b.voter] = b.cand
  <2>1. b.voter \in Server /\ b.cand \in Server /\ b.term \in Nat
    BY <1>1 DEF Ballot
  <2>2. /\ b.term <= currentTerm[b.voter]
        /\ b.term = currentTerm[b.voter] => votedFor[b.voter][b.voter] = b.cand
    BY <1>3 DEF BallotsCurrent
  <2>. QED  BY <1>1, <2>1, <2>2 DEF Moves
<1>4. BallotsCurrent'
  <2>1. CASE ballots' = ballots
    BY <1>3, <2>1 DEF BallotsCurrent, Moves
  <2>2. CASE ballots' = ballots \cup {[voter |-> s, cand |-> v, term |-> t]}
    BY <1>1, <1>3, <2>2 DEF BallotsCurrent, Moves
  <2>. QED  BY <2>1, <2>2 DEF Moves
<1>5. VoteOnce'
  <2>1. CASE ballots' = ballots
    BY <2>1 DEF VoteOnce, Moves
  <2>2. CASE v \in Server /\ ballots' = ballots \cup {[voter |-> s, cand |-> v, term |-> t]}
    <3>1. ASSUME NEW b \in ballots, b.voter = s, s \notin restarted, b.term = t
          PROVE  b.cand = v
      <4>1. currentTerm'[s] = t /\ votedFor'[s][s] = v
        BY <1>1 DEF Moves
      <4>. QED  BY <1>3, <3>1, <4>1
    <3>. QED  BY <2>2, <3>1 DEF VoteOnce, Moves
  <2>. QED  BY <2>1, <2>2 DEF Moves
<1>. QED  BY <1>2, <1>4, <1>5

LEMMA ResetKeeps ==
    ASSUME VoteInv, NEW s \in Server, Reset(s)
    PROVE  HeaderCurrent' /\ BallotsCurrent' /\ VoteOnce'
<1>. USE DEF VoteInv
<1>1. /\ currentTerm \in [Server -> Nat] /\ DOMAIN header = Server /\ ballots \subseteq Ballot
  BY DEF TypeOK
<1>2. HeaderCurrent'
  BY <1>1 DEF HeaderCurrent, Reset
<1>3. BallotsCurrent'
  BY <1>1 DEF BallotsCurrent, Reset, Ballot
<1>4. VoteOnce'
  BY DEF VoteOnce, Reset
<1>. QED  BY <1>2, <1>3, <1>4

LEMMA VoteInvInit == Init => VoteInv
<1>1. Init => TypeOK
  BY TypeInit
<1>2. Init => CallsAcross /\ HeaderCurrent /\ BallotsCurrent /\ VoteOnce
  BY DEF Init, CallsAcross, HeaderCurrent, BallotsCurrent, VoteOnce
<1>. QED  BY <1>1, <1>2 DEF VoteInv

LEMMA VoteInvStep == VoteInv /\ [Next]_vars => VoteInv'
<1>. SUFFICES ASSUME VoteInv, [Next]_vars
              PROVE  VoteInv'
  OBVIOUS
<1>1. TypeOK' /\ CallsAcross'
  BY TypeStep, CallsAcrossStep DEF VoteInv
<1>2. \/ VotesKept
      \/ \E s \in Server, t \in Nat, v \in Vote : Moves(s, t, v)
      \/ \E s \in Server : Reset(s)
  BY StepKinds DEF VoteInv
<1>3. HeaderCurrent' /\ BallotsCurrent' /\ VoteOnce'
  BY <1>2, KeptKeeps, MovesKeeps, ResetKeeps
<1>. QED  BY <1>1, <1>3 DEF VoteInv

(* The strengthened invariant: memory, header and votes cast agree. *)
THEOREM VoteInvariant == Spec => []VoteInv
BY VoteInvInit, VoteInvStep, PTL DEF Spec

(* No living server votes twice in a term, for any number of servers,      *)
(* terms, late replies and restarts of others, and with the races of the   *)
(* main loop.                                                              *)
THEOREM VotesOnce == Spec => []VoteOnce
<1>1. VoteInv => VoteOnce
  BY DEF VoteInv
<1>. QED  BY <1>1, VoteInvariant, PTL

(* A vote is on the device before the reply that carries it. *)
THEOREM VotesDurable == Spec => []VoteDurable
<1>1. VoteInv => VoteDurable
  <2>. SUFFICES ASSUME VoteInv, NEW b \in ballots, b.voter \notin restarted
                PROVE  /\ header[b.voter].term >= b.term
                       /\ header[b.voter].term = b.term => header[b.voter].vote = b.cand
    BY DEF VoteDurable
  <2>1. b.voter \in Server /\ b.term \in Nat /\ currentTerm[b.voter] \in Nat
    BY DEF VoteInv, TypeOK, Ballot
  <2>2. header[b.voter] = [term |-> currentTerm[b.voter], vote |-> votedFor[b.voter][b.voter]]
    BY <2>1 DEF VoteInv, HeaderCurrent
  <2>3. header[b.voter].term = currentTerm[b.voter] /\ header[b.voter].vote = votedFor[b.voter][b.voter]
    BY <2>2
  <2>. QED  BY <2>1, <2>3 DEF VoteInv, BallotsCurrent
<1>. QED  BY <1>1, VoteInvariant, PTL

-----------------------------------------------------------------------------
(* Terms *)

(* No step takes a living server's term back, or ends its leadership       *)
(* inside a term.                                                          *)
LEMMA TermStep ==
    ASSUME VoteInv, [Next]_vars, NEW s \in Server \ restarted'
    PROVE  /\ currentTerm'[s] >= currentTerm[s]
           /\ state[s] = "Leader" /\ currentTerm'[s] = currentTerm[s] => state'[s] = "Leader"
<1>. USE DEF VoteInv
<1>1. currentTerm \in [Server -> Nat] /\ state \in [Server -> ServerState]
  BY DEF TypeOK
<1>. DEFINE Goal == /\ currentTerm'[s] >= currentTerm[s]
                    /\ state[s] = "Leader" /\ currentTerm'[s] = currentTerm[s] => state'[s] = "Leader"
<1>2. ASSUME NEW q \in Server, Timeout(q)
      PROVE  Goal
  BY <1>1, <1>2 DEF Timeout
<1>3. ASSUME NEW q \in Server, BecomeLeader(q)
      PROVE  Goal
  BY <1>1, <1>3 DEF BecomeLeader, Persist
<1>4. ASSUME NEW q \in Server, NEW m \in aeSent, HandleAppendEntries(q, m)
      PROVE  Goal
  <2>. DEFINE u == UpdateTerm(q, m.term)
  <2>1. m.term \in Nat
    BY DEF TypeOK, AeRequest
  <2>2. /\ u.term \in Nat /\ u.term >= currentTerm[q]
        /\ u.term = currentTerm[q] => u.state = state[q]
    BY <2>1, UpdateTermType, UpdateTermForward
  <2>3. /\ currentTerm' = [currentTerm EXCEPT ![q] = u.term]
        /\ state' = [state EXCEPT ![q] = IF m.term = u.term /\ u.state = "Candidate"
                                         THEN "Follower" ELSE u.state]
    BY <1>4 DEF HandleAppendEntries
  <2>. HIDE DEF u
  <2>. QED  BY <1>1, <2>2, <2>3
<1>5. ASSUME NEW q \in Server, Restart(q)
      PROVE  Goal
  BY <1>1, <1>5 DEF Restart
<1>6. ASSUME NEW w \in rv, HandleRequestVote(w)
      PROVE  Goal
  <2>. DEFINE q == w.dst
              u == UpdateTerm(q, w.term)
  <2>1. q \in Server /\ w.term \in Nat
    BY DEF TypeOK, RvThread
  <2>2. /\ u.term \in Nat /\ u.term >= currentTerm[q]
        /\ u.term = currentTerm[q] => u.state = state[q]
    BY <2>1, UpdateTermType, UpdateTermForward
  <2>3. /\ currentTerm' = [currentTerm EXCEPT ![q] = u.term]
        /\ state' = [state EXCEPT ![q] = u.state]
    BY <1>6 DEF HandleRequestVote
  <2>. HIDE DEF q, u
  <2>. QED  BY <1>1, <2>1, <2>2, <2>3
<1>7. ASSUME NEW w \in rv, HandleVoteReply(w)
      PROVE  Goal
  <2>. DEFINE q == w.src
              u == UpdateTerm(q, w.rterm)
  <2>1. q \in Server /\ w.rterm \in Nat
    BY DEF TypeOK, RvThread
  <2>2. /\ u.term \in Nat /\ u.term >= currentTerm[q]
        /\ u.term = currentTerm[q] => u.state = state[q]
    BY <2>1, UpdateTermType, UpdateTermForward
  <2>3. /\ currentTerm' = [currentTerm EXCEPT ![q] = u.term]
        /\ state' = [state EXCEPT ![q] = u.state]
    BY <1>7 DEF HandleVoteReply
  <2>. HIDE DEF q, u
  <2>. QED  BY <1>1, <2>1, <2>2, <2>3
<1>8. ASSUME UNCHANGED <<currentTerm, state>>
      PROVE  Goal
  BY <1>1, <1>8
<1>9. ASSUME NEW q \in Server, ReadState(q) \/ Heartbeat(q) \/ SendAppendEntries(q)
      PROVE  UNCHANGED <<currentTerm, state>>
  BY <1>9 DEF ReadState, Heartbeat, SendAppendEntries
<1>10. ASSUME NEW w \in rv, SendRequestVote(w) \/ RpcFails(w)
       PROVE  UNCHANGED <<currentTerm, state>>
  BY <1>10 DEF SendRequestVote, RpcFails
<1>11. ASSUME UNCHANGED vars
       PROVE  UNCHANGED <<currentTerm, state>>
  BY <1>11 DEF vars
<1>. HIDE DEF Goal
<1>12. Goal
  BY <1>2, <1>3, <1>4, <1>5, <1>6, <1>7, <1>8, <1>9, <1>10, <1>11 DEF Next
<1>. QED  BY <1>12 DEF Goal

(* Terms only grow and a leader leads until a higher term, as long as the  *)
(* process lives.                                                          *)
THEOREM TermsNeverBack == Spec => TermsAdvance
<1>1. VoteInv /\ [Next]_vars =>
        [\A s \in Server \ restarted' :
            /\ currentTerm'[s] >= currentTerm[s]
            /\ state[s] = "Leader" /\ currentTerm'[s] = currentTerm[s]
                  => state'[s] = "Leader"]_vars
  BY TermStep
<1>. QED  BY <1>1, VoteInvariant, PTL DEF Spec, TermsAdvance

-----------------------------------------------------------------------------
(* Tallies *)

(* A granted reply of the request's term stands for a ballot.  Without it  *)
(* NoForgedVotes is not inductive: the slot is filled from the reply.      *)
GrantsCast ==
    \A w \in rv :
        w.pc = "replied" /\ w.granted /\ w.rterm = w.term
            => [voter |-> w.dst, cand |-> w.src, term |-> w.term] \in ballots

TallyInv == NoForgedVotes /\ GrantsCast

(* Slots that do not come to count for their server keep what they have.   *)
LEMMA TallyKept ==
    ASSUME TypeOK, NoForgedVotes, ballots \subseteq ballots',
           currentTerm' \in [Server -> Nat],
           \A s \in Server : \A p \in Server :
              votedFor'[s][p] = s => votedFor[s][p] = s /\ currentTerm'[s] >= currentTerm[s]
    PROVE  NoForgedVotes'
<1>. SUFFICES ASSUME NEW s \in Server, NEW p \in Server, votedFor'[s][p] = s
              PROVE  \E b \in ballots' : b.voter = p /\ b.cand = s /\ b.term <= currentTerm'[s]
  BY DEF NoForgedVotes
<1>1. PICK b \in ballots : b.voter = p /\ b.cand = s /\ b.term <= currentTerm[s]
  BY DEF NoForgedVotes
<1>2. b.term \in Nat /\ currentTerm[s] \in Nat /\ currentTerm'[s] \in Nat
  BY DEF TypeOK, Ballot
<1>3. b \in ballots' /\ b.term <= currentTerm'[s]
  BY <1>1, <1>2
<1>. QED  BY <1>1, <1>3

LEMMA TallyStep ==
    ASSUME VoteInv, VoteInv', TallyInv, [Next]_vars
    PROVE  TallyInv'
<1>. USE DEF TallyInv
<1>1. /\ TypeOK /\ currentTerm \in [Server -> Nat] /\ currentTerm' \in [Server -> Nat]
      /\ votedFor \in [Server -> [Server -> Vote]] /\ rv \subseteq RvThread
      /\ NoVote \notin Server
  BY ElectionAssumptions DEF VoteInv, TypeOK
<1>2. ASSUME UNCHANGED <<currentTerm, votedFor, ballots>>,
             \A y \in rv' : y \in rv \/ y.pc # "replied"
      PROVE  TallyInv'
  <2>1. NoForgedVotes'
    BY <1>2 DEF NoForgedVotes
  <2>. QED  BY <1>2, <2>1 DEF GrantsCast
<1>3. ASSUME NEW s \in Server, Timeout(s)
      PROVE  TallyInv'
  <2>1. /\ currentTerm' = [currentTerm EXCEPT ![s] = @ + 1]
        /\ votedFor' = [votedFor EXCEPT ![s] = [p \in Server |-> IF p = s THEN s ELSE NoVote]]
        /\ ballots' = ballots \cup {[voter |-> s, cand |-> s, term |-> currentTerm[s] + 1]}
    BY <1>3 DEF Timeout
  <2>2. \A y \in rv' : y \in rv \/ y.pc = "spawned"
    BY <1>3 DEF Timeout
  <2>3. GrantsCast'
    BY <2>1, <2>2 DEF GrantsCast
  <2>4. NoForgedVotes'
    <3>. SUFFICES ASSUME NEW q \in Server, NEW p \in Server, votedFor'[q][p] = q
                  PROVE  \E b \in ballots' : b.voter = p /\ b.cand = q /\ b.term <= currentTerm'[q]
      BY DEF NoForgedVotes
    <3>1. CASE q = s
      <4>1. p = s /\ currentTerm'[s] = currentTerm[s] + 1
        BY <1>1, <2>1, <3>1
      <4>2. [voter |-> s, cand |-> s, term |-> currentTerm[s] + 1] \in ballots'
        BY <2>1
      <4>. QED  BY <1>1, <3>1, <4>1, <4>2
    <3>2. CASE q # s
      <4>1. votedFor[q][p] = q /\ currentTerm'[q] = currentTerm[q]
        BY <1>1, <2>1, <3>2
      <4>. QED  BY <2>1, <4>1 DEF NoForgedVotes
    <3>. QED  BY <3>1, <3>2
  <2>. QED  BY <2>3, <2>4
<1>4. ASSUME NEW s \in Server, NEW m \in aeSent, HandleAppendEntries(s, m)
      PROVE  TallyInv'
  <2>. DEFINE u == UpdateTerm(s, m.term)
  <2>1. m.term \in Nat
    BY <1>1 DEF TypeOK, AeRequest
  <2>2. u.term \in Nat /\ u.term >= currentTerm[s] /\ u.vote \in {NoVote, votedFor[s][s]}
    BY <1>1, <2>1, UpdateTermType, UpdateTermForward DEF UpdateTerm
  <2>3. /\ currentTerm' = [currentTerm EXCEPT ![s] = u.term]
        /\ votedFor' = [votedFor EXCEPT ![s][s] = u.vote]
        /\ UNCHANGED <<rv, ballots>>
    BY <1>4 DEF HandleAppendEntries
  <2>. HIDE DEF u
  <2>4. \A q \in Server : \A p \in Server :
           votedFor'[q][p] = q => votedFor[q][p] = q /\ currentTerm'[q] >= currentTerm[q]
    BY <1>1, <2>2, <2>3
  <2>5. NoForgedVotes'
    BY <1>1, <2>3, <2>4, TallyKept
  <2>. QED  BY <2>3, <2>5 DEF GrantsCast
<1>5. ASSUME NEW s \in Server, Restart(s)
      PROVE  TallyInv'
  <2>1. header'[s] = [term |-> 0, vote |-> NoVote]
    BY <1>1, <1>5 DEF Restart, TypeOK
  <2>2. header'[s].vote = NoVote
    BY <2>1
  <2>3. /\ votedFor' = [votedFor EXCEPT ![s] = [p \in Server |-> NoVote]]
        /\ \A q \in Server \ {s} : currentTerm'[q] = currentTerm[q]
        /\ ballots' = ballots
    <3>1. [p \in Server |-> IF p = s THEN header'[s].vote ELSE NoVote] = [p \in Server |-> NoVote]
      BY <2>2
    <3>. QED  BY <1>1, <1>5, <3>1 DEF Restart
  <2>4. \A q \in Server : \A p \in Server :
           votedFor'[q][p] = q => votedFor[q][p] = q /\ currentTerm'[q] >= currentTerm[q]
    BY <1>1, <2>3
  <2>5. NoForgedVotes'
    BY <1>1, <2>3, <2>4, TallyKept
  <2>6. \A w \in rv : LET x == [w EXCEPT !.pc = "orphan"] IN x.pc = "orphan"
    BY <1>1 DEF RvThread
  <2>7. \A y \in rv' : y \in rv \/ \E w \in rv : y = [w EXCEPT !.pc = "orphan"]
    BY <1>5 DEF Restart
  <2>8. \A y \in rv' : y \in rv \/ y.pc = "orphan"
    BY <2>6, <2>7
  <2>. QED  BY <2>3, <2>5, <2>8 DEF GrantsCast
<1>6. ASSUME NEW w \in rv, HandleRequestVote(w)
      PROVE  TallyInv'
  <2>. DEFINE s == w.dst
              u == UpdateTerm(s, w.term)
              grant == /\ w.term = u.term
                       /\ LogOk(w.last, lastLog[s])
                       /\ u.vote \in {NoVote, w.src}
              vote == IF grant THEN w.src ELSE u.vote
  <2>0. PICK x : x = [w EXCEPT !.pc = "replied", !.rterm = u.term, !.granted = grant]
    OBVIOUS
  <2>1. s \in Server /\ w.src \in Server /\ w.term \in Nat /\ w.src # s
    BY <1>1 DEF RvThread, VoteInv, CallsAcross
  <2>2. u.term \in Nat /\ u.term >= currentTerm[s] /\ u.vote \in {NoVote, votedFor[s][s]}
    BY <1>1, <2>1, UpdateTermType, UpdateTermForward DEF UpdateTerm
  <2>3. /\ currentTerm' = [currentTerm EXCEPT ![s] = u.term]
        /\ votedFor' = [votedFor EXCEPT ![s][s] = vote]
        /\ rv' \subseteq rv \cup {x}
        /\ ballots' = IF grant
                      THEN ballots \cup {[voter |-> s, cand |-> w.src, term |-> u.term]}
                      ELSE ballots
    BY <1>6, <2>0 DEF HandleRequestVote
  <2>4. x.src = w.src /\ x.dst = s /\ x.term = w.term /\ x.rterm = u.term /\ x.granted = grant
    BY <1>1, <2>0 DEF RvThread
  <2>. HIDE DEF u
  <2>5. ballots \subseteq ballots'
    BY <2>3
  <2>6. x.granted => [voter |-> x.dst, cand |-> x.src, term |-> x.term] \in ballots'
    BY <2>3, <2>4
  <2>7. vote = s => votedFor[s][s] = s
    BY <1>1, <2>1, <2>2
  <2>. HIDE DEF grant, vote, s
  <2>8. \A q \in Server : \A p \in Server :
           votedFor'[q][p] = q => votedFor[q][p] = q /\ currentTerm'[q] >= currentTerm[q]
    BY <1>1, <2>1, <2>2, <2>3, <2>7
  <2>9. NoForgedVotes'
    BY <1>1, <2>5, <2>8, TallyKept
  <2>10. GrantsCast'
    BY <2>3, <2>5, <2>6 DEF GrantsCast
  <2>. QED  BY <2>9, <2>10
<1>7. ASSUME NEW w \in rv, HandleVoteReply(w)
      PROVE  TallyInv'
  <2>. DEFINE s == w.src
              u == UpdateTerm(s, w.rterm)
              counted == ~(w.rterm > currentTerm[s]) /\ VoteCounted(w)
  <2>1. /\ s \in Server /\ w.dst \in Server /\ w.rterm \in Nat /\ w.term \in Nat /\ w.dst # s
    BY <1>1 DEF RvThread, VoteInv, CallsAcross
  <2>2. u.term \in Nat /\ u.term >= currentTerm[s] /\ u.vote \in {NoVote, votedFor[s][s]}
    BY <1>1, <2>1, UpdateTermType, UpdateTermForward DEF UpdateTerm
  <2>3. /\ currentTerm' = [currentTerm EXCEPT ![s] = u.term]
        /\ votedFor' = [votedFor EXCEPT ![s][s] = u.vote, ![s][w.dst] = IF counted THEN s ELSE @]
        /\ rv' \subseteq rv
        /\ ballots' = ballots
    BY <1>7 DEF HandleVoteReply
  <2>4. counted => /\ [voter |-> w.dst, cand |-> s, term |-> w.term] \in ballots
                   /\ w.term <= currentTerm[s]
    BY <1>1, <1>7, <2>1 DEF HandleVoteReply, GrantsCast, VoteCounted
  <2>. HIDE DEF u, counted
  <2>5. /\ \A q \in Server \ {s} : votedFor'[q] = votedFor[q] /\ currentTerm'[q] = currentTerm[q]
        /\ votedFor'[s][s] = u.vote
        /\ votedFor'[s][w.dst] = IF counted THEN s ELSE votedFor[s][w.dst]
        /\ \A p \in Server \ {s, w.dst} : votedFor'[s][p] = votedFor[s][p]
        /\ currentTerm'[s] = u.term
    BY <1>1, <2>1, <2>3
  <2>. HIDE DEF s
  <2>6. \A q \in Server : currentTerm'[q] \in Nat /\ currentTerm[q] \in Nat /\ currentTerm'[q] >= currentTerm[q]
    BY <1>1, <2>2, <2>5
  <2>7. NoForgedVotes'
    <3>. SUFFICES ASSUME NEW q \in Server, NEW p \in Server, votedFor'[q][p] = q
                  PROVE  \E b \in ballots' : b.voter = p /\ b.cand = q /\ b.term <= currentTerm'[q]
      BY DEF NoForgedVotes
    <3>1. CASE votedFor[q][p] = q
      <4>1. PICK b \in ballots : b.voter = p /\ b.cand = q /\ b.term <= currentTerm[q]
        BY <3>1 DEF NoForgedVotes
      <4>2. b.term \in Nat
        BY <1>1 DEF TypeOK, Ballot
      <4>. QED  BY <2>3, <2>6, <4>1, <4>2
    <3>2. CASE q = s /\ p = w.dst /\ counted
      <4>1. currentTerm'[s] >= currentTerm[s] /\ currentTerm'[s] \in Nat /\ currentTerm[s] \in Nat
        BY <2>1, <2>6
      <4>2. [voter |-> w.dst, cand |-> s, term |-> w.term] \in ballots' /\ w.term <= currentTerm'[s]
        BY <2>1, <2>3, <2>4, <3>2, <4>1
      <4>. QED  BY <3>2, <4>2
    <3>3. votedFor[q][p] = q \/ (q = s /\ p = w.dst /\ counted)
      <4>1. CASE q # s
        BY <2>5, <4>1
      <4>2. CASE q = s /\ p = s
        BY <1>1, <2>1, <2>2, <2>5, <4>2
      <4>3. CASE q = s /\ p = w.dst
        BY <2>5, <4>3
      <4>4. CASE q = s /\ p \notin {s, w.dst}
        BY <2>5, <4>4
      <4>. QED  BY <4>1, <4>2, <4>3, <4>4
    <3>. QED  BY <3>1, <3>2, <3>3
  <2>. QED  BY <2>3, <2>7 DEF GrantsCast
<1>8. ASSUME NEW s \in Server,
             ReadState(s) \/ BecomeLeader(s) \/ Heartbeat(s) \/ SendAppendEntries(s)
      PROVE  TallyInv'
  <2>1. UNCHANGED <<currentTerm, votedFor, ballots, rv>>
    BY <1>8 DEF ReadState, BecomeLeader, Heartbeat, SendAppendEntries
  <2>. QED  BY <1>2, <2>1
<1>9. ASSUME NEW w \in rv, SendRequestVote(w)
      PROVE  TallyInv'
  <2>1. PICK x : x = [w EXCEPT !.pc = "sent", !.term = currentTerm[w.src], !.last = lastLog[w.src]]
    OBVIOUS
  <2>2. x.pc = "sent"
    BY <1>1, <2>1 DEF RvThread
  <2>3. UNCHANGED <<currentTerm, votedFor, ballots>> /\ rv' = (rv \ {w}) \cup {x}
    BY <1>9, <2>1 DEF SendRequestVote
  <2>. QED  BY <1>2, <2>2, <2>3
<1>10. ASSUME NEW w \in rv, RpcFails(w)
       PROVE  TallyInv'
  <2>1. UNCHANGED <<currentTerm, votedFor, ballots>> /\ rv' \subseteq rv
    BY <1>10 DEF RpcFails
  <2>. QED  BY <1>2, <2>1
<1>11. ASSUME UNCHANGED vars
       PROVE  TallyInv'
  <2>1. UNCHANGED <<currentTerm, votedFor, ballots, rv>>
    BY <1>11 DEF vars
  <2>. QED  BY <1>2, <2>1
<1>. HIDE DEF TallyInv
<1>. QED
  BY <1>3, <1>4, <1>5, <1>6, <1>7, <1>8, <1>9, <1>10, <1>11 DEF Next

(* A tally counts votes that were given, for every number of servers,      *)
(* terms, late replies and restarts.                                       *)
THEOREM NoVoteForged == Spec => []NoForgedVotes
<1>1. Init => TallyInv
  BY ElectionAssumptions DEF Init, TallyInv, NoForgedVotes, GrantsCast
<1>2. VoteInv /\ VoteInv' /\ TallyInv /\ [Next]_vars => TallyInv'
  BY TallyStep
<1>3. TallyInv => NoForgedVotes
  BY DEF TallyInv
<1>. QED  BY <1>1, <1>2, <1>3, VoteInvariant, PTL DEF Spec

-----------------------------------------------------------------------------
(* One leader per term *)

(* The three conditions. *)
Calm == LateCalls = 0 /\ QuietLoop = TRUE /\ MaxRestart = 0

NoRestarts == restarted = {}

(* The main loop in its Candidate branch has a candidate's state. *)
LoopCurrent ==
    \A s \in Server : loop[s] \in {"Candidate", "promote"} => state[s] = "Candidate"

(* The terms that are in use. *)
TermsBounded ==
    /\ \A s \in Server : /\ currentTerm[s] <= MaxTerm
                         /\ state[s] = "Candidate" => currentTerm[s] >= 1
    /\ \A m \in aeSent : m.term <= MaxTerm

(* A call of a candidate is of its current term, and a granted reply of    *)
(* the request's term stands for a ballot.                                 *)
CallSound(w) ==
    /\ currentTerm[w.src] >= 1
    /\ w.rterm <= MaxTerm
    /\ w.pc # "spawned" => w.term >= 1 /\ w.term <= MaxTerm
    /\ w.pc \in {"sent", "replied"} /\ state[w.src] = "Candidate"
          => w.term = currentTerm[w.src]
    /\ w.pc = "replied" /\ w.granted /\ w.rterm = w.term
          => [voter |-> w.dst, cand |-> w.src, term |-> w.term] \in ballots

CallsSound == \A w \in rv : CallSound(w)

(* A candidate's tally counts ballots of its current term. *)
TallyCast ==
    \A s, p \in Server :
        state[s] = "Candidate" /\ votedFor[s][p] = s
            => [voter |-> p, cand |-> s, term |-> currentTerm[s]] \in ballots

Backers(c, t) == {p \in Server : [voter |-> p, cand |-> c, term |-> t] \in ballots}

(* Every leadership has a majority of ballots behind it. *)
Majorities == \A e \in elected : Cardinality(Backers(e.server, e.term)) >= Quorum

CandidateInv ==
    /\ NoRestarts
    /\ IsFiniteSet(rv)
    /\ LoopCurrent
    /\ TermsBounded
    /\ CallsSound
    /\ TallyCast
    /\ Majorities

(* No server becomes a candidate, and no ballot is lost. *)
NoNewCandidate ==
    /\ \A s \in Server :
          /\ currentTerm'[s] \in Nat
          /\ currentTerm'[s] >= currentTerm[s]
          /\ state'[s] = "Candidate" =>
                state[s] = "Candidate" /\ currentTerm'[s] = currentTerm[s]
    /\ ballots \subseteq ballots'

(* A call that stays as it is stays sound. *)
LEMMA CallKept ==
    ASSUME TypeOK, NoNewCandidate, NEW w \in rv, CallSound(w)
    PROVE  CallSound(w)'
<1>1. w.src \in Server /\ w.dst \in Server /\ currentTerm[w.src] \in Nat
  BY DEF TypeOK, RvThread
<1>. QED  BY <1>1 DEF NoNewCandidate, CallSound

(* Majorities of old leaderships stay majorities. *)
LEMMA MajoritiesKept ==
    ASSUME Majorities, ballots \subseteq ballots', NEW e \in elected
    PROVE  Cardinality(Backers(e.server, e.term)') >= Quorum
<1>. DEFINE B == Backers(e.server, e.term)
            C == Backers(e.server, e.term)'
<1>1. B \in SUBSET C /\ C \in SUBSET Server
  BY DEF Backers
<1>2. IsFiniteSet(C)
  BY <1>1, ElectionAssumptions, FS_Subset
<1>3. Cardinality(B) <= Cardinality(C) /\ IsFiniteSet(B)
  BY <1>1, <1>2, FS_Subset
<1>4. Cardinality(B) \in Nat /\ Cardinality(C) \in Nat /\ Quorum \in Int
  BY <1>2, <1>3, ElectionAssumptions, FS_CardinalityType DEF Quorum
<1>5. Cardinality(B) >= Quorum
  BY DEF Majorities
<1>. HIDE DEF B, C
<1>6. Cardinality(C) >= Quorum
  BY <1>3, <1>4, <1>5
<1>. QED  BY <1>6 DEF C

LEMMA CandidateInit == Init => CandidateInv
<1>. SUFFICES ASSUME Init
              PROVE  CandidateInv
  OBVIOUS
<1>1. IsFiniteSet(rv)
  BY FS_EmptySet DEF Init
<1>2. NoRestarts /\ LoopCurrent /\ TermsBounded
  BY ElectionAssumptions DEF Init, NoRestarts, LoopCurrent, TermsBounded
<1>3. CallsSound /\ TallyCast /\ Majorities
  BY ElectionAssumptions DEF Init, CallsSound, TallyCast, Majorities
<1>. QED  BY <1>1, <1>2, <1>3 DEF CandidateInv

(* A timeout finds no call of its server open: what it starts is all there *)
(* is of the new term.                                                     *)
LEMMA TimeoutCandidate ==
    ASSUME Calm, VoteInv, CandidateInv, NEW s \in Server, Timeout(s)
    PROVE  CandidateInv'
<1>. USE DEF CandidateInv
<1>1. /\ currentTerm \in [Server -> Nat] /\ state \in [Server -> ServerState]
      /\ loop \in [Server -> {"idle", "Candidate", "promote", "Leader"}]
      /\ rv \subseteq RvThread /\ MaxTerm \in Nat /\ NoVote \notin Server
      /\ votedFor \in [Server -> [Server -> Vote]]
  BY ElectionAssumptions DEF VoteInv, TypeOK
<1>2. /\ currentTerm' = [currentTerm EXCEPT ![s] = @ + 1]
      /\ state' = [state EXCEPT ![s] = "Candidate"]
      /\ votedFor' = [votedFor EXCEPT ![s] = [p \in Server |-> IF p = s THEN s ELSE NoVote]]
      /\ ballots' = ballots \cup {[voter |-> s, cand |-> s, term |-> currentTerm[s] + 1]}
      /\ currentTerm[s] < MaxTerm
      /\ loop' = loop \/ loop' = [loop EXCEPT ![s] = "promote"]
      /\ UNCHANGED <<aeSent, restarted, elected>>
  BY DEF Timeout
<1>3. NoRestarts' /\ LoopCurrent'
  BY <1>1, <1>2 DEF NoRestarts, LoopCurrent
<1>4. TermsBounded'
  BY <1>1, <1>2 DEF TermsBounded
<1>5. OpenCalls(s) = {}
  <2>1. IsFiniteSet(OpenCalls(s))
    BY FS_Subset DEF OpenCalls
  <2>2. Cardinality(OpenCalls(s)) \in Nat /\ Cardinality(OpenCalls(s)) <= 0
    BY <2>1, FS_CardinalityType DEF Timeout, Calm
  <2>. QED  BY <2>1, <2>2, FS_EmptySet
<1>. DEFINE fresh(p) == [src |-> s, dst |-> p, epoch |-> currentTerm[s] + 1,
                         pc |-> "spawned", term |-> 0, last |-> EmptyLog,
                         rterm |-> 0, granted |-> FALSE]
            new == {fresh(p) : p \in Server \ {s}}
<1>6. rv' = rv \cup new
  BY DEF Timeout
<1>7. IsFiniteSet(rv')
  <2>. DEFINE f == [p \in Server \ {s} |-> fresh(p)]
  <2>1. f \in Surjection(Server \ {s}, new)
    BY DEF Surjection
  <2>2. IsFiniteSet(Server \ {s})
    BY ElectionAssumptions, FS_RemoveElement
  <2>. HIDE DEF f, new
  <2>3. IsFiniteSet(new)
    BY <2>1, <2>2, FS_Surjection
  <2>. QED  BY <1>6, <2>3, FS_Union
<1>8. CallsSound'
  <2>1. ASSUME NEW w \in rv
        PROVE  CallSound(w)'
    <3>1. w.src \in Server /\ w.dst \in Server /\ CallSound(w)
      BY <1>1 DEF RvThread, CallsSound
    <3>2. CASE w.src = s
      <4>1. w.pc = "orphan"
        BY <1>5, <3>2 DEF OpenCalls
      <4>. QED  BY <1>1, <1>2, <3>1, <4>1 DEF CallSound
    <3>3. CASE w.src # s
      BY <1>1, <1>2, <3>1, <3>3 DEF CallSound
    <3>. QED  BY <3>2, <3>3
  <2>2. ASSUME NEW w \in new
        PROVE  CallSound(w)'
    <3>1. w.src = s /\ w.pc = "spawned" /\ w.rterm = 0
      BY <2>2
    <3>. QED  BY <1>1, <1>2, <3>1 DEF CallSound
  <2>. QED  BY <1>6, <2>1, <2>2 DEF CallsSound
<1>9. TallyCast'
  BY <1>1, <1>2 DEF TallyCast
<1>10. Majorities'
  <2>1. \A e \in elected : Cardinality(Backers(e.server, e.term)') >= Quorum
    BY <1>2, MajoritiesKept
  <2>. QED  BY <1>2, <2>1 DEF Majorities
<1>. QED  BY <1>3, <1>4, <1>7, <1>8, <1>9, <1>10

(* A server that becomes leader has a majority of the ballots of its term. *)
LEMMA BecomeLeaderCandidate ==
    ASSUME Calm, VoteInv, CandidateInv, NEW s \in Server, BecomeLeader(s)
    PROVE  CandidateInv'
<1>. USE DEF CandidateInv
<1>1. /\ currentTerm \in [Server -> Nat] /\ state \in [Server -> ServerState]
      /\ loop \in [Server -> {"idle", "Candidate", "promote", "Leader"}]
  BY DEF VoteInv, TypeOK
<1>2. /\ loop' = [loop EXCEPT ![s] = "idle"]
      /\ state' = state \/ state' = [state EXCEPT ![s] = "Leader"]
      /\ UNCHANGED <<currentTerm, votedFor, rv, aeSent, restarted, ballots>>
  BY DEF BecomeLeader
<1>3. NoNewCandidate
  BY <1>1, <1>2 DEF NoNewCandidate
<1>4. NoRestarts' /\ IsFiniteSet(rv') /\ LoopCurrent'
  BY <1>1, <1>2 DEF NoRestarts, LoopCurrent
<1>5. TermsBounded' /\ TallyCast'
  BY <1>1, <1>2 DEF TermsBounded, TallyCast
<1>6. CallsSound'
  BY <1>2, <1>3, CallKept DEF VoteInv, CallsSound
<1>7. Majorities'
  <2>1. \A e \in elected : Cardinality(Backers(e.server, e.term)') >= Quorum
    BY <1>2, MajoritiesKept
  <2>2. CASE elected' = elected
    BY <2>1, <2>2 DEF Majorities
  <2>3. CASE /\ Cardinality(Tally(s)) >= Quorum
             /\ elected' = elected \cup {[server |-> s, term |-> currentTerm[s]]}
    <3>1. Tally(s) \in SUBSET Backers(s, currentTerm[s]) /\ Backers(s, currentTerm[s]) \in SUBSET Server
      BY <1>1 DEF BecomeLeader, LoopCurrent, TallyCast, Tally, Backers
    <3>2. IsFiniteSet(Backers(s, currentTerm[s]))
      BY <3>1, ElectionAssumptions, FS_Subset
    <3>3. IsFiniteSet(Tally(s)) /\ Cardinality(Tally(s)) <= Cardinality(Backers(s, currentTerm[s]))
      BY <3>1, <3>2, FS_Subset
    <3>4. /\ Cardinality(Tally(s)) \in Nat /\ Cardinality(Backers(s, currentTerm[s])) \in Nat
          /\ Quorum \in Int
      BY <3>2, <3>3, ElectionAssumptions, FS_CardinalityType DEF Quorum
    <3>5. Cardinality(Backers(s, currentTerm[s])) >= Quorum
      BY <2>3, <3>3, <3>4
    <3>6. Backers(s, currentTerm[s])' = Backers(s, currentTerm[s])
      BY <1>2 DEF Backers
    <3>. QED  BY <1>2, <2>1, <2>3, <3>5, <3>6 DEF Majorities
  <2>. QED  BY <2>2, <2>3 DEF BecomeLeader
<1>. QED  BY <1>4, <1>5, <1>6, <1>7

(* What a handler at an idle server does to elections: it may raise the    *)
(* term, and then it makes a follower; it makes no candidate.              *)
Handles(s, t, st) ==
    /\ loop[s] = "idle"
    /\ currentTerm' = [currentTerm EXCEPT ![s] = t]
    /\ state' = [state EXCEPT ![s] = st]
    /\ t >= currentTerm[s] /\ t <= MaxTerm
    /\ st = "Candidate" => state[s] = "Candidate" /\ t = currentTerm[s]
    /\ ballots \subseteq ballots'
    /\ UNCHANGED <<loop, aeSent, restarted, elected>>

LEMMA HandlesCandidate ==
    ASSUME VoteInv, CandidateInv, NEW s \in Server, NEW t \in Nat, NEW st, Handles(s, t, st)
    PROVE  /\ NoNewCandidate
           /\ NoRestarts' /\ LoopCurrent' /\ TermsBounded' /\ Majorities'
           /\ \A w \in rv : CallSound(w)'
<1>. USE DEF CandidateInv
<1>1. /\ currentTerm \in [Server -> Nat] /\ state \in [Server -> ServerState]
      /\ loop \in [Server -> {"idle", "Candidate", "promote", "Leader"}]
      /\ MaxTerm \in Nat
  BY ElectionAssumptions DEF VoteInv, TypeOK
<1>2. NoNewCandidate
  BY <1>1 DEF NoNewCandidate, Handles
<1>3. NoRestarts' /\ LoopCurrent'
  BY <1>1 DEF NoRestarts, LoopCurrent, Handles
<1>4. TermsBounded'
  BY <1>1 DEF TermsBounded, Handles
<1>5. Majorities'
  <2>1. \A e \in elected : Cardinality(Backers(e.server, e.term)') >= Quorum
    BY MajoritiesKept DEF Handles
  <2>. QED  BY <2>1 DEF Majorities, Handles
<1>6. \A w \in rv : CallSound(w)'
  BY <1>2, CallKept DEF CallsSound, VoteInv
<1>. QED  BY <1>2, <1>3, <1>4, <1>5, <1>6

(* update_term makes no candidate. *)
LEMMA UpdateTermCandidate ==
    ASSUME TypeOK, NEW s \in Server, NEW t \in Nat, t <= MaxTerm, currentTerm[s] <= MaxTerm
    PROVE  /\ UpdateTerm(s, t).term <= MaxTerm
           /\ UpdateTerm(s, t).state = "Candidate" =>
                 state[s] = "Candidate" /\ UpdateTerm(s, t).term = currentTerm[s]
BY DEF TypeOK, UpdateTerm

LEMMA HandleRequestVoteCandidate ==
    ASSUME Calm, VoteInv, CandidateInv, NEW w \in rv, HandleRequestVote(w)
    PROVE  CandidateInv'
<1>. USE DEF CandidateInv
<1>. DEFINE s == w.dst
            u == UpdateTerm(s, w.term)
            grant == /\ w.term = u.term
                     /\ LogOk(w.last, lastLog[s])
                     /\ u.vote \in {NoVote, w.src}
            vote == IF grant THEN w.src ELSE u.vote
<1>0. PICK x : x = [w EXCEPT !.pc = "replied", !.rterm = u.term, !.granted = grant]
  OBVIOUS
<1>1. /\ s \in Server /\ w.src \in Server /\ w.term \in Nat /\ w.src # s
      /\ w \in RvThread /\ TypeOK /\ currentTerm[s] \in Nat
      /\ currentTerm \in [Server -> Nat] /\ state \in [Server -> ServerState]
      /\ votedFor \in [Server -> [Server -> Vote]] /\ NoVote \notin Server
  BY ElectionAssumptions DEF VoteInv, TypeOK, RvThread, CallsAcross
<1>2. CallSound(w) /\ w.pc \in {"sent", "orphan"}
  BY DEF CallsSound, HandleRequestVote
<1>3. w.term >= 1 /\ w.term <= MaxTerm /\ currentTerm[s] <= MaxTerm /\ currentTerm[w.src] >= 1
  BY <1>1, <1>2 DEF CallSound, TermsBounded
<1>4. /\ u.term \in Nat /\ u.term >= currentTerm[s] /\ u.term <= MaxTerm
      /\ u.term = currentTerm[s] => u.vote = votedFor[s][s]
      /\ u.state = "Candidate" => state[s] = "Candidate" /\ u.term = currentTerm[s]
  BY <1>1, <1>3, UpdateTermType, UpdateTermForward, UpdateTermCandidate
<1>5. /\ currentTerm' = [currentTerm EXCEPT ![s] = u.term]
      /\ state' = [state EXCEPT ![s] = u.state]
      /\ votedFor' = [votedFor EXCEPT ![s][s] = vote]
      /\ rv' = (rv \ {w}) \cup (IF w.pc = "orphan" THEN {} ELSE {x})
      /\ ballots' = IF grant
                    THEN ballots \cup {[voter |-> s, cand |-> w.src, term |-> u.term]}
                    ELSE ballots
      /\ loop[s] = "idle"
      /\ UNCHANGED <<loop, aeSent, restarted, elected>>
  BY <1>0 DEF HandleRequestVote, MayLock, Calm
<1>6. /\ x.src = w.src /\ x.dst = s /\ x.term = w.term /\ x.pc = "replied"
      /\ x.rterm = u.term /\ x.granted = grant
  BY <1>0, <1>1 DEF RvThread
<1>7. rv' \subseteq rv \cup {x}
  BY <1>5
<1>8. (x \in rv' => w.pc = "sent") \/ x \in rv
  BY <1>2, <1>5
<1>. HIDE DEF u
<1>9. ballots \subseteq ballots'
  BY <1>5
<1>10. grant => [voter |-> s, cand |-> w.src, term |-> w.term] \in ballots'
  BY <1>5
<1>11. vote = s => votedFor[s][s] = s \/ u.state # "Candidate"
  BY <1>1, <1>4
<1>. HIDE DEF grant, vote, s
<1>12. Handles(s, u.term, u.state)
  BY <1>4, <1>5, <1>9 DEF Handles
<1>13. /\ NoNewCandidate
       /\ NoRestarts' /\ LoopCurrent' /\ TermsBounded' /\ Majorities'
       /\ \A y \in rv : CallSound(y)'
  BY <1>1, <1>4, <1>12, HandlesCandidate
<1>14. IsFiniteSet(rv')
  BY <1>7, FS_AddElement, FS_Subset
<1>15. w.pc = "sent" => CallSound(x)'
  <2>. SUFFICES ASSUME w.pc = "sent"
                PROVE  CallSound(x)'
    OBVIOUS
  <2>1. CallSound(w)'
    BY <1>13
  <2>2. /\ currentTerm'[x.src] >= 1
        /\ state'[x.src] = "Candidate" => x.term = currentTerm'[x.src]
    BY <1>6, <2>1 DEF CallSound
  <2>3. x.granted => [voter |-> x.dst, cand |-> x.src, term |-> x.term] \in ballots'
    BY <1>6, <1>10
  <2>. QED  BY <1>3, <1>4, <1>6, <2>2, <2>3 DEF CallSound
<1>16. CallsSound'
  BY <1>7, <1>8, <1>13, <1>15 DEF CallsSound
<1>17. TallyCast'
  <2>. SUFFICES ASSUME NEW q \in Server, NEW p \in Server, state'[q] = "Candidate", votedFor'[q][p] = q
                PROVE  [voter |-> p, cand |-> q, term |-> currentTerm'[q]] \in ballots'
    BY DEF TallyCast
  <2>1. state[q] = "Candidate" /\ currentTerm'[q] = currentTerm[q]
    BY <1>13 DEF NoNewCandidate
  <2>2. votedFor[q][p] = q
    BY <1>1, <1>5, <1>11
  <2>. QED  BY <1>9, <2>1, <2>2 DEF TallyCast
<1>. QED  BY <1>13, <1>14, <1>16, <1>17

LEMMA HandleVoteReplyCandidate ==
    ASSUME Calm, VoteInv, CandidateInv, NEW w \in rv, HandleVoteReply(w)
    PROVE  CandidateInv'
<1>. USE DEF CandidateInv
<1>. DEFINE s == w.src
            u == UpdateTerm(s, w.rterm)
            counted == ~(w.rterm > currentTerm[s]) /\ VoteCounted(w)
<1>1. /\ s \in Server /\ w.dst \in Server /\ w.rterm \in Nat /\ w.dst # s
      /\ w \in RvThread /\ TypeOK /\ currentTerm[s] \in Nat
      /\ currentTerm \in [Server -> Nat] /\ state \in [Server -> ServerState]
      /\ votedFor \in [Server -> [Server -> Vote]]
  BY DEF VoteInv, TypeOK, RvThread, CallsAcross
<1>2. CallSound(w) /\ w.pc = "replied"
  BY DEF CallsSound, HandleVoteReply
<1>3. w.rterm <= MaxTerm /\ currentTerm[s] <= MaxTerm
  BY <1>1, <1>2 DEF CallSound, TermsBounded
<1>4. /\ u.term \in Nat /\ u.term >= currentTerm[s] /\ u.term <= MaxTerm
      /\ u.term = currentTerm[s] => u.vote = votedFor[s][s]
      /\ u.state = "Candidate" => state[s] = "Candidate" /\ u.term = currentTerm[s]
  BY <1>1, <1>3, UpdateTermType, UpdateTermForward, UpdateTermCandidate
<1>5. /\ currentTerm' = [currentTerm EXCEPT ![s] = u.term]
      /\ state' = [state EXCEPT ![s] = u.state]
      /\ votedFor' = [votedFor EXCEPT ![s][s] = u.vote, ![s][w.dst] = IF counted THEN s ELSE @]
      /\ rv' = rv \ {w}
      /\ loop[s] = "idle"
      /\ UNCHANGED <<loop, aeSent, restarted, elected, ballots>>
  BY DEF HandleVoteReply, MayLock, Calm
<1>6. counted /\ state[s] = "Candidate" =>
         [voter |-> w.dst, cand |-> s, term |-> currentTerm[s]] \in ballots
  BY <1>2 DEF CallSound, VoteCounted
<1>. HIDE DEF u, counted
<1>7. /\ \A q \in Server \ {s} : votedFor'[q] = votedFor[q]
      /\ votedFor'[s][s] = u.vote
      /\ votedFor'[s][w.dst] = IF counted THEN s ELSE votedFor[s][w.dst]
      /\ \A p \in Server \ {s, w.dst} : votedFor'[s][p] = votedFor[s][p]
  BY <1>1, <1>5
<1>. HIDE DEF s
<1>8. Handles(s, u.term, u.state)
  BY <1>4, <1>5 DEF Handles
<1>9. /\ NoNewCandidate
      /\ NoRestarts' /\ LoopCurrent' /\ TermsBounded' /\ Majorities'
      /\ \A y \in rv : CallSound(y)'
  BY <1>1, <1>4, <1>8, HandlesCandidate
<1>10. IsFiniteSet(rv') /\ CallsSound'
  BY <1>5, <1>9, FS_RemoveElement DEF CallsSound
<1>11. TallyCast'
  <2>. SUFFICES ASSUME NEW q \in Server, NEW p \in Server, state'[q] = "Candidate", votedFor'[q][p] = q
                PROVE  [voter |-> p, cand |-> q, term |-> currentTerm'[q]] \in ballots'
    BY DEF TallyCast
  <2>1. state[q] = "Candidate" /\ currentTerm'[q] = currentTerm[q]
    BY <1>9 DEF NoNewCandidate
  <2>2. votedFor[q][p] = q => [voter |-> p, cand |-> q, term |-> currentTerm'[q]] \in ballots'
    BY <1>5, <2>1 DEF TallyCast
  <2>3. CASE q # s
    BY <1>7, <2>2, <2>3
  <2>4. CASE q = s /\ p = s
    <3>1. u.term = currentTerm[s]
      BY <1>1, <1>5, <2>1, <2>4
    <3>. QED  BY <1>4, <1>7, <2>2, <2>4, <3>1
  <2>5. CASE q = s /\ p = w.dst
    <3>1. CASE counted
      <4>1. [voter |-> w.dst, cand |-> s, term |-> currentTerm[s]] \in ballots
        BY <1>6, <2>1, <2>5, <3>1
      <4>. QED  BY <1>5, <2>1, <2>5, <4>1
    <3>2. CASE ~counted
      <4>1. votedFor'[s][w.dst] = votedFor[s][w.dst]
        BY <1>7, <3>2
      <4>. QED  BY <2>2, <2>5, <4>1
    <3>. QED  BY <3>1, <3>2
  <2>6. CASE q = s /\ p \notin {s, w.dst}
    BY <1>7, <2>2, <2>6
  <2>. QED  BY <2>3, <2>4, <2>5, <2>6
<1>. QED  BY <1>9, <1>10, <1>11

LEMMA HandleAppendEntriesCandidate ==
    ASSUME Calm, VoteInv, CandidateInv, NEW s \in Server, NEW m \in aeSent,
           HandleAppendEntries(s, m)
    PROVE  CandidateInv'
<1>. USE DEF CandidateInv
<1>. DEFINE u == UpdateTerm(s, m.term)
            st == IF m.term = u.term /\ u.state = "Candidate" THEN "Follower" ELSE u.state
<1>1. /\ m.term \in Nat /\ TypeOK /\ currentTerm[s] \in Nat
      /\ currentTerm \in [Server -> Nat] /\ state \in [Server -> ServerState]
      /\ votedFor \in [Server -> [Server -> Vote]]
  BY DEF VoteInv, TypeOK, AeRequest
<1>2. m.term <= MaxTerm /\ currentTerm[s] <= MaxTerm
  BY DEF TermsBounded
<1>3. /\ u.term \in Nat /\ u.term >= currentTerm[s] /\ u.term <= MaxTerm
      /\ u.term = currentTerm[s] => u.vote = votedFor[s][s]
      /\ u.state = "Candidate" => state[s] = "Candidate" /\ u.term = currentTerm[s]
  BY <1>1, <1>2, UpdateTermType, UpdateTermForward, UpdateTermCandidate
<1>4. /\ currentTerm' = [currentTerm EXCEPT ![s] = u.term]
      /\ state' = [state EXCEPT ![s] = st]
      /\ votedFor' = [votedFor EXCEPT ![s][s] = u.vote]
      /\ loop[s] = "idle"
      /\ UNCHANGED <<loop, rv, aeSent, restarted, elected, ballots>>
  BY DEF HandleAppendEntries, MayLock, Calm
<1>. HIDE DEF u
<1>5. st = "Candidate" => state[s] = "Candidate" /\ u.term = currentTerm[s]
  BY <1>3
<1>. HIDE DEF st
<1>6. Handles(s, u.term, st)
  BY <1>3, <1>4, <1>5 DEF Handles
<1>7. /\ NoNewCandidate
      /\ NoRestarts' /\ LoopCurrent' /\ TermsBounded' /\ Majorities'
      /\ \A y \in rv : CallSound(y)'
  BY <1>3, <1>6, HandlesCandidate
<1>8. IsFiniteSet(rv') /\ CallsSound'
  BY <1>4, <1>7 DEF CallsSound
<1>9. TallyCast'
  <2>. SUFFICES ASSUME NEW q \in Server, NEW p \in Server, state'[q] = "Candidate", votedFor'[q][p] = q
                PROVE  [voter |-> p, cand |-> q, term |-> currentTerm'[q]] \in ballots'
    BY DEF TallyCast
  <2>1. state[q] = "Candidate" /\ currentTerm'[q] = currentTerm[q]
    BY <1>7 DEF NoNewCandidate
  <2>2. q = s => u.term = currentTerm[s]
    BY <1>1, <1>4, <2>1
  <2>3. q = s /\ p = s => votedFor'[q][p] = u.vote
    BY <1>1, <1>4
  <2>4. ~(q = s /\ p = s) => votedFor'[q][p] = votedFor[q][p]
    BY <1>1, <1>4
  <2>5. votedFor[q][p] = q
    BY <1>3, <2>2, <2>3, <2>4
  <2>. QED  BY <1>4, <2>1, <2>5 DEF TallyCast
<1>. QED  BY <1>7, <1>8, <1>9

(* Every step keeps the invariant. *)
LEMMA CandidateStep ==
    ASSUME Calm, VoteInv, CandidateInv, [Next]_vars
    PROVE  CandidateInv'
<1>. USE DEF CandidateInv
<1>1. /\ currentTerm \in [Server -> Nat] /\ state \in [Server -> ServerState]
      /\ loop \in [Server -> {"idle", "Candidate", "promote", "Leader"}]
      /\ rv \subseteq RvThread /\ TypeOK
  BY DEF VoteInv, TypeOK
<1>. DEFINE Same == UNCHANGED <<currentTerm, state, votedFor, restarted, ballots, elected>>
<1>2. ASSUME Same
      PROVE  NoNewCandidate /\ NoRestarts' /\ TallyCast' /\ Majorities'
  <2>1. NoNewCandidate
    BY <1>1, <1>2 DEF NoNewCandidate
  <2>2. \A e \in elected : Cardinality(Backers(e.server, e.term)') >= Quorum
    BY <1>2, MajoritiesKept
  <2>. QED  BY <1>2, <2>1, <2>2 DEF NoRestarts, TallyCast, Majorities
<1>3. ASSUME NEW s \in Server, ReadState(s) \/ Heartbeat(s)
      PROVE  CandidateInv'
  <2>1. Same /\ UNCHANGED <<rv, aeSent>>
    BY <1>3 DEF ReadState, Heartbeat
  <2>2. LoopCurrent'
    BY <1>1, <1>3 DEF ReadState, Heartbeat, LoopCurrent
  <2>3. TermsBounded'
    BY <2>1 DEF TermsBounded
  <2>4. CallsSound' /\ IsFiniteSet(rv')
    BY <1>1, <1>2, <2>1, CallKept DEF CallsSound
  <2>. QED  BY <1>2, <2>1, <2>2, <2>3, <2>4
<1>4. ASSUME NEW s \in Server, SendAppendEntries(s)
      PROVE  CandidateInv'
  <2>1. Same /\ UNCHANGED <<rv, loop>>
    BY <1>4 DEF SendAppendEntries
  <2>2. aeSent' = aeSent \cup {[term |-> currentTerm[s], leader |-> s, last |-> lastLog[s]]}
    BY <1>4 DEF SendAppendEntries
  <2>3. LoopCurrent' /\ TermsBounded'
    BY <2>1, <2>2 DEF LoopCurrent, TermsBounded
  <2>4. CallsSound' /\ IsFiniteSet(rv')
    BY <1>1, <1>2, <2>1, CallKept DEF CallsSound
  <2>. QED  BY <1>2, <2>1, <2>3, <2>4
<1>5. ASSUME NEW w \in rv, SendRequestVote(w)
      PROVE  CandidateInv'
  <2>1. PICK x : x = [w EXCEPT !.pc = "sent", !.term = currentTerm[w.src], !.last = lastLog[w.src]]
    OBVIOUS
  <2>2. Same /\ UNCHANGED <<loop, aeSent>> /\ rv' = (rv \ {w}) \cup {x}
    BY <1>5, <2>1 DEF SendRequestVote
  <2>3. /\ x.src = w.src /\ x.dst = w.dst /\ x.pc = "sent"
        /\ x.term = currentTerm[w.src] /\ x.rterm = w.rterm
        /\ w.src \in Server
    BY <1>1, <2>1 DEF RvThread
  <2>4. LoopCurrent' /\ TermsBounded'
    BY <2>2 DEF LoopCurrent, TermsBounded
  <2>5. IsFiniteSet(rv')
    BY <2>2, FS_RemoveElement, FS_AddElement
  <2>6. CallSound(x)'
    <3>1. currentTerm[w.src] >= 1 /\ currentTerm[w.src] <= MaxTerm /\ w.rterm <= MaxTerm
      BY <2>3 DEF CallsSound, CallSound, TermsBounded
    <3>. QED  BY <2>2, <2>3, <3>1 DEF CallSound
  <2>7. \A y \in rv : CallSound(y)'
    BY <1>1, <1>2, <2>2, CallKept DEF CallsSound
  <2>8. CallsSound'
    BY <2>2, <2>6, <2>7 DEF CallsSound
  <2>. QED  BY <1>2, <2>2, <2>4, <2>5, <2>8
<1>6. ASSUME NEW w \in rv, RpcFails(w)
      PROVE  CandidateInv'
  <2>1. Same /\ UNCHANGED <<loop, aeSent>> /\ rv' = rv \ {w}
    BY <1>6 DEF RpcFails
  <2>2. LoopCurrent' /\ TermsBounded'
    BY <2>1 DEF LoopCurrent, TermsBounded
  <2>3. \A y \in rv : CallSound(y)'
    BY <1>1, <1>2, <2>1, CallKept DEF CallsSound
  <2>4. CallsSound' /\ IsFiniteSet(rv')
    BY <2>1, <2>3, FS_RemoveElement DEF CallsSound
  <2>. QED  BY <1>2, <2>1, <2>2, <2>4
<1>7. ASSUME NEW s \in Server, Restart(s)
      PROVE  FALSE
  BY <1>7, FS_EmptySet DEF Restart, NoRestarts, Calm
<1>8. ASSUME UNCHANGED vars
      PROVE  CandidateInv'
  <2>1. Same /\ UNCHANGED <<rv, loop, aeSent>>
    BY <1>8 DEF vars
  <2>2. LoopCurrent' /\ TermsBounded'
    BY <2>1 DEF LoopCurrent, TermsBounded
  <2>3. CallsSound' /\ IsFiniteSet(rv')
    BY <1>1, <1>2, <2>1, CallKept DEF CallsSound
  <2>. QED  BY <1>2, <2>1, <2>2, <2>3
<1>. HIDE DEF Same, CandidateInv
<1>. QED
  BY <1>3, <1>4, <1>5, <1>6, <1>7, <1>8, TimeoutCandidate, BecomeLeaderCandidate,
     HandleRequestVoteCandidate, HandleVoteReplyCandidate, HandleAppendEntriesCandidate
  DEF Next

(* The invariant behind election safety. *)
THEOREM CandidateInvariant == Calm => (Spec => [](VoteInv /\ CandidateInv))
<1>1. ASSUME Calm
      PROVE  Spec => [](VoteInv /\ CandidateInv)
  <2>1. Init => VoteInv /\ CandidateInv
    BY VoteInvInit, CandidateInit
  <2>2. VoteInv /\ CandidateInv /\ [Next]_vars => (VoteInv /\ CandidateInv)'
    BY <1>1, VoteInvStep, CandidateStep
  <2>. QED  BY <2>1, <2>2, PTL DEF Spec
<1>. QED  BY <1>1

(* Two majorities share a voter, and it voted once. *)
LEMMA MajoritiesMeet ==
    ASSUME VoteInv, CandidateInv
    PROVE  ElectionSafety
<1>. SUFFICES ASSUME NEW d \in elected, NEW e \in elected, d.term = e.term
              PROVE  d.server = e.server
  BY DEF ElectionSafety
<1>. DEFINE D == Backers(d.server, d.term)
            E == Backers(e.server, e.term)
<1>1. D \in SUBSET Server /\ E \in SUBSET Server /\ IsFiniteSet(Server)
  BY ElectionAssumptions DEF Backers
<1>2. /\ Cardinality(D) \in Nat /\ Cardinality(E) \in Nat /\ Cardinality(Server) \in Nat
  BY <1>1, FS_Subset, FS_CardinalityType
<1>3. Cardinality(D) >= Quorum /\ Cardinality(E) >= Quorum
  BY DEF CandidateInv, Majorities
<1>4. Cardinality(D) + Cardinality(E) > Cardinality(Server)
  <2>. HIDE DEF D, E
  <2>. QED  BY <1>2, <1>3 DEF Quorum
<1>5. PICK p : p \in D /\ p \in E
  <2>. HIDE DEF D, E
  <2>. QED  BY <1>1, <1>4, FS_MajoritiesIntersect
<1>6. /\ [voter |-> p, cand |-> d.server, term |-> d.term] \in ballots
      /\ [voter |-> p, cand |-> e.server, term |-> d.term] \in ballots
  BY <1>5 DEF Backers
<1>. QED  BY <1>6 DEF VoteInv, VoteOnce, CandidateInv, NoRestarts

(* At most one leader per term, for every number of servers and terms, as  *)
(* long as calls return in time, main-loop iterations are undisturbed and  *)
(* no server restarts (request_vote_worker, become_leader).                *)
THEOREM OneLeaderPerTerm == Calm => (Spec => []ElectionSafety)
<1>1. ASSUME Calm
      PROVE  Spec => []ElectionSafety
  <2>1. VoteInv /\ CandidateInv => ElectionSafety
    BY MajoritiesMeet
  <2>2. Spec => [](VoteInv /\ CandidateInv)
    BY <1>1, CandidateInvariant
  <2>. QED  BY <2>1, <2>2, PTL
<1>. QED  BY <1>1

-----------------------------------------------------------------------------
(* The refinement *)

(* The ledger's module counts with the same operator. *)
LEMMA LedgerCounts == \A S : Ledger!Cardinality(S) = Cardinality(S)
BY DEF Ledger!Cardinality, Cardinality

(* A ballot of a term in use is a step of the ledger, or one it has.       *)
LEMMA LedgerCast ==
    ASSUME VoteInv, CandidateInv, VoteInv',
           NEW v \in Server, NEW c \in Server, NEW t \in 1..MaxTerm,
           ballots' = ballots \cup {[voter |-> v, cand |-> c, term |-> t]},
           elected' = elected, restarted' = restarted
    PROVE  [Ledger!Next]_(Ledger!vars)
<1>. DEFINE b == [voter |-> v, cand |-> c, term |-> t]
<1>1. CASE b \in ballots
  BY <1>1 DEF Ledger!vars
<1>2. CASE b \notin ballots
  <2>1. ASSUME NEW a \in ballots, a.voter = v, a.term = t
        PROVE  FALSE
    <3>1. a \in Ballot
      BY DEF VoteInv, TypeOK
    <3>2. a.cand = c
      <4>1. a \in ballots' /\ b \in ballots' /\ restarted' = {}
        BY DEF CandidateInv, NoRestarts
      <4>2. VoteOnce'
        BY DEF VoteInv
      <4>3. b.voter = v /\ b.term = t /\ b.cand = c
        OBVIOUS
      <4>. HIDE DEF b
      <4>. QED  BY <2>1, <4>1, <4>2, <4>3 DEF VoteOnce
    <3>3. a = b
      BY <2>1, <3>1, <3>2 DEF Ballot
    <3>. QED  BY <1>2, <3>3
  <2>2. Ledger!Cast(v, c, t)
    BY <2>1 DEF Ledger!Cast
  <2>. QED  BY <2>2 DEF Ledger!Next
<1>. QED  BY <1>1, <1>2

(* Every step of an election is a step of the ledger or leaves it alone. *)
LEMMA LedgerStep ==
    ASSUME Calm, VoteInv, CandidateInv, VoteInv', [Next]_vars
    PROVE  [Ledger!Next]_(Ledger!vars)
<1>1. ASSUME NEW s \in Server, Timeout(s)
      PROVE  [Ledger!Next]_(Ledger!vars)
  <2>1. currentTerm[s] + 1 \in 1..MaxTerm
    BY <1>1, ElectionAssumptions DEF Timeout, VoteInv, TypeOK
  <2>2. /\ ballots' = ballots \cup {[voter |-> s, cand |-> s, term |-> currentTerm[s] + 1]}
        /\ elected' = elected /\ restarted' = restarted
    BY <1>1 DEF Timeout
  <2>. QED  BY <2>1, <2>2, LedgerCast
<1>2. ASSUME NEW w \in rv, HandleRequestVote(w)
      PROVE  [Ledger!Next]_(Ledger!vars)
  <2>. DEFINE u == UpdateTerm(w.dst, w.term)
  <2>1. w.src \in Server /\ w.dst \in Server /\ w.term \in Nat
    BY DEF VoteInv, TypeOK, RvThread
  <2>2. w.term \in 1..MaxTerm
    <3>1. w.pc # "spawned"
      BY <1>2 DEF HandleRequestVote
    <3>2. w.term >= 1 /\ w.term <= MaxTerm
      BY <3>1 DEF CandidateInv, CallsSound, CallSound
    <3>. QED  BY <2>1, <3>2, ElectionAssumptions
  <2>3. /\ \/ ballots' = ballots
           \/ /\ w.term = u.term
              /\ ballots' = ballots \cup {[voter |-> w.dst, cand |-> w.src, term |-> u.term]}
        /\ elected' = elected /\ restarted' = restarted
    BY <1>2 DEF HandleRequestVote
  <2>. HIDE DEF u
  <2>4. CASE ballots' = ballots
    BY <2>3, <2>4 DEF Ledger!vars
  <2>5. CASE ballots' = ballots \cup {[voter |-> w.dst, cand |-> w.src, term |-> w.term]}
    BY <2>1, <2>2, <2>3, <2>5, LedgerCast
  <2>. QED  BY <2>3, <2>4, <2>5
<1>3. ASSUME NEW s \in Server, BecomeLeader(s)
      PROVE  [Ledger!Next]_(Ledger!vars)
  <2>1. CASE elected' = elected
    BY <1>3, <2>1 DEF BecomeLeader, Ledger!vars
  <2>2. CASE /\ Cardinality(Tally(s)) >= Quorum
             /\ elected' = elected \cup {[server |-> s, term |-> currentTerm[s]]}
    <3>1. state[s] = "Candidate" /\ currentTerm[s] \in Nat
      BY <1>3 DEF BecomeLeader, CandidateInv, LoopCurrent, VoteInv, TypeOK
    <3>2. currentTerm[s] \in 1..MaxTerm
      BY <3>1, ElectionAssumptions DEF CandidateInv, TermsBounded
    <3>. DEFINE S == Ledger!Supporters(s, currentTerm[s])
    <3>3. Tally(s) \in SUBSET S /\ S \in SUBSET Server
      BY <3>1 DEF CandidateInv, TallyCast, Tally, Ledger!Supporters
    <3>4. IsFiniteSet(S) /\ IsFiniteSet(Server)
      BY <3>3, ElectionAssumptions, FS_Subset
    <3>5. IsFiniteSet(Tally(s)) /\ Cardinality(Tally(s)) <= Cardinality(S)
      BY <3>3, <3>4, FS_Subset
    <3>6. Cardinality(Tally(s)) \in Nat /\ Cardinality(S) \in Nat /\ Cardinality(Server) \in Nat
      BY <3>4, <3>5, FS_CardinalityType
    <3>7. 2 * Cardinality(S) > Cardinality(Server)
      <4>. HIDE DEF S
      <4>. QED  BY <2>2, <3>5, <3>6 DEF Quorum
    <3>8. Ledger!Elect(s, currentTerm[s])
      <4>1. ballots' = ballots
        BY <1>3 DEF BecomeLeader
      <4>2. 2 * Ledger!Cardinality(S) > Ledger!Cardinality(Server)
        BY <3>7, LedgerCounts
      <4>. QED  BY <2>2, <4>1, <4>2 DEF Ledger!Elect
    <3>. QED  BY <3>2, <3>8 DEF Ledger!Next
  <2>. QED  BY <1>3, <2>1, <2>2 DEF BecomeLeader
<1>4. ASSUME UNCHANGED <<ballots, elected>>
      PROVE  [Ledger!Next]_(Ledger!vars)
  BY <1>4 DEF Ledger!vars
<1>5. ASSUME NEW s \in Server, \/ ReadState(s) \/ Heartbeat(s) \/ SendAppendEntries(s)
                               \/ Restart(s) \/ \E m \in aeSent : HandleAppendEntries(s, m)
      PROVE  UNCHANGED <<ballots, elected>>
  BY <1>5 DEF ReadState, Heartbeat, SendAppendEntries, Restart, HandleAppendEntries
<1>6. ASSUME NEW w \in rv, SendRequestVote(w) \/ HandleVoteReply(w) \/ RpcFails(w)
      PROVE  UNCHANGED <<ballots, elected>>
  BY <1>6 DEF SendRequestVote, HandleVoteReply, RpcFails
<1>7. ASSUME UNCHANGED vars
      PROVE  UNCHANGED <<ballots, elected>>
  BY <1>7 DEF vars
<1>. QED
  BY <1>1, <1>2, <1>3, <1>4, <1>5, <1>6, <1>7 DEF Next

(* Election implements VoteLedger: no ballot is cast twice in a term and   *)
(* every leadership begins with a majority of the ballots of its term.     *)
THEOREM ElectionImplementsLedger == Calm => (Spec => ImplementsLedger)
<1>1. ASSUME Calm
      PROVE  Spec => ImplementsLedger
  <2>1. Init => Ledger!Init
    BY DEF Init, Ledger!Init
  <2>2. VoteInv /\ CandidateInv /\ VoteInv' /\ [Next]_vars => [Ledger!Next]_(Ledger!vars)
    BY <1>1, LedgerStep
  <2>3. Spec => [](VoteInv /\ CandidateInv)
    BY <1>1, CandidateInvariant
  <2>. QED  BY <2>1, <2>2, <2>3, PTL DEF Spec, ImplementsLedger, Ledger!Spec
<1>. QED  BY <1>1
=============================================================================
