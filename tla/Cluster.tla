------------------------------- MODULE Cluster -------------------------------
(***************************************************************************)
(* Elections, leaders, followers and restarts of a whole cluster together: *)
(* what Election, LeaderLog and FollowerLog show one at a time.            *)
(*                                                                         *)
(* An election is one step here, and its votes are counted in its own term *)
(* (Election has its threads and says when that is so).  A leader has one  *)
(* AppendEntries call open per peer; a call whose caller has died may      *)
(* still be handled.  An entry is its term.                                *)
(*                                                                         *)
(* Excluded names what the code does not handle and a run leaves out:      *)
(*   "lostTail"   a server is elected while a log, or a request under way, *)
(*                has entries that no majority holds, or an earlier leader *)
(*                takes commands afterwards: such a tail stays in the logs *)
(*                it has reached, as nothing is ever truncated;            *)
(*   "amnesia"    a restarted server, whose log is empty, votes or runs,   *)
(*                or a majority of the servers has restarted;              *)
(*   "lateCopy"   a block copy outlasts its caller's patience, or its      *)
(*                server votes or hears of another batch meanwhile;        *)
(*   "lateReply"  a server is elected while a call of an earlier           *)
(*                leadership is open.                                      *)
(***************************************************************************)
EXTENDS Integers, Sequences, FiniteSets, FiniteSetsExt, SequencesExt

CONSTANTS
    Server,      \* members of raft.cluster
    Contender,   \* Contender[t]: the servers that may run for term t
    Mortal,      \* the servers that may restart
    MaxTerm,     \* bound on terms
    MaxLog,      \* bound on the commands: no log grows longer by one
    MaxBatch,    \* max_ae_batch
    MaxCalls,    \* bound on the calls that are open at once
    MaxFault,    \* bound on lost calls, failed copies and restarts
    Excluded     \* see above

ASSUME ClusterAssumptions ==
    /\ IsFiniteSet(Server)
    /\ Contender \in [1..MaxTerm -> SUBSET Server]
    /\ Mortal \subseteq Server
    /\ MaxTerm \in Nat /\ MaxLog \in Nat /\ MaxCalls \in Nat /\ MaxFault \in Nat
    /\ MaxBatch \in Nat \ {0}
    /\ Excluded \subseteq {"lostTail", "amnesia", "lateCopy", "lateReply"}

VARIABLES
    term,        \* raft.current_term
    leading,     \* raft.state = Leader
    log,         \* raft.log without its sentinel: the terms of the entries
    tail,        \* ring.tail_log_index
    commit,      \* raft.commit_index
    records,     \* the indices in ring.log_slot_map
    next,        \* next[s][p]: s's raft.cluster[p].next_index
    match,       \* raft.cluster[p].match_index
    calls,       \* AppendEntries calls: one record per worker thread
    restarted,   \* the servers whose process has died and come back
    faults,      \* calls lost, copies failed and servers restarted so far
    decided      \* history: every entry a server has ever committed

vars == <<term, leading, log, tail, commit, records, next, match, calls, restarted,
          faults, decided>>

(* init_storage: nothing but the sentinel, term 0, whatever the file held. *)
Init ==
    /\ term = [s \in Server |-> 0]
    /\ leading = [s \in Server |-> FALSE]
    /\ log = [s \in Server |-> <<>>]
    /\ tail = [s \in Server |-> 1]
    /\ commit = [s \in Server |-> 0]
    /\ records = [s \in Server |-> {}]
    /\ next = [s \in Server |-> [p \in Server |-> 0]]
    /\ match = [s \in Server |-> [p \in Server |-> 0]]
    /\ calls = {}
    /\ restarted = {}
    /\ faults = 0
    /\ decided = {}

-----------------------------------------------------------------------------
(* Helpers *)

IsMajority(S) == 2 * Cardinality(S) > Cardinality(Server)

(* The term of entry i of a log; 0 is the sentinel. *)
TermAt(l, i) == IF i \in 1..Len(l) THEN l[i] ELSE 0

LastTerm(l) == TermAt(l, Len(l))

(* Mutant: a candidate with the same last term is good enough. *)
LogOkByTerm(s, v) == LastTerm(log[s]) >= LastTerm(log[v])

(* handle_request_vote_request: the candidate's log is as good as v's. *)
LogOk(s, v) ==
    \/ LastTerm(log[s]) > LastTerm(log[v])
    \/ LastTerm(log[s]) = LastTerm(log[v]) /\ tail[s] >= tail[v]

(* What a call holds besides its next_index and number of entries: a       *)
(* request until it is answered, a reply once it is.                       *)
NoReq == [prevTerm |-> 0, commit |-> 0, entries |-> <<>>]
NoRsp == [term |-> 0, success |-> FALSE, conflictTerm |-> 0, conflictIndex |-> 0]

(* prev_log_index of a request. *)
Prev(c) == Max({c.next - 1, 0})

(* The index of the first entry the handler of c is still to append.  *)
FirstIndex(c) == c.next + c.num - Len(c.req.entries)

(* The calls a thread of s waits for. *)
OpenCalls(s) == {c \in calls : c.src = s /\ c.open}

(* A block copy runs for s. *)
Copying(s) == \E c \in calls : c.dst = s /\ c.pc = "copying"

(* The entries s has committed when its commit index is i. *)
EntriesUpTo(l, i) == {[index |-> j, term |-> l[j]] : j \in 1..Min({i, Len(l)})}

-----------------------------------------------------------------------------
(* Elections *)

(* s may run for the next term before the peers in H. *)
MayRun(s, H) ==
    /\ term[s] < MaxTerm
    /\ s \in Contender[term[s] + 1]
    /\ ~leading[s]
    /\ s \notin H
    /\ \A v \in H : term[v] <= term[s]
    /\ "amnesia" \in Excluded => s \notin restarted
    /\ "lateCopy" \in Excluded => \A v \in H \cup {s} : ~Copying(v)

(* update_term at the servers in H, which hear of term t. *)
HearOf(H, t) == term' = [v \in Server |-> IF v \in H THEN t ELSE term[v]]

(* timeout() without success: too few votes come back. *)
Campaign(s, H) ==
    /\ MayRun(s, H)
    /\ HearOf(H \cup {s}, term[s] + 1)
    /\ leading' = [v \in Server |-> leading[v] /\ v \notin H]
    /\ UNCHANGED <<log, tail, commit, records, next, match, calls, restarted, faults, decided>>

(* The servers that vote for s when those in H hear of it. *)
Voters(s, H) ==
    {s} \cup {v \in H : LogOk(s, v) /\ ("amnesia" \in Excluded => v \notin restarted)}

(* Whatever the log of s and the call c hold, a majority holds; a          *)
(* restarted server counts with it, as it is not asked.                    *)
LogHeld(s) == IsMajority({v \in Server : IsPrefix(log[s], log[v])} \cup restarted)
CallHeld(c) ==
    IsMajority({v \in Server : \A k \in 1..Len(c.req.entries) :
                   TermAt(log[v], FirstIndex(c) + k - 1) = c.req.entries[k]} \cup restarted)

(* timeout(), the votes, and become_leader() with its no-op. *)
Elect(s, H) ==
    /\ MayRun(s, H)
    /\ IsMajority(Voters(s, H))
    /\ "lostTail" \in Excluded => /\ \A v \in Server : LogHeld(v)
                                  /\ \A c \in calls : CallHeld(c)
    /\ "lateReply" \in Excluded => OpenCalls(s) = {}
    /\ HearOf(H \cup {s}, term[s] + 1)
    /\ leading' = [v \in Server |-> v = s \/ (leading[v] /\ v \notin H)]
    /\ log' = [log EXCEPT ![s] = Append(@, term[s] + 1)]
    /\ tail' = [tail EXCEPT ![s] = @ + 1]
    /\ records' = [records EXCEPT ![s] = @ \cup {tail[s]}]
    /\ next' = [next EXCEPT ![s] = [p \in Server |-> tail[s]]]
    /\ match' = [match EXCEPT ![s] = [p \in Server |-> 0]]
    /\ UNCHANGED <<commit, calls, restarted, faults, decided>>

-----------------------------------------------------------------------------
(* A leader *)

(* apply_internal appends a command. *)
Apply(s) ==
    /\ leading[s]
    /\ Len(log[s]) < MaxLog
    /\ "lostTail" \in Excluded => /\ \A v \in Server : LastTerm(log[v]) <= term[s]
                                  /\ \A c \in calls : c.term <= term[s]
    /\ log' = [log EXCEPT ![s] = Append(@, term[s])]
    /\ tail' = [tail EXCEPT ![s] = @ + 1]
    /\ records' = [records EXCEPT ![s] = @ \cup {tail[s]}]
    /\ UNCHANGED <<term, leading, commit, next, match, calls, restarted, faults, decided>>

(* Lock B of append_entries_worker: what next_index says, or a heartbeat   *)
(* where there is nothing to send or no slot record to send it from.  (A   *)
(* worker may get its lock after the leader was deposed: see Election and  *)
(* LeaderLog.)                                                             *)
Send(s, p) ==
    LET last == tail[s] - 1
        n == Min({next[s][p], last + 1})
        batch == IF n \in records[s] THEN 1..Min({MaxBatch, last - n + 1}) ELSE {0}
    IN  /\ s # p
        /\ leading[s]
        /\ \A c \in OpenCalls(s) : c.dst # p
        /\ Cardinality(calls) < MaxCalls
        /\ next' = [next EXCEPT ![s][p] = n]
        /\ \E k \in batch :
              calls' = calls \cup
                 {[src |-> s, dst |-> p, open |-> TRUE, pc |-> "sent",
                   term |-> term[s], next |-> n, num |-> k,
                   req |-> [prevTerm |-> TermAt(log[s], n - 1), commit |-> commit[s],
                            entries |-> SubSeq(log[s], n, n + k - 1)],
                   rsp |-> NoRsp]}
        /\ UNCHANGED <<term, leading, log, tail, commit, records, match, restarted, faults, decided>>

(* Mutant: one entry more than was sent. *)
NextOnSuccessOneMore(s, c) == Max({next[s][c.dst], c.next + c.num + 1, 1})

(* Mutant: the batch counts as one entry short. *)
NextOnSuccessOneShort(s, c) == Max({next[s][c.dst], c.next + c.num - 1, 1})

(* apply_ae_success *)
NextOnSuccess(s, c) == Max({next[s][c.dst], c.next + c.num, 1})

(* The last entry of s up to prev that has the follower's conflicting term. *)
SearchConflict(s, c) ==
    {j \in 1..Min({Prev(c), Len(log[s])}) :
        /\ log[s][j] = c.rsp.conflictTerm
        /\ \A i \in j + 1..Prev(c) : log[s][i] > c.rsp.conflictTerm}

(* Where the follower's hint points; without a hint, one back. *)
Hinted(s, c) ==
    IF c.rsp.conflictIndex = 0 THEN next[s][c.dst] - 1
    ELSE IF c.rsp.conflictTerm # 0 /\ SearchConflict(s, c) # {}
         THEN Max(SearchConflict(s, c)) + 1
         ELSE c.rsp.conflictIndex

(* apply_ae_failure_backoff: always some way back, never below what the    *)
(* peer has confirmed.                                                     *)
NextOnFailure(s, c) ==
    Max({Min({Hinted(s, c), Max({next[s][c.dst] - 1, 0})}), 1, match[s][c.dst] + 1})

(* Lock C of append_entries_worker: a reply of a higher term is dropped,   *)
(* and a leader drops one of another term than its request's.              *)
Return(c) ==
    LET s == c.src
        dropped == c.rsp.term > term[s] \/ (leading[s] /\ c.rsp.term # c.term)
        stale == ~c.rsp.success /\ next[s][c.dst] # c.next
        n == IF c.rsp.success THEN NextOnSuccess(s, c) ELSE NextOnFailure(s, c)
    IN  /\ c.pc = "answered"
        /\ calls' = calls \ {c}
        /\ IF dropped \/ stale
           THEN UNCHANGED <<next, match>>
           ELSE /\ next' = [next EXCEPT ![s][c.dst] = n]
                /\ match' = IF c.rsp.success THEN [match EXCEPT ![s][c.dst] = n - 1] ELSE match
        /\ UNCHANGED <<term, leading, log, tail, commit, records, restarted, faults, decided>>

(* The servers a leader takes to hold its log up to i. *)
Reached(s, i) == {s} \cup {p \in Server : match[s][p] >= i}

(* Mutant: half of the cluster is enough. *)
MajorityReachedHalf(s, i) == 2 * Cardinality(Reached(s, i)) >= Cardinality(Server) - 1

(* The sorted match indices: matches[size / 2] is i or more. *)
MajorityReached(s, i) == IsMajority(Reached(s, i))

(* advance_commit_index *)
AdvanceCommitIndex(s) ==
    LET reached == {i \in commit[s] + 1..tail[s] - 1 : MajorityReached(s, i)}
        i == Max(reached)
    IN  /\ leading[s]
        /\ reached # {}
        /\ TermAt(log[s], i) = term[s]
        /\ commit' = [commit EXCEPT ![s] = i]
        /\ decided' = decided \cup EntriesUpTo(log[s], i)
        /\ UNCHANGED <<term, leading, log, tail, records, next, match, calls, restarted, faults>>

-----------------------------------------------------------------------------
(* A follower: handle_append_entries_request *)

(* The call c after its handler has answered; nobody reads the answer to   *)
(* an abandoned call.                                                      *)
Answered(c, t, success, cterm, cindex) ==
    (calls \ {c}) \cup
        (IF c.open THEN {[c EXCEPT !.pc = "answered", !.req = NoReq,
                              !.rsp = [term |-> t, success |-> success,
                                       conflictTerm |-> cterm, conflictIndex |-> cindex]]}
         ELSE {})

(* Mutant: the consistency check is left out. *)
PrevOkAlways(c) == TRUE

(* The prevLog consistency check. *)
PrevOk(c) == Prev(c) = 0 \/ (Prev(c) < tail[c.dst] /\ TermAt(log[c.dst], Prev(c)) = c.req.prevTerm)

(* How many of the entries are there already, by their indices. *)
Skip(c) == Max({tail[c.dst] - (Prev(c) + 1), 0})

(* The hints of a failed check: the end of a short log, or the first entry *)
(* of the conflicting term.                                                *)
ConflictTerm(c) == IF Prev(c) >= tail[c.dst] THEN 0 ELSE TermAt(log[c.dst], Prev(c))
ConflictIndex(c) ==
    IF Prev(c) >= tail[c.dst] THEN tail[c.dst]
    ELSE Min({i \in 1..Prev(c) : \A j \in i..Prev(c) : log[c.dst][j] = ConflictTerm(c)})

(* leader_commit c, limited to the log that ends before newTail. *)
FollowerCommit(c, newLog, newTail) ==
    LET s == c.dst
        i == IF c.req.commit > commit[s] THEN Min({c.req.commit, newTail - 1}) ELSE commit[s]
    IN  /\ commit' = [commit EXCEPT ![s] = i]
        /\ decided' = decided \cup EntriesUpTo(newLog, i)

(* update_term and the checks, up to the reply or to the copy. *)
Receive(c) ==
    LET s == c.dst
        t == Max({term[s], c.term})
        listens == c.term = t /\ (c.term > term[s] \/ ~leading[s])
        copies == listens /\ PrevOk(c) /\ Skip(c) < c.num
    IN  /\ c.pc = "sent"
        /\ "lateCopy" \in Excluded /\ Copying(s) => ~copies
        /\ term' = [term EXCEPT ![s] = t]
        /\ leading' = [leading EXCEPT ![s] = @ /\ c.term <= term[s]]
        /\ \/ /\ ~listens
              /\ calls' = Answered(c, t, FALSE, 0, 0)
              /\ UNCHANGED <<commit, decided>>
           \/ /\ listens /\ ~PrevOk(c)
              /\ calls' = Answered(c, t, FALSE, ConflictTerm(c), ConflictIndex(c))
              /\ UNCHANGED <<commit, decided>>
           \/ /\ listens /\ PrevOk(c) /\ ~copies
              /\ FollowerCommit(c, log[s], tail[s])
              /\ calls' = Answered(c, t, TRUE, 0, 0)
           \/ /\ copies
              /\ calls' = (calls \ {c}) \cup
                          {[c EXCEPT !.pc = "copying", !.rsp.term = t,
                                     !.req.entries = SubSeq(@, Skip(c) + 1, c.num)]}
              /\ UNCHANGED <<commit, decided>>
        /\ UNCHANGED <<log, tail, records, next, match, restarted, faults>>

(* The copy is done and mu is taken again: nothing is checked again. *)
FinishCopy(c) ==
    LET s == c.dst
        newLog == log[s] \o c.req.entries
        newTail == Prev(c) + 1 + c.num
    IN  /\ c.pc = "copying"
        /\ log' = [log EXCEPT ![s] = newLog]
        /\ tail' = [tail EXCEPT ![s] = newTail]
        /\ FollowerCommit(c, newLog, newTail)
        /\ calls' = Answered(c, c.rsp.term, TRUE, 0, 0)
        /\ UNCHANGED <<term, leading, records, next, match, restarted, faults>>

(* do_pba_copy throws: a refusal without hints. *)
CopyFails(c) ==
    /\ c.pc = "copying"
    /\ faults < MaxFault
    /\ faults' = faults + 1
    /\ calls' = Answered(c, c.rsp.term, FALSE, 0, 0)
    /\ UNCHANGED <<term, leading, log, tail, commit, records, next, match, restarted, decided>>

-----------------------------------------------------------------------------
(* Failures *)

(* The caller gives up (the transport returns false): the request or its   *)
(* reply is lost, or the handler is still copying.                         *)
Lose(c) ==
    /\ c.open
    /\ faults < MaxFault
    /\ "lateCopy" \in Excluded => c.pc # "copying"
    /\ faults' = faults + 1
    /\ calls' = (calls \ {c}) \cup
                (IF c.pc = "copying" THEN {[c EXCEPT !.open = FALSE]} ELSE {})
    /\ UNCHANGED <<term, leading, log, tail, commit, records, next, match, restarted, decided>>

(* The process dies and init_storage runs.  Any of the requests it had     *)
(* sent may still be handled; the calls it was handling fail.              *)
Restart(s) ==
    /\ s \in Mortal \ restarted
    /\ "amnesia" \in Excluded => ~IsMajority(restarted \cup {s})
    /\ faults < MaxFault
    /\ faults' = faults + 1
    /\ restarted' = restarted \cup {s}
    /\ term' = [term EXCEPT ![s] = 0]
    /\ leading' = [leading EXCEPT ![s] = FALSE]
    /\ log' = [log EXCEPT ![s] = <<>>]
    /\ tail' = [tail EXCEPT ![s] = 1]
    /\ commit' = [commit EXCEPT ![s] = 0]
    /\ records' = [records EXCEPT ![s] = {}]
    /\ next' = [next EXCEPT ![s] = [p \in Server |-> 0]]
    /\ match' = [match EXCEPT ![s] = [p \in Server |-> 0]]
    /\ LET alive == {c \in calls : c.dst = s => c.pc # "copying"}
           mine == {c \in alive : c.src = s}
       IN  \E lost \in SUBSET {c \in mine : c.pc = "sent"} :
              calls' = (alive \ mine) \cup
                       {[c EXCEPT !.open = FALSE] : c \in {d \in mine \ lost : d.pc # "answered"}}
    /\ UNCHANGED decided

-----------------------------------------------------------------------------
Next ==
    \/ \E s \in Server :
          \/ \E H \in SUBSET Server : Campaign(s, H) \/ Elect(s, H)
          \/ Apply(s)
          \/ \E p \in Server : Send(s, p)
          \/ AdvanceCommitIndex(s)
          \/ Restart(s)
    \/ \E c \in calls :
          \/ Receive(c)
          \/ FinishCopy(c)
          \/ CopyFails(c)
          \/ Return(c)
          \/ Lose(c)

(* The worker of s for p and the handlers of its calls run on: the         *)
(* heartbeat starts workers, a worker sends, a handler answers, a reply is *)
(* read.  The workers compete for MaxCalls only here, hence SF.            *)
Replicate(s, p) ==
    \/ Send(s, p)
    \/ \E c \in calls : /\ c.src = s /\ c.dst = p
                        /\ Receive(c) \/ FinishCopy(c) \/ Return(c)

Candidates == UNION {Contender[t] : t \in 1..MaxTerm}

Fairness == \A s \in Candidates : \A p \in Server \ {s} : SF_vars(Replicate(s, p))

Spec == Init /\ [][Next]_vars /\ Fairness

-----------------------------------------------------------------------------
(* Properties *)

Index == 0..MaxLog + MaxTerm
Call ==
    [src : Server, dst : Server, open : BOOLEAN, pc : {"sent", "copying", "answered"},
     term : 0..MaxTerm, next : Index, num : Index,
     req : [prevTerm : 0..MaxTerm, commit : Index, entries : Seq(0..MaxTerm)],
     rsp : [term : 0..MaxTerm, success : BOOLEAN, conflictTerm : 0..MaxTerm,
            conflictIndex : Index]]

(* Every variable keeps the shape the code's types give it. *)
TypeOK ==
    /\ term \in [Server -> 0..MaxTerm]
    /\ leading \in [Server -> BOOLEAN]
    /\ log \in [Server -> Seq(0..MaxTerm)]
    /\ tail \in [Server -> Index]
    /\ commit \in [Server -> Index]
    /\ records \in [Server -> SUBSET Index]
    /\ next \in [Server -> [Server -> Index]]
    /\ match \in [Server -> [Server -> Index]]
    /\ \A c \in calls : c \in Call
    /\ restarted \subseteq Server
    /\ faults \in 0..MaxFault
    /\ decided \subseteq [index : Index, term : 0..MaxTerm]

(* Two logs never part: one is the start of the other.  As a handler only  *)
(* appends and skips by index, a divergence would be there for ever.       *)
LogsAgree ==
    \A s, p \in Server : IsPrefix(log[s], log[p]) \/ IsPrefix(log[p], log[s])

(* A leader has every entry that was ever committed anywhere, over leader  *)
(* changes, lost calls and a restart, until a leader of a later term has   *)
(* committed one of its own.                                               *)
LeaderComplete ==
    \A s \in Server :
        leading[s] /\ (\A d \in decided : d.term <= term[s])
            => \A d \in decided : TermAt(log[s], d.index) = d.term

(* What a leader believes of a peer is so: the peer holds its log up to    *)
(* match_index, unless the peer has lost it in a restart.                  *)
MatchHeld ==
    \A s \in Server : \A p \in Server \ restarted :
        leading[s] => /\ match[s][p] < tail[s]
                      /\ IsPrefix(SubSeq(log[s], 1, match[s][p]), log[p])

(* The log of decided entries. *)
Commands == INSTANCE CommandLog WITH chosen <- decided

(* The cluster implements CommandLog: whatever server commits, and when,   *)
(* there is one decided log and it only grows at its end.                  *)
ImplementsCommandLog == Commands!Spec

(* s has backed off to an entry it has no slot record for, one it received *)
(* as a follower: it sends p heartbeats from then on.                      *)
Stranded(s, p) == next[s][p] \in 1..tail[s] - 1 /\ next[s][p] \notin records[s]

(* Once elections, commands and faults have ceased, every leader's whole   *)
(* log is with every peer that follows it, whatever was lost before: but   *)
(* for one that has restarted or was backed off from too far.              *)
CatchesUp ==
    []<>(\A s \in Candidates : \A p \in Server \ {s} :
            leading[s] /\ term[p] <= term[s] /\ p \notin restarted /\ ~Stranded(s, p)
                => log[p] = log[s])
=============================================================================
